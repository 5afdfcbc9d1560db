------------------------------ MODULE Outcome ------------------------------
(***************************************************************************)
(* What Wait promises to any number of callers: a child that was started   *)
(* ends once, with one result; a caller is told that the child was not     *)
(* started, or later how it ended, and is told once.                       *)
(***************************************************************************)
CONSTANTS Waiters, Results, NotStarted

VARIABLES
  child,   \* "built", "live", "dead"
  result,  \* {} until the child ends, then {how it ended}
  answer   \* caller -> {what its Wait returned}, or {}

vars == <<child, result, answer>>

Init == child = "built" /\ result = {} /\ answer = [w \in Waiters |-> {}]

Start == child = "built" /\ child' = "live" /\ UNCHANGED <<result, answer>>

Ends(e) == /\ child = "live" /\ child' = "dead"
           /\ result' = {e} /\ UNCHANGED answer

Tell(w) ==
  /\ answer[w] = {}
  /\ \E a \in (IF child = "built" THEN {NotStarted} ELSE result) :
       answer' = [answer EXCEPT ![w] = {a}]
  /\ UNCHANGED <<child, result>>

Next == Start \/ (\E e \in Results : Ends(e)) \/ (\E w \in Waiters : Tell(w))

Spec == Init /\ [][Next]_vars
=============================================================================
