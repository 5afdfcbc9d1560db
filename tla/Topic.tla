------------------------------- MODULE Topic -------------------------------
(***************************************************************************)
(* What a broadcaster promises its subscribers: messages have one order,   *)
(* and each subscriber is handed, in that order and without a gap or a     *)
(* repetition, the messages published after it subscribed.  A slow one may *)
(* be cut off, and then has seen a prefix.  Broadcast implements this.     *)
(***************************************************************************)
EXTENDS Naturals, Sequences

CONSTANTS Subs,  \* the subscribers
          Msgs   \* the messages

VARIABLES
  log,    \* the messages published, in the one order
  since,  \* subscriber -> {how many messages came before it}, or {}
  seen    \* subscriber -> the messages it was handed

vars == <<log, since, seen>>

NotYet == {}

Init ==
  /\ log = <<>>
  /\ since = [s \in Subs |-> NotYet]
  /\ seen = [s \in Subs |-> <<>>]

Publish(m) == log' = Append(log, m) /\ UNCHANGED <<since, seen>>

Subscribe(s) ==
  /\ since[s] = NotYet
  /\ since' = [since EXCEPT ![s] = {Len(log)}]
  /\ UNCHANGED <<log, seen>>

Hand(s) ==
  \E n \in since[s] :
    LET i == n + Len(seen[s]) + 1 IN
    /\ i <= Len(log)
    /\ seen' = [seen EXCEPT ![s] = Append(@, log[i])]
    /\ UNCHANGED <<log, since>>

Next == \/ \E m \in Msgs : Publish(m)
        \/ \E s \in Subs : Subscribe(s) \/ Hand(s)

Spec == Init /\ [][Next]_vars
=============================================================================
