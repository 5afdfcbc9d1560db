------------------------------ MODULE KCommand ------------------------------
(***************************************************************************)
(* KCommand.Wait: exec.Cmd.Wait may be called once, gosuv waits for one    *)
(* child from several goroutines.  The first caller spawns a goroutine     *)
(* that waits for the child; each caller leaves a channel to be answered.  *)
(*                                                                         *)
(* Waiters are calls.  Those in Spawned are made by GoFunc: the answer is  *)
(* handed over on a channel without a buffer to a receiver that may have   *)
(* left (a stop, or StopTimeout).                                          *)
(***************************************************************************)

CONSTANTS
  Waiters,
  Spawned,       \* the waiters that GoFunc runs
  Results,       \* how a child may end
  NotStarted,    \* the error of Wait before Start
  Again          \* the error of a second exec.Cmd.Wait

ASSUME KCommandAssumption ==
  /\ Spawned \subseteq Waiters /\ NotStarted # Again
  /\ {NotStarted, Again} \cap Results = {}

VARIABLES
  child,     \* "built" until Start, "live", "dead"
  result,    \* {} until the child ends, then {how it ended}
  once,      \* KCommand.once is done
  reaper,    \* waiter -> the goroutine it spawned in once.Do
  waited,    \* exec.Cmd.Wait was called
  err,       \* KCommand.err, {} for nil
  finished,  \* KCommand.finished
  errCs,     \* KCommand.errCs: the waiters whose channels it holds
  errC,      \* waiter -> what is in its channel
  pc,        \* where each call is
  answer,    \* waiter -> {what Wait returned}, or {}
  left       \* the spawned waiters whose receiver has left

osv  == <<child, result>>
vars == <<osv, once, reaper, waited, err, finished, errCs, errC, pc, answer,
          left>>

Errors == Results \cup {NotStarted, Again}
Maybe(S) == {{}} \cup {{x} : x \in S}

TypeOK ==
  /\ child \in {"built", "live", "dead"} /\ result \in Maybe(Results)
  /\ once \in BOOLEAN /\ waited \in BOOLEAN /\ finished \in BOOLEAN
  /\ reaper \in [Waiters -> {"none", "wait", "reap", "answer", "end"}]
  /\ err \in Maybe(Errors)
  /\ errCs \subseteq Waiters
  /\ errC \in [Waiters -> Maybe(Errors)]
  /\ pc \in [Waiters -> {"idle", "once", "register", "receive", "hand",
                         "end"}]
  /\ answer \in [Waiters -> Maybe(Errors)]
  /\ left \subseteq Spawned

Init ==
  /\ child = "built" /\ result = {}
  /\ once = FALSE /\ waited = FALSE /\ finished = FALSE
  /\ reaper = [w \in Waiters |-> "none"]
  /\ err = {} /\ errCs = {} /\ errC = [w \in Waiters |-> {}]
  /\ pc = [w \in Waiters |-> "idle"]
  /\ answer = [w \in Waiters |-> {}] /\ left = {}

-----------------------------------------------------------------------------
(* The child *)

Start ==
  /\ child = "built" /\ child' = "live"
  /\ UNCHANGED <<result, once, reaper, waited, err, finished, errCs, errC, pc,
                 answer, left>>

Ends(e) ==
  /\ child = "live" /\ child' = "dead" /\ result' = {e}
  /\ UNCHANGED <<once, reaper, waited, err, finished, errCs, errC, pc, answer,
                 left>>

-----------------------------------------------------------------------------
(* Wait *)

\* Wait returns a; GoFunc then sends it to its receiver.
Return(w, a) ==
  /\ answer' = [answer EXCEPT ![w] = {a}]
  /\ pc' = [pc EXCEPT ![w] = IF w \in Spawned THEN "hand" ELSE "end"]

Call(w) ==
  /\ pc[w] = "idle"
  /\ IF child = "built"
     THEN Return(w, NotStarted)
     ELSE pc' = [pc EXCEPT ![w] = "once"] /\ UNCHANGED answer
  /\ UNCHANGED <<osv, once, reaper, waited, err, finished, errCs, errC, left>>

\* Mutant: every caller spawns a goroutine.
EachTime(w) ==
  /\ pc[w] = "once"
  /\ once' = TRUE
  /\ reaper' = [reaper EXCEPT ![w] = "wait"]
  /\ pc' = [pc EXCEPT ![w] = "register"]
  /\ UNCHANGED <<osv, waited, err, finished, errCs, errC, answer, left>>

Once(w) ==
  /\ pc[w] = "once"
  /\ once' = TRUE
  /\ reaper' = IF once THEN reaper ELSE [reaper EXCEPT ![w] = "wait"]
  /\ pc' = [pc EXCEPT ![w] = "register"]
  /\ UNCHANGED <<osv, waited, err, finished, errCs, errC, answer, left>>

\* One critical section of KCommand.mu.
Register(w) ==
  /\ pc[w] = "register"
  /\ \/ /\ finished
        /\ \E e \in err : Return(w, e)
        /\ UNCHANGED errCs
     \/ /\ ~finished
        /\ errCs' = errCs \cup {w}
        /\ pc' = [pc EXCEPT ![w] = "receive"]
        /\ UNCHANGED answer
  /\ UNCHANGED <<osv, once, reaper, waited, err, finished, errC, left>>

ReceiveErr(w) ==
  /\ pc[w] = "receive"
  /\ \E e \in errC[w] : Return(w, e)
  /\ errC' = [errC EXCEPT ![w] = {}]
  /\ UNCHANGED <<osv, once, reaper, waited, err, finished, errCs, left>>

(* The goroutine of once.Do *)

\* exec.Cmd.Wait: a second call fails at once.
CmdWait(r) ==
  /\ reaper[r] = "wait"
  /\ waited' = TRUE
  /\ \/ /\ waited
        /\ err' = {Again}
        /\ reaper' = [reaper EXCEPT ![r] = "answer"]
     \/ /\ ~waited
        /\ reaper' = [reaper EXCEPT ![r] = "reap"]
        /\ UNCHANGED err
  /\ UNCHANGED <<osv, once, finished, errCs, errC, pc, answer, left>>

Reap(r) ==
  /\ reaper[r] = "reap" /\ result # {}
  /\ err' = result
  /\ reaper' = [reaper EXCEPT ![r] = "answer"]
  /\ UNCHANGED <<osv, once, waited, finished, errCs, errC, pc, answer, left>>

\* Mutant: the first to register is answered, the others are forgotten.
AnswerOne(r) ==
  /\ reaper[r] = "answer"
  /\ finished' = TRUE
  /\ \/ errCs = {} /\ UNCHANGED errC
     \/ \E w \in errCs : errC' = [errC EXCEPT ![w] = err]
  /\ reaper' = [reaper EXCEPT ![r] = "end"]
  /\ UNCHANGED <<osv, once, waited, err, errCs, pc, answer, left>>

\* One critical section of KCommand.mu: each channel has room for one answer.
AnswerAll(r) ==
  /\ reaper[r] = "answer"
  /\ finished' = TRUE
  /\ errC' = [w \in Waiters |-> IF w \in errCs THEN err ELSE errC[w]]
  /\ reaper' = [reaper EXCEPT ![r] = "end"]
  /\ UNCHANGED <<osv, once, waited, err, errCs, pc, answer, left>>

-----------------------------------------------------------------------------
(* GoFunc *)

\* The receiver takes the answer; nobody ends a send that has no receiver.
HandOver(w) ==
  /\ pc[w] = "hand" /\ w \notin left
  /\ pc' = [pc EXCEPT ![w] = "end"]
  /\ UNCHANGED <<osv, once, reaper, waited, err, finished, errCs, errC, answer,
                 left>>

\* Another case of the receiver's select: a stop, or StopTimeout.
ReceiverLeaves(w) ==
  /\ w \in Spawned \ left /\ pc[w] \notin {"idle", "end"}
  /\ left' = left \cup {w}
  /\ UNCHANGED <<osv, once, reaper, waited, err, finished, errCs, errC, pc,
                 answer>>

-----------------------------------------------------------------------------
WaitStep(w) == Once(w) \/ Register(w) \/ ReceiveErr(w) \/ HandOver(w)
ReaperStep(r) == CmdWait(r) \/ Reap(r) \/ AnswerAll(r)

Next ==
  \/ Start \/ \E e \in Results : Ends(e)
  \/ \E w \in Waiters : \/ Call(w) \/ WaitStep(w) \/ ReaperStep(w)
                        \/ ReceiverLeaves(w)

Spec == Init /\ [][Next]_vars

\* Goroutines run.  A child need not end, nor a receiver leave.
FairSpec ==
  /\ Spec
  /\ \A w \in Waiters : WF_vars(WaitStep(w)) /\ WF_vars(ReaperStep(w))

-----------------------------------------------------------------------------
(* Properties *)

Promise == INSTANCE Outcome

\* However many call Wait, before or after the child ends, each is answered
\* once, with the child's own result and not before it is known, or that the
\* child was not started: stopCommand takes a Wait that returned as its end.
ImplementsOutcome == Promise!Spec

\* Once finished is set nobody is left waiting without an answer: a caller
\* either sees finished or is in errCs when the answers go out.
NoneForgotten ==
  finished => \A w \in Waiters : pc[w] = "receive" => errC[w] # {}

\* Every Wait returns once the child has ended, however many receivers of
\* GoFunc have left their answers untaken: the last Wait of stopCommand.
EveryWaitReturns ==
  \A w \in Waiters :
    (pc[w] # "idle" /\ child = "dead") ~> (answer[w] # {})
=============================================================================
