--------------------------- MODULE KCommandProofs ---------------------------
(***************************************************************************)
(* KCommand implements Outcome, and forgets no caller, for any number of   *)
(* callers and results.                                                    *)
(*                                                                         *)
(* The argument.  One goroutine at most is spawned (OneReaper), so err is  *)
(* never the error of a second exec.Cmd.Wait: once set it is the result    *)
(* (Known), and so is what any channel holds (Sent).                       *)
(***************************************************************************)
EXTENDS KCommand, TLAPS

Order == /\ (child = "dead") <=> (result # {})
         /\ child = "built" => ~once

OneReaper ==
  /\ \A r, s \in Waiters : reaper[r] # "none" /\ reaper[s] # "none" => r = s
  /\ \A r \in Waiters : reaper[r] # "none" => once
  /\ \A r \in Waiters : reaper[r] = "wait" => ~waited
  /\ waited => once

Known ==
  /\ err # {} => err = result
  /\ \A r \in Waiters : reaper[r] \in {"answer", "end"} => err # {}
  /\ finished => err # {}

Sent == \A w \in Waiters : errC[w] # {} => errC[w] = result

Calls ==
  \A w \in Waiters :
    /\ pc[w] \in {"once", "register", "receive"} =>
         child # "built" /\ answer[w] = {}
    /\ pc[w] = "idle" => answer[w] = {}
    /\ pc[w] = "receive" => w \in errCs

IInv == /\ TypeOK /\ Order /\ OneReaper /\ Known /\ Sent /\ Calls
        /\ NoneForgotten

-----------------------------------------------------------------------------
LEMMA IInvInit == Init => IInv
  BY DEF Init, IInv, TypeOK, Order, OneReaper, Known, Sent, Calls,
         NoneForgotten, Maybe

LEMMA TypeStep == TypeOK /\ [Next]_vars => TypeOK'
<1> SUFFICES ASSUME TypeOK, [Next]_vars PROVE TypeOK'
  OBVIOUS
<1> USE KCommandAssumption DEF TypeOK, osv
<1>m. ASSUME NEW S, NEW e \in S PROVE {e} \in Maybe(S)
  BY <1>m DEF Maybe
<1>n. ASSUME NEW S, NEW T \in Maybe(S), NEW e \in T PROVE e \in S
  BY <1>n DEF Maybe
<1>z. ASSUME NEW S PROVE {} \in Maybe(S)
  BY DEF Maybe
<1>e. {NotStarted, Again} \cup Results \subseteq Errors /\ Results \subseteq Errors
  BY DEF Errors
<1>r. result \in Maybe(Errors)
  BY <1>e DEF Maybe
<1>a. ASSUME NEW w \in Waiters, NEW a \in Errors, Return(w, a)
      PROVE  /\ answer' \in [Waiters -> Maybe(Errors)]
             /\ pc' \in [Waiters -> {"idle", "once", "register", "receive",
                                     "hand", "end"}]
  <2>1. {a} \in Maybe(Errors)
    BY <1>m
  <2> QED
    BY <1>a, <2>1 DEF Return
<1>1. CASE Start
  BY <1>1 DEF Start
<1>2. ASSUME NEW e \in Results, Ends(e) PROVE TypeOK'
  BY <1>2, <1>m DEF Ends
<1>3. ASSUME NEW w \in Waiters, Call(w) PROVE TypeOK'
  BY <1>3, <1>a, <1>e DEF Call
<1>4. ASSUME NEW w \in Waiters, Once(w) PROVE TypeOK'
  BY <1>4 DEF Once
<1>5. ASSUME NEW w \in Waiters, Register(w) PROVE TypeOK'
  <2>1. CASE finished /\ \E e \in err : Return(w, e)
    BY <1>5, <2>1, <1>a, <1>n DEF Register
  <2>2. CASE ~finished
    BY <1>5, <2>2 DEF Register
  <2> QED
    BY <1>5, <2>1, <2>2 DEF Register
<1>6. ASSUME NEW w \in Waiters, ReceiveErr(w) PROVE TypeOK'
  <2>1. PICK e \in errC[w] : Return(w, e)
    BY <1>6 DEF ReceiveErr
  <2>2. e \in Errors
    BY <1>n
  <2> QED
    BY <1>6, <1>a, <1>z, <2>1, <2>2 DEF ReceiveErr
<1>7. ASSUME NEW r \in Waiters, CmdWait(r) PROVE TypeOK'
  BY <1>7, <1>m, <1>e DEF CmdWait
<1>8. ASSUME NEW r \in Waiters, Reap(r) PROVE TypeOK'
  BY <1>8, <1>r DEF Reap
<1>9. ASSUME NEW r \in Waiters, AnswerAll(r) PROVE TypeOK'
  BY <1>9 DEF AnswerAll
<1>10. ASSUME NEW w \in Waiters, HandOver(w) \/ ReceiverLeaves(w) PROVE TypeOK'
  BY <1>10 DEF HandOver, ReceiverLeaves
<1>11. CASE UNCHANGED vars
  BY <1>11 DEF vars
<1> QED
  BY <1>1, <1>2, <1>3, <1>4, <1>5, <1>6, <1>7, <1>8, <1>9, <1>10, <1>11
     DEF Next, WaitStep, ReaperStep

LEMMA IInvStep == IInv /\ [Next]_vars => IInv'
<1> SUFFICES ASSUME IInv, [Next]_vars PROVE IInv'
  OBVIOUS
<1>t. TypeOK'
  BY TypeStep DEF IInv
<1> USE DEF IInv, Order, OneReaper, Known, Sent, Calls, NoneForgotten, osv
<1> TypeOK
  OBVIOUS
<1>1. CASE Start
  BY <1>t, <1>1 DEF Start, TypeOK
<1>2. ASSUME NEW e \in Results, Ends(e) PROVE IInv'
  <2>1. result = {} /\ err = {} /\ \A w \in Waiters : errC[w] = {}
    BY <1>2 DEF Ends
  <2> QED
    BY <1>t, <1>2, <2>1 DEF Ends, TypeOK
<1>3. ASSUME NEW w \in Waiters, Call(w) PROVE IInv'
  BY <1>t, <1>3 DEF Call, Return, TypeOK
<1>4. ASSUME NEW w \in Waiters, Once(w) PROVE IInv'
  <2>1. CASE once
    BY <1>t, <1>4, <2>1 DEF Once, TypeOK
  <2>2. CASE ~once
    BY <1>t, <1>4, <2>2 DEF Once, TypeOK
  <2> QED
    BY <2>1, <2>2
<1>5. ASSUME NEW w \in Waiters, Register(w) PROVE IInv'
  BY <1>t, <1>5 DEF Register, Return, TypeOK
<1>6. ASSUME NEW w \in Waiters, ReceiveErr(w) PROVE IInv'
  BY <1>t, <1>6 DEF ReceiveErr, Return, TypeOK
<1>7. ASSUME NEW r \in Waiters, CmdWait(r) PROVE IInv'
  BY <1>t, <1>7 DEF CmdWait, TypeOK
<1>8. ASSUME NEW r \in Waiters, Reap(r) PROVE IInv'
  BY <1>t, <1>8 DEF Reap, TypeOK
<1>9. ASSUME NEW r \in Waiters, AnswerAll(r) PROVE IInv'
  BY <1>t, <1>9 DEF AnswerAll, TypeOK
<1>10. ASSUME NEW w \in Waiters, HandOver(w) \/ ReceiverLeaves(w) PROVE IInv'
  BY <1>t, <1>10 DEF HandOver, ReceiverLeaves, TypeOK
<1>11. CASE UNCHANGED vars
  BY <1>t, <1>11 DEF vars, TypeOK
<1> QED
  BY <1>1, <1>2, <1>3, <1>4, <1>5, <1>6, <1>7, <1>8, <1>9, <1>10, <1>11
     DEF Next, WaitStep, ReaperStep

LEMMA Invariance == Spec => []IInv
  BY IInvInit, IInvStep, PTL DEF Spec

-----------------------------------------------------------------------------
\* KCommand.Wait: every variable keeps its type.
THEOREM WaitTypes == Spec => []TypeOK
<1>1. IInv => TypeOK
  BY DEF IInv
<1> QED
  BY <1>1, Invariance, PTL

\* KCommand.Wait: once finished is set, who still waits has an answer in its
\* channel: registering and answering exclude each other.
THEOREM NobodyForgotten == Spec => []NoneForgotten
<1>1. IInv => NoneForgotten
  BY DEF IInv
<1> QED
  BY <1>1, Invariance, PTL

LEMMA StepAnswers == IInv /\ IInv' /\ [Next]_vars => [Promise!Next]_(Promise!vars)
<1> SUFFICES ASSUME IInv, [Next]_vars PROVE [Promise!Next]_(Promise!vars)
  OBVIOUS
<1> USE DEF Promise!vars, osv
<1>a. ASSUME NEW w \in Waiters, NEW a, Return(w, a), answer[w] = {},
             a \in (IF child = "built" THEN {NotStarted} ELSE result),
             UNCHANGED osv
      PROVE  Promise!Next
  BY <1>a DEF Return, Promise!Next, Promise!Tell
<1>1. CASE Start
  BY <1>1 DEF Start, Promise!Next, Promise!Start
<1>2. ASSUME NEW e \in Results, Ends(e) PROVE Promise!Next
  BY <1>2 DEF Ends, Promise!Next, Promise!Ends
<1>3. ASSUME NEW w \in Waiters, Call(w)
      PROVE  Promise!Next \/ UNCHANGED Promise!vars
  BY <1>3, <1>a DEF Call, IInv, Calls
<1>4. ASSUME NEW w \in Waiters, Register(w)
      PROVE  Promise!Next \/ UNCHANGED Promise!vars
  BY <1>4, <1>a DEF Register, IInv, Calls, Known
<1>5. ASSUME NEW w \in Waiters, ReceiveErr(w) PROVE Promise!Next
  BY <1>5, <1>a DEF ReceiveErr, IInv, Calls, Sent
<1>6. ASSUME NEW w \in Waiters,
             Once(w) \/ HandOver(w) \/ ReceiverLeaves(w) \/ ReaperStep(w)
      PROVE  UNCHANGED Promise!vars
  BY <1>6 DEF Once, HandOver, ReceiverLeaves, ReaperStep, CmdWait, Reap,
              AnswerAll
<1>7. CASE UNCHANGED vars
  BY <1>7 DEF vars
<1> QED
  BY <1>1, <1>2, <1>3, <1>4, <1>5, <1>6, <1>7 DEF Next, WaitStep

\* KCommand.Wait: any number of callers, before or after the end of the child,
\* are each answered once and with the child's own result.
THEOREM WaitRefinement == Spec => ImplementsOutcome
<1>1. Init => Promise!Init
  BY DEF Init, Promise!Init
<1> QED
  BY <1>1, StepAnswers, Invariance, PTL
     DEF Spec, ImplementsOutcome, Promise!Spec
=============================================================================
