--------------------------- MODULE ProcessProofs ---------------------------
(***************************************************************************)
(* The safety properties of Process, for any number of commands, restarts  *)
(* and retries, and any bound on the overlaps.                             *)
(*                                                                         *)
(* The argument.  Until a first startCommand overlaps another thread's     *)
(* work, one thread at most is in charge of the slot (OneInCharge).  So    *)
(* what it knows of p.cmd (OwnCmd, StartCmd), of the Wait it is in         *)
(* (OwnWait) and of the state it last showed (Shown) stays true until its  *)
(* own next step, and when nobody is in charge nothing runs (AtRest).      *)
(***************************************************************************)
EXTENDS Process, FiniteSetTheorems, TLAPS

Rest == {"Stopped", "Fatal", "RetryWait"}

StartCmd == \A t \in Threads :
  pc[t] \in {"announce", "exec"} =>
    cmd \in Runs /\ child[cmd] = "built" /\ pc[cmd] = "idle"

Holding == {"add", "bind", "select", "quickFatal", "forget", "stopping",
            "term", "grace", "reap", "stopDone", "clear"}
Waiting == {"retryDone", "countdown", "retrySelect", "stopNil"}

OwnCmd == \A t \in Threads :
  /\ pc[t] \in Holding => cmd = t
  /\ pc[t] \in Waiting \cup {"retry"} => cmd = Nil
  /\ pc[t] = "stopCheck" => cmd \in {t, Nil}

OwnWait == \A r \in Runs :
  pc[r] \in {"select", "grace", "reap"} => waits[r] = r

Shown == \A t \in Threads :
  /\ pc[t] = "announce" => state \in Rest
  /\ pc[t] \in {"exec", "execFailed", "add", "bind", "select", "quickFatal",
                "forget", "retry", "stopping"} => state = "Running"
  /\ pc[t] = "stopCheck" => state = (IF cmd = Nil THEN "RetryWait"
                                                 ELSE "Running")
  /\ pc[t] \in {"term", "grace", "reap"} => state = "Stopping"
  /\ pc[t] \in {"stopDone", "clear"} => state = "Stopped"
  /\ pc[t] \in Waiting => state = "RetryWait"

AtRest == (\A t \in Threads : ~InCharge(t)) => state \in Rest

Alone == \A t, u \in Threads : InCharge(t) /\ InCharge(u) => t = u

Sole == \A g \in Runs : child[g] = "live" => cmd = g /\ pc[g] \in Watching

SlotInv == /\ Alone /\ Sole /\ StartCmd /\ OwnCmd /\ OwnWait /\ Shown /\ AtRest

IInv == TypeOK /\ (Serial => SlotInv)

-----------------------------------------------------------------------------
LEMMA IInvInit == Init => IInv
<1> SUFFICES ASSUME Init PROVE IInv
  OBVIOUS
<1> USE ProcessAssumption DEF Init, Threads, Callers
<1>1. TypeOK
  <2>1. pc \in [Threads -> Pcs]
    BY DEF Pcs
  <2>2. child \in [Runs -> {"built", "live", "dead"}]
    OBVIOUS
  <2>3. /\ waits \in [Runs -> Runs \cup {Nil}]
        /\ event \in [Callers -> {"start", "stop", "restart"}]
    OBVIOUS
  <2>4. overlaps \in 0..MaxOverlaps
    OBVIOUS
  <2> QED
    BY <2>1, <2>2, <2>3, <2>4 DEF TypeOK, States
<1>2. \A t \in Threads : pc[t] \in {"idle", "operate"}
  OBVIOUS
<1>3. SlotInv
  BY <1>2 DEF SlotInv, Alone, Sole, StartCmd, OwnCmd, OwnWait, Shown, AtRest,
              Rest, InCharge, Charge, StartPcs, StopPcs, Holding, Waiting
<1> QED
  BY <1>1, <1>3 DEF IInv

\* A panic disturbs nothing, except that a handler leaves the slot as it is.
LEMMA PanicStep ==
  ASSUME IInv, NEW t \in Threads, Panic(t), t = Api => ~Serial \/ ~InCharge(t)
  PROVE  IInv'
<1> USE ProcessAssumption
    DEF IInv, TypeOK, SlotInv, Serial, Alone, Sole, StartCmd, OwnCmd, OwnWait,
        Shown, AtRest, Rest, InCharge, Charge, StartPcs, StopPcs, Pcs, States,
        Holding, Waiting, Watching, Threads, Callers, fsm
<1>1. CASE t # Api
  BY <1>1 DEF Panic
<1>2. CASE t = Api
  <2>1. /\ pc' = [pc EXCEPT ![Api] = "idle"]
        /\ UNCHANGED <<state, retryLeft, cmd, child, stopWg, mu, event, waits,
                       panicked, overlaps>>
    BY <1>2 DEF Panic
  <2>2. TypeOK'
    BY <2>1
  <2>3. ASSUME Serial PROVE SlotInv'
    BY <1>2, <2>1, <2>3
  <2> QED
    BY <2>1, <2>2, <2>3
<1> QED
  BY <1>1, <1>2

LEMMA IInvStep ==
  ASSUME IInv, [Next]_vars
  PROVE  IInv'
<1> USE ProcessAssumption
    DEF IInv, TypeOK, SlotInv, Serial, Alone, Sole, StartCmd, OwnCmd, OwnWait,
        Shown, AtRest, Rest, InCharge, Charge, StartPcs, StopPcs, Pcs, States,
        Holding, Waiting, Watching, Threads, Callers, Goto, fsm
<1>1. ASSUME NEW e \in Events, Request(e) PROVE IInv'
  BY <1>1 DEF Request
<1>2. ASSUME NEW t \in Callers, IsRunning(t) PROVE IInv'
  BY <1>2 DEF IsRunning, Answered
<1>3. ASSUME NEW t \in Callers, Operate(t) PROVE IInv'
  BY <1>3 DEF Operate, Operated, Handler
<1>4. ASSUME NEW t \in Callers, Reset(t) PROVE IInv'
  BY <1>4 DEF Reset
<1>5. ASSUME NEW t \in Callers, SendStop(t) PROVE IInv'
  BY <1>5 DEF SendStop, Operated, Receivers
<1>6. ASSUME NEW t \in Callers, WaitStopped(t) PROVE IInv'
  <2>1. CASE stopWg > 0 /\ pc[t] = "woken" /\ Panic(t)
    <3>1. ~InCharge(t)
      BY <2>1
    <3> QED
      BY <2>1, <3>1, PanicStep
  <2>2. CASE ~(stopWg > 0 /\ pc[t] = "woken" /\ Panic(t))
    BY <1>6, <2>2 DEF WaitStopped
  <2> QED
    BY <2>1, <2>2
<1>7. ASSUME NEW t \in Threads, Build(t) PROVE IInv'
  BY <1>7 DEF Build, CanBuild, BuildCommand, Free, Overlapping
<1>8. ASSUME NEW t \in Threads, Announce(t) PROVE IInv'
  <2>1. CASE cmd = Nil /\ Panic(t)
    <3>1. t = Api => ~Serial
      BY <1>8, <2>1 DEF Announce
    <3> QED
      BY <2>1, <3>1, PanicStep
  <2>2. CASE cmd # Nil
    BY <1>8, <2>2 DEF Announce
  <2> QED
    BY <1>8, <2>1, <2>2 DEF Announce
<1>9. ASSUME NEW t \in Threads, Exec(t) PROVE IInv'
  <2>1. CASE cmd = Nil /\ Panic(t)
    <3>1. t = Api => ~Serial
      BY <1>9, <2>1 DEF Exec
    <3> QED
      BY <2>1, <3>1, PanicStep
  <2>2. CASE cmd # Nil
    BY <1>9, <2>2 DEF Exec
  <2> QED
    BY <1>9, <2>1, <2>2 DEF Exec
<1>10. ASSUME NEW t \in Threads, ExecFailed(t) PROVE IInv'
  BY <1>10 DEF ExecFailed
<1>11. ASSUME NEW r \in Runs, Add(r) PROVE IInv'
  BY <1>11 DEF Add
<1>12. ASSUME NEW r \in Runs, Bind(r) PROVE IInv'
  <2>1. CASE cmd = Nil /\ Panic(r)
    <3>1. r = Api => ~Serial
      BY <1>12, <2>1 DEF Bind
    <3> QED
      BY <2>1, <3>1, PanicStep
  <2>2. CASE cmd # Nil
    BY <1>12, <2>2 DEF Bind
  <2> QED
    BY <1>12, <2>1, <2>2 DEF Bind
<1>13. ASSUME NEW r \in Runs, ChildEnded(r) PROVE IInv'
  BY <1>13 DEF ChildEnded, Exited
<1>14. ASSUME NEW r \in Runs, QuickFatal(r) PROVE IInv'
  BY <1>14 DEF QuickFatal
<1>15. ASSUME NEW r \in Runs, FatalDone(r) PROVE IInv'
  <2>1. CASE stopWg = 0 /\ Panic(r)
    BY <2>1, PanicStep
  <2>2. CASE stopWg > 0
    <3>1. /\ stopWg' \in Nat
          /\ pc[r] = "fatalDone" /\ pc'[r] = "idle"
          /\ \A u \in Threads : u # r =>
               \/ pc'[u] = pc[u]
               \/ pc[u] = "blocked" /\ pc'[u] = "woken"
          /\ pc' \in [Threads -> Pcs]
      BY <1>15, <2>2 DEF FatalDone, Done
    <3>2. UNCHANGED <<state, retryLeft, cmd, child, mu, event, waits, panicked,
                      overlaps>>
      BY <1>15, <2>2 DEF FatalDone, Done, Panic
    <3> QED
      BY <3>1, <3>2
  <2> QED
    BY <1>15, <2>1, <2>2 DEF FatalDone, Done
<1>16. ASSUME NEW r \in Runs, Forget(r) PROVE IInv'
  <2>1. CASE cmd = Nil /\ Panic(r)
    <3>1. r = Api => ~Serial
      BY <1>16, <2>1 DEF Forget
    <3> QED
      BY <2>1, <3>1, PanicStep
  <2>2. CASE cmd # Nil
    BY <1>16, <2>2 DEF Forget
  <2> QED
    BY <1>16, <2>1, <2>2 DEF Forget
<1>17. ASSUME NEW r \in Runs, Retry(r) PROVE IInv'
  BY <1>17 DEF Retry
<1>18. ASSUME NEW r \in Runs, RetryDone(r) PROVE IInv'
  <2>1. CASE stopWg = 0 /\ Panic(r)
    BY <2>1, PanicStep
  <2>2. CASE stopWg > 0
    <3>1. /\ stopWg' \in Nat
          /\ pc[r] = "retryDone" /\ pc'[r] = "countdown"
          /\ \A u \in Threads : u # r =>
               \/ pc'[u] = pc[u]
               \/ pc[u] = "blocked" /\ pc'[u] = "woken"
          /\ pc' \in [Threads -> Pcs]
      BY <1>18, <2>2 DEF RetryDone, Done
    <3>2. UNCHANGED <<state, retryLeft, cmd, child, mu, event, waits, panicked,
                      overlaps>>
      BY <1>18, <2>2 DEF RetryDone, Done, Panic
    <3> QED
      BY <3>1, <3>2
  <2> QED
    BY <1>18, <2>1, <2>2 DEF RetryDone, Done
<1>19. ASSUME NEW r \in Runs, Countdown(r) PROVE IInv'
  BY <1>19 DEF Countdown
<1>20. ASSUME NEW r \in Runs, RetryTimer(r) PROVE IInv'
  BY <1>20 DEF RetryTimer
<1>21. ASSUME NEW r \in Runs, StopCheck(r) PROVE IInv'
  BY <1>21 DEF StopCheck
<1>22. ASSUME NEW r \in Runs, StopNil(r) PROVE IInv'
  BY <1>22 DEF StopNil
<1>23. ASSUME NEW r \in Runs, Stopping(r) PROVE IInv'
  BY <1>23 DEF Stopping
<1>24. ASSUME NEW r \in Runs, Term(r) PROVE IInv'
  <2>1. CASE cmd = Nil /\ Panic(r)
    <3>1. r = Api => ~Serial
      BY <1>24, <2>1 DEF Term
    <3> QED
      BY <2>1, <3>1, PanicStep
  <2>2. CASE cmd # Nil
    BY <1>24, <2>2 DEF Term
  <2> QED
    BY <1>24, <2>1, <2>2 DEF Term
<1>25. ASSUME NEW r \in Runs, Grace(r) PROVE IInv'
  <2>1. CASE cmd = Nil /\ Panic(r)
    <3>1. r = Api => ~Serial
      BY <1>25, <2>1 DEF Grace
    <3> QED
      BY <2>1, <3>1, PanicStep
  <2>2. CASE cmd # Nil
    BY <1>25, <2>2 DEF Grace
  <2> QED
    BY <1>25, <2>1, <2>2 DEF Grace
<1>26. ASSUME NEW r \in Runs, Reap(r) PROVE IInv'
  BY <1>26 DEF Reap, Exited
<1>27. ASSUME NEW r \in Runs, StopDone(r) PROVE IInv'
  <2>1. CASE stopWg = 0 /\ Panic(r)
    BY <2>1, PanicStep
  <2>2. CASE stopWg > 0
    <3>1. /\ stopWg' \in Nat
          /\ pc[r] = "stopDone" /\ pc'[r] = "clear"
          /\ \A u \in Threads : u # r =>
               \/ pc'[u] = pc[u]
               \/ pc[u] = "blocked" /\ pc'[u] = "woken"
          /\ pc' \in [Threads -> Pcs]
      BY <1>27, <2>2 DEF StopDone, Done
    <3>2. UNCHANGED <<state, retryLeft, cmd, child, mu, event, waits, panicked,
                      overlaps>>
      BY <1>27, <2>2 DEF StopDone, Done, Panic
    <3> QED
      BY <3>1, <3>2
  <2> QED
    BY <1>27, <2>1, <2>2 DEF StopDone, Done
<1>28. ASSUME NEW r \in Runs, Clear(r) PROVE IInv'
  <2>1. CASE cmd = Nil /\ Panic(r)
    <3>1. r = Api => ~Serial
      BY <1>28, <2>1 DEF Clear
    <3> QED
      BY <2>1, <3>1, PanicStep
  <2>2. CASE cmd # Nil
    BY <1>28, <2>2 DEF Clear
  <2> QED
    BY <1>28, <2>1, <2>2 DEF Clear
<1>29. ASSUME NEW g \in Runs, ChildExits(g) PROVE IInv'
  BY <1>29 DEF ChildExits
<1>30. CASE UNCHANGED vars
  BY <1>30 DEF vars
<1> HIDE DEF IInv, Goto, fsm
<1> QED
  BY <1>1, <1>2, <1>3, <1>4, <1>5, <1>6, <1>7, <1>8, <1>9, <1>10, <1>11,
     <1>12, <1>13, <1>14, <1>15, <1>16, <1>17, <1>18, <1>19, <1>20, <1>21,
     <1>22, <1>23, <1>24, <1>25, <1>26, <1>27, <1>28, <1>29, <1>30
     DEF Next, CallerStep, StartStep, MonitorStep, RetryStep, StopStep

-----------------------------------------------------------------------------
LEMMA IInvAlways == Spec => []IInv
<1>1. IInv /\ [Next]_vars => IInv'
  BY IInvStep
<1> QED
  BY IInvInit, <1>1, PTL DEF Spec

\* Every variable keeps its type: the counter of stopWg is never negative.
THEOREM TypeCorrect == Spec => []TypeOK
<1>1. IInv => TypeOK
  BY DEF IInv
<1> QED
  BY IInvAlways, <1>1, PTL

\* Before the first overlap no child is an orphan and no slot has two.
THEOREM NoOrphan == Spec => []SoleChild
<1>1. IInv => SoleChild
  BY DEF IInv, SlotInv, Sole, SoleChild
<1> QED
  BY IInvAlways, <1>1, PTL

\* Before the first overlap nobody is about to dereference a nil p.cmd.
THEOREM CommandAtHand == Spec => []NoNilCommand
<1>1. IInv => NoNilCommand
  BY ProcessAssumption
     DEF IInv, SlotInv, OwnCmd, StartCmd, Holding, NoNilCommand, Threads
<1> QED
  BY IInvAlways, <1>1, PTL

-----------------------------------------------------------------------------
(* stopWg counts the monitors that owe it a Done.                           *)

Owing == {r \in Runs : Counted(r)}

LEMMA OwingFinite == IsFiniteSet(Owing)
BY ProcessAssumption, FS_Subset DEF Owing

LEMMA AddOwes ==
  ASSUME TypeOK, NEW r \in Runs, Add(r)
  PROVE  /\ r \notin Owing /\ Owing' = Owing \cup {r}
         /\ stopWg' = stopWg + 1
BY DEF TypeOK, Add, Goto, Owing, Counted, Threads

LEMMA DoneSettles ==
  ASSUME TypeOK, NEW r \in Runs, NEW from, NEW to, Done(r, from, to),
         stopWg > 0, from \in {"fatalDone", "retryDone", "stopDone"},
         to \in {"idle", "countdown", "clear"}
  PROVE  /\ r \in Owing /\ Owing' = Owing \ {r}
         /\ stopWg' = stopWg - 1
<1>1. /\ stopWg' = stopWg - 1 /\ cmd' = cmd
      /\ pc' = [u \in Threads |->
                  IF u = r THEN to
                  ELSE IF stopWg = 1 /\ pc[u] = "blocked" THEN "woken"
                  ELSE pc[u]]
  BY DEF Done, TypeOK
<1>2. pc[r] = from /\ pc'[r] = to
  BY <1>1 DEF Done, Threads
<1>3. \A u \in Runs : u # r =>
        pc'[u] = pc[u] \/ (pc[u] = "blocked" /\ pc'[u] = "woken")
  BY <1>1 DEF Threads
<1>4. Counted(r) /\ ~Counted(r)'
  BY <1>1, <1>2 DEF Counted
<1>5. \A u \in Runs : u # r => (Counted(u)' <=> Counted(u))
  BY <1>1, <1>3 DEF Counted
<1> QED
  BY <1>1, <1>4, <1>5 DEF Owing

\* Every other step leaves the counter and the monitors that owe it alone.
Steady == Owing' = Owing /\ stopWg' = stopWg

LEMMA CallerSteady ==
  ASSUME IInv, Serial, NEW t \in Callers, CallerStep(t)
  PROVE  Steady
<1> USE ProcessAssumption
    DEF IInv, TypeOK, SlotInv, OwnCmd, Steady, Owing, Counted, Threads,
        Callers, Goto
<1>1. CASE IsRunning(t)
  BY <1>1 DEF IsRunning, Answered
<1>2. CASE Operate(t)
  BY <1>2 DEF Operate, Operated, Handler
<1>3. CASE Reset(t)
  BY <1>3 DEF Reset
<1>4. CASE SendStop(t)
  BY <1>4 DEF SendStop, Operated, Receivers, Holding, Waiting
<1>5. CASE WaitStopped(t)
  BY <1>5 DEF WaitStopped, Panic
<1> QED
  BY <1>1, <1>2, <1>3, <1>4, <1>5 DEF CallerStep

LEMMA StartSteady ==
  ASSUME IInv, Serial, Serial', NEW t \in Threads, StartStep(t)
  PROVE  Steady
<1> USE ProcessAssumption
    DEF IInv, TypeOK, SlotInv, OwnCmd, Steady, Owing, Counted, Threads,
        Callers, Goto, Serial
<1>1. CASE Build(t)
  BY <1>1 DEF Build, CanBuild, BuildCommand, Free, Overlapping, InCharge,
              Charge, StopPcs
<1>2. CASE Announce(t)
  BY <1>2 DEF Announce, Panic
<1>3. CASE Exec(t)
  BY <1>3 DEF Exec, Panic, StartCmd
<1>4. CASE ExecFailed(t)
  BY <1>4 DEF ExecFailed
<1> QED
  BY <1>1, <1>2, <1>3, <1>4 DEF StartStep

\* The monitor's steps between its Add and its Done.
LEMMA MonitorSteady ==
  ASSUME IInv, Serial, NEW r \in Runs,
         \/ Bind(r) \/ ChildEnded(r) \/ QuickFatal(r) \/ Forget(r) \/ Retry(r)
         \/ Countdown(r) \/ RetryTimer(r) \/ StopCheck(r) \/ StopNil(r)
         \/ Stopping(r) \/ Term(r) \/ Grace(r) \/ Reap(r) \/ Clear(r)
  PROVE  Steady
<1> USE ProcessAssumption
    DEF IInv, TypeOK, SlotInv, OwnCmd, Holding, Waiting, Steady, Owing,
        Counted, Threads, Callers, Goto
<1>1. \A u \in Runs : u # r => ~(InCharge(u) /\ InCharge(r))
  BY DEF Alone
<1>2. CASE Bind(r) \/ ChildEnded(r) \/ QuickFatal(r)
  BY <1>2 DEF Bind, ChildEnded, QuickFatal, Panic
<1>3. CASE Forget(r) \/ Clear(r)
  BY <1>1, <1>3 DEF Forget, Clear, Panic, InCharge, Charge, StopPcs
<1>4. CASE Retry(r) \/ Countdown(r) \/ RetryTimer(r)
  BY <1>4 DEF Retry, Countdown, RetryTimer
<1>5. CASE StopCheck(r) \/ StopNil(r) \/ Stopping(r)
  BY <1>5 DEF StopCheck, StopNil, Stopping
<1>6. CASE Term(r) \/ Grace(r) \/ Reap(r)
  BY <1>6 DEF Term, Grace, Reap, Panic
<1> QED
  BY <1>2, <1>3, <1>4, <1>5, <1>6

\* Only a startCommand can overlap.
LEMMA StepOverlaps ==
  ASSUME [Next]_vars
  PROVE  (\E t \in Threads : Build(t)) \/ UNCHANGED overlaps
<1>1. ASSUME NEW t \in Callers, CallerStep(t) PROVE UNCHANGED overlaps
  BY <1>1 DEF CallerStep, IsRunning, Answered, Operate, Reset, SendStop,
              WaitStopped, Panic
<1>2. ASSUME NEW t \in Threads, StartStep(t)
      PROVE  Build(t) \/ UNCHANGED overlaps
  BY <1>2 DEF StartStep, Announce, Exec, ExecFailed, Panic
<1>3. ASSUME NEW r \in Runs, MonitorStep(r) PROVE UNCHANGED overlaps
  <2>1. CASE RetryStep(r)
    BY <2>1 DEF RetryStep, Retry, RetryDone, Countdown, RetryTimer, Done, Panic
  <2>2. CASE StopStep(r)
    BY <2>2 DEF StopStep, StopCheck, StopNil, Stopping, Term, Grace, Reap,
                StopDone, Clear, Done, Panic
  <2>3. CASE ~RetryStep(r) /\ ~StopStep(r)
    BY <1>3, <2>3 DEF MonitorStep, Add, Bind, ChildEnded, QuickFatal,
                      FatalDone, Forget, Done, Panic
  <2> QED
    BY <2>1, <2>2, <2>3
<1> QED
  BY <1>1, <1>2, <1>3 DEF Next, Request, ChildExits, vars

LEMMA BalanceStep ==
  ASSUME IInv, DonesMatchAdds, [Next]_vars
  PROVE  DonesMatchAdds'
<1> SUFFICES ASSUME Serial'
             PROVE  stopWg' = Cardinality(Owing')
  BY DEF DonesMatchAdds, Owing
<1>1. Serial
  <2>1. ASSUME NEW t \in Threads, Build(t) PROVE Serial
    BY <2>1 DEF Build, BuildCommand, Serial, IInv, TypeOK
  <2>2. CASE UNCHANGED overlaps
    BY <2>2 DEF Serial
  <2>3. (\E t \in Threads : Build(t)) \/ UNCHANGED overlaps
    BY StepOverlaps
  <2> QED
    BY <2>1, <2>2, <2>3
<1>2. TypeOK /\ stopWg = Cardinality(Owing) /\ IsFiniteSet(Owing)
  BY <1>1, OwingFinite DEF IInv, DonesMatchAdds, Owing
<1>3. ASSUME Steady PROVE stopWg' = Cardinality(Owing')
  BY <1>2, <1>3 DEF Steady
<1>4. ASSUME NEW r \in Runs, Add(r) PROVE stopWg' = Cardinality(Owing')
  BY <1>2, <1>4, AddOwes, FS_AddElement
<1>5. ASSUME NEW r \in Runs, FatalDone(r) \/ RetryDone(r) \/ StopDone(r)
      PROVE  stopWg' = Cardinality(Owing')
  <2>1. CASE stopWg > 0
    <3>1. /\ r \in Owing /\ Owing' = Owing \ {r}
          /\ stopWg' = stopWg - 1
      BY <1>2, <1>5, <2>1, DoneSettles DEF FatalDone, RetryDone, StopDone
    <3> QED
      BY <1>2, <3>1, FS_RemoveElement
  <2>2. CASE ~(stopWg > 0)
    <3>1. r \in Owing
      BY <1>5 DEF Owing, Counted, FatalDone, RetryDone, StopDone, Done
    <3>2. stopWg = 0
      BY <1>2, <2>2 DEF TypeOK
    <3> QED
      BY <1>2, <3>1, <3>2, FS_EmptySet
  <2> QED
    BY <2>1, <2>2
<1>6. ASSUME NEW e \in Events, Request(e) PROVE Steady
  BY <1>6, ProcessAssumption
     DEF Request, Goto, Steady, Owing, Counted, IInv, TypeOK, Threads, Callers
<1>7. ASSUME NEW g \in Runs, ChildExits(g) PROVE Steady
  BY <1>7 DEF ChildExits, Steady, Owing, Counted
<1>8. CASE UNCHANGED vars
  BY <1>3, <1>8 DEF vars, Steady, Owing, Counted
<1>9. ASSUME NEW r \in Runs, MonitorStep(r)
      PROVE  stopWg' = Cardinality(Owing')
  BY <1>1, <1>3, <1>4, <1>5, <1>9, MonitorSteady
     DEF MonitorStep, RetryStep, StopStep
<1> QED
  BY <1>1, <1>3, <1>6, <1>7, <1>8, <1>9, CallerSteady, StartSteady DEF Next

\* Before the first overlap stopWg is the number of monitors that have still
\* to call Done: none is left to wait for, and none calls it twice.
THEOREM NoDoneLost == Spec => []DonesMatchAdds
<1>1. Init => DonesMatchAdds
  <2> SUFFICES ASSUME Init PROVE 0 = Cardinality({r \in Runs : Counted(r)})
    BY DEF Init, DonesMatchAdds
  <2>1. \A r \in Runs : ~Counted(r)
    BY DEF Init, Counted, Threads
  <2>2. {r \in Runs : Counted(r)} = {}
    BY <2>1
  <2> QED
    BY <2>2, FS_EmptySet
<1>2. IInv /\ DonesMatchAdds /\ [Next]_vars => DonesMatchAdds'
  BY BalanceStep
<1> QED
  BY IInvAlways, <1>1, <1>2, PTL DEF Spec

-----------------------------------------------------------------------------
(* A slot without overlaps implements Slot.                                 *)

Children == {g \in Runs : child[g] = "live"}

LEMMA HonestState ==
  ASSUME IInv, Serial
  PROVE  \A g \in Children : /\ state \in {"Running", "Stopping"}
                             /\ Children = {g}
<1> SUFFICES ASSUME NEW g \in Children
             PROVE  state \in {"Running", "Stopping"} /\ Children = {g}
  OBVIOUS
<1>1. g \in Runs /\ cmd = g /\ pc[g] \in Watching /\ g \in Threads
  BY DEF IInv, SlotInv, Sole, Threads, Children
<1>2. cmd # Nil
  BY <1>1, ProcessAssumption
<1>3. state \in {"Running", "Stopping"}
  BY <1>1, <1>2 DEF IInv, SlotInv, Shown, Watching
<1>4. Children = {g}
  BY <1>1 DEF IInv, SlotInv, Sole, Children
<1> QED
  BY <1>3, <1>4

\* A change of the state follows an edge and touches no child.
Moves == <<state, state'>> \in Promise!Edges /\ UNCHANGED child

LEMMA ShownStep ==
  ASSUME IInv, Serial, Next, state' # state
  PROVE  Moves
<1> USE DEF IInv, Moves, Promise!Edges, Goto, Threads, fsm
<1>1. ASSUME NEW t \in Threads, Announce(t) PROVE Moves
  BY <1>1 DEF SlotInv, Shown, Rest, Announce, Panic
<1>2. ASSUME NEW t \in Threads, ExecFailed(t) PROVE Moves
  BY <1>2 DEF SlotInv, Shown, ExecFailed
<1>3. ASSUME NEW r \in Runs, QuickFatal(r) PROVE Moves
  BY <1>3 DEF SlotInv, Shown, QuickFatal
<1>4. ASSUME NEW r \in Runs, Retry(r) PROVE Moves
  BY <1>4 DEF SlotInv, Shown, Retry
<1>5. ASSUME NEW r \in Runs, StopNil(r) PROVE Moves
  BY <1>5 DEF SlotInv, Shown, Waiting, StopNil
<1>6. ASSUME NEW r \in Runs, Stopping(r) PROVE Moves
  BY <1>6 DEF SlotInv, Shown, Stopping
<1>7. ASSUME NEW r \in Runs, Reap(r) PROVE Moves
  BY <1>7 DEF SlotInv, Shown, Reap
<1>8. ASSUME NEW t \in Threads,
             \/ t \in Callers /\ CallerStep(t)
             \/ Build(t) \/ Exec(t)
      PROVE  FALSE
  BY <1>8 DEF CallerStep, IsRunning, Answered, Operate, Reset, SendStop,
              WaitStopped, Build, BuildCommand, Exec, Panic
<1>9. ASSUME NEW r \in Runs,
              \/ Add(r) \/ ChildEnded(r) \/ Countdown(r) \/ RetryTimer(r)
              \/ StopCheck(r) \/ ChildExits(r)
      PROVE  FALSE
  BY <1>9 DEF Add, ChildEnded, Countdown, RetryTimer, StopCheck, ChildExits
<1>10. ASSUME NEW r \in Runs,
              Bind(r) \/ Forget(r) \/ Term(r) \/ Grace(r) \/ Clear(r)
      PROVE  FALSE
  BY <1>10 DEF Bind, Forget, Term, Grace, Clear, Panic
<1>11. ASSUME NEW r \in Runs, FatalDone(r) \/ RetryDone(r) \/ StopDone(r)
      PROVE  FALSE
  BY <1>11 DEF FatalDone, RetryDone, StopDone, Done, Panic
<1>12. CASE UNCHANGED vars
  BY <1>12 DEF vars
<1> HIDE DEF IInv, Moves, Promise!Edges, Goto, Threads, fsm
<1>13. ASSUME NEW t \in Threads, StartStep(t)
      PROVE  Moves
  BY <1>1, <1>2, <1>8, <1>13 DEF StartStep
<1>14. ASSUME NEW r \in Runs, MonitorStep(r) \/ ChildExits(r)
      PROVE  Moves
  BY <1>3, <1>4, <1>5, <1>6, <1>7, <1>9, <1>10, <1>11, <1>14
     DEF MonitorStep, RetryStep, StopStep
<1> QED
  BY <1>8, <1>12, <1>13, <1>14 DEF Next, Request, Threads, fsm

\* When the state stays, a child is born, or the only child ends, or neither.
LEMMA ChildStep ==
  ASSUME IInv, Serial, Next, Serial', UNCHANGED state
  PROVE  \/ \E g \in Runs : Promise!Born(g)
         \/ Promise!Dies
         \/ Children' = Children
<1> USE DEF Children
<1>1. ASSUME NEW t \in Threads, Build(t) PROVE Children' = Children
  BY <1>1 DEF Build, BuildCommand, Free, IInv, TypeOK
<1>2. ASSUME NEW t \in Threads, Exec(t), child' # child
      PROVE  \E g \in Runs : Promise!Born(g)
  <2>1. /\ pc[t] = "exec" /\ cmd \in Runs /\ child[cmd] = "built"
        /\ child' = [child EXCEPT ![cmd] = "live"]
    BY <1>2 DEF Exec, Panic, IInv, SlotInv, StartCmd
  <2>2. state = "Running"
    BY <2>1 DEF IInv, SlotInv, Shown
  <2>3. Children = {}
    BY <2>1 DEF IInv, SlotInv, Sole
  <2>4. Children' = {cmd}
    BY <2>1, <2>3 DEF IInv, TypeOK
  <2> QED
    BY <2>1, <2>2, <2>3, <2>4 DEF Promise!Born
<1>3. ASSUME NEW g \in Runs, ChildExits(g) PROVE Promise!Dies
  <2>1. g \in Children /\ g \notin Children' /\ Children' \subseteq Children
    BY <1>3 DEF ChildExits, IInv, TypeOK
  <2>2. Children = {g} /\ state \in {"Running", "Stopping"}
    BY <2>1, HonestState DEF IInv
  <2> QED
    BY <2>1, <2>2 DEF Promise!Dies
<1>4. ASSUME NEW t \in Threads,
             \/ t \in Callers /\ CallerStep(t)
             \/ Announce(t) \/ ExecFailed(t)
      PROVE  UNCHANGED child
  BY <1>4 DEF CallerStep, IsRunning, Answered, Operate, Reset, SendStop,
              WaitStopped, Announce, ExecFailed, Panic
<1>5. ASSUME NEW r \in Runs, MonitorStep(r) PROVE UNCHANGED child
  <2>1. CASE RetryStep(r)
    BY <2>1 DEF RetryStep, Retry, RetryDone, Countdown, RetryTimer, Done, Panic
  <2>2. CASE StopStep(r)
    BY <2>2 DEF StopStep, StopCheck, StopNil, Stopping, Term, Grace, Reap,
                StopDone, Clear, Done, Panic
  <2>3. CASE ~RetryStep(r) /\ ~StopStep(r)
    BY <1>5, <2>3 DEF MonitorStep, Add, Bind, ChildEnded, QuickFatal,
                      FatalDone, Forget, Done, Panic
  <2> QED
    BY <2>1, <2>2, <2>3
<1>6. CASE UNCHANGED child
  BY <1>6
<1>7. CASE UNCHANGED vars
  BY <1>7 DEF vars
<1> HIDE DEF Children
<1>8. ASSUME NEW t \in Threads, StartStep(t)
      PROVE  \/ \E g \in Runs : Promise!Born(g)
             \/ Children' = Children
  BY <1>1, <1>2, <1>4, <1>8 DEF StartStep, Children
<1>9. ASSUME NEW t \in Callers, CallerStep(t) PROVE UNCHANGED child
  BY <1>4, <1>9 DEF Threads
<1>10. ASSUME NEW e \in Events, Request(e) PROVE UNCHANGED child
  BY <1>10 DEF Request
<1> QED
  BY <1>3, <1>5, <1>6, <1>7, <1>8, <1>9, <1>10 DEF Next

\* A slot in which no startCommand may overlap implements Slot, whatever the
\* requests, the exits and the failures.
THEOREM SlotRefinement == MaxOverlaps = 0 => (Spec => ImplementsSlot)
<1> SUFFICES ASSUME MaxOverlaps = 0 PROVE Spec => ImplementsSlot
  OBVIOUS
<1>1. Init => Promise!Init
  BY DEF Init, Promise!Init
<1>2. IInv /\ IInv' /\ [Next]_vars => [Promise!Next]_Promise!vars
  <2> SUFFICES ASSUME IInv, IInv', [Next]_vars
               PROVE  [Promise!Next]_Promise!vars
    OBVIOUS
  <2>1. Serial /\ Serial'
    BY ProcessAssumption DEF IInv, TypeOK, Serial
  <2>2. CASE UNCHANGED vars
    BY <2>2 DEF vars, Promise!vars
  <2>3. CASE Next /\ state' # state
    <3>1. <<state, state'>> \in Promise!Edges /\ Children' = Children
      BY <2>1, <2>3, ShownStep DEF Moves, Children
    <3>2. state' \in {"Running", "Stopping"} \/ Children = {}
      <4>1. \A g \in Runs : child'[g] = "live" =>
              state' \in {"Running", "Stopping"}
        <5> SUFFICES ASSUME NEW g \in Runs, child'[g] = "live"
                     PROVE  state' \in {"Running", "Stopping"}
          OBVIOUS
        <5>1. cmd' = g /\ pc'[g] \in Watching /\ g \in Threads /\ g # Nil
          BY <2>1, ProcessAssumption DEF IInv, SlotInv, Sole, Threads
        <5> QED
          BY <2>1, <5>1 DEF IInv, SlotInv, Shown, Watching
      <4> QED
        BY <3>1, <4>1 DEF Children
    <3>3. state' \in {"Stopped", "Fatal", "RetryWait", "Stopping", "Running"}
      BY DEF IInv, TypeOK, States
    <3> QED
      BY <3>1, <3>2, <3>3 DEF Promise!Next, Promise!Show, Children
  <2>4. CASE Next /\ state' = state
    <3>1. \/ \E g \in Runs : Promise!Born(g)
          \/ Promise!Dies
          \/ Children' = Children
      BY <2>1, <2>4, ChildStep
    <3> QED
      BY <2>4, <3>1 DEF Promise!Next, Promise!vars, Children
  <2> QED
    BY <2>2, <2>3, <2>4
<1> QED
  BY IInvAlways, <1>1, <1>2, PTL DEF Spec, ImplementsSlot, Promise!Spec
=============================================================================
