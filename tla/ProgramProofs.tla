--------------------------- MODULE ProgramProofs ---------------------------
(***************************************************************************)
(* The list of processes and its indices, for any number of processes.     *)
(*                                                                         *)
(* The argument.  In a loop that removes, the index is the length of       *)
(* Processes (Removing); in one that adds it is one more (Adding); the     *)
(* others change neither Processes nor ProcessNum, so a request finds them *)
(* as the last one left them (Steady).  A removed program gets no request. *)
(*                                                                         *)
(* When gosuv ends: a process is shown in the state where its monitor is   *)
(* (Fits), and one that stays calm has a monitor only as long as ProcessWg *)
(* counts it (Orderly); so none is left when Wait returns.                 *)
(***************************************************************************)
EXTENDS Exit, TLAPS

StopAndWaitPcs == {"first", "firstRetry", "subscribe", "await", "again",
                   "againRetry", "drop", "cut"}
CallPcs        == {"isRunning", "isRetrying"}

Steady ==
  /\ apc \in {"idle", "each", "next"} \cup CallPcs => (listed => Len(procs) = num)
  /\ apc \in {"operate", "send"} /\ op \notin {"resize", "delete"} =>
       Len(procs) = num
  /\ apc \in {"each", "next"} \cup CallPcs => op \notin {"resize", "delete"}
  /\ apc = "grow" => op = "resize"
  /\ apc \in {"shrink"} \cup StopAndWaitPcs => op \in {"resize", "delete"}
  /\ apc # "idle" => (listed <=> op # "delete")

Removing ==
  /\ apc = "shrink" => i = Len(procs) /\ goal <= i
  /\ apc \in StopAndWaitPcs => i = Len(procs) /\ goal < i
  /\ apc \in {"operate", "send"} /\ op \in {"resize", "delete"} =>
       i = Len(procs) /\ goal < i

Adding == apc = "grow" => i = Len(procs) + 1 /\ i <= goal + 1

Calling ==
  /\ apc = "each" => i \in 1..Len(procs) + 1
  /\ apc \in CallPcs \cup {"next"} => i \in 1..Len(procs)
  /\ apc \in {"operate", "send"} => i \in 1..Len(procs)

SlotOK ==
  /\ state \in [Objs -> {"Stopped", "Fatal", "RetryWait", "Stopping", "Running"}]
  /\ mon \in [Objs -> {"none", "starting", "select", "ended", "retrying",
                       "asked", "stopping"}]
  /\ left \in [Objs -> 0..Retries]
  /\ wake \in BOOLEAN

RestartOK == rst \in [Objs -> {"none", "check", "stop", "send", "stopped", "wait",
                             "start"}]

ListOK ==
  /\ procs \in Seq(Objs) /\ num \in 0..MaxNum /\ listed \in BOOLEAN
  /\ op \in {"start", "stop", "restart", "resize", "delete"}
  /\ goal \in 0..MaxNum /\ i \in 0..MaxNum + 1
  /\ apc \in {"idle", "each", "next", "grow", "shrink", "isRunning",
              "isRetrying", "first", "firstRetry", "operate", "send",
              "subscribe", "await", "again", "againRetry", "drop", "cut"}

Loops == Steady /\ Removing /\ Adding /\ Calling

IInv == SlotOK /\ RestartOK /\ ListOK /\ Loops

-----------------------------------------------------------------------------
LEMMA IInvInit == Init => IInv
<1> SUFFICES ASSUME Init PROVE IInv
  OBVIOUS
<1> USE ProgramAssumption DEF ProgramAssumption
<1>1. SlotOK /\ RestartOK
  <2>1. Retries \in 0..Retries
    OBVIOUS
  <2>2. left \in [Objs -> 0..Retries]
    BY <2>1 DEF Init
  <2>3. wake \in BOOLEAN
    BY DEF Init
  <2> QED
    BY <2>2, <2>3 DEF Init, SlotOK, RestartOK
<1>2. procs = <<>> /\ Len(procs) = 0 /\ procs \in Seq(Objs)
  BY DEF Init
<1>3. num = 0 /\ goal = 0 /\ i = 0 /\ op = "start" /\ apc = "idle" /\ listed
  BY DEF Init
<1>4. ListOK
  BY <1>2, <1>3 DEF ListOK
<1>5. Loops
  BY <1>2, <1>3 DEF Loops, Steady, Removing, Adding, Calling, StopAndWaitPcs,
                    CallPcs
<1> QED
  BY <1>1, <1>4, <1>5 DEF IInv

\* A process keeps its types, whoever steps.
LEMMA BecomesTypes ==
  ASSUME SlotOK, NEW o \in Objs,
         NEW s \in {"Stopped", "Fatal", "RetryWait", "Stopping", "Running"},
         NEW m \in {"none", "starting", "select", "ended", "retrying", "asked",
                    "stopping"},
         Becomes(o, s, m), left' \in [Objs -> 0..Retries]
  PROVE  SlotOK'
<1>1. state' \in [Objs -> {"Stopped", "Fatal", "RetryWait", "Stopping", "Running"}]
  BY DEF SlotOK, Becomes
<1>2. mon' \in [Objs -> {"none", "starting", "select", "ended", "retrying",
                        "asked", "stopping"}]
  BY DEF SlotOK, Becomes
<1>3. wake' \in BOOLEAN
  <2>1. Subscribed \in BOOLEAN
    BY DEF Subscribed
  <2> QED
    BY <2>1 DEF Becomes
<1> QED
  BY <1>1, <1>2, <1>3 DEF SlotOK

LEMMA StartsTypes ==
  ASSUME SlotOK, NEW o \in Objs, Starts(o), left' \in [Objs -> 0..Retries]
  PROVE  SlotOK'
  BY BecomesTypes DEF Starts

LEMMA MonTypes ==
  ASSUME SlotOK, NEW o \in Objs,
         NEW m \in {"select", "ended", "asked"},
         mon' = [mon EXCEPT ![o] = m] \/ mon' = mon, UNCHANGED <<state, left, wake>>
  PROVE  SlotOK'
  BY DEF SlotOK

LEMMA SendTermTypes ==
  ASSUME SlotOK, NEW o \in Objs, SendTerm(o)
  PROVE  SlotOK'
<1>1. mon' = [mon EXCEPT ![o] = "asked"] \/ mon' = mon
  BY DEF SendTerm
<1> QED
  BY <1>1, MonTypes DEF SendTerm

LEMMA OperateStartTypes ==
  ASSUME SlotOK, NEW o \in Objs, OperateStart(o)
  PROVE  SlotOK'
<1>1. CASE state[o] \in {"Stopped", "Fatal"}
  <2>1. left' \in [Objs -> 0..Retries]
    BY <1>1, ProgramAssumption DEF OperateStart, SlotOK
  <2> QED
    BY <1>1, <2>1, StartsTypes DEF OperateStart
<1>2. CASE state[o] \notin {"Stopped", "Fatal"}
  BY <1>2 DEF OperateStart, SlotOK, slot
<1> QED
  BY <1>1, <1>2

LEMMA AfterEndTypes ==
  ASSUME SlotOK, NEW o \in Objs, AfterEnd(o)
  PROVE  SlotOK'
<1>1. left' \in [Objs -> 0..Retries]
  BY ProgramAssumption DEF AfterEnd, SlotOK
<1>2. Becomes(o, "Fatal", "none") \/ Becomes(o, "RetryWait", "retrying")
  BY DEF AfterEnd
<1> QED
  BY <1>1, <1>2, BecomesTypes

LEMMA StopCommandTypes ==
  ASSUME SlotOK, NEW o \in Objs, StopCommand(o)
  PROVE  SlotOK'
<1>1. left' \in [Objs -> 0..Retries]
  BY DEF StopCommand, SlotOK
<1>2. Becomes(o, "Stopping", "stopping") \/ Becomes(o, "Stopped", "none")
  BY DEF StopCommand
<1> QED
  BY <1>1, <1>2, BecomesTypes

\* Monitors, children and restarts do nothing to the list or to the loops.
LEMMA BesideKeeps ==
  ASSUME IInv, NEW o \in Objs, Monitor(o) \/ Ends(o) \/ Restart(o)
  PROVE  IInv'
<1>1. UNCHANGED <<procs, num, listed, op, goal, i, apc>>
  BY DEF Monitor, Ends, Restart, hand
<1>2. ListOK' /\ Loops'
  BY <1>1 DEF IInv, ListOK, Loops, Steady, Removing, Adding, Calling,
              StopAndWaitPcs, CallPcs
<1>3. SlotOK'
  <2>1. CASE Ready(o)
    BY <2>1, MonTypes DEF Ready, IInv
  <2>2. CASE RetryTimer(o)
    <3>1. left' \in [Objs -> 0..Retries]
      BY <2>2 DEF RetryTimer, IInv, SlotOK
    <3> QED
      BY <2>2, <3>1, StartsTypes DEF RetryTimer, IInv
  <2>3. CASE AfterEnd(o)
    BY <2>3, AfterEndTypes DEF IInv
  <2>4. CASE StopCommand(o)
    BY <2>4, StopCommandTypes DEF IInv
  <2>5. CASE Ends(o)
    BY <2>5, MonTypes DEF Ends, ChildEnds, IInv
  <2>6. CASE Restart(o)
    <3>1. CASE UNCHANGED <<slot, wake>>
      BY <3>1 DEF slot, IInv, SlotOK
    <3>2. CASE SendTerm(o)
      BY <3>2, SendTermTypes DEF IInv
    <3>3. CASE OperateStart(o)
      BY <3>3, OperateStartTypes DEF IInv
    <3> QED
      BY <2>6, <3>1, <3>2, <3>3 DEF Restart
  <2> QED
    BY <2>1, <2>2, <2>3, <2>4, <2>5, <2>6 DEF Monitor
<1>4. RestartOK'
  <2>1. CASE Monitor(o)
    BY <2>1 DEF Monitor, Release, IInv, RestartOK
  <2>2. CASE Ends(o)
    BY <2>2 DEF Ends, IInv, RestartOK
  <2>3. CASE Restart(o)
    BY <2>3 DEF Restart, RestartTo, Waits, IInv, RestartOK
  <2> QED
    BY <2>1, <2>2, <2>3
<1> QED
  BY <1>2, <1>3, <1>4 DEF IInv

-----------------------------------------------------------------------------
(* The handler *)

\* What does not touch the processes keeps their types.
LEMMA StillTypes ==
  ASSUME IInv, UNCHANGED <<slot, rst>>, wake' \in BOOLEAN
  PROVE  SlotOK' /\ RestartOK'
  BY DEF IInv, SlotOK, RestartOK, slot

LEMMA BeginKeeps ==
  ASSUME IInv, NEW o \in Ops, NEW n \in 0..MaxNum, Begin(o, n),
         o # "resize" => n = 0
  PROVE  IInv'
<1>1. SlotOK' /\ RestartOK'
  BY StillTypes DEF Begin, IInv, SlotOK, slot
<1>2. apc = "idle" /\ listed /\ Len(procs) = num /\ num \in 0..MaxNum
  BY DEF Begin, Goto, IInv, Loops, Steady, ListOK
<1>3. /\ procs' = procs
      /\ num' = num
      /\ op' = o
      /\ goal' = n
      /\ listed' = (o # "delete")
  BY DEF Begin
<1>4. o \in {"start", "stop", "restart", "resize", "delete"} /\ MaxNum \in Nat
  BY ProgramAssumption DEF ProgramAssumption
<1>5. \/ /\ apc' = "shrink" /\ i' = num
         /\ o = "delete" \/ (o = "resize" /\ n < num)
      \/ apc' = "grow" /\ i' = num + 1 /\ o = "resize" /\ n >= num
      \/ apc' = "each" /\ i' = 1 /\ o \notin {"resize", "delete"}
  BY <1>2, <1>4 DEF Begin, Goto
<1>6. ListOK'
  BY <1>2, <1>3, <1>4, <1>5 DEF IInv, ListOK
<1>7. Steady'
  BY <1>2, <1>3, <1>4, <1>5 DEF Steady, StopAndWaitPcs, CallPcs
<1>8. o = "delete" => goal' = 0
  BY <1>3
<1>9. Removing' /\ Adding' /\ Calling'
  BY <1>2, <1>3, <1>5, <1>8
     DEF Removing, Adding, Calling, StopAndWaitPcs, CallPcs
<1> QED
  BY <1>1, <1>6, <1>7, <1>9 DEF IInv, Loops

LEMMA EachKeeps == IInv /\ Each => IInv'
<1> SUFFICES ASSUME IInv, Each PROVE IInv'
  OBVIOUS
<1>1. SlotOK' /\ RestartOK'
  BY StillTypes DEF Each, IInv, SlotOK, slot
<1>2. Len(procs) \in Nat /\ Len(procs) <= MaxNum
  BY DEF Each, Return, Goto, IInv, ListOK, Loops, Steady, CallPcs
<1>3. ListOK'
  BY <1>2, ProgramAssumption
     DEF Each, Return, Goto, IInv, ListOK, Loops, Calling, CallPcs,
         ProgramAssumption
<1>4. Loops'
  BY <1>2
     DEF Each, Return, Goto, IInv, ListOK, Loops, Steady, Removing, Adding,
              Calling, StopAndWaitPcs, CallPcs
<1> QED
  BY <1>1, <1>3, <1>4 DEF IInv

LEMMA GrowKeeps == IInv /\ Grow => IInv'
<1> SUFFICES ASSUME IInv, Grow PROVE IInv'
  OBVIOUS
<1> USE ProgramAssumption DEF ProgramAssumption
<1>1. /\ apc = "grow"
      /\ op = "resize"
      /\ i = Len(procs) + 1
      /\ i <= goal + 1
      /\ listed
  BY DEF Grow, Return, Goto, IInv, Loops, Steady, Adding
<1>2. CASE i > goal /\ num' = goal /\ Return("grow")
           /\ UNCHANGED <<procs, listed, slot, rst, wake>>
  <2>1. SlotOK' /\ RestartOK'
    BY <1>2, StillTypes DEF IInv, SlotOK, slot
  <2>2. Len(procs) = goal /\ Len(procs) \in Nat
    BY <1>1, <1>2 DEF IInv, ListOK
  <2>3. ListOK' /\ Loops'
    BY <1>1, <1>2, <2>2
       DEF Return, Goto, IInv, ListOK, Loops, Steady, Removing,
       Adding, Calling, StopAndWaitPcs, CallPcs
  <2> QED
    BY <2>1, <2>3 DEF IInv
<1>3. ASSUME i <= goal, apc' = "grow", i' = i + 1,
             NEW o \in Objs, procs' = Append(procs, o),
             left' = [left EXCEPT ![o] = Retries],
             IF StartAuto THEN Starts(o) ELSE Becomes(o, "Stopped", "none"),
             UNCHANGED <<num, listed, rst, op, goal>>
      PROVE  IInv'
  <2>1. left' \in [Objs -> 0..Retries]
    BY <1>3 DEF IInv, SlotOK
  <2>2. SlotOK'
    BY <1>3, <2>1, StartsTypes, BecomesTypes DEF IInv
  <2>3. RestartOK'
    BY <1>3 DEF IInv, RestartOK
  <2>4. /\ procs' \in Seq(Objs)
        /\ Len(procs') = Len(procs) + 1
        /\ Len(procs) \in Nat
    BY <1>3 DEF IInv, ListOK
  <2>5. ListOK'
    BY <1>1, <1>3, <2>4 DEF IInv, ListOK
  <2>6. Loops'
    BY <1>1, <1>3, <2>4 DEF IInv, ListOK, Loops, Steady, Removing, Adding,
       Calling, StopAndWaitPcs, CallPcs
  <2> QED
    BY <2>2, <2>3, <2>5, <2>6 DEF IInv
<1> QED
  BY <1>2, <1>3 DEF Grow, Goto

LEMMA ShrinkKeeps == IInv /\ Shrink => IInv'
<1> SUFFICES ASSUME IInv, Shrink PROVE IInv'
  OBVIOUS
<1>1. SlotOK' /\ RestartOK'
  BY StillTypes DEF Shrink, IInv, SlotOK, slot
<1>2. Len(procs) \in Nat /\ i = Len(procs) /\ goal <= i /\ apc = "shrink"
      /\ op \in {"resize", "delete"}
  BY DEF Shrink, Return, Goto, IInv, ListOK, Loops, Removing, Steady
<1>3. ListOK'
  BY <1>2, ProgramAssumption
     DEF Shrink, Return, Goto, IInv, ListOK, ProgramAssumption
<1>4. listed <=> op # "delete"
  BY <1>2 DEF IInv, Loops, Steady
<1>5. Loops'
  BY <1>2, <1>4
     DEF Shrink, Return, Goto, IInv, ListOK, Loops, Steady, Removing,
     Adding, Calling, StopAndWaitPcs, CallPcs
<1> QED
  BY <1>1, <1>3, <1>5 DEF IInv

LEMMA IsRunningKeeps == IInv /\ IsRunning => IInv'
<1> SUFFICES ASSUME IInv, IsRunning PROVE IInv'
  OBVIOUS
<1>1. SlotOK' /\ RestartOK'
  BY StillTypes DEF IsRunning, IInv, SlotOK, slot
<1>2. UNCHANGED <<procs, num, listed, op, goal, i>>
  BY DEF IsRunning
<1>3. \/ apc = "isRunning" /\ apc' \in {"next", "isRetrying"}
      \/ apc = "isRetrying" /\ apc' \in {"next", "operate"}
      \/ apc = "first" /\ apc' \in {"operate", "firstRetry"}
      \/ apc = "firstRetry" /\ apc' \in {"operate", "drop"}
      \/ apc = "again" /\ apc' \in {"await", "againRetry"}
      \/ apc = "againRetry" /\ apc' \in {"await", "drop"}
  BY DEF IsRunning, Reads, Goto
<1>4. ListOK'
  BY <1>2, <1>3 DEF IInv, ListOK
<1>5. Loops'
  BY <1>2, <1>3 DEF IInv, ListOK, Loops, Steady, Removing, Adding, Calling,
     StopAndWaitPcs, CallPcs
<1> QED
  BY <1>1, <1>4, <1>5 DEF IInv

\* Operate and Send: the handler goes on where its operation goes on.
LEMMA OperatedKeeps ==
  ASSUME IInv, UNCHANGED <<procs, num, listed, op, goal, i>>,
         \/ apc = "operate" /\ op \in {"start", "restart"} /\ apc' = "next"
         \/ apc = "operate" /\ op \notin {"start", "restart"}
              /\ apc' \in {"send", Operated}
         \/ apc = "send" /\ apc' = Operated
  PROVE  ListOK' /\ Loops'
  BY DEF Operated, IInv, ListOK, Loops, Steady, Removing, Adding, Calling,
         StopAndWaitPcs, CallPcs

LEMMA OperateKeeps == IInv /\ Operate => IInv'
<1> SUFFICES ASSUME IInv, Operate PROVE IInv'
  OBVIOUS
<1> DEFINE o == procs[i]
<1>1. o \in Objs
  BY DEF Operate, IInv, ListOK, Loops, Calling
<1>2. ListOK' /\ Loops'
  BY OperatedKeeps DEF Operate, Goto
<1>3. SlotOK'
  <2>1. CASE OperateStart(o)
    BY <1>1, <2>1, OperateStartTypes DEF IInv
  <2>2. CASE UNCHANGED <<slot, wake>>
    BY <2>2 DEF slot, IInv, SlotOK
  <2> QED
    BY <2>1, <2>2 DEF Operate
<1>4. RestartOK'
  BY <1>1 DEF Operate, IInv, RestartOK
<1> QED
  BY <1>2, <1>3, <1>4 DEF IInv

LEMMA SendKeeps == IInv /\ Send => IInv'
<1> SUFFICES ASSUME IInv, Send PROVE IInv'
  OBVIOUS
<1>1. procs[i] \in Objs
  BY DEF Send, Goto, IInv, ListOK, Loops, Calling
<1>2. ListOK' /\ Loops'
  BY OperatedKeeps DEF Send, Goto
<1>3. SlotOK'
  BY <1>1, SendTermTypes DEF Send, IInv
<1>4. RestartOK'
  BY DEF Send, IInv, RestartOK
<1> QED
  BY <1>2, <1>3, <1>4 DEF IInv

LEMMA WaitKeeps == IInv /\ (Subscribe \/ Woken \/ SetNil) => IInv'
<1> SUFFICES ASSUME IInv, Subscribe \/ Woken \/ SetNil PROVE IInv'
  OBVIOUS
<1>1. SlotOK' /\ RestartOK'
  BY StillTypes DEF Subscribe, Woken, SetNil, slot
<1>2. ListOK' /\ Loops'
  BY DEF Subscribe, Woken, SetNil, Goto, IInv, ListOK, Loops, Steady, Removing, Adding,
         Calling, StopAndWaitPcs, CallPcs
<1> QED
  BY <1>1, <1>2 DEF IInv

LEMMA CutKeeps == IInv /\ Cut => IInv'
<1> SUFFICES ASSUME IInv, Cut PROVE IInv'
  OBVIOUS
<1>1. SlotOK' /\ RestartOK'
  BY StillTypes DEF Cut, slot, IInv, SlotOK
<1>2. apc = "cut" /\ i = Len(procs) /\ goal < i /\ Len(procs) \in Nat
      /\ goal \in Nat /\ op \in {"resize", "delete"}
  BY DEF Cut, Goto, IInv, ListOK, Loops, Removing, Steady, StopAndWaitPcs
<1>3. procs' = SubSeq(procs, 1, i - 1) /\ i' = i - 1 /\ apc' = "shrink"
      /\ UNCHANGED <<num, listed, op, goal>>
  BY DEF Cut, Goto
<1>4. procs' \in Seq(Objs) /\ Len(procs') = i - 1
  BY <1>2, <1>3 DEF IInv, ListOK
<1>5. ListOK'
  BY <1>2, <1>3, <1>4, ProgramAssumption DEF IInv, ListOK, ProgramAssumption
<1>6. Loops'
  BY <1>2, <1>3, <1>4 DEF IInv, ListOK, Loops, Steady, Removing, Adding,
     Calling, StopAndWaitPcs, CallPcs
<1> QED
  BY <1>1, <1>5, <1>6 DEF IInv

-----------------------------------------------------------------------------
LEMMA IInvStep == IInv /\ [Next]_vars => IInv'
<1> SUFFICES ASSUME IInv, [Next]_vars PROVE IInv'
  OBVIOUS
<1>1. CASE \E o \in Ops : IF o = "resize" THEN \E n \in 0..MaxNum : Begin(o, n)
                                          ELSE Begin(o, 0)
  <2>1. 0 \in 0..MaxNum
    BY ProgramAssumption DEF ProgramAssumption
  <2>2. PICK o \in Ops : \E n \in 0..MaxNum :
               Begin(o, n) /\ (o # "resize" => n = 0)
    BY <1>1, <2>1
  <2> QED
    BY <2>2, BeginKeeps
<1>2. CASE HandlerStep
  BY <1>2, EachKeeps, GrowKeeps, ShrinkKeeps, IsRunningKeeps, OperateKeeps,
     SendKeeps, WaitKeeps, CutKeeps DEF HandlerStep
<1>3. CASE \E o \in Objs : Monitor(o) \/ Ends(o) \/ Restart(o)
  BY <1>3, BesideKeeps
<1>4. CASE UNCHANGED vars
  BY <1>4 DEF vars, slot, hand, IInv, SlotOK, RestartOK, ListOK, Loops, Steady,
     Removing, Adding, Calling, StopAndWaitPcs, CallPcs
<1> QED
  BY <1>1, <1>2, <1>3, <1>4 DEF Next

LEMMA IInvAlways == Spec => []IInv
  BY IInvInit, IInvStep, PTL DEF Spec

\* The types, for any number of processes and retries.
THEOREM ProgramTypes == Spec => []TypeOK
<1>1. IInv => TypeOK
  BY DEF IInv, SlotOK, RestartOK, ListOK, TypeOK
<1> QED
  BY <1>1, IInvAlways, PTL

\* Between requests ProcessNum is the number of processes: UpdateProgram
\* leaves it so whatever restarts and monitors do in the middle of it.
LEMMA ListMatches == Spec => []NumMatches
<1>1. IInv => NumMatches
  BY DEF IInv, Loops, Steady, NumMatches
<1> QED
  BY <1>1, IInvAlways, PTL

\* No loop over the processes reads past their end.
LEMMA IndexSafe == Spec => []IndexInRange
<1>1. IInv => IndexInRange
  <2> SUFFICES ASSUME IInv PROVE IndexInRange
    OBVIOUS
  <2>1. Len(procs) \in Nat /\ goal \in Nat
    BY DEF IInv, ListOK
  <2> QED
    BY <2>1
       DEF IInv, Loops, Removing, Calling, CallPcs, StopAndWaitPcs,
           IndexInRange
<1> QED
  BY <1>1, IInvAlways, PTL

\* The list and ProcessNum fit, for any number of processes and retries: no
\* index out of range, and none missing or left between requests.
THEOREM ListIsSound == Spec => []ListSound
<1>1. TypeOK /\ NumMatches /\ IndexInRange => ListSound
  BY DEF ListSound
<1> QED
  BY <1>1, ProgramTypes, ListMatches, IndexSafe, PTL

-----------------------------------------------------------------------------
(* The processes that stay                                                 *)

\* A process is in the list once: a new one is named by a name that is not in
\* it.
Once == \A a, b \in 1..Len(procs) : procs[a] = procs[b] => a = b

LEMMA OnceInit == Init => Once
  BY DEF Init, Once

LEMMA OnceStep == IInv /\ Once /\ [Next]_vars => Once'
<1> SUFFICES ASSUME IInv, Once, [Next]_vars PROVE Once'
  OBVIOUS
<1>1. CASE procs' = procs
  BY <1>1 DEF Once
<1>2. CASE Grow
  <2>1. CASE procs' = procs
    BY <2>1 DEF Once
  <2>2. ASSUME NEW o \in Objs, Quiet(o), procs' = Append(procs, o) PROVE Once'
    <3>1. /\ procs \in Seq(Objs) /\ Len(procs) \in Nat
          /\ Len(procs') = Len(procs) + 1
          /\ \A a \in 1..Len(procs) : procs'[a] = procs[a]
          /\ procs'[Len(procs) + 1] = o
      BY <2>2 DEF IInv, ListOK
    <3>2. \A a \in 1..Len(procs) : procs[a] # o
      BY <2>2 DEF Quiet
    <3> QED
      BY <3>1, <3>2 DEF Once
  <2> QED
    BY <1>2, <2>1, <2>2 DEF Grow
<1>3. CASE Cut
  <2>1. i - 1 \in 0..Len(procs) /\ procs \in Seq(Objs) /\ Len(procs) \in Nat
        /\ procs' = SubSeq(procs, 1, i - 1)
    BY <1>3 DEF Cut, Goto, IInv, ListOK, Loops, Removing, StopAndWaitPcs
  <2>2. /\ Len(procs') = i - 1
        /\ \A a \in 1..i - 1 : procs'[a] = procs[a] /\ a \in 1..Len(procs)
    BY <2>1
  <2> QED
    BY <2>2 DEF Once
<1>4. CASE HandlerStep
  BY <1>1, <1>2, <1>3, <1>4
     DEF HandlerStep, Each, Shrink, IsRunning, Operate, Send, Subscribe, Woken, SetNil
<1> QED
  BY <1>1, <1>4 DEF Next, Begin, Monitor, Ends, Restart, vars

\* While UpdateProgram removes processes, the loop works on the last one.
LEMMA WorksOnLast ==
  ASSUME IInv, op = "resize", apc \notin {"idle", "grow"}
  PROVE  /\ apc \in {"shrink", "operate", "send"} \cup StopAndWaitPcs
         /\ goal \in Nat /\ Len(procs) \in Nat /\ i = Len(procs) /\ goal <= i
         /\ apc # "shrink" => goal < i
  BY DEF IInv, ListOK, Loops, Steady, Removing, StopAndWaitPcs, CallPcs

\* For any number of processes: UpdateProgram with fewer processes keeps the
\* first ones in their places, and does not touch their monitors.
THEOREM SurvivorsAlways == Spec => Survivors
<1> DEFINE Shrinking == op = "resize" /\ apc \notin {"idle", "grow"}
           Stays(m) == procs'[m] = procs[m]
                       /\ (HandlerStep => mon'[procs[m]] = mon[procs[m]])
<1>1. ASSUME IInv, Once, [Next]_vars, Shrinking, NEW m \in 1..goal
      PROVE  Stays(m)
  <2>1. /\ apc \in {"shrink", "operate", "send"} \cup StopAndWaitPcs
        /\ goal \in Nat /\ Len(procs) \in Nat /\ i = Len(procs)
        /\ m \in 1..Len(procs) /\ procs \in Seq(Objs)
        /\ apc # "shrink" => m < i /\ i \in 1..Len(procs)
    BY <1>1, WorksOnLast DEF IInv, ListOK
  <2>2. procs'[m] = procs[m]
    <3>1. CASE procs' = procs
      BY <3>1
    <3>2. CASE Cut
      BY <2>1, <3>2 DEF Cut, Goto
    <3>3. ~Grow
      BY <1>1 DEF Grow, Return, Goto
    <3>4. CASE HandlerStep
      BY <3>1, <3>2, <3>3, <3>4
         DEF HandlerStep, Each, Shrink, IsRunning, Operate, Send, Subscribe, Woken, SetNil
    <3> QED
      BY <1>1, <3>1, <3>4 DEF Next, Begin, Monitor, Ends, Restart, vars
  <2>3. ASSUME HandlerStep PROVE mon'[procs[m]] = mon[procs[m]]
    <3>1. apc # "shrink" => procs[i] # procs[m]
      BY <1>1, <2>1 DEF Once
    <3>2. CASE mon' = mon
      BY <3>2
    <3>3. ~Grow /\ ~Each
      BY <1>1, <2>1 DEF Grow, Each, Return, Goto, StopAndWaitPcs
    <3>4. CASE Operate
      BY <1>1, <3>2, <3>4 DEF Operate, slot
    <3>5. CASE Send
      <4>1. procs[m] \in Objs /\ procs[m] # procs[i]
        BY <2>1, <3>1, <3>5 DEF Send, Goto
      <4> QED
        BY <1>1, <3>5, <4>1 DEF Send, SendTerm, IInv, SlotOK
    <3> QED
      BY <2>3, <3>2, <3>3, <3>4, <3>5
         DEF HandlerStep, Shrink, IsRunning, Subscribe, Woken, SetNil, Cut, slot
  <2> QED
    BY <2>2, <2>3
<1>2. IInv /\ Once /\ [Next]_vars =>
        [op = "resize" /\ apc \notin {"idle", "grow"} =>
           \A n \in 1..goal :
             /\ procs'[n] = procs[n]
             /\ HandlerStep => mon'[procs[n]] = mon[procs[n]]]_vars
  BY <1>1
<1> QED
  BY <1>2, OnceInit, OnceStep, IInvInit, IInvStep, PTL DEF Spec, Survivors

-----------------------------------------------------------------------------
(* What gosuv leaves behind when it ends (Exit)                            *)

\* The state that a process shows fits to where its monitor is, so a start,
\* which needs Stopped or Fatal, finds no monitor.
Fits(o) ==
  /\ mon[o] \in {"starting", "select", "ended"} => state[o] = "Running"
  /\ mon[o] = "retrying" => state[o] = "RetryWait"
  /\ mon[o] = "asked" => state[o] \in {"Running", "RetryWait"}
  /\ mon[o] = "stopping" => state[o] = "Stopping"

SlotInv ==
  /\ state \in [Objs -> {"Stopped", "Fatal", "RetryWait", "Stopping", "Running"}]
  /\ mon \in [Objs -> {"none", "starting", "select", "ended", "retrying",
                       "asked", "stopping"}]
  /\ \A o \in Objs : Fits(o)

\* A process that is at rest, runs, or is being stopped: ProcessWg counts it
\* as long as it has a monitor.
Orderly(o) ==
  /\ mon[o] \in {"none", "select", "asked", "stopping"}
  /\ mon[o] = "asked" => state[o] = "Running"

\* What a step does to the processes that stay calm in it.
Keeps ==
  \A o \in Objs : mon'[o] \notin {"starting", "ended"} =>
    /\ Orderly(o) => Orderly(o)'
    /\ mon[o] = "none" => mon'[o] = "none"

XInv ==
  /\ SlotInv
  /\ calm \subseteq Objs /\ \A o \in calm : Orderly(o)
  /\ Gone

-----------------------------------------------------------------------------
(* The steps of Program                                                    *)

LEMMA SendSlots == ASSUME NEW o, SlotInv, SendTerm(o) PROVE SlotInv' /\ Keeps
BY DEF SlotInv, SendTerm, Fits, Keeps, Orderly

LEMMA StartSlots == ASSUME NEW o, SlotInv, OperateStart(o) PROVE SlotInv' /\ Keeps
<1>1. CASE state[o] \notin {"Stopped", "Fatal"}
  BY <1>1 DEF OperateStart, slot, SlotInv, Fits, Keeps, Orderly
<1>2. CASE o \in Objs /\ state[o] \in {"Stopped", "Fatal"} /\ Starts(o)
  <2>1. mon[o] = "none"
    BY <1>2 DEF SlotInv, Fits
  <2> QED
    BY <1>2, <2>1 DEF Starts, Becomes, SlotInv, Fits, Keeps, Orderly
<1>3. CASE o \notin Objs /\ Starts(o)
  BY <1>3 DEF Starts, Becomes, SlotInv, Fits, Keeps, Orderly
<1> QED
  BY <1>1, <1>2, <1>3 DEF OperateStart

LEMMA MonitorSlots ==
  ASSUME NEW o \in Objs, SlotInv, Monitor(o) \/ Ends(o) PROVE SlotInv' /\ Keeps
<1>1. CASE Ready(o)
  BY <1>1 DEF Ready, SlotInv, Fits, Keeps, Orderly
<1>2. CASE RetryTimer(o)
  BY <1>2 DEF RetryTimer, Starts, Becomes, SlotInv, Fits, Keeps, Orderly
<1>3. CASE AfterEnd(o)
  BY <1>3 DEF AfterEnd, Becomes, SlotInv, Fits, Keeps, Orderly
<1>4. CASE StopCommand(o)
  BY <1>4 DEF StopCommand, Becomes, SlotInv, Fits, Keeps, Orderly
<1>5. CASE ChildEnds(o)
  BY <1>5 DEF ChildEnds, SlotInv, Fits, Keeps, Orderly
<1> QED
  BY <1>1, <1>2, <1>3, <1>4, <1>5 DEF Monitor, Ends

LEMMA BesideSlots == ASSUME SlotInv, UNCHANGED slot PROVE SlotInv' /\ Keeps
BY DEF slot, SlotInv, Fits, Keeps, Orderly

LEMMA GrowSlots == ASSUME SlotInv, Grow PROVE SlotInv' /\ Keeps
<1>1. CASE UNCHANGED slot
  BY <1>1, BesideSlots
<1>2. ASSUME NEW o \in Objs, Quiet(o), Starts(o) \/ Becomes(o, "Stopped", "none")
      PROVE  SlotInv' /\ Keeps
  BY <1>2 DEF Quiet, Starts, Becomes, SlotInv, Fits, Keeps, Orderly
<1> QED
  BY <1>1, <1>2 DEF Grow

LEMMA NextSlots == ASSUME SlotInv, [Next]_vars PROVE SlotInv' /\ Keeps
<1>1. ASSUME NEW o, NEW n, Begin(o, n) PROVE UNCHANGED slot
  BY <1>1 DEF Begin
<1>2. CASE \/ Each \/ Shrink \/ IsRunning \/ Subscribe \/ Woken
           \/ SetNil \/ Cut \/ UNCHANGED vars
  BY <1>2, BesideSlots
     DEF Each, Shrink, IsRunning, Subscribe, Woken, SetNil, Cut, vars
<1>3. CASE Operate
  BY <1>3, StartSlots, BesideSlots DEF Operate
<1>4. CASE Send
  BY <1>4, SendSlots DEF Send
<1>5. ASSUME NEW o \in Objs, Restart(o) PROVE SlotInv' /\ Keeps
  BY <1>5, StartSlots, SendSlots, BesideSlots DEF Restart
<1> QED
  BY <1>1, <1>2, <1>3, <1>4, <1>5, GrowSlots, MonitorSlots, BesideSlots
     DEF Next, HandlerStep

-----------------------------------------------------------------------------
(* The main goroutine                                                      *)

\* Once ProcessWg counts nothing, a process that stayed calm has no monitor.
LEMMA Waited ==
  ASSUME NEW o \in Objs, Orderly(o), ProcessWg = {} PROVE mon[o] = "none"
BY DEF Orderly, ProcessWg

LEMMA ExitInitial == ExitInit => XInv
BY DEF ExitInit, Init, XInv, SlotInv, Fits, Gone

LEMMA ExitStep == ASSUME XInv, [ExitNext]_exitVars PROVE XInv'
<1> USE DEF XInv
<1>1. ASSUME While(Next) PROVE XInv'
  <2>1. SlotInv' /\ Keeps
    BY <1>1, NextSlots DEF While
  <2>2. calm' \subseteq calm /\ \A o \in calm' : mon'[o] \notin {"starting", "ended"}
    BY <1>1 DEF While, StaysCalm
  <2>3. \A o \in calm' : Orderly(o)'
    BY <2>1, <2>2 DEF Keeps
  <2>4. CASE main' # main
    <3>1. ProcessWg' = {}
      BY <1>1, <2>4 DEF While
    <3>2. \A o \in calm' : mon'[o] = "none"
      BY <3>1, <2>2, <2>3 DEF Orderly, ProcessWg
    <3> QED
      BY <2>1, <2>2, <2>3, <3>2 DEF Gone
  <2>5. CASE main' = main
    BY <2>1, <2>2, <2>3, <2>5 DEF Gone, Keeps
  <2> QED
    BY <2>4, <2>5
<1>2. CASE Signal
  <2>1. SlotInv' /\ calm' \subseteq Objs /\ \A o \in calm' : Orderly(o)'
    BY <1>2, BesideSlots DEF Signal, vars, slot, Orderly
  <2>2. listed => Gone'
    BY <1>2 DEF Signal, Gone
  <2>3. ~listed => calm' = {}
    BY <1>2 DEF Signal
  <2> QED
    BY <2>1, <2>2, <2>3 DEF Gone
<1>3. CASE StopAll \/ Turn
  <2>1. SlotInv' /\ calm' = calm /\ mon' = mon /\ state' = state
    BY <1>3, BesideSlots DEF StopAll, Turn, vars, slot
  <2>2. \A o \in calm' : Orderly(o)'
    BY <2>1 DEF Orderly
  <2>3. main' \in {"close", "turn", "panicked"} \/ main' = AtWait
    BY <1>3 DEF StopAll, Turn
  <2>4. Gone'
    BY <2>1, <2>3, Waited DEF AtWait, Gone
  <2> QED
    BY <2>1, <2>2, <2>4
<1>4. CASE StopSend
  <2>1. SlotInv' /\ Keeps
    BY <1>4, SendSlots DEF StopSend
  <2> QED
    BY <1>4, <2>1 DEF StopSend, StaysCalm, Keeps, Gone
<1>5. CASE Over \/ UNCHANGED exitVars
  <2>1. /\ SlotInv' /\ calm' = calm /\ mon' = mon /\ state' = state
        /\ main' = main \/ main = "woken"
    BY <1>5, BesideSlots DEF Over, exitVars, exiting, vars, slot
  <2> QED
    BY <2>1 DEF Gone, Orderly
<1> QED
  BY <1>1, <1>2, <1>3, <1>4, <1>5 DEF ExitNext, Main

\* When gosuv says that it terminated, the children of the processes it found
\* at rest or running are gone (catchExitSignal).
THEOREM GoneAlways == ExitSpec => []Gone
<1>1. XInv => Gone
  BY DEF XInv
<1>2. XInv /\ [ExitNext]_exitVars => XInv'
  BY ExitStep
<1> QED
  BY <1>1, <1>2, ExitInitial, PTL DEF ExitSpec
=============================================================================
