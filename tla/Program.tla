------------------------------ MODULE Program ------------------------------
(***************************************************************************)
(* A program and its processes (ProgramEx): the operations of the handler  *)
(* that holds namesMu (start, stop and restart all, UpdateProgram, the     *)
(* removal of the program), the processes they work on, and the goroutines *)
(* of restarts, which outlive the handler and hold nothing.                *)
(*                                                                         *)
(* A process is seen as Slot shows it, with where its monitor is: what a   *)
(* startCommand and a stopCommand do inside is the subject of Process.     *)
(* An event wakes stopAndWait as Broadcast promises.                       *)
(***************************************************************************)
EXTENDS Integers, Sequences, FiniteSets

CONSTANTS
  Objs,       \* names of Process values
  Ops,        \* the operations that arrive
  MaxNum,     \* the bound on process_num
  Retries,    \* StartRetries
  StartAuto   \* Program.StartAuto, as each update sets it

ASSUME ProgramAssumption ==
  /\ IsFiniteSet(Objs) /\ MaxNum \in Nat /\ Retries \in Nat
  /\ StartAuto \in BOOLEAN
  /\ Ops \subseteq {"start", "stop", "restart", "resize", "delete"}

VARIABLES
  procs,    \* ProgramEx.Processes
  num,      \* Program.ProcessNum
  listed,   \* the program is in Supervisor.name2Program
  state,    \* process -> FSM.state
  mon,      \* process -> where its monitor is, "none" if there is none
  left,     \* process -> retryLeft
  rst,      \* process -> where the goroutine of its restart is
  op,       \* the handler's operation
  goal,     \* the process_num it was given
  i,        \* its loop index, from 1
  apc,      \* where the handler is
  wake      \* an event is waiting for the handler in stopAndWait

slot == <<state, mon, left>>
hand == <<op, goal, i, apc>>
vars == <<procs, num, listed, slot, rst, hand, wake>>

TypeOK ==
  /\ procs \in Seq(Objs) /\ num \in 0..MaxNum
  /\ listed \in BOOLEAN
  /\ state \in [Objs -> {"Stopped", "Fatal", "RetryWait", "Stopping", "Running"}]
  /\ mon \in [Objs -> {"none", "starting", "select", "ended", "retrying",
                       "asked", "stopping"}]
  /\ left \in [Objs -> 0..Retries]
  /\ rst \in [Objs -> {"none", "check", "stop", "send", "stopped", "wait",
                       "start"}]
  /\ op \in {"start", "stop", "restart", "resize", "delete"}
  /\ goal \in 0..MaxNum /\ i \in 0..MaxNum + 1 /\ wake \in BOOLEAN
  /\ apc \in {"idle", "each", "next", "grow", "shrink", "isRunning",
              "isRetrying", "first", "firstRetry", "operate", "send",
              "subscribe", "await", "again", "againRetry", "drop", "cut"}

\* InitProgram with process_num 0; UpdateProgram adds processes as it does.
Init ==
  /\ procs = <<>> /\ num = 0 /\ listed = TRUE
  /\ state = [o \in Objs |-> "Stopped"] /\ mon = [o \in Objs |-> "none"]
  /\ left = [o \in Objs |-> Retries] /\ rst = [o \in Objs |-> "none"]
  /\ op = "start" /\ goal = 0 /\ i = 0 /\ apc = "idle" /\ wake = FALSE

-----------------------------------------------------------------------------
(* A process *)

\* SetState: the event of the change goes to the handler if it subscribed.
Subscribed == apc \in {"await", "again", "againRetry"}

Becomes(o, s, m) ==
  /\ state' = [state EXCEPT ![o] = s]
  /\ mon' = [mon EXCEPT ![o] = m]
  /\ wake' = Subscribed

\* startCommand; the command may fail to start.
Starts(o) == Becomes(o, "Running", "starting") \/ Becomes(o, "Fatal", "none")

\* Operate(StartEvent): from Stopped the retries are counted afresh.
OperateStart(o) ==
  \/ /\ state[o] \in {"Stopped", "Fatal"}
     /\ Starts(o)
     /\ left' = IF state[o] = "Stopped" THEN [left EXCEPT ![o] = Retries]
                                        ELSE left
  \/ /\ state[o] \notin {"Stopped", "Fatal"}
     /\ UNCHANGED <<slot, wake>>

\* The send to stopC: a monitor in a select takes it; 200ms without one end it.
SendTerm(o) ==
  /\ IF mon[o] \in {"select", "retrying"}
     THEN mon' = [mon EXCEPT ![o] = "asked"]
     ELSE UNCHANGED mon
  /\ UNCHANGED <<state, left, wake>>

Ready(o) ==
  /\ mon[o] = "starting"
  /\ mon' = [mon EXCEPT ![o] = "select"]
  /\ UNCHANGED <<state, left, wake>>

ChildEnds(o) ==
  /\ mon[o] = "select"
  /\ mon' = [mon EXCEPT ![o] = "ended"]
  /\ UNCHANGED <<state, left, wake>>

\* The monitor: a first run that was too quick is fatal, otherwise
\* waitNextRetry, which gives up when no retry is left.
AfterEnd(o) ==
  /\ mon[o] = "ended"
  /\ \/ left[o] = Retries /\ Becomes(o, "Fatal", "none") /\ UNCHANGED left
     \/ /\ left[o] = 0 /\ Becomes(o, "Fatal", "none")
        /\ left' = [left EXCEPT ![o] = Retries]
     \/ /\ left[o] > 0 /\ Becomes(o, "RetryWait", "retrying")
        /\ left' = [left EXCEPT ![o] = @ - 1]

RetryTimer(o) == mon[o] = "retrying" /\ Starts(o) /\ UNCHANGED left

\* stopCommand; without a command it goes to Stopped at once.
StopCommand(o) ==
  /\ \/ /\ mon[o] = "asked" /\ state[o] = "Running"
        /\ Becomes(o, "Stopping", "stopping")
     \/ /\ mon[o] = "asked" /\ state[o] # "Running"
        /\ Becomes(o, "Stopped", "none")
     \/ mon[o] = "stopping" /\ Becomes(o, "Stopped", "none")
  /\ UNCHANGED left

\* Mutant: only waitNextRetry calls Done.
ReleaseOnRetry(o) ==
  rst' = IF rst[o] = "wait" /\ mon'[o] = "retrying"
         THEN [rst EXCEPT ![o] = "start"] ELSE rst

\* stopWg.Done lets go the restart that waits.
Release(o) ==
  rst' = IF rst[o] = "wait" /\ mon'[o] \in {"none", "retrying"}
         THEN [rst EXCEPT ![o] = "start"] ELSE rst

Monitor(o) ==
  /\ \/ (Ready(o) \/ RetryTimer(o)) /\ UNCHANGED rst
     \/ (AfterEnd(o) \/ StopCommand(o)) /\ Release(o)
  /\ UNCHANGED <<procs, num, listed, hand>>

Ends(o) == ChildEnds(o) /\ UNCHANGED <<procs, num, listed, rst, hand>>

-----------------------------------------------------------------------------
(* The goroutine of RestartEvent                                           *)

RestartTo(o, from, to) == rst[o] = from /\ rst' = [rst EXCEPT ![o] = to]

\* stopWg.Wait returns at once if no monitor owes a Done; one that is starting
\* may or may not have called Add.
Waits(o) ==
  CASE mon[o] \in {"none", "retrying"} -> {"start"}
    [] mon[o] = "starting" -> {"start", "wait"}
    [] OTHER -> {"wait"}

Restart(o) ==
  /\ \/ /\ RestartTo(o, "check", IF state[o] \in {"Running", "RetryWait"}
                                 THEN "stop" ELSE "none")
        /\ UNCHANGED <<slot, wake>>
     \/ /\ RestartTo(o, "stop", IF state[o] = "Running" THEN "send"
                                                       ELSE "stopped")
        /\ UNCHANGED <<slot, wake>>
     \/ RestartTo(o, "send", "stopped") /\ SendTerm(o)
     \/ /\ \E to \in Waits(o) : RestartTo(o, "stopped", to)
        /\ UNCHANGED <<slot, wake>>
     \/ RestartTo(o, "start", "none") /\ OperateStart(o)
  /\ UNCHANGED <<procs, num, listed, hand>>

-----------------------------------------------------------------------------
(* The handler that holds namesMu                                          *)

\* A name that is in no list and on which nothing runs names a new process.
Quiet(o) ==
  /\ mon[o] = "none" /\ rst[o] = "none"
  /\ \A k \in 1..Len(procs) : procs[k] # o

Goto(from, to) == apc = from /\ apc' = to

Return(from) == Goto(from, "idle") /\ op' = "start" /\ goal' = 0 /\ i' = 0

\* A request; hDelProgram takes the program from the map before all else.
\* The bounds: a process has a name, and one restart at a time.
Begin(o, n) ==
  /\ listed
  /\ o = "restart" => \A p \in Objs : rst[p] = "none"
  /\ o = "resize" => n - num <= Cardinality({p \in Objs : Quiet(p)})
  /\ Goto("idle", IF o = "delete" \/ (o = "resize" /\ n < num) THEN "shrink"
                  ELSE IF o = "resize" THEN "grow" ELSE "each")
  /\ op' = o /\ goal' = n
  /\ i' = IF apc' = "shrink" THEN num ELSE IF apc' = "grow" THEN num + 1 ELSE 1
  /\ listed' = (o # "delete")
  /\ UNCHANGED <<procs, num, slot, rst, wake>>

\* StartAll, StopAll, RestartAll: the loop over Processes.
Each ==
  /\ \/ i > Len(procs) /\ Return("each")
     \/ /\ i <= Len(procs) /\ UNCHANGED <<op, goal, i>>
        /\ Goto("each", IF op = "start" THEN "isRunning" ELSE "operate")
     \/ Goto("next", "each") /\ i' = i + 1 /\ UNCHANGED <<op, goal>>
  /\ UNCHANGED <<procs, num, listed, slot, rst, wake>>

\* UpdateProgram: more processes, started if the program starts by itself.
Grow ==
  \/ /\ i <= goal /\ Goto("grow", "grow") /\ i' = i + 1
     /\ \E o \in Objs :
          /\ Quiet(o) /\ procs' = Append(procs, o)
          /\ left' = [left EXCEPT ![o] = Retries]
          /\ IF StartAuto THEN Starts(o) ELSE Becomes(o, "Stopped", "none")
     /\ UNCHANGED <<num, listed, rst, op, goal>>
  \/ /\ i > goal /\ num' = goal /\ Return("grow")
     /\ UNCHANGED <<procs, listed, slot, rst, wake>>

\* Mutant: ProcessNum is not set.
ShrinkOnly ==
  /\ \/ /\ i > goal /\ Goto("shrink", "first")
        /\ UNCHANGED <<num, op, goal, i>>
     \/ /\ i <= goal /\ Return("shrink")
        /\ UNCHANGED num
  /\ UNCHANGED <<procs, listed, slot, rst, wake>>

\* UpdateProgram with fewer, StopAndWaitAll: from the last one down.  Only
\* UpdateProgram sets ProcessNum.
Shrink ==
  /\ \/ /\ i > goal /\ Goto("shrink", "first")
        /\ UNCHANGED <<num, op, goal, i>>
     \/ /\ i <= goal /\ Return("shrink")
        /\ num' = IF op = "resize" THEN goal ELSE num
  /\ UNCHANGED <<procs, listed, slot, rst, wake>>

\* IsRunning reads the state twice, and may be told two different ones.
Reads(first, second, yes, no) ==
  \/ Goto(first, IF state[procs[i]] = "Running" THEN yes ELSE second)
  \/ Goto(second, IF state[procs[i]] = "RetryWait" THEN yes ELSE no)

\* Called by StartAll, by stopAndWait, and by its loop after an event.
IsRunning ==
  /\ \/ Reads("isRunning", "isRetrying", "next", "operate")
     \/ Reads("first", "firstRetry", "operate", "drop")
     \/ Reads("again", "againRetry", "await", "drop")
  /\ UNCHANGED <<procs, num, listed, slot, rst, op, goal, i, wake>>

Operated == IF op \in {"resize", "delete"} THEN "subscribe" ELSE "next"

\* A restart spawns its goroutine; a stop has a handler in Running only.
Operate ==
  LET o == procs[i] IN
  /\ apc = "operate"
  /\ \/ /\ op = "start" /\ Goto("operate", "next")
        /\ OperateStart(o) /\ UNCHANGED rst
     \/ /\ op = "restart" /\ Goto("operate", "next")
        /\ rst' = IF state[o] = "Running" THEN [rst EXCEPT ![o] = "check"]
                                          ELSE rst
        /\ UNCHANGED <<slot, wake>>
     \/ /\ op \notin {"start", "restart"}
        /\ Goto("operate", IF state[o] = "Running" THEN "send" ELSE Operated)
        /\ UNCHANGED <<slot, rst, wake>>
  /\ UNCHANGED <<procs, num, listed, op, goal, i>>

Send ==
  /\ Goto("send", Operated) /\ SendTerm(procs[i])
  /\ UNCHANGED <<procs, num, listed, rst, op, goal, i>>

\* Mutant: no history, the first event must come after the subscription.
SubscribeLate ==
  /\ Goto("subscribe", "await") /\ wake' = FALSE
  /\ UNCHANGED <<procs, num, listed, slot, rst, op, goal, i>>

\* stopAndWait: the history of the broadcaster is a first event.
Subscribe ==
  /\ Goto("subscribe", "await") /\ wake' = TRUE
  /\ UNCHANGED <<procs, num, listed, slot, rst, op, goal, i>>

Woken ==
  /\ wake /\ Goto("await", "again") /\ wake' = FALSE
  /\ UNCHANGED <<procs, num, listed, slot, rst, op, goal, i>>

\* The element is set to nil, the list is cut after that: at "cut" procs[i] is
\* nil for who looks at the list without namesMu.
SetNil ==
  /\ Goto("drop", "cut") /\ wake' = FALSE
  /\ UNCHANGED <<procs, num, listed, slot, rst, op, goal, i>>

\* Mutant: the first process is taken out.
CutFirst ==
  /\ Goto("cut", "shrink")
  /\ procs' = Tail(procs) /\ i' = i - 1
  /\ UNCHANGED <<num, listed, slot, rst, op, goal, wake>>

Cut ==
  /\ Goto("cut", "shrink")
  /\ procs' = SubSeq(procs, 1, i - 1) /\ i' = i - 1
  /\ UNCHANGED <<num, listed, slot, rst, op, goal, wake>>

HandlerStep == \/ Each \/ Grow \/ Shrink \/ IsRunning \/ Operate \/ Send
               \/ Subscribe \/ Woken \/ SetNil \/ Cut

-----------------------------------------------------------------------------
Next ==
  \/ \E o \in Ops : IF o = "resize" THEN \E n \in 0..MaxNum : Begin(o, n)
                                     ELSE Begin(o, 0)
  \/ HandlerStep
  \/ \E o \in Objs : Monitor(o) \/ Ends(o) \/ Restart(o)

Spec == Init /\ [][Next]_vars

\* Goroutines run and timers fire; no child has to end, no request to come.
Fairness ==
  /\ WF_vars(HandlerStep)
  /\ \A o \in Objs : WF_vars(Monitor(o)) /\ WF_vars(Restart(o))

FairSpec == Spec /\ Fairness

-----------------------------------------------------------------------------
(* Properties *)

\* Between requests Processes is as long as ProcessNum says, which
\* StopAndWaitAll and the loops of UpdateProgram rely on for their indices.
NumMatches == listed /\ apc = "idle" => Len(procs) = num

\* The loop that removes processes never indexes past Processes, though it
\* counts from ProcessNum.
IndexInRange ==
  apc \in {"first", "firstRetry", "operate", "send", "again", "againRetry",
           "await", "drop", "cut", "isRunning", "isRetrying"} => i \in 1..Len(procs)

\* The list and its numbers fit, whatever restarts and monitors do in the
\* middle of a loop (UpdateProgram, StopAndWaitAll).
ListSound == TypeOK /\ NumMatches /\ IndexInRange

\* UpdateProgram with fewer processes removes the last ones; those that stay
\* are neither stopped nor replaced.
Survivors ==
  [][op = "resize" /\ apc \notin {"idle", "grow"} =>
       \A n \in 1..goal :
         /\ procs'[n] = procs[n]
         /\ HandlerStep => mon'[procs[n]] = mon[procs[n]]]_vars

\* stopAndWait comes back if the monitor took the stop and nobody restarts
\* the process: the event of Stopping or Stopped finds it not running.
TakenStopReturns ==
  \A o \in Objs :
    (/\ apc \in {"subscribe", "await"} /\ procs[i] = o /\ mon[o] = "asked"
     /\ \A p \in Objs : rst[p] = "none")
      ~> (o \notin {procs[k] : k \in 1..Len(procs)} \/ apc = "idle")

\* The goroutine of a restart, once the monitor took its stop, is let go and
\* starts the process, whatever the handler does with the process meanwhile.
RestartEnds ==
  \A o \in Objs : (rst[o] = "wait" /\ mon[o] = "asked") ~> (rst[o] = "none")

(* What the repository says, and the code does not do.                     *)

\* supervisor.go:223, "close every process": when the removal of the program
\* has returned none of its processes runs again.
RemovedStaysDown ==
  ~listed /\ apc = "idle" =>
    \A o \in Objs : state[o] \notin {"Running", "RetryWait"}
=============================================================================
