------------------------------ MODULE Process ------------------------------
(***************************************************************************)
(* One supervised slot (type Process): its finite state machine, the       *)
(* command it runs, the goroutine that monitors the command, the retry     *)
(* loop, stopCommand, and the callers that operate the machine.            *)
(*                                                                         *)
(* Threads.  Api is the one HTTP handler that holds Supervisor.namesMu: a  *)
(* handler keeps that mutex for its whole call, so handlers are serial.    *)
(* Restarters are the goroutines a RestartEvent spawns; they hold nothing. *)
(* A member of Runs names one startCommand: the KCommand it builds and,    *)
(* once started, the child and the goroutine that monitors it.  A name     *)
(* nobody refers to any more is used again.                                *)
(***************************************************************************)
EXTENDS Integers, FiniteSets

CONSTANTS
  Runs,          \* names of commands, of their children and their monitors
  Restarters,    \* names of the goroutines of RestartEvent
  Api,           \* the holder of namesMu
  Nil,           \* Go's nil
  StartRetries,  \* Program.StartRetries
  StartAuto,     \* Program.StartAuto: InitProgram starts the slot
  Events,        \* the requests that arrive, among "start", "stop", "restart"
  Elapsed,       \* how long a child may live: "quick", "normal", "long"
  MaxOverlaps    \* the bound on the startCommands counted by overlaps

Callers == {Api} \cup Restarters
Threads == Callers \cup Runs

ASSUME ProcessAssumption ==
  /\ Api \notin Restarters /\ Runs \cap Callers = {} /\ Nil \notin Threads
  /\ IsFiniteSet(Runs) /\ StartRetries \in Int
  /\ StartAuto \in BOOLEAN
  /\ Events \subseteq {"start", "stop", "restart"}
  /\ Elapsed \subseteq {"quick", "normal", "long"}
  /\ MaxOverlaps \in Nat

VARIABLES
  state,       \* FSM.state
  cmd,         \* Process.cmd
  child,       \* run -> its OS process: "built" (not started), "live", "dead"
  retryLeft,   \* Process.retryLeft
  stopWg,      \* the counter of Process.stopWg, and its share of ProcessWg
  mu,          \* the holder of Process.mu
  pc,          \* where each thread is; "idle": between requests, not running
  event,       \* caller -> the event of its Operate
  waits,       \* run -> the command whose Wait its monitor is in
  panicked,    \* a goroutine without recover panicked: gosuv is gone
  overlaps     \* history: how many startCommands set p.cmd while another
               \* thread was in charge of the slot

fsm  == <<state, retryLeft>>
vars == <<state, cmd, child, retryLeft, stopWg, mu, pc, event, waits,
          panicked, overlaps>>

States == {"Stopped", "Fatal", "RetryWait", "Stopping", "Running"}

StartPcs == {"announce", "exec", "execFailed"}
StopPcs  == {"stopCheck", "stopNil", "stopping", "term", "grace", "reap",
             "stopDone", "clear"}
\* A thread here writes state, cmd or the child: it is in charge of the slot.
Charge   == StartPcs \cup StopPcs \cup
            {"add", "bind", "select", "quickFatal", "forget", "retry",
             "retryDone", "countdown", "retrySelect"}
Pcs      == Charge \cup {"idle", "isRunning", "isRetrying", "operate",
             "reset", "build", "send", "wait", "blocked", "woken",
             "fatalDone"}

TypeOK ==
  /\ state \in States
  /\ cmd \in Runs \cup {Nil}
  /\ child \in [Runs -> {"built", "live", "dead"}]
  /\ retryLeft \in Int
  /\ stopWg \in Nat
  /\ mu \in Runs \cup {Nil}
  /\ pc \in [Threads -> Pcs]
  /\ event \in [Callers -> {"start", "stop", "restart"}]
  /\ waits \in [Runs -> Runs \cup {Nil}]
  /\ panicked \in BOOLEAN
  /\ overlaps \in 0..MaxOverlaps

Init ==
  /\ state = "Stopped" /\ cmd = Nil /\ retryLeft = StartRetries
  /\ child = [g \in Runs |-> "dead"]
  /\ stopWg = 0 /\ mu = Nil
  /\ pc = [t \in Threads |->
             IF t = Api /\ StartAuto THEN "operate" ELSE "idle"]
  /\ event = [t \in Callers |-> "start"]
  /\ waits = [g \in Runs |-> Nil]
  /\ panicked = FALSE /\ overlaps = 0

-----------------------------------------------------------------------------
Goto(t, from, to) == pc[t] = from /\ pc' = [pc EXCEPT ![t] = to]

\* net/http recovers a panicking handler, whose deferred Unlock runs; a
\* panic of any other goroutine ends gosuv and leaves its children behind.
Panic(t) ==
  /\ IF t = Api THEN pc' = [pc EXCEPT ![t] = "idle"] /\ UNCHANGED panicked
                ELSE panicked' = TRUE /\ UNCHANGED pc
  /\ UNCHANGED <<fsm, cmd, child, stopWg, mu, event, waits, overlaps>>

\* WaitGroup.Done: a negative counter panics, zero releases every waiter.
Done(t, from, to) ==
  /\ pc[t] = from
  /\ \/ stopWg = 0 /\ Panic(t)
     \/ /\ stopWg > 0
        /\ stopWg' = stopWg - 1
        /\ pc' = [u \in Threads |->
                    IF u = t THEN to
                    ELSE IF stopWg = 1 /\ pc[u] = "blocked" THEN "woken"
                    ELSE pc[u]]
        /\ UNCHANGED <<fsm, cmd, child, mu, event, waits, panicked, overlaps>>

-----------------------------------------------------------------------------
(* Callers: the program's loops, FSM.Operate and the handlers of NewProcess *)

\* StartOne/StartAll look at IsRunning first; stop and restart do not.  The
\* bound: a restart is requested only if a name is left for its goroutine.
Request(e) ==
  /\ e = "restart" => \E r \in Restarters : pc[r] = "idle"
  /\ Goto(Api, "idle", IF e = "start" THEN "isRunning" ELSE "operate")
  /\ event' = [event EXCEPT ![Api] = e]
  /\ UNCHANGED <<fsm, cmd, child, stopWg, mu, waits, panicked, overlaps>>

\* What a caller does with the answer of IsRunning.
Answered(t, from, running) ==
  /\ IF t = Api
     THEN /\ Goto(t, from, IF running THEN "idle" ELSE "operate")
          /\ UNCHANGED event
     ELSE /\ Goto(t, from, IF running THEN "operate" ELSE "idle")
          /\ event' = [event EXCEPT ![t] = "stop"]
  /\ UNCHANGED <<fsm, cmd, child, stopWg, mu, waits, panicked, overlaps>>

\* IsRunning reads the state twice, and releases FSM.mu in between.
IsRunning(t) ==
  \/ state = "Running" /\ Answered(t, "isRunning", TRUE)
  \/ /\ state # "Running"
     /\ Goto(t, "isRunning", "isRetrying")
     /\ UNCHANGED <<fsm, cmd, child, stopWg, mu, event, waits, panicked,
                    overlaps>>
  \/ Answered(t, "isRetrying", state = "RetryWait")

\* Where a caller is when Operate has returned.
Operated(t) == IF t \in Restarters /\ event[t] = "stop" THEN "wait" ELSE "idle"

Handler(s, e) ==
  CASE s = "Stopped" /\ e = "start"   -> "reset"
    [] s = "Fatal"   /\ e = "start"   -> "build"
    [] s = "Running" /\ e = "stop"    -> "send"
    [] s = "Running" /\ e = "restart" -> "spawn"
    [] OTHER                          -> "none"

\* FSM.Operate: the state is read once; the handler runs without FSM.mu.
Operate(t) ==
  LET h == Handler(state, event[t]) IN
  /\ pc[t] = "operate"
  /\ CASE h = "spawn" -> \E r \in Restarters :
                            /\ pc[r] = "idle"
                            /\ pc' = [pc EXCEPT ![t] = "idle",
                                                ![r] = "isRunning"]
       [] h = "none"  -> pc' = [pc EXCEPT ![t] = Operated(t)]
       [] OTHER       -> pc' = [pc EXCEPT ![t] = h]
  /\ UNCHANGED <<fsm, cmd, child, stopWg, mu, event, waits, panicked,
                 overlaps>>

\* Handler of Stopped/StartEvent: the retries are counted from the top.
Reset(t) ==
  /\ Goto(t, "reset", "build")
  /\ retryLeft' = StartRetries
  /\ UNCHANGED <<state, cmd, child, stopWg, mu, event, waits, panicked,
                 overlaps>>

Receivers == {r \in Runs : pc[r] \in {"select", "retrySelect"}}

\* Mutant: a send that timed out is tried again.
SendStopAgain(t) ==
  /\ pc[t] = "send"
  /\ \/ \E r \in Receivers :
          pc' = [pc EXCEPT ![t] = Operated(t), ![r] = "stopCheck"]
     \/ Receivers = {} /\ pc' = [pc EXCEPT ![t] = "operate"]
  /\ UNCHANGED <<fsm, cmd, child, stopWg, mu, event, waits, panicked,
                 overlaps>>

\* Handler of Running/StopEvent: stopC is unbuffered, a monitor must be in a
\* select on it; the send is given up after 200ms without one.
SendStop(t) ==
  /\ pc[t] = "send"
  /\ \/ \E r \in Receivers :
          pc' = [pc EXCEPT ![t] = Operated(t), ![r] = "stopCheck"]
     \/ Receivers = {} /\ pc' = [pc EXCEPT ![t] = Operated(t)]
  /\ UNCHANGED <<fsm, cmd, child, stopWg, mu, event, waits, panicked,
                 overlaps>>

\* stopWg.Wait of a restart, then its StartEvent.  A waiter that is released
\* but finds the counter in use again panics (sync.WaitGroup).
WaitStopped(t) ==
  \/ /\ stopWg > 0
     /\ Goto(t, "wait", "blocked")
     /\ UNCHANGED <<fsm, cmd, child, stopWg, mu, event, waits, panicked,
                    overlaps>>
  \/ /\ stopWg = 0
     /\ Goto(t, "wait", "operate") \/ Goto(t, "woken", "operate")
     /\ event' = [event EXCEPT ![t] = "start"]
     /\ UNCHANGED <<fsm, cmd, child, stopWg, mu, waits, panicked, overlaps>>
  \/ stopWg > 0 /\ pc[t] = "woken" /\ Panic(t)

-----------------------------------------------------------------------------
(* startCommand, run by a caller or by the monitor that retries            *)

InCharge(t) == pc[t] \in Charge

Free(g) ==
  /\ pc[g] = "idle" /\ child[g] # "live" /\ cmd # g
  /\ \A r \in Runs : waits[r] # g

BuildCommand(g) == Free(g) /\ child' = [child EXCEPT ![g] = "built"]

Overlapping(t) == \E u \in Threads \ {t} : InCharge(u)

\* The bounds: a name is left, and MaxOverlaps is not reached.
CanBuild(t) ==
  /\ \E g \in Runs : Free(g)
  /\ Overlapping(t) => overlaps < MaxOverlaps

Held(t) == pc[t] = "build" /\ ~CanBuild(t)

Build(t) ==
  /\ CanBuild(t)
  /\ Goto(t, "build", "announce")
  /\ \E g \in Runs : BuildCommand(g) /\ cmd' = g
  /\ overlaps' = IF Overlapping(t) THEN overlaps + 1 ELSE overlaps
  /\ UNCHANGED <<fsm, stopWg, mu, event, waits, panicked>>

\* Mutant: Running is not shown until the child has started.
AnnounceLate(t) ==
  /\ cmd # Nil
  /\ Goto(t, "announce", "exec")
  /\ UNCHANGED <<fsm, cmd, child, stopWg, mu, event, waits, panicked,
                 overlaps>>

Announce(t) ==
  \/ cmd = Nil /\ pc[t] = "announce" /\ Panic(t)
  \/ /\ cmd # Nil
     /\ Goto(t, "announce", "exec")
     /\ state' = "Running"
     /\ UNCHANGED <<retryLeft, cmd, child, stopWg, mu, event, waits, panicked,
                    overlaps>>

\* cmd.Start may fail, and fails if the command has been started before; if
\* it succeeds the monitor is spawned and startCommand returns.
Exec(t) ==
  /\ pc[t] = "exec"
  /\ \/ cmd = Nil /\ Panic(t)
     \/ /\ cmd # Nil
        /\ \/ /\ child[cmd] = "built"
              /\ child' = [child EXCEPT ![cmd] = "live"]
              /\ pc' = [pc EXCEPT ![t] = "idle", ![cmd] = "add"]
           \/ pc' = [pc EXCEPT ![t] = "execFailed"] /\ UNCHANGED child
        /\ UNCHANGED <<fsm, cmd, stopWg, mu, event, waits, panicked, overlaps>>

ExecFailed(t) ==
  /\ Goto(t, "execFailed", "idle")
  /\ state' = "Fatal"
  /\ UNCHANGED <<retryLeft, cmd, child, stopWg, mu, event, waits, panicked,
                 overlaps>>

-----------------------------------------------------------------------------
(* The monitor: the goroutine at the end of startCommand                   *)

Add(r) ==
  /\ Goto(r, "add", "bind")
  /\ stopWg' = stopWg + 1
  /\ UNCHANGED <<fsm, cmd, child, mu, event, waits, panicked, overlaps>>

\* GoFunc(p.cmd.Wait): Wait of a nil command panics in its goroutine.
Bind(r) ==
  \/ cmd = Nil /\ pc[r] = "bind" /\ Panic(r)
  \/ /\ cmd # Nil
     /\ Goto(r, "bind", "select")
     /\ waits' = [waits EXCEPT ![r] = cmd]
     /\ UNCHANGED <<fsm, cmd, child, stopWg, mu, event, panicked, overlaps>>

Exited(r) == child[waits[r]] # "live"

\* The select takes errC: the first run that ends too quickly is fatal, a run
\* of ten minutes gives back the retry that is about to be taken.
ChildEnded(r) ==
  /\ pc[r] = "select" /\ Exited(r)
  /\ \E e \in Elapsed :
       IF e = "quick" /\ retryLeft = StartRetries
       THEN /\ pc' = [pc EXCEPT ![r] = "quickFatal"]
            /\ UNCHANGED retryLeft
       ELSE /\ pc' = [pc EXCEPT ![r] = "forget"]
            /\ retryLeft' = IF e = "long" THEN retryLeft + 1 ELSE retryLeft
  /\ waits' = [waits EXCEPT ![r] = Nil]
  /\ UNCHANGED <<state, cmd, child, stopWg, mu, event, panicked, overlaps>>

QuickFatal(r) ==
  /\ Goto(r, "quickFatal", "fatalDone")
  /\ state' = "Fatal"
  /\ UNCHANGED <<retryLeft, cmd, child, stopWg, mu, event, waits, panicked,
                 overlaps>>

\* Mutant: the quick exit forgets its Done.
FatalWithoutDone(r) ==
  /\ Goto(r, "fatalDone", "idle")
  /\ UNCHANGED <<fsm, cmd, child, stopWg, mu, event, waits, panicked,
                 overlaps>>

FatalDone(r) == Done(r, "fatalDone", "idle")

Forget(r) ==
  \/ cmd = Nil /\ pc[r] = "forget" /\ Panic(r)
  \/ /\ cmd # Nil
     /\ Goto(r, "forget", "retry")
     /\ cmd' = Nil
     /\ UNCHANGED <<fsm, child, stopWg, mu, event, waits, panicked, overlaps>>

(* waitNextRetry *)
Retry(r) ==
  /\ \/ /\ retryLeft <= 0
        /\ Goto(r, "retry", "fatalDone")
        /\ retryLeft' = StartRetries
        /\ state' = "Fatal"
     \/ /\ retryLeft > 0
        /\ Goto(r, "retry", "retryDone")
        /\ state' = "RetryWait"
        /\ UNCHANGED retryLeft
  /\ UNCHANGED <<cmd, child, stopWg, mu, event, waits, panicked, overlaps>>

RetryDone(r) == Done(r, "retryDone", "countdown")

\* Mutant: a retry is not counted.
CountdownFree(r) ==
  /\ Goto(r, "countdown", "retrySelect")
  /\ UNCHANGED <<fsm, cmd, child, stopWg, mu, event, waits, panicked,
                 overlaps>>

Countdown(r) ==
  /\ Goto(r, "countdown", "retrySelect")
  /\ retryLeft' = retryLeft - 1
  /\ UNCHANGED <<state, cmd, child, stopWg, mu, event, waits, panicked,
                 overlaps>>

\* time.After(2s): this goroutine runs startCommand, then returns.
RetryTimer(r) ==
  /\ Goto(r, "retrySelect", "build")
  /\ UNCHANGED <<fsm, cmd, child, stopWg, mu, event, waits, panicked,
                 overlaps>>

-----------------------------------------------------------------------------
(* stopCommand, run by the monitor that received from stopC                *)

StopCheck(r) ==
  /\ mu = Nil
  /\ Goto(r, "stopCheck", IF cmd = Nil THEN "stopNil" ELSE "stopping")
  /\ mu' = r
  /\ UNCHANGED <<fsm, cmd, child, stopWg, event, waits, panicked, overlaps>>

\* Mutant: a Done where the retry's own Done came before.
StopNilDone(r) ==
  /\ Goto(r, "stopNil", "idle")
  /\ waits' = [waits EXCEPT ![r] = Nil]
  /\ state' = "Stopped"
  /\ mu' = Nil
  /\ stopWg' = stopWg - 1
  /\ UNCHANGED <<retryLeft, cmd, child, event, panicked, overlaps>>

StopNil(r) ==
  /\ Goto(r, "stopNil", "idle")
  /\ waits' = [waits EXCEPT ![r] = Nil]
  /\ state' = "Stopped"
  /\ mu' = Nil
  /\ UNCHANGED <<retryLeft, cmd, child, stopWg, event, panicked, overlaps>>

Stopping(r) ==
  /\ Goto(r, "stopping", "term")
  /\ state' = "Stopping"
  /\ UNCHANGED <<retryLeft, cmd, child, stopWg, mu, event, waits, panicked,
                 overlaps>>

\* SIGTERM, which the child may ignore, then GoFunc(p.cmd.Wait).
Term(r) ==
  \/ cmd = Nil /\ pc[r] = "term" /\ Panic(r)
  \/ /\ cmd # Nil
     /\ Goto(r, "term", "grace")
     /\ waits' = [waits EXCEPT ![r] = cmd]
     /\ UNCHANGED <<fsm, cmd, child, stopWg, mu, event, panicked, overlaps>>

\* The child ended within StopTimeout, or the timeout kills its group and it
\* will end; both ways the Wait that follows is of the command p.cmd is now.
Grace(r) ==
  \/ cmd = Nil /\ pc[r] = "grace" /\ Panic(r)
  \/ /\ cmd # Nil
     /\ Goto(r, "grace", "reap")
     /\ waits' = [waits EXCEPT ![r] = cmd]
     /\ UNCHANGED <<fsm, cmd, child, stopWg, mu, event, panicked, overlaps>>

Killed(g) == \E r \in Runs : pc[r] = "reap" /\ waits[r] = g

\* Mutants: Stopped without the last Wait; p.cmd cleared before the last use.
ReapWithoutWait(r) ==
  /\ Goto(r, "reap", "stopDone")
  /\ waits' = [waits EXCEPT ![r] = Nil]
  /\ state' = "Stopped"
  /\ UNCHANGED <<retryLeft, cmd, child, stopWg, mu, event, panicked, overlaps>>

ReapAndForget(r) ==
  /\ Goto(r, "reap", "stopDone")
  /\ Exited(r)
  /\ waits' = [waits EXCEPT ![r] = Nil]
  /\ state' = "Stopped" /\ cmd' = Nil
  /\ UNCHANGED <<retryLeft, child, stopWg, mu, event, panicked, overlaps>>

Reap(r) ==
  /\ Goto(r, "reap", "stopDone")
  /\ Exited(r)
  /\ waits' = [waits EXCEPT ![r] = Nil]
  /\ state' = "Stopped"
  /\ UNCHANGED <<retryLeft, cmd, child, stopWg, mu, event, panicked, overlaps>>

StopDone(r) == Done(r, "stopDone", "clear")

Clear(r) ==
  \/ cmd = Nil /\ pc[r] = "clear" /\ Panic(r)
  \/ /\ cmd # Nil
     /\ Goto(r, "clear", "idle")
     /\ cmd' = Nil
     /\ mu' = Nil
     /\ UNCHANGED <<fsm, child, stopWg, event, waits, panicked, overlaps>>

-----------------------------------------------------------------------------
\* The operating system: a child ends by itself, whenever it likes.
ChildExits(g) ==
  /\ child[g] = "live"
  /\ child' = [child EXCEPT ![g] = "dead"]
  /\ UNCHANGED <<fsm, cmd, stopWg, mu, pc, event, waits, panicked, overlaps>>

StartStep(t)  == Build(t) \/ Announce(t) \/ Exec(t) \/ ExecFailed(t)
CallerStep(t) == \/ IsRunning(t) \/ Operate(t) \/ Reset(t) \/ SendStop(t)
                 \/ WaitStopped(t)
RetryStep(r)  == \/ Retry(r) \/ RetryDone(r) \/ Countdown(r) \/ RetryTimer(r)
StopStep(r)   == \/ StopCheck(r) \/ StopNil(r) \/ Stopping(r) \/ Term(r)
                 \/ Grace(r) \/ Reap(r) \/ StopDone(r) \/ Clear(r)
MonitorStep(r) == \/ Add(r) \/ Bind(r) \/ ChildEnded(r) \/ QuickFatal(r)
                  \/ FatalDone(r) \/ Forget(r) \/ RetryStep(r) \/ StopStep(r)

\* gosuv ends with the panic of a goroutine; a bound holds a startCommand.
Ended == panicked \/ \E t \in Threads : Held(t)

Next ==
  \/ /\ ~panicked
     /\ \/ \E e \in Events : Request(e)
        \/ \E t \in Callers : CallerStep(t)
        \/ \E t \in Threads : StartStep(t)
        \/ \E r \in Runs : MonitorStep(r)
        \/ \E g \in Runs : ChildExits(g)
  \/ Ended /\ UNCHANGED vars

Spec == Init /\ [][Next]_vars

\* The Go scheduler runs every goroutine that can run, and every timer fires.
\* A killed child ends.  Nothing is assumed of requests, and nothing of a
\* child that nobody kills.
Fairness ==
  /\ \A t \in Callers : WF_vars(~panicked /\ CallerStep(t))
  /\ \A t \in Threads : WF_vars(~panicked /\ StartStep(t))
  /\ \A r \in Runs : WF_vars(~panicked /\ MonitorStep(r))
  /\ \A g \in Runs : WF_vars(~panicked /\ Killed(g) /\ ChildExits(g))

FairSpec == Spec /\ Fairness

-----------------------------------------------------------------------------
(***************************************************************************)
(* Properties.  A startCommand that sets p.cmd while another thread is in  *)
(* charge of the slot ruins the slot (see OneChild), and nothing in the    *)
(* code forbids it.  The properties guarded by Serial say that this is the *)
(* only thing that does: they hold in every state up to the first overlap. *)
(***************************************************************************)
Serial == overlaps = 0

OneInCharge == Serial =>
  \A t, u \in Threads : InCharge(t) /\ InCharge(u) => t = u

\* Where the monitor of a live child is.
Watching == {"add", "bind", "select", "stopCheck", "stopping", "term", "grace",
             "reap"}

\* No orphan and no second child: a live child is the command in p.cmd, and
\* its own monitor is on the way to the Wait that sees it end (process.go:
\* startCommand spawns, waitNextRetry and stopCommand end the watch).
SoleChild == Serial =>
  \A g \in Runs : child[g] = "live" => cmd = g /\ pc[g] \in Watching

\* stopCommand and waitNextRetry set p.cmd to nil and other code of the same
\* process dereferences it: no thread is about to do so while it is nil.
NoNilCommand == Serial =>
  \A t \in Threads :
    pc[t] \in {"announce", "exec", "bind", "forget", "term", "grace", "clear"}
      => cmd # Nil

\* Monitors between stopWg.Add and the Done that matches it.
Counted(r) ==
  \/ pc[r] \in {"bind", "select", "quickFatal", "forget", "retry", "retryDone",
                "fatalDone", "stopping", "term", "grace", "reap", "stopDone"}
  \/ pc[r] = "stopCheck" /\ cmd # Nil

\* Each Add has exactly one Done on every way out of the monitor: no Wait is
\* left blocked for ever (a restart, or gosuv's exit), no Done is negative.
DonesMatchAdds == Serial => stopWg = Cardinality({r \in Runs : Counted(r)})

Promise == INSTANCE Slot
             WITH children <- {g \in Runs : child[g] = "live"}

\* Seen from outside a slot without overlaps is a Slot: at most one child,
\* born and dead while Running or Stopping shows, rest shown only without a
\* child, and Stopping always shown on the way from Running to Stopped.
ImplementsSlot == Promise!Spec

\* A handler that holds namesMu gives it back, whatever the process does: the
\* send to stopC is given up when no monitor listens (NewProcess).
ApiReturns ==
  (pc[Api] # "idle") ~> (pc[Api] = "idle" \/ panicked \/ Held(Api))

NoChild == \A g \in Runs : child[g] # "live"

\* A stop that the monitor has received is final: unless something starts the
\* process again it ends in Stopped, without a child, and stays there.
StopIsFinal ==
  \A r \in Runs : (pc[r] = "stopCheck") ~> [](state = "Stopped" => NoChild)
                                           /\ <>[](state = "Stopped")

\* Retries come to an end: if no child lives for ever, nor for the ten minutes
\* that give a retry back, the process comes to rest by itself.
GivesUp == []<>NoChild => <>[](state \in {"Fatal", "Stopped"})

(* What the repository says, and the code does not do.                     *)

\* program.go:29, process_num is "the number of processes that run at the same
\* time": one slot, one child.
OneChild == Cardinality({g \in Runs : child[g] = "live"}) <= 1

=============================================================================
