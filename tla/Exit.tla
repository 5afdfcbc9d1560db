--------------------------------- MODULE Exit ---------------------------------
(***************************************************************************)
(* The end of gosuv by a signal (catchExitSignal), beside everything that  *)
(* goes on with a program: the main goroutine stops every process, without *)
(* namesMu, and waits for ProcessWg.  The web server still takes requests; *)
(* restarts and retries still start processes.                             *)
(***************************************************************************)
EXTENDS Program

VARIABLES
  main,    \* where the main goroutine is
  k,       \* its index in StopAll, from 1
  asking,  \* the process whose stopC it sends to: {} or {o}
  calm     \* history: processes that were at rest or ran when the signal came,
           \* whose child did not end by itself and which nobody started since

exiting  == <<main, k, asking, calm>>
exitVars == <<vars, exiting>>

\* The monitors that called ProcessWg.Add, and not yet Done: Add comes in the
\* monitor's goroutine, a process that waits for its retry is not counted.
ProcessWg ==
  {o \in Objs : \/ mon[o] \in {"select", "ended", "stopping"}
                \/ mon[o] = "asked" /\ state[o] = "Running"}

ExitInit == Init /\ main = "serving" /\ k = 1 /\ asking = {} /\ calm = {}

Listed(o) == \E j \in 1..Len(procs) : procs[j] = o

StaysCalm == calm' = {o \in calm : mon'[o] \notin {"starting", "ended"}}

\* ProcessWg.Wait; who waits is released by the Done that brings it to zero,
\* and is not held up again by a later Add.
AtWait == IF ProcessWg = {} THEN "woken" ELSE "wait"

\* A step of anybody else, while gosuv is there.
While(step) ==
  /\ main \notin {"over", "panicked"} /\ step
  /\ main' = IF main = "wait" /\ ProcessWg' = {} THEN "woken" ELSE main
  /\ UNCHANGED <<k, asking>> /\ StaysCalm

\* SIGINT or SIGTERM: Close goes over name2Program.
Signal ==
  /\ main = "serving"
  /\ main' = IF listed THEN "close" ELSE AtWait
  /\ calm' = {o \in Objs : listed /\ Listed(o) /\ mon[o] \in {"none", "select"}}
  /\ UNCHANGED <<vars, k, asking>>

\* Mutant: the last process is forgotten.
StopAllButLast ==
  /\ main = "close" /\ asking = {}
  /\ main' = IF k >= Len(procs) THEN AtWait ELSE "turn"
  /\ UNCHANGED <<vars, k, asking, calm>>

\* StopAll: the condition of its loop.
StopAll ==
  /\ main = "close" /\ asking = {}
  /\ main' = IF k > Len(procs) THEN AtWait ELSE "turn"
  /\ UNCHANGED <<vars, k, asking, calm>>

\* A turn, up to the send: a stop has a handler in Running only.  A handler may
\* have set the element to nil, or cut it off, in the meantime: nobody recovers
\* the panic.
Turn ==
  /\ main = "turn"
  /\ IF k > Len(procs) \/ (apc = "cut" /\ k = i)
     THEN main' = "panicked" /\ UNCHANGED <<k, asking>>
     ELSE /\ main' = "close" /\ k' = k + 1
          /\ asking' = IF state[procs[k]] = "Running" THEN {procs[k]} ELSE {}
  /\ UNCHANGED <<vars, calm>>

StopSend ==
  /\ \E o \in asking : SendTerm(o)
  /\ asking' = {} /\ StaysCalm
  /\ UNCHANGED <<procs, num, listed, rst, hand, main, k>>

\* Mutant: gosuv does not wait.
OverAtOnce ==
  /\ main \in {"wait", "woken"} /\ main' = "over"
  /\ UNCHANGED <<vars, k, asking, calm>>

\* The main goroutine returns, and gosuv is gone with all its goroutines.
Over ==
  /\ main = "woken" /\ main' = "over"
  /\ UNCHANGED <<vars, k, asking, calm>>

Main == StopAll \/ Turn \/ StopSend \/ Over

ExitNext == While(Next) \/ Signal \/ Main

ExitSpec == ExitInit /\ [][ExitNext]_exitVars

\* That of Program, while gosuv is there; no signal has to come.
ExitFairness ==
  /\ WF_exitVars(While(HandlerStep)) /\ WF_exitVars(Main)
  /\ \A o \in Objs :
       WF_exitVars(While(Monitor(o))) /\ WF_exitVars(While(Restart(o)))

-----------------------------------------------------------------------------
(* Properties *)

\* When gosuv says that it terminated, the children of the processes it found
\* at rest or running are gone, whatever handlers, restarts and monitors did in
\* between; a process that was retrying, or was started since, may live on
\* (catchExitSignal, StopAll, ProcessWg).
Gone == main \in {"woken", "over"} => \A o \in calm : mon[o] = "none"

\* A signal ends gosuv, be it by a panic, unless a process keeps it that was retrying, whose
\* child ended, that was started, or that runs on though it was taken out of
\* the list (stopAndWait reads RetryWait, then Running, as not running).
ExitEnds ==
  main # "serving" ~>
    \/ main \in {"over", "panicked"}
    \/ \E o \in Objs : mon[o] # "none" /\ ~(o \in calm /\ Listed(o))
=============================================================================
