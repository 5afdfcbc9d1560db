----------------------------- MODULE MCProgram -----------------------------
(***************************************************************************)
(* Four instances in one run, told apart by a choice made at the start:    *)
(* updates of two processes without restarts, every operation on one       *)
(* process, the end of gosuv in the middle of these, and its end with two  *)
(* processes that nobody operates.                                         *)
(***************************************************************************)
EXTENDS Exit

VARIABLE instance

One == CHOOSE o \in Objs : TRUE

InstanceInit ==
  ExitInit /\ instance \in {"update", "restart", "exit", "exit of two"}

InstanceNext ==
  /\ ExitNext
  /\ instance' = instance
  /\ instance \in {"update", "restart"} => main' = "serving"
  /\ instance = "update" => op' # "restart"
  /\ instance \in {"restart", "exit"} =>
       goal' <= 1 /\ procs' \in {<<>>, <<One>>}
  /\ instance = "exit of two" => apc' \notin {"each", "shrink"}

InstanceSpec ==
  InstanceInit /\ [][InstanceNext]_<<exitVars, instance>> /\ ExitFairness

\* TakenStopReturns and RestartEnds, where gosuv goes on.
StopReturns == instance \in {"update", "restart"} => TakenStopReturns
RestartsEnd == instance \in {"update", "restart"} => RestartEnds
=============================================================================
