-------------------------- MODULE MCProcessCases -----------------------------
(***************************************************************************)
(* Three instances in one run, told apart by a choice made at the start:   *)
(* starts and stops that overlap, requests of every kind that do not, and  *)
(* stops alone.                                                            *)
(***************************************************************************)
EXTENDS Process

VARIABLE instance

InstanceInit == Init /\ instance \in {"overlap", "serial", "rest"}

InstanceNext ==
  /\ Next
  /\ instance' = instance
  /\ instance # "overlap" => overlaps' = 0
  /\ instance # "serial" => event'[Api] # "restart"
  /\ instance = "rest" => pc'[Api] # "isRunning"

InstanceSpec ==
  InstanceInit /\ [][InstanceNext]_<<vars, instance>> /\ Fairness

\* ApiReturns, where the instance holds an overlapping startCommand as well.
ApiComesBack ==
  (pc[Api] # "idle") ~>
    (\/ pc[Api] = "idle" \/ panicked \/ Held(Api)
     \/ instance # "overlap" /\ pc[Api] = "build" /\ Overlapping(Api))

\* StopIsFinal and GivesUp, where no start follows.
ComesToRest == instance = "rest" => StopIsFinal /\ GivesUp
=============================================================================
