---------------------------- MODULE MCBroadcast ----------------------------
(***************************************************************************)
(* Two instances in one run, told apart by a choice made at the start: two *)
(* publishers of events and a browser, and one publisher of output, with   *)
(* fewer messages, a browser and a stopAndWait.                            *)
(***************************************************************************)
EXTENDS Broadcast

VARIABLE instance

Drain == CHOOSE p \in Pubs : TRUE

InstanceInit == Init /\ instance \in {"events", "log"}

InstanceNext ==
  /\ Next
  /\ instance' = instance
  /\ instance = "events" => \A w \in Watchers : pc'[w] = "idle"
  /\ instance = "log" => /\ sent' < MaxMsgs
                         /\ \A p \in Pubs \ {Drain} : pc'[p] = "idle"

InstanceSpec ==
  InstanceInit /\ [][InstanceNext]_<<vars, instance>> /\ Fairness

\* HistoryComplete is for the outputs, which have one publisher.
OutputComplete == instance = "log" => HistoryComplete
=============================================================================
