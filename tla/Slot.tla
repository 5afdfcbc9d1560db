-------------------------------- MODULE Slot --------------------------------
(***************************************************************************)
(* What a supervised slot promises to those who look at it: the state that *)
(* FSM.State shows and the children that really run.  There is one child   *)
(* at most, it is born and dies while the slot shows Running or Stopping,  *)
(* and the state moves along Edges.  Process implements this.              *)
(***************************************************************************)
CONSTANT Runs  \* the names of children

VARIABLES
  state,    \* what FSM.State shows
  children  \* the children that run

vars == <<state, children>>

\* The moves the calls of SetState make.  Stopping comes before Stopped unless nothing runs,
\* and only rest or RetryWait leads to Running.
Edges == {<<"Stopped", "Running">>, <<"Fatal", "Running">>,
          <<"RetryWait", "Running">>, <<"Running", "Fatal">>,
          <<"Running", "RetryWait">>, <<"RetryWait", "Stopped">>,
          <<"Running", "Stopping">>, <<"Stopping", "Stopped">>}

Init == state = "Stopped" /\ children = {}

\* The state is changed.  Rest is shown only when nothing runs.
Show(s) ==
  /\ <<state, s>> \in Edges
  /\ s \in {"Running", "Stopping"} \/ children = {}
  /\ state' = s
  /\ UNCHANGED children

\* cmd.Start succeeds.
Born(g) ==
  /\ state = "Running" /\ children = {}
  /\ children' = {g}
  /\ UNCHANGED state

\* The child ends, by itself or killed.
Dies ==
  /\ children # {} /\ state \in {"Running", "Stopping"}
  /\ children' = {}
  /\ UNCHANGED state

Next == \/ \E s \in {"Stopped", "Fatal", "RetryWait", "Stopping", "Running"} :
             Show(s)
        \/ \E g \in Runs : Born(g)
        \/ Dies

Spec == Init /\ [][Next]_vars
=============================================================================
