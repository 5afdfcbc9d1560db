----------------------------- MODULE MCLogView -----------------------------
(***************************************************************************)
(* Two instances in one run, told apart by a choice made at the start: two *)
(* short texts whose window is opened, closed and paused at any time, and  *)
(* a longer one for a page that opens it once, cut in more ways.           *)
(***************************************************************************)
EXTENDS LogView

VARIABLE instance

\* Lines of a link that cannot be decoded, of a color code only, and of a hidden
\* file; and a link that cannot be decoded between a line and a hidden one, which
\* is shown if the color code at its end was cut.
SampleTexts == <<<<"up", "nl", "esc", "m", "nl">>, <<"ts", "nl">>,
                 <<"a", "nl", "up", "nl", "ts", "esc", "m", "nl">>>>

BadLinks == {<<"up">>}

Open == [window |-> {1, 2}, lines |-> {3}]

\* From the opening of the window on the page stays.
Once == [null |-> {"null", "connecting"}, connecting |-> {"connecting", "open"},
         open |-> {"open"}]

InstanceInit ==
  Init /\ instance \in {"window", "lines"} /\ tail \in Open[instance]

InstanceNext ==
  /\ Next
  /\ instance' = instance /\ tail' \in Open[instance]
  /\ \A t \in Targets \ Open[instance] : pos'[t] = 0
  /\ instance = "window" => \A t \in Targets : pos'[t] <= pos[t] + 2
  /\ instance = "lines" => follow' /\ sock' \in Once[sock]

InstanceSpec ==
  InstanceInit /\ [][InstanceNext]_<<vars, instance>> /\ Fairness
=============================================================================
