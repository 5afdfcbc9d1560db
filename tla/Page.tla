--------------------------------- MODULE Page ---------------------------------
(***************************************************************************)
(* An open page (index.js, program.js) and the server it shows: the list   *)
(* of programs or processes is fetched again when an event arrives on the  *)
(* websocket /ws/events, which the page watches with heartbeats and opens  *)
(* again when it is lost.  The two pages differ in one place: index.js     *)
(* knows the echo of a heartbeat, program.js takes it for an event.        *)
(*                                                                         *)
(* JavaScript runs one callback at a time: an action is a callback, or a   *)
(* step of the server.  Time is counted in seconds, by Tick; callbacks     *)
(* that are due, and the echo of a healthy server, come before it.         *)
(* A name of Sockets is a call of newEventWatcher: its socket and the      *)
(* closure with its interval.  What nothing refers to is named again.      *)
(***************************************************************************)
EXTENDS Naturals, FiniteSets

CONSTANTS
  MaxVersion,  \* the bound on changes of the server's state
  MaxSockets,  \* names of sockets
  Period,      \* seconds between two heartbeats (5 in the code)
  Pause,       \* seconds before the next connection (3 in the code)
  MaxFaults    \* the bound on ends of gosuv and on clients it cuts off

ASSUME PageAssumption ==
  /\ MaxVersion \in Nat \ {0} /\ MaxSockets \in Nat \ {0} /\ MaxFaults \in Nat
  /\ Period \in Nat \ {0} /\ Pause \in Nat \ {0}

Sockets == 1..MaxSockets
None    == 0
Patience == 3  \* missed heartbeats that close a connection

VARIABLES
  page,       \* which page it is, "index" or "program"
  version,    \* the server's state, as the number of its changes
  under,      \* a change under way: "changed", its event not posted yet, or
              \* "announced", its event posted and its state not set yet
  early,      \* history: versions whose event came before them
  up,         \* gosuv runs
  wanted,     \* _refreshRequestNum > 0
  busy,       \* _refreshRequestTimeout # null
  timer,      \* the timeout of refreshRequest has not fired yet
  sent,       \* requests on their way to the server
  answers,    \* answers on their way to the page: the versions they show
  shown,      \* the version the page shows, 0 before the first
  ws,         \* socket -> its readyState
  srv,        \* socket -> where the server's handleWs is
  skip,       \* socket -> skipFirst
  ch,         \* socket -> messages in its channel of the broadcaster
  beat,       \* socket -> heartbeats sent and not echoed
  events,     \* W.events
  alive,      \* isConnectionAlive
  every,      \* closure -> its interval: 0 null, 1 due, n + 1: in n seconds
  missed,     \* closure -> missed_heartbeats
  reconnect,  \* the timeout of onclose: 0 none, 1 due, n + 1: in n seconds
  told,       \* history: socket -> the last version an event told it of
  faults      \* history: how many faults there were

server  == <<version, under, early>>
request == <<wanted, busy, timer, sent, answers, shown>>
handler == <<srv, skip, ch, told>>
watcher == <<ws, beat, events, alive, every, missed, reconnect>>
vars    == <<page, server, up, request, handler, watcher, faults>>

TypeOK ==
  /\ page \in {"index", "program"}
  /\ version \in 1..MaxVersion /\ early \subseteq 1..MaxVersion /\ up \in BOOLEAN
  /\ under \in {"none", "changed", "announced"}
  /\ wanted \in BOOLEAN /\ busy \in BOOLEAN /\ timer \in BOOLEAN
  /\ sent \in Nat /\ answers \subseteq 1..MaxVersion /\ shown \in 0..MaxVersion
  /\ ws \in [Sockets -> {"connecting", "open", "closing", "closed"}]
  /\ srv \in [Sockets -> {"none", "upgraded", "registered", "loop", "cut",
                          "gone"}]
  /\ skip \in [Sockets -> BOOLEAN] /\ ch \in [Sockets -> Nat]
  /\ beat \in [Sockets -> Nat]
  /\ events \in Sockets \cup {None} /\ alive \in BOOLEAN
  /\ every \in [Sockets -> 0..Period + 1]
  /\ missed \in [Sockets -> 0..Patience]
  /\ reconnect \in 0..Pause + 1
  /\ told \in [Sockets -> 0..MaxVersion] /\ faults \in 0..MaxFaults

\* The page was just loaded: vm.refresh(), then newEventWatcher().
Init ==
  /\ page \in {"index", "program"}
  /\ version = 1 /\ under = "none" /\ early = {} /\ up = TRUE
  /\ wanted = TRUE /\ busy = TRUE /\ timer = TRUE
  /\ sent = 0 /\ answers = {} /\ shown = 0
  /\ ws = [w \in Sockets |-> IF w = 1 THEN "connecting" ELSE "closed"]
  /\ srv = [w \in Sockets |-> "none"] /\ skip = [w \in Sockets |-> TRUE]
  /\ ch = [w \in Sockets |-> 0] /\ beat = [w \in Sockets |-> 0]
  /\ events = 1 /\ alive = TRUE
  /\ every = [w \in Sockets |-> 0] /\ missed = [w \in Sockets |-> 0]
  /\ reconnect = 0
  /\ told = [w \in Sockets |-> 0] /\ faults = 0

-----------------------------------------------------------------------------
(* Fetching the list: refresh, refreshRequest                              *)

\* A request is counted; a timeout is set unless one, or a fetch, is pending.
Refresh ==
  /\ wanted' = TRUE
  /\ busy' = TRUE
  /\ timer' = (timer \/ ~busy)
  /\ UNCHANGED <<sent, answers, shown>>

\* Mutant: the flag is given back when the timeout fires.
TimerFiresFree ==
  /\ timer
  /\ timer' = FALSE /\ wanted' = FALSE /\ busy' = FALSE
  /\ sent' = sent + 1
  /\ UNCHANGED <<page, server, up, answers, shown, handler, watcher, faults>>

TimerFires ==
  /\ timer
  /\ timer' = FALSE /\ wanted' = FALSE
  /\ sent' = sent + 1
  /\ UNCHANGED <<page, server, up, busy, answers, shown, handler, watcher,
                 faults>>

\* Mutant: what was asked for during the fetch is forgotten.
CompleteForgets == busy' = FALSE /\ timer' = FALSE

\* complete: the flag is cleared, and set again if more was asked for.
Complete == busy' = wanted /\ timer' = wanted

\* hGetProgramList, hProcesslist: the state at one moment, under namesMu.
Answer ==
  /\ up /\ sent > 0
  /\ sent' = sent - 1
  /\ answers' = answers \cup {version}
  /\ UNCHANGED <<page, server, up, wanted, busy, timer, shown, handler,
                 watcher, faults>>

Success(v) ==
  /\ v \in answers
  /\ answers' = answers \ {v} /\ shown' = v
  /\ Complete
  /\ UNCHANGED <<page, server, up, wanted, sent, handler, watcher, faults>>

Failure ==
  /\ ~up /\ sent > 0
  /\ sent' = sent - 1
  /\ Complete
  /\ UNCHANGED <<page, server, up, wanted, answers, shown, handler, watcher,
                 faults>>

-----------------------------------------------------------------------------
(* The server: changes of state, their events, the loop of handleWs        *)

\* The handlers change the table, and SetState a process's Status, which the
\* page of a program shows; the event is posted then.
Change ==
  /\ up /\ under = "none" /\ version < MaxVersion
  /\ version' = version + 1 /\ under' = "changed"
  /\ UNCHANGED <<page, early, up, request, handler, watcher, faults>>

Registered(w) == srv[w] \in {"registered", "loop"}

\* An event that tells of version v.
Tell(v) ==
  /\ ch' = [w \in Sockets |-> IF Registered(w) THEN ch[w] + 1 ELSE ch[w]]
  /\ told' = [w \in Sockets |-> IF Registered(w) THEN v ELSE told[w]]

Post ==
  /\ under = "changed" /\ under' = "none"
  /\ Tell(version)
  /\ UNCHANGED <<page, version, early, up, request, srv, skip, watcher, faults>>

\* SetState calls StateChange, which posts, and sets the state afterwards; the
\* list of programs reads the state without SetState's lock (UpdateState).
Announce ==
  /\ page = "index"
  /\ up /\ under = "none" /\ version < MaxVersion
  /\ under' = "announced" /\ early' = early \cup {version + 1}
  /\ Tell(version + 1)
  /\ UNCHANGED <<page, version, up, request, srv, skip, watcher, faults>>

SetState ==
  /\ under = "announced" /\ under' = "none"
  /\ version' = version + 1
  /\ UNCHANGED <<page, early, up, request, handler, watcher, faults>>

\* NewChanString registers the writer first, then sends it the history.
Register(w) ==
  /\ srv[w] = "upgraded"
  /\ srv' = [srv EXCEPT ![w] = "registered"]
  /\ UNCHANGED <<page, server, up, request, skip, ch, told, watcher, faults>>

SendHistory(w) ==
  /\ srv[w] = "registered"
  /\ srv' = [srv EXCEPT ![w] = "loop"]
  /\ ch' = [ch EXCEPT ![w] = @ + 1]
  /\ UNCHANGED <<page, server, up, request, skip, told, watcher, faults>>

\* What handleWs receives first it drops; the rest goes to onmessage, which
\* hears nothing once the page has closed the socket.
Forward(w) ==
  /\ srv[w] = "loop" /\ ch[w] > 0
  /\ ch' = [ch EXCEPT ![w] = @ - 1]
  /\ skip' = [skip EXCEPT ![w] = FALSE]
  /\ IF ~skip[w] /\ ws[w] = "open" THEN Refresh ELSE UNCHANGED request
  /\ UNCHANGED <<page, server, up, srv, told, watcher, faults>>

\* The fault of a slow client, see Broadcast: its writer is closed, the loop
\* ends, and nobody closes the connection.
CutOff(w) ==
  /\ Registered(w) /\ faults < MaxFaults
  /\ srv' = [srv EXCEPT ![w] = "cut"] /\ ch' = [ch EXCEPT ![w] = 0]
  /\ faults' = faults + 1
  /\ UNCHANGED <<page, server, up, request, skip, told, watcher>>

\* gosuv ends, with its connections, and is started again.
Crash ==
  /\ up /\ faults < MaxFaults
  /\ up' = FALSE /\ faults' = faults + 1
  /\ under' = "none" /\ early' = early \cap 1..version
  /\ srv' = [w \in Sockets |-> IF srv[w] = "none" THEN "none" ELSE "gone"]
  /\ ch' = [w \in Sockets |-> 0]
  /\ UNCHANGED <<page, version, request, skip, told, watcher>>

Restart ==
  /\ ~up /\ up' = TRUE
  /\ UNCHANGED <<page, server, request, handler, watcher, faults>>

-----------------------------------------------------------------------------
(* The page's end of the connection: newEventWatcher                       *)

\* Names that neither W.events nor an interval refers to.
Free == {w \in Sockets : ws[w] = "closed" /\ every[w] = 0 /\ srv[w] = "none"}

\* A new closure and its socket; the timeout of onclose calls it.
NewEventWatcher(w) ==
  /\ reconnect = 1 /\ w \in Free /\ \A v \in Free : w <= v
  /\ reconnect' = 0
  /\ events' = w
  /\ ws' = [ws EXCEPT ![w] = "connecting"]
  /\ beat' = [beat EXCEPT ![w] = 0] /\ missed' = [missed EXCEPT ![w] = 0]
  /\ UNCHANGED <<page, server, up, request, handler, alive, every, faults>>

\* The connection stands; onopen starts the interval of the closure.
OnOpen(w) ==
  /\ ws[w] = "connecting" /\ up
  /\ ws' = [ws EXCEPT ![w] = "open"]
  /\ alive' = TRUE
  /\ every' = [every EXCEPT ![w] = Period + 1]
  /\ missed' = [missed EXCEPT ![w] = 0]
  /\ srv' = [srv EXCEPT ![w] = "upgraded"]
  /\ UNCHANGED <<page, server, up, request, skip, ch, told, beat, events,
                 reconnect, faults>>

\* The socket is closed, by the peer, after close(), or it never opened.
CanClose(w) ==
  \/ ws[w] = "closing"
  \/ ws[w] = "open" /\ srv[w] \in {"cut", "gone"}
  \/ ws[w] = "connecting" /\ ~up

\* What the handler knew goes with it; the next one skips a message again.
HandlerEnds(w) ==
  /\ srv' = [srv EXCEPT ![w] = "none"] /\ ch' = [ch EXCEPT ![w] = 0]
  /\ skip' = [skip EXCEPT ![w] = TRUE] /\ told' = [told EXCEPT ![w] = 0]

OnClose(w) ==
  /\ CanClose(w)
  /\ ws' = [ws EXCEPT ![w] = "closed"] /\ beat' = [beat EXCEPT ![w] = 0]
  /\ HandlerEnds(w)
  /\ events' = None /\ alive' = FALSE
  /\ reconnect' = Pause + 1
  /\ UNCHANGED <<page, server, up, request, every, missed, faults>>

\* Mutant: no end to the patience.
ThrowsSeldom(n) == events = None \/ ws[events] = "connecting"

\* Mutant: one missed heartbeat is enough.
ThrowsEarly(n) == n >= 2 \/ events = None \/ ws[events] = "connecting"

\* The interval's function throws if too many echoes are missing, or there is
\* no socket, or send does, which it does before the socket is open.
Throws(n) == n >= Patience \/ events = None \/ ws[events] = "connecting"

\* Mutant: the interval stops, the connection stays.
ShutNot == ws

\* W.events.close().
Shut == IF events = None THEN ws ELSE [ws EXCEPT ![events] = "closing"]

\* The interval of closure w, which counts and sends on whatever W.events is.
\* Once it is cleared the count is not read again before onopen resets it.
Heartbeat(w) ==
  /\ every[w] = 1
  /\ LET n == missed[w] + 1 IN
     /\ missed' = [missed EXCEPT ![w] = IF Throws(n) THEN 0 ELSE n]
     /\ IF Throws(n)
        THEN /\ every' = [every EXCEPT ![w] = 0]
             /\ ws' = Shut /\ UNCHANGED beat
        ELSE /\ every' = [every EXCEPT ![w] = Period + 1]
             /\ beat' = IF ws[events] = "open"
                        THEN [beat EXCEPT ![events] = @ + 1] ELSE beat
             /\ UNCHANGED ws
  /\ UNCHANGED <<page, server, up, request, handler, events, alive, reconnect,
                 faults>>

Echoing(w) == /\ beat[w] > 0 /\ ws[w] = "open"
              /\ srv[w] \in {"upgraded", "registered", "loop"}

\* Mutant: only index.js's reading of an echo.
EchoIndex(w) ==
  /\ srv[w] = "loop" /\ Echoing(w)
  /\ beat' = [beat EXCEPT ![w] = @ - 1]
  /\ missed' = [missed EXCEPT ![w] = 0]
  /\ UNCHANGED <<page, server, up, request, handler, ws, events, alive, every,
                 reconnect, faults>>

\* handleWs echoes a heartbeat.  The closure of the socket, not the one that
\* sent it, takes note; program.js fetches the list instead.
Echo(w) ==
  /\ srv[w] = "loop" /\ Echoing(w)
  /\ beat' = [beat EXCEPT ![w] = @ - 1]
  /\ IF page = "index"
     THEN missed' = [missed EXCEPT ![w] = 0] /\ UNCHANGED request
     ELSE Refresh /\ UNCHANGED missed
  /\ UNCHANGED <<page, server, up, handler, ws, events, alive, every,
                 reconnect, faults>>

\* A server that runs opens, closes and echoes within the second.
Prompt(w) ==
  \/ Echoing(w)
  \/ ws[w] = "connecting" /\ up
  \/ ws[w] = "closing" /\ srv[w] \notin {"cut", "gone"}

\* A second passes, if nothing is due.
Tick ==
  /\ reconnect # 1 /\ \A w \in Sockets : every[w] # 1 /\ ~Prompt(w)
  /\ every' = [w \in Sockets |-> IF every[w] > 1 THEN every[w] - 1 ELSE 0]
  /\ reconnect' = IF reconnect > 1 THEN reconnect - 1 ELSE 0
  /\ UNCHANGED <<page, server, up, request, handler, ws, beat, events, alive,
                 missed, faults>>

-----------------------------------------------------------------------------
Fetch == TimerFires \/ Answer \/ Failure \/ \E v \in 1..MaxVersion : Success(v)

Socket(w) ==
  \/ Register(w) \/ SendHistory(w) \/ Forward(w)
  \/ NewEventWatcher(w) \/ OnOpen(w) \/ OnClose(w) \/ Heartbeat(w) \/ Echo(w)

Next ==
  \/ Fetch
  \/ Change \/ Post \/ Announce \/ SetState \/ Crash \/ Restart \/ Tick
  \/ \E w \in Sockets : CutOff(w) \/ Socket(w)

Spec == Init /\ [][Next]_vars

\* Callbacks are called and time passes, gosuv's goroutines run and gosuv is
\* started again; the end of a process closes its connections, but who is cut
\* off may never hear of it.  The state need not change.
Fairness ==
  /\ WF_vars(TimerFires) /\ WF_vars(Answer) /\ WF_vars(Failure)
  /\ WF_vars(\E v \in 1..MaxVersion : Success(v))
  /\ WF_vars(Post) /\ WF_vars(SetState) /\ WF_vars(Restart) /\ WF_vars(Tick)
  /\ \A w \in Sockets :
       /\ WF_vars(Register(w)) /\ WF_vars(SendHistory(w))
       /\ WF_vars(Forward(w)) /\ WF_vars(Echo(w))
       /\ WF_vars(NewEventWatcher(w)) /\ WF_vars(Heartbeat(w))
       /\ WF_vars(OnOpen(w))
       /\ WF_vars((ws[w] # "open" \/ srv[w] = "gone") /\ OnClose(w))

FairSpec == Spec /\ Fairness

-----------------------------------------------------------------------------
(* Properties *)

\* At most one fetch is on its way, so answers cannot overtake each other
\* (refreshRequest: the timeout's id stays set until complete).
OneFetch ==
  /\ sent + Cardinality(answers) + (IF timer THEN 1 ELSE 0) <= 1
  /\ ~busy => sent = 0 /\ answers = {} /\ ~timer

\* What the page shows never goes back to an older state of the server.
ShownForward == [][shown' >= shown]_vars

\* An event that reaches a registered handler makes the page show the state it
\* told of, or a later one, though the first message is dropped, requests are
\* put together, and changes go on, unless the connection is lost or the event
\* came before the state.
EventShown ==
  \A w \in Sockets, v \in 1..MaxVersion :
    (told[w] >= v /\ v \notin early /\ Registered(w) /\ ws[w] = "open")
      ~> (shown >= v \/ ~Registered(w) \/ ws[w] # "open")

\* However connections are lost, the program's page catches up with a server
\* that stays: it fetches the list at every echo (program.js, onmessage).
ProgramCatchesUp ==
  page = "program" /\ <>[]up => []<>(shown = version)

\* Whatever was lost, a page is connected again, and again if it gives up a
\* connection, to a server that stays (onclose).
Reconnects ==
  <>[]up => []<>(\E w \in Sockets : ws[w] = "open" /\ srv[w] = "loop")

\* While no interval of an earlier connection is left, index.js closes only a
\* connection with two heartbeats that were not answered.
ClosesUnanswered ==
  [][page = "index" /\ (\A v \in Sockets : every[v] # 0 => v = events) =>
       \A w \in Sockets :
         ws[w] = "open" /\ ws'[w] = "closing" => beat[w] >= 2]_vars

(* What the repository says, and the code does not do.                     *)

\* index.js:374, "after a message is received, update the state": the list then
\* has what the message told of.
EventFollowed ==
  \A w \in Sockets, v \in 1..MaxVersion :
    (told[w] >= v /\ Registered(w) /\ ws[w] = "open")
      ~> (shown >= v \/ ~Registered(w) \/ ws[w] # "open")
=============================================================================
