----------------------------- MODULE PageProofs -----------------------------
(***************************************************************************)
(* The page of the programs, for any number of changes, sockets and faults *)
(* and any timing: one fetch at a time, a page that never shows an older   *)
(* state, and connections that are closed only when they do not answer.    *)
(***************************************************************************)
EXTENDS Page, FiniteSetTheorems, TLAPS

\* Where the one fetch may be: its timeout is set, or the server has it, or
\* its answer is on the way; none, and then the flag is clear and nothing is
\* wanted.  What is on the way is at least as new as what is shown.
NoFetch   == ~timer /\ sent = 0 /\ answers = {}
Waiting   == timer /\ sent = 0 /\ answers = {}
Asked     == ~timer /\ sent = 1 /\ answers = {}
Answered  == ~timer /\ sent = 0 /\ \E v \in 1..version : v >= shown /\ answers = {v}

FInv ==
  /\ version \in Nat \ {0} /\ shown \in Nat /\ shown <= version
  /\ wanted \in BOOLEAN /\ busy \in BOOLEAN /\ timer \in BOOLEAN
  /\ ~busy => NoFetch /\ ~wanted
  /\ busy => Waiting \/ Asked \/ Answered

\* The page starts with one timeout.
LEMMA FetchInit == Init => FInv
BY DEF Init, FInv, Waiting

\* A request sets a timeout only if nothing is on the way.
LEMMA FetchRefresh ==
  ASSUME FInv, Refresh, version' = version PROVE FInv' /\ shown' = shown
<1>1. wanted' = TRUE /\ busy' = TRUE /\ UNCHANGED <<sent, answers, shown>>
  BY DEF Refresh
<1>2. CASE busy
  <2>1. timer' = timer
    BY <1>2 DEF FInv, Refresh
  <2>2. QED
    BY <1>1, <1>2, <2>1 DEF FInv, Waiting, Asked, Answered
<1>3. CASE ~busy
  <2>1. timer' = TRUE /\ sent' = 0 /\ answers' = {}
    BY <1>1, <1>3 DEF FInv, Refresh, NoFetch
  <2>2. QED
    BY <1>1, <2>1 DEF FInv, Waiting
<1>4. QED
  BY <1>2, <1>3

\* The fetch goes from one place to the next.
LEMMA FetchMoves ==
  ASSUME FInv, Fetch PROVE FInv' /\ shown' >= shown
<1>1. CASE TimerFires
  <2>1. busy /\ Waiting
    <3>1. timer
      BY <1>1 DEF TimerFires
    <3>2. ~NoFetch /\ ~Asked /\ ~Answered
      BY <3>1 DEF NoFetch, Asked, Answered
    <3>3. QED
      BY <3>2 DEF FInv
  <2>2. /\ timer' = FALSE /\ wanted' = FALSE /\ sent' = 1 /\ answers' = {}
        /\ UNCHANGED <<version, busy, shown>>
    BY <1>1, <2>1 DEF TimerFires, Waiting, server
  <2>3. QED
    <3>1. Asked' /\ busy' = busy
      BY <2>2 DEF Asked
    <3>2. busy'
      BY <2>1, <3>1
    <3>3. FInv'
      BY <2>2, <3>1, <3>2 DEF FInv
    <3>4. shown' >= shown
      BY <2>2 DEF FInv
    <3>5. QED
      BY <3>3, <3>4
<1>2. CASE Answer
  <2>1. busy /\ Asked
    <3>1. ~NoFetch /\ ~Waiting /\ ~Answered
      BY <1>2 DEF Answer, NoFetch, Waiting, Answered
    <3>2. QED
      BY <3>1 DEF FInv
  <2>2. version \in 1..version
    BY DEF FInv
  <2>3. /\ sent' = 0 /\ answers' = {version}
        /\ UNCHANGED <<version, wanted, busy, timer, shown>>
    BY <1>2, <2>1 DEF Answer, Asked, server
  <2>4. Answered'
    BY <2>1, <2>2, <2>3 DEF FInv, Asked, Answered
  <2>5. busy'
    BY <2>1, <2>3
  <2>6. FInv'
    BY <2>3, <2>4, <2>5 DEF FInv
  <2>7. shown' >= shown
    BY <2>3 DEF FInv
  <2>8. QED
    BY <2>6, <2>7
<1>3. CASE Failure
  BY <1>3
     DEF Failure, Complete, FInv, NoFetch, Waiting, Asked, Answered, server
<1>4. ASSUME NEW v \in 1..MaxVersion, Success(v) PROVE FInv' /\ shown' >= shown
  <2>1. busy /\ Answered
    BY <1>4 DEF Success, FInv, NoFetch, Waiting, Asked, Answered
  <2>2. answers = {v} /\ v \in 1..version /\ v >= shown
    BY <1>4, <2>1 DEF Success, Answered
  <2>3. QED
    BY <1>4, <2>1, <2>2
    DEF Success, Complete, FInv, NoFetch, Waiting, Answered, server
<1>5. QED
  BY <1>1, <1>2, <1>3, <1>4 DEF Fetch

\* The server moves only forward, and the sockets ask for a fetch or do not.
LEMMA FetchBeside ==
  ASSUME FInv, Change \/ Post \/ Announce \/ SetState \/ Crash \/ Restart \/ Tick
           \/ UNCHANGED vars
  PROVE FInv' /\ shown' = shown
<1>1. CASE Change \/ SetState
  <2>1. version' = version + 1 /\ UNCHANGED request
    BY <1>1 DEF Change, SetState
  <2>2. 1..version \subseteq 1..version'
    BY <2>1 DEF FInv
  <2>3. QED
    BY <2>1, <2>2 DEF FInv, NoFetch, Waiting, Asked, Answered, request
<1>2. CASE Post \/ Announce \/ Crash \/ Restart \/ Tick \/ UNCHANGED vars
  <2>1. UNCHANGED <<version, request>>
    BY <1>2 DEF Post, Announce, Crash, Restart, Tick, vars, server
  <2>2. QED
    BY <2>1 DEF FInv, NoFetch, Waiting, Asked, Answered, request
<1>3. QED
  BY <1>1, <1>2

LEMMA FetchSockets ==
  ASSUME FInv, NEW w \in Sockets, CutOff(w) \/ Socket(w)
  PROVE FInv' /\ shown' = shown
<1>1. CASE Forward(w) \/ Echo(w)
  <2>1. version' = version /\ (Refresh \/ UNCHANGED request)
    BY <1>1 DEF Forward, Echo, server
  <2>2. CASE UNCHANGED request
    BY <2>1, <2>2 DEF FInv, NoFetch, Waiting, Asked, Answered, request
  <2>3. QED
    BY <2>1, <2>2, FetchRefresh
<1>2. CASE \/ CutOff(w) \/ Register(w) \/ SendHistory(w)
           \/ NewEventWatcher(w) \/ OnOpen(w) \/ OnClose(w) \/ Heartbeat(w)
  <2>1. UNCHANGED <<version, request>>
    BY <1>2 DEF CutOff, Register, SendHistory, NewEventWatcher, OnOpen,
                OnClose, Heartbeat, server
  <2>2. QED
    BY <2>1 DEF FInv, NoFetch, Waiting, Asked, Answered, request
<1>3. QED
  BY <1>1, <1>2 DEF Socket

\* Every step keeps the invariant and shows nothing older.
LEMMA FetchStep == ASSUME FInv, [Next]_vars PROVE FInv' /\ shown' >= shown
<1>1. shown' = shown => shown' >= shown
  BY DEF FInv
<1>2. CASE Fetch
  BY <1>2, FetchMoves
<1>3. CASE Change \/ Post \/ Announce \/ SetState \/ Crash \/ Restart \/ Tick
           \/ UNCHANGED vars
  BY <1>1, <1>3, FetchBeside
<1>4. ASSUME NEW w \in Sockets, CutOff(w) \/ Socket(w)
      PROVE FInv' /\ shown' >= shown
  BY <1>1, <1>4, FetchSockets
<1>5. QED
  BY <1>2, <1>3, <1>4 DEF Next

LEMMA FetchInvariant == Spec => []FInv
<1>1. FInv /\ [Next]_vars => FInv'
  BY FetchStep
<1>2. QED
  BY FetchInit, <1>1, PTL DEF Spec

\* The flag is given back only in complete, so at most one request or answer
\* is on its way (refreshRequest of index.js and program.js).
THEOREM OneFetchAlways == Spec => []OneFetch
<1>1. FInv => OneFetch
  <2>1. Cardinality({}) = 0 /\ \A v \in 1..version : Cardinality({v}) = 1
    BY FS_EmptySet, FS_Singleton
  <2> SUFFICES ASSUME FInv PROVE OneFetch
    OBVIOUS
  <2>2. CASE answers = {}
    BY <2>1, <2>2 DEF FInv, OneFetch, NoFetch, Waiting, Asked, Answered
  <2>3. CASE Answered
    BY <2>1, <2>3 DEF FInv, OneFetch, NoFetch, Answered
  <2>4. QED
    BY <2>2, <2>3 DEF FInv, NoFetch, Waiting, Asked
<1>2. QED
  BY FetchInvariant, <1>1, PTL

\* Whatever events, echoes and failures come in between, no answer undoes a
\* newer one (refreshRequest of index.js and program.js).
THEOREM NeverBack == Spec => ShownForward
<1>1. FInv /\ [Next]_vars => [shown' >= shown]_vars
  BY FetchStep
<1>2. QED
  BY FetchInvariant, <1>1, PTL DEF Spec, ShownForward

-----------------------------------------------------------------------------
(* Types, and the heartbeats                                               *)

\* A state that was announced is yet to come.
PInv == TypeOK /\ (under = "announced" => version < MaxVersion)

\* Each heartbeat of index.js that the closure of the connection misses was
\* sent on the connection, if it is open still.
Counted ==
  page = "index" =>
    \A w \in Sockets : w = events /\ ws[w] = "open" => missed[w] <= beat[w]

LEMMA PageConstants ==
  /\ MaxVersion \in Nat /\ MaxVersion > 0 /\ MaxSockets \in Nat /\ MaxSockets > 0
  /\ MaxFaults \in Nat /\ Period \in Nat /\ Period > 0 /\ Pause \in Nat /\ Pause > 0
  /\ None \notin Sockets
  BY PageAssumption DEF Sockets, None

LEMMA PageInit == Init => PInv /\ Counted
<1> SUFFICES ASSUME Init PROVE PInv /\ Counted
  OBVIOUS
<1>1. /\ 1 \in Sockets
      /\ 1 \in 1..MaxVersion
      /\ 0 \in 0..MaxVersion
      /\ 0 \in 0..MaxFaults
      /\ 0 \in 0..Pause + 1 /\ 0 \in 0..Period + 1 /\ 0 \in 0..Patience
  BY PageConstants DEF Sockets, Patience
<1>2. PInv
  BY <1>1 DEF Init, PInv, TypeOK
<1>3. Counted
  BY <1>1 DEF Init, Counted
<1> QED
  BY <1>2, <1>3

\* A fetch, or the server, has nothing to do with the sockets.
LEMMA PageFetch ==
  ASSUME PInv, Counted, Fetch PROVE PInv' /\ Counted' /\ ws' = ws
<1>1. UNCHANGED <<page, server, up, handler, watcher, faults>>
  BY DEF Fetch, TimerFires, Answer, Failure, Success
<1>2. /\ wanted' \in BOOLEAN /\ busy' \in BOOLEAN /\ timer' \in BOOLEAN
      /\ sent' \in Nat /\ answers' \subseteq 1..MaxVersion /\ shown' \in 0..MaxVersion
  <2>1. CASE TimerFires
    <3>1. /\ busy \in BOOLEAN /\ sent \in Nat
          /\ answers \subseteq 1..MaxVersion /\ shown \in 0..MaxVersion
      BY DEF PInv, TypeOK
    <3> QED
      <4>1. UNCHANGED <<busy, answers, shown>> /\ sent' = sent + 1
        BY <2>1 DEF TimerFires
      <4>2. wanted' \in BOOLEAN /\ timer' \in BOOLEAN
        BY <2>1, Zenon DEF TimerFires
      <4> QED
        BY <3>1, <4>1, <4>2
  <2>2. CASE Answer
    BY <2>2 DEF Answer, PInv, TypeOK
  <2>3. CASE Failure
    BY <2>3 DEF Failure, Complete, PInv, TypeOK
  <2>4. ASSUME NEW v \in 1..MaxVersion, Success(v)
        PROVE  /\ wanted' \in BOOLEAN /\ busy' \in BOOLEAN /\ timer' \in BOOLEAN
               /\ sent' \in Nat /\ answers' \subseteq 1..MaxVersion
               /\ shown' \in 0..MaxVersion
    BY <2>4, PageConstants DEF Success, Complete, PInv, TypeOK
  <2> QED
    BY <2>1, <2>2, <2>3, <2>4 DEF Fetch
<1> QED
  BY <1>1, <1>2 DEF PInv, TypeOK, Counted, server, handler, watcher

LEMMA PageServer ==
  ASSUME PInv, Counted,
         Change \/ Post \/ Announce \/ SetState \/ Crash \/ Restart
  PROVE  PInv' /\ Counted' /\ ws' = ws
<1>1. UNCHANGED <<page, request, watcher>>
  BY DEF Change, Post, Announce, SetState, Crash, Restart
<1>2. ASSUME NEW v \in 1..MaxVersion, Tell(v)
      PROVE  ch' \in [Sockets -> Nat] /\ told' \in [Sockets -> 0..MaxVersion]
  <2>1. \A w \in Sockets : told[w] \in 0..MaxVersion /\ v \in 0..MaxVersion
          /\ ch[w] \in Nat /\ ch[w] + 1 \in Nat
    BY PageConstants DEF PInv, TypeOK
  <2> QED
    BY <1>2, <2>1 DEF Tell
<1>3. /\ version' \in 1..MaxVersion /\ early' \subseteq 1..MaxVersion
      /\ up' \in BOOLEAN /\ under' \in {"none", "changed", "announced"}
      /\ under' = "announced" => version' < MaxVersion
  <2>1. /\ version \in 1..MaxVersion /\ early \subseteq 1..MaxVersion
        /\ up \in BOOLEAN /\ under \in {"none", "changed", "announced"}
        /\ under = "announced" => version < MaxVersion
    BY DEF PInv, TypeOK
  <2>2. CASE Change \/ SetState
    <3>1. /\ version' = version + 1 /\ version < MaxVersion
          /\ under' \in {"none", "changed"} /\ UNCHANGED <<early, up>>
      BY <2>1, <2>2 DEF Change, SetState
    <3> QED
      BY <2>1, <3>1, PageConstants
  <2>3. CASE Post \/ Announce
    <3>1. CASE Post
      BY <2>1, <3>1 DEF Post
    <3>2. CASE Announce
      <4>1. /\ UNCHANGED <<version, up>> /\ under' = "announced"
            /\ version < MaxVersion /\ early' = early \cup {version + 1}
        BY <3>2 DEF Announce
      <4>2. version + 1 \in 1..MaxVersion
        BY <2>1, <4>1, PageConstants
      <4> QED
        BY <2>1, <4>1, <4>2
    <3> QED
      BY <2>3, <3>1, <3>2
  <2>4. CASE Crash \/ Restart
    BY <2>1, <2>4 DEF Crash, Restart, server
  <2> QED
    BY <2>2, <2>3, <2>4
<1>4. /\ srv' \in [Sockets -> {"none", "upgraded", "registered", "loop", "cut",
                              "gone"}]
      /\ skip' \in [Sockets -> BOOLEAN] /\ ch' \in [Sockets -> Nat]
      /\ told' \in [Sockets -> 0..MaxVersion] /\ faults' \in 0..MaxFaults
  <2>1. CASE Change \/ SetState \/ Restart
    BY <2>1 DEF Change, SetState, Restart, handler, PInv, TypeOK
  <2>2. CASE Post
    BY <1>2, <2>2 DEF Post, PInv, TypeOK
  <2>3. CASE Announce
    <3>1. version + 1 \in 1..MaxVersion
      BY <2>3, PageConstants DEF Announce, PInv, TypeOK
    <3> QED
      BY <1>2, <2>3, <3>1 DEF Announce, PInv, TypeOK
  <2>4. CASE Crash
    BY <2>4, PageConstants DEF Crash, PInv, TypeOK
  <2> QED
    BY <2>1, <2>2, <2>3, <2>4
<1> QED
  BY <1>1, <1>3, <1>4 DEF PInv, TypeOK, Counted, request, watcher

LEMMA PageTick ==
  ASSUME PInv, Counted, Tick PROVE PInv' /\ Counted' /\ ws' = ws
<1>1. every' \in [Sockets -> 0..Period + 1]
  <2>1. \A w \in Sockets : (IF every[w] > 1 THEN every[w] - 1 ELSE 0) \in 0..Period + 1
    BY PageConstants DEF PInv, TypeOK
  <2> QED
    BY <2>1 DEF Tick
<1>2. reconnect' \in 0..Pause + 1
  BY PageConstants DEF Tick, PInv, TypeOK
<1> QED
  BY <1>1, <1>2 DEF Tick, PInv, TypeOK, Counted, server, request, handler

\* What handleWs does, and the echo.
LEMMA PageHandler ==
  ASSUME PInv, Counted, NEW w \in Sockets,
         CutOff(w) \/ Register(w) \/ SendHistory(w) \/ Forward(w) \/ Echo(w)
  PROVE  PInv' /\ Counted' /\ ws' = ws
<1>1. UNCHANGED <<page, server, up, ws, events, alive, every, reconnect>>
  BY DEF CutOff, Register, SendHistory, Forward, Echo, watcher
<1>2. \/ UNCHANGED <<missed, beat>>
      \/ /\ beat[w] > 0 /\ beat' = [beat EXCEPT ![w] = @ - 1]
         /\ \/ missed' = [missed EXCEPT ![w] = 0]
            \/ page # "index" /\ UNCHANGED missed
  BY DEF CutOff, Register, SendHistory, Forward, Echo, Echoing, watcher
<1>3. beat' \in [Sockets -> Nat] /\ missed' \in [Sockets -> 0..Patience]
  BY <1>2 DEF PInv, TypeOK, Patience
<1>4. Counted'
  BY <1>1, <1>2 DEF Counted, PInv, TypeOK
<1>5. /\ srv' \in [Sockets -> {"none", "upgraded", "registered", "loop", "cut",
                              "gone"}]
      /\ skip' \in [Sockets -> BOOLEAN] /\ ch' \in [Sockets -> Nat]
      /\ told' \in [Sockets -> 0..MaxVersion] /\ faults' \in 0..MaxFaults
  <2>1. /\ srv \in [Sockets -> {"none", "upgraded", "registered", "loop", "cut",
                               "gone"}]
        /\ skip \in [Sockets -> BOOLEAN] /\ ch \in [Sockets -> Nat]
        /\ told \in [Sockets -> 0..MaxVersion] /\ faults \in 0..MaxFaults
    BY DEF PInv, TypeOK
  <2>2. CASE CutOff(w)
    BY <2>1, <2>2, PageConstants DEF CutOff
  <2>3. CASE Register(w) \/ SendHistory(w)
    BY <2>1, <2>3 DEF Register, SendHistory
  <2>4. CASE Forward(w)
    BY <2>1, <2>4 DEF Forward
  <2>5. CASE Echo(w)
    BY <2>1, <2>5 DEF Echo, handler
  <2> QED
    BY <2>2, <2>3, <2>4, <2>5
<1>6. /\ wanted' \in BOOLEAN /\ busy' \in BOOLEAN /\ timer' \in BOOLEAN
      /\ sent' \in Nat /\ answers' \subseteq 1..MaxVersion /\ shown' \in 0..MaxVersion
  BY
     DEF CutOff, Register, SendHistory, Forward, Echo, Refresh, request, PInv,
         TypeOK
<1> QED
  BY <1>1, <1>3, <1>4, <1>5, <1>6 DEF PInv, TypeOK, server

\* A socket that is opened or closed counts from nothing.
LEMMA PageSocket ==
  ASSUME PInv, Counted, NEW w \in Sockets,
         NewEventWatcher(w) \/ OnOpen(w) \/ OnClose(w)
  PROVE  /\ PInv' /\ Counted'
         /\ \A v \in Sockets : ws'[v] = "closing" => ws[v] = "closing"
<1>1. UNCHANGED <<page, server, up, request, faults>>
  BY DEF NewEventWatcher, OnOpen, OnClose
<1>2. /\ every' \in [Sockets -> 0..Period + 1] /\ reconnect' \in 0..Pause + 1
      /\ missed' \in [Sockets -> 0..Patience] /\ beat' \in [Sockets -> Nat]
  BY PageConstants DEF NewEventWatcher, OnOpen, OnClose, PInv, TypeOK, Patience
<1>3. /\ ws' \in [Sockets -> {"connecting", "open", "closing", "closed"}]
      /\ events' \in Sockets \cup {None} /\ alive' \in BOOLEAN
      /\ \A v \in Sockets : ws'[v] = "closing" => ws[v] = "closing"
  BY DEF NewEventWatcher, OnOpen, OnClose, PInv, TypeOK
<1>4. /\ srv' \in [Sockets -> {"none", "upgraded", "registered", "loop", "cut",
                              "gone"}]
      /\ skip' \in [Sockets -> BOOLEAN] /\ ch' \in [Sockets -> Nat]
      /\ told' \in [Sockets -> 0..MaxVersion]
  <2>1. /\ srv \in [Sockets -> {"none", "upgraded", "registered", "loop", "cut",
                               "gone"}]
        /\ skip \in [Sockets -> BOOLEAN] /\ ch \in [Sockets -> Nat]
        /\ told \in [Sockets -> 0..MaxVersion] /\ 0 \in 0..MaxVersion
    BY PageConstants DEF PInv, TypeOK
  <2>2. CASE NewEventWatcher(w)
    BY <2>1, <2>2 DEF NewEventWatcher, handler
  <2>3. CASE OnOpen(w)
    BY <2>1, <2>3 DEF OnOpen
  <2>4. CASE OnClose(w)
    BY <2>1, <2>4 DEF OnClose, HandlerEnds
  <2> QED
    BY <2>2, <2>3, <2>4
<1>5. Counted'
  <2>1. CASE NewEventWatcher(w)
    BY <2>1 DEF NewEventWatcher, Counted, PInv, TypeOK
  <2>2. CASE OnOpen(w)
    BY <2>2 DEF OnOpen, Counted, PInv, TypeOK
  <2>3. CASE OnClose(w)
    BY <2>3, PageConstants DEF OnClose, Counted
  <2> QED
    BY <2>1, <2>2, <2>3
<1> QED
  BY <1>1, <1>2, <1>3, <1>4, <1>5 DEF PInv, TypeOK, server, request

\* The interval: it closes W.events, and only after Patience or while the
\* socket is not open yet.
LEMMA PageHeartbeat ==
  ASSUME PInv, Counted, NEW w \in Sockets, Heartbeat(w)
  PROVE  /\ PInv' /\ Counted'
         /\ \A v \in Sockets : ws[v] = "open" /\ ws'[v] = "closing" =>
              v = events /\ missed[w] + 1 >= Patience
<1>1. UNCHANGED <<page, server, up, request, handler, events, alive, reconnect,
                  faults>>
  BY DEF Heartbeat
<1>2. missed[w] \in 0..Patience /\ None \notin Sockets
  BY PageConstants DEF PInv, TypeOK
<1>3. CASE Throws(missed[w] + 1)
  <2>1. /\ missed' = [missed EXCEPT ![w] = 0]
        /\ every' = [every EXCEPT ![w] = 0]
        /\ ws' = Shut /\ beat' = beat
    BY <1>3 DEF Heartbeat
  <2>2. \A v \in Sockets :
          ws'[v] = IF v = events THEN "closing" ELSE ws[v]
    BY <2>1, PageConstants DEF Shut, PInv, TypeOK
  <2>3. ws' \in [Sockets -> {"connecting", "open", "closing", "closed"}]
    BY <2>1 DEF Shut, PInv, TypeOK
  <2>4. PInv'
    <3>1. /\ missed' \in [Sockets -> 0..Patience]
          /\ every' \in [Sockets -> 0..Period + 1] /\ beat' \in [Sockets -> Nat]
      BY <2>1, PageConstants DEF PInv, TypeOK, Patience
    <3> QED
      BY <1>1, <2>3, <3>1 DEF PInv, TypeOK, server, request, handler
  <2>5. Counted'
    BY <1>1, <2>1, <2>2 DEF Counted, PInv, TypeOK
  <2>6. \A v \in Sockets : ws[v] = "open" /\ ws'[v] = "closing" =>
              v = events /\ missed[w] + 1 >= Patience
    BY <1>2, <1>3, <2>2 DEF Throws
  <2> QED
    BY <2>4, <2>5, <2>6
<1>4. CASE ~Throws(missed[w] + 1)
  <2>1. /\ missed' = [missed EXCEPT ![w] = missed[w] + 1]
        /\ every' = [every EXCEPT ![w] = Period + 1] /\ ws' = ws
        /\ beat' = IF ws[events] = "open"
                   THEN [beat EXCEPT ![events] = @ + 1] ELSE beat
    BY <1>4 DEF Heartbeat
  <2>2. events \in Sockets /\ missed[w] + 1 \in 0..Patience
    BY <1>2, <1>4 DEF Throws, PInv, TypeOK, Patience
  <2>3. beat' \in [Sockets -> Nat]
    BY <2>1, <2>2 DEF PInv, TypeOK
  <2>4. PInv'
    BY <1>1, <2>1, <2>2, <2>3, PageConstants
       DEF PInv, TypeOK, server, request, handler
  <2>5. Counted'
    BY <1>1, <2>1, <2>2 DEF Counted, PInv, TypeOK, Patience
  <2> QED
    BY <2>1, <2>4, <2>5
<1> QED
  BY <1>3, <1>4

LEMMA PageStep ==
  ASSUME PInv, Counted, [Next]_vars
  PROVE  /\ PInv' /\ Counted'
         /\ \A v \in Sockets : ws[v] = "open" /\ ws'[v] = "closing" =>
              /\ v = events
              /\ \E w \in Sockets : every[w] = 1 /\ missed[w] + 1 >= Patience
<1>1. CASE UNCHANGED vars
  BY <1>1 DEF vars, server, request, handler, watcher, PInv, TypeOK, Counted
<1>2. ASSUME NEW w \in Sockets, Heartbeat(w)
      PROVE  /\ PInv' /\ Counted'
             /\ \A v \in Sockets : ws[v] = "open" /\ ws'[v] = "closing" =>
                  /\ v = events
                  /\ \E u \in Sockets : every[u] = 1 /\ missed[u] + 1 >= Patience
  BY <1>2, PageHeartbeat DEF Heartbeat
<1>3. ASSUME NEW w \in Sockets, NewEventWatcher(w) \/ OnOpen(w) \/ OnClose(w)
      PROVE  /\ PInv' /\ Counted'
             /\ \A v \in Sockets : ws'[v] = "closing" => ws[v] = "closing"
  BY <1>3, PageSocket
<1>4. ASSUME NEW w \in Sockets,
             CutOff(w) \/ Register(w) \/ SendHistory(w) \/ Forward(w) \/ Echo(w)
      PROVE  PInv' /\ Counted' /\ ws' = ws
  BY <1>4, PageHandler
<1> QED
  BY <1>1, <1>2, <1>3, <1>4, PageFetch, PageServer, PageTick DEF Next, Socket

LEMMA PageInvariant == Spec => [](PInv /\ Counted)
<1>1. PInv /\ Counted /\ [Next]_vars => (PInv /\ Counted)'
  BY PageStep
<1> QED
  BY <1>1, PageInit, PTL DEF Spec

\* The types: the counts of heartbeats stay under the patience of the page,
\* and no state is announced past the bound.
THEOREM PageTypes == Spec => []TypeOK
<1>1. PInv => TypeOK
  BY DEF PInv
<1> QED
  BY <1>1, PageInvariant, PTL

\* For any number of sockets, faults and changes: the page of the programs
\* closes no connection that answers (newEventWatcher of index.js).
THEOREM ClosesUnansweredAlways == Spec => ClosesUnanswered
<1>1. PInv /\ Counted /\ [Next]_vars =>
        [page = "index" /\ (\A v \in Sockets : every[v] # 0 => v = events) =>
           \A w \in Sockets :
             ws[w] = "open" /\ ws'[w] = "closing" => beat[w] >= 2]_vars
  <2> SUFFICES ASSUME PInv, Counted, [Next]_vars, page = "index",
                      \A v \in Sockets : every[v] # 0 => v = events,
                      NEW w \in Sockets, ws[w] = "open", ws'[w] = "closing"
               PROVE  beat[w] >= 2
    OBVIOUS
  <2>1. PICK u \in Sockets : every[u] = 1 /\ missed[u] + 1 >= Patience
    BY PageStep
  <2>2. w = events /\ u = events
    BY <2>1, PageStep
  <2>3. missed[w] \in Nat /\ beat[w] \in Nat /\ missed[w] <= beat[w]
    BY <2>2 DEF PInv, TypeOK, Counted
  <2> QED
    BY <2>1, <2>2, <2>3 DEF Patience
<1> QED
  BY <1>1, PageInvariant, PTL DEF ClosesUnanswered, Spec
=============================================================================
