-------------------------------- MODULE LogView --------------------------------
(***************************************************************************)
(* The output of a process on its way to the window of a page: the queue   *)
(* that loses rather than block the child (QuickLossBroadcastWriter), the  *)
(* history and the messages of its broadcaster, the page's log socket, and *)
(* processLogEvent, which puts the pieces together into lines again.       *)
(*                                                                         *)
(* A text is a sequence of tokens; what travels are positions in the text, *)
(* so what was lost, repeated or put in a wrong place can be told.         *)
(***************************************************************************)
EXTENDS Naturals, Sequences, SequencesExt, FiniteSetsExt

CONSTANTS
  Texts,     \* target -> all that it will write
  Newline, EscStart, EscEnd,  \* tokens: \n, the two halves of a color code
  Hidden,    \* tokens that end a line like a .ts file
  Undecodable, \* the lines, as tokens, that decodeURIComponent throws at
  MaxWrite,  \* tokens in one write of the child
  QueueCap,  \* the capacity of bufC (200 in the code)
  RingCap,   \* tokens kept for history (10k bytes in the code)
  MaxLines   \* lines in the window (1000 in the code)

Targets == DOMAIN Texts

ASSUME LogViewAssumption ==
  /\ \A t \in Targets : Texts[t] \in Seq(STRING)
  /\ {MaxWrite, QueueCap, RingCap, MaxLines} \subseteq Nat \ {0}

VARIABLES
  pos,      \* target -> how much the child has written
  bufC,     \* target -> the queue of its QuickLossBroadcastWriter
  ring,     \* target -> its broadcaster's history
  sock,     \* W.wsLog: "null", "connecting", "open" or "lost"
  tail,     \* the target it is open for
  srv,      \* its handleWs: "none", "registered", "loop"
  ch,       \* the messages on their way to it
  follow,   \* vm.log.follow
  last,     \* _lastLogContent
  count,    \* _lastLogLineNum
  div,      \* _logDiv: the lines shown; more than MaxLines after a throw
  text,     \* history: what processLogEvent took since the window was cleared
  dropped,  \* history: the targets whose queue lost something
  holes     \* history: what else broke the text: "paused", "raced"

pipe  == <<pos, bufC, ring, dropped>>
view  == <<follow, last, count, div, text>>
vars  == <<pipe, sock, tail, srv, ch, view, holes>>

Pieces(t) == Seq(1..Len(Texts[t]))

\* Every queue and history within its capacity, and what is on its way to the
\* window and in it is of the target that the window is open for (bufC,
\* broadcast.go; newWebsocket, common.js).
TypeOK ==
  /\ DOMAIN pos = Targets /\ DOMAIN bufC = Targets /\ DOMAIN ring = Targets
  /\ \A t \in Targets :
       /\ pos[t] \in 0..Len(Texts[t])
       /\ bufC[t] \in Seq(Pieces(t)) /\ Len(bufC[t]) <= QueueCap
       /\ ring[t] \in Pieces(t) /\ Len(ring[t]) <= RingCap
  /\ sock \in {"null", "connecting", "open", "lost"} /\ tail \in Targets
  /\ srv \in {"none", "registered", "loop"} /\ ch \in Seq(Pieces(tail))
  /\ follow \in BOOLEAN /\ last \in Pieces(tail) /\ count \in Nat
  /\ div \in Seq(Pieces(tail)) /\ text \in Pieces(tail)
  /\ dropped \subseteq Targets /\ holes \subseteq {"paused", "raced"}

Init ==
  /\ pos = [t \in Targets |-> 0] /\ bufC = [t \in Targets |-> <<>>]
  /\ ring = [t \in Targets |-> <<>>]
  /\ sock = "null" /\ tail \in Targets /\ srv = "none" /\ ch = <<>>
  /\ follow = TRUE /\ last = <<>> /\ count = 0 /\ div = <<>> /\ text = <<>>
  /\ dropped = {} /\ holes = {}

LastOf(s, n) == IF Len(s) <= n THEN s ELSE SubSeq(s, Len(s) - n + 1, Len(s))

-----------------------------------------------------------------------------
(* From the child to the messages of the broadcaster                       *)

\* Mutant: the queue is not bounded.
WriteAlways(t, n) ==
  /\ pos[t] + n <= Len(Texts[t])
  /\ pos' = [pos EXCEPT ![t] = @ + n]
  /\ bufC' = [bufC EXCEPT ![t] = Append(@, [i \in 1..n |-> pos[t] + i])]
  /\ UNCHANGED <<ring, sock, tail, srv, ch, view, holes, dropped>>

\* A write of the child is queued, or lost if the queue is full.
Write(t, n) ==
  /\ pos[t] + n <= Len(Texts[t])
  /\ pos' = [pos EXCEPT ![t] = @ + n]
  /\ IF Len(bufC[t]) < QueueCap
     THEN /\ bufC' = [bufC EXCEPT ![t] =
                        Append(@, [i \in 1..n |-> pos[t] + i])]
          /\ UNCHANGED dropped
     ELSE dropped' = dropped \cup {t} /\ UNCHANGED bufC
  /\ UNCHANGED <<ring, sock, tail, srv, ch, view, holes>>

\* Mutant: a page that did not get its history yet is passed over.
DrainPast(t) ==
  /\ bufC[t] # <<>>
  /\ bufC' = [bufC EXCEPT ![t] = Tail(@)]
  /\ ring' = [ring EXCEPT ![t] = LastOf(@ \o Head(bufC[t]), RingCap)]
  /\ ch' = IF srv = "loop" /\ tail = t /\ sock = "open"
           THEN Append(ch, Head(bufC[t])) ELSE ch
  /\ UNCHANGED <<pos, dropped, sock, tail, srv, view, holes>>

\* drain, WriteBroadcaster.Write: into the ring, which forgets the oldest, and
\* to the log socket if it is registered.
Drain(t) ==
  /\ bufC[t] # <<>>
  /\ bufC' = [bufC EXCEPT ![t] = Tail(@)]
  /\ ring' = [ring EXCEPT ![t] = LastOf(@ \o Head(bufC[t]), RingCap)]
  /\ IF srv # "none" /\ tail = t
     THEN /\ ch' = Append(ch, Head(bufC[t]))
          /\ holes' = holes \cup (IF srv = "registered" THEN {"raced"} ELSE {})
     ELSE UNCHANGED <<ch, holes>>
  /\ UNCHANGED <<pos, dropped, sock, tail, srv, view>>

\* NewChanString: registered first, then the history is sent.
Register ==
  /\ sock \in {"connecting", "open"} /\ srv = "none"
  /\ srv' = "registered"
  /\ UNCHANGED <<pipe, sock, tail, ch, view, holes>>

SendHistory ==
  /\ srv = "registered"
  /\ srv' = "loop" /\ ch' = Append(ch, ring[tail])
  /\ UNCHANGED <<pipe, sock, tail, view, holes>>

\* The broadcaster gave up on a slow page: wsLog closes the connection, and
\* the page does not open it again.
CutOff ==
  /\ srv = "loop" /\ sock = "open"
  /\ sock' = "lost" /\ srv' = "none" /\ ch' = <<>>
  /\ UNCHANGED <<pipe, tail, view, holes>>

-----------------------------------------------------------------------------
(* The page                                                                *)

\* Mutant: the unfinished line is left.
ClearDiv ==
  /\ count' = 0 /\ div' = <<>> /\ text' = <<>> /\ UNCHANGED last

\* clearLogsWithTitle
Clear ==
  /\ count' = 0 /\ last' = <<>> /\ div' = <<>> /\ text' = <<>>

\* newWebsocket, without an onclose of the page's.
NewWebsocket(t) ==
  sock' = "connecting" /\ tail' = t /\ srv' = "none" /\ ch' = <<>>

\* cmdTail, cmdProgramTail: the socket before it hears nothing any more.
CmdTail(t) ==
  /\ NewWebsocket(t)
  /\ Clear /\ follow' = TRUE /\ holes' = {}
  /\ UNCHANGED pipe

OnOpen ==
  /\ sock = "connecting" /\ sock' = "open"
  /\ Clear
  /\ UNCHANGED <<pipe, tail, srv, ch, follow, holes>>

\* hidden.bs.modal
Hide ==
  /\ sock \in {"connecting", "open", "lost"}
  /\ sock' = "null" /\ srv' = "none" /\ ch' = <<>>
  /\ UNCHANGED <<pipe, tail, view, holes>>

\* The mouse wheel stops following, the box does and undoes it.
Follow ==
  /\ sock # "null" /\ follow' = ~follow
  /\ UNCHANGED <<pipe, sock, tail, srv, ch, last, count, div, text, holes>>

Token(t, p) == Texts[t][p]

Ends(t, s) == {i \in 1..Len(s) : Token(t, s[i]) = Newline}

\* split(/\n/): what is between the newline before position e and e.
LineAt(t, s, e) ==
  LET before == {i \in Ends(t, s) : i < e} \cup {0}
  IN  SubSeq(s, Max(before) + 1, e - 1)

\* What is after the last newline.
RestOf(t, s) == LineAt(t, s, Len(s) + 1)

\* The k-th of a set of positions.
Nth(S, k) == CHOOSE i \in S : Cardinality({j \in S : j <= i}) = k

\* evt.data.replace: color codes are taken out of one message, whole ones.
Code(t, s, i) ==
  /\ i \in 1..Len(s) - 1
  /\ Token(t, s[i]) = EscStart /\ Token(t, s[i + 1]) = EscEnd

Kept(t, s) == {i \in 1..Len(s) : ~Code(t, s, i) /\ ~Code(t, s, i - 1)}

Stripped(t, s) ==
  LET kept == Kept(t, s) IN [k \in 1..Cardinality(kept) |-> s[Nth(kept, k)]]

Visible(t, l) == l # <<>> /\ Token(t, Last(l)) \notin Hidden

\* The lines that are counted and shown.
ShownEnds(t, s) == {e \in Ends(t, s) : Visible(t, LineAt(t, s, e))}

LinesOf(t, s) ==
  LET ends == ShownEnds(t, s)
  IN  [k \in 1..Cardinality(ends) |-> LineAt(t, s, Nth(ends, k))]

\* The n-th line goes to the end of the window; from the MaxLines-th on, as
\* counted, the first child goes.
Show(d, n, l) == Append(IF n > MaxLines THEN Tail(d) ELSE d, l)

ShowAll(d, lines) ==
  LET shown[n \in 0..Len(lines)] ==
        IF n = 0 THEN d ELSE Show(shown[n - 1], count + n, lines[n])
  IN  shown[Len(lines)]

\* The escapes of a line that ends in a link are malformed, or cut.
Throws(t, l) == [i \in 1..Len(l) |-> Token(t, l[i])] \in Undecodable

\* The lines that the loop comes to the end of: those before the first throw.
Decoded(t, lines) ==
  LET bad == {k \in 1..Len(lines) : Throws(t, lines[k])}
  IN  IF bad = {} THEN lines ELSE SubSeq(lines, 1, Min(bad) - 1)

\* A throw leaves the loop: the unfinished line is set and the lines before it
\* are in the window, the count is as it was.
ProcessLogEvent(data) ==
  \/ /\ ~follow
     /\ holes' = holes \cup (IF data = <<>> THEN {} ELSE {"paused"})
     /\ UNCHANGED view
  \/ /\ follow
     /\ \E new \in {Stripped(tail, data)} : \E content \in {last \o new} :
        \E lines \in {LinesOf(tail, content)} :
          /\ last' = RestOf(tail, content)
          /\ div' = ShowAll(div, Decoded(tail, lines))
          /\ count' = IF Decoded(tail, lines) = lines THEN count + Len(lines)
                      ELSE count
          /\ text' = text \o new
     /\ UNCHANGED <<follow, holes>>

Deliver ==
  /\ sock = "open" /\ ch # <<>>
  /\ ch' = Tail(ch)
  /\ ProcessLogEvent(Head(ch))
  /\ UNCHANGED <<pipe, sock, tail, srv>>

-----------------------------------------------------------------------------
Next ==
  \/ \E t \in Targets : CmdTail(t) \/ Drain(t) \/ \E n \in 1..MaxWrite : Write(t, n)
  \/ Register \/ SendHistory \/ CutOff
  \/ OnOpen \/ Hide \/ Follow \/ Deliver

Spec == Init /\ [][Next]_vars

\* Goroutines run and messages arrive; a child need not write, nor a user act.
Fairness ==
  /\ \A t \in Targets : WF_vars(Drain(t))
  /\ WF_vars(Register) /\ WF_vars(SendHistory)
  /\ WF_vars(OnOpen) /\ WF_vars(Deliver)

FairSpec == Spec /\ Fairness

-----------------------------------------------------------------------------
(* Properties *)

Decodable(t, lines) == \A k \in 1..Len(lines) : ~Throws(t, lines[k])

\* However the text is cut into messages, the unfinished line is kept, only
\* lines that the text as a whole has are shown, and there is one to take out
\* whenever, as counted, the window is full; as long as no line of the text
\* throws, the window shows its last lines, and all are counted
\* (processLogEvent).
AsAWhole ==
  LET all == LinesOf(tail, text) IN
  /\ last = RestOf(tail, text)
  /\ \A i \in 1..Len(div) : \E k \in 1..Len(all) : div[i] = all[k]
  /\ Len(div) >= count \/ Len(div) >= MaxLines
  /\ Decodable(tail, all) => div = LastOf(all, MaxLines) /\ count = Len(all)

\* Nothing but color codes is at positions from..to.
OnlyCodes(t, from, to) ==
  \A p \in from..to : Token(t, p) \in {EscStart, EscEnd}

\* The text is a part of what the target wrote, nothing missing, repeated or
\* out of place, color codes apart, if the queue never was full, the user did
\* not pause, and no message came between registration and history.
Unbroken ==
  holes = {} /\ tail \notin dropped =>
    \A i \in 1..Len(text) - 1 :
      text[i] < text[i + 1] /\ OnlyCodes(tail, text[i] + 1, text[i + 1] - 1)

\* What a target wrote last arrives at a page that stays on it and follows,
\* whatever was shown before (drain, NewChanString, cmdTail, processLogEvent).
Arrives ==
  \A t \in Targets :
    <>[](sock = "open" /\ tail = t /\ follow /\ t \notin dropped /\ holes = {})
      => <>[](pos[t] > 0 /\ Texts[t][pos[t]] \notin {EscStart, EscEnd}
                => text # <<>> /\ Last(text) = pos[t])
=============================================================================
