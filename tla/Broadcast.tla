----------------------------- MODULE Broadcast -----------------------------
(***************************************************************************)
(* One WriteBroadcaster: a ring of recent output and the writers that      *)
(* copy new output to subscribers, each through a channel.                 *)
(*                                                                         *)
(* Threads.  Pubs call Write: every goroutine that changes a state for     *)
(* gEventPub, the drain goroutine alone for a process's or a program's     *)
(* output.  Sockets are the handlers of a websocket (handleWs).  Watchers  *)
(* are the callers of stopAndWait (addEventSub), each with a goroutine     *)
(* that forwards from its channel.                                         *)
(*                                                                         *)
(* The ring's size is not reached: nothing in it is overwritten.  closed   *)
(* of the broadcaster itself is never set to true by the code.             *)
(***************************************************************************)
EXTENDS Naturals, Sequences

CONSTANTS
  Pubs, Sockets, Watchers,
  Nil,
  Cap,      \* the capacity of a writer's channel (100 in the code)
  MaxMsgs   \* the bound on the messages published

Subs    == Sockets \cup Watchers
Threads == Pubs \cup Subs
Msgs    == 1..MaxMsgs

ASSUME BroadcastAssumption ==
  /\ Pubs \cap Subs = {} /\ Sockets \cap Watchers = {} /\ Nil \notin Threads
  /\ Cap \in Nat \ {0} /\ MaxMsgs \in Nat

VARIABLES
  ring,     \* WriteBroadcaster.buf
  loaded,   \* publisher -> the ring it read and is about to write back
  writers,  \* WriteBroadcaster.writers: who has an open writer registered
  ch,       \* subscriber -> the channel of its chanStrWriter
  closed,   \* the subscribers whose channel is closed
  lock,     \* the holder of WriteBroadcaster.Mutex
  msg,      \* publisher -> the message it writes
  todo,     \* publisher -> the writers its loop has not reached
  hist,     \* subscriber -> the history it read
  gone,     \* the subscribers that want to leave: atomic closed of handleWs,
            \* and of stopAndWait that the process has stopped
  pc,       \* where each thread is
  fwd,      \* watcher -> where the goroutine of addEventSub is
  sent,     \* how many messages were made
  log,      \* history: the messages in the order of the lock
  since,    \* history: subscriber -> {how many came before it}, or {}
  seen      \* history: subscriber -> the messages it received live

topic == <<log, since>>
subv  == <<hist, gone, fwd>>
vars  == <<ring, loaded, writers, ch, closed, lock, msg, todo, seen, pc, sent,
           topic, subv>>

\* What is in a channel: one message, or the history as a message.
Live(m)    == [kind |-> "live", msgs |-> <<m>>]
History(h) == [kind |-> "history", msgs |-> h]
IsLive(x)  == x.kind = "live"

Items == [kind : {"live", "history"}, msgs : Seq(Msgs)]

TypeOK ==
  /\ ring \in Seq(Msgs) /\ loaded \in [Pubs -> Seq(Msgs)]
  /\ writers \subseteq Subs /\ closed \subseteq Subs
  /\ ch \in [Subs -> Seq(Items)] /\ \A s \in Subs : Len(ch[s]) <= Cap
  /\ lock \in Pubs \cup {Nil}
  /\ msg \in [Pubs -> Msgs \cup {0}] /\ todo \in [Pubs -> SUBSET Subs]
  /\ hist \in [Subs -> Seq(Msgs)] /\ seen \in [Subs -> Seq(Msgs)]
  /\ gone \subseteq Subs
  /\ pc \in [Threads -> {"idle", "store", "lock", "deliver", "register",
                         "history", "check", "send", "loop", "unsubscribe",
                         "end"}]
  /\ fwd \in [Watchers -> {"none", "range", "give", "end"}]
  /\ sent \in 0..MaxMsgs /\ log \in Seq(Msgs)
  /\ since \in [Subs -> SUBSET Nat]

Init ==
  /\ ring = <<>> /\ loaded = [p \in Pubs |-> <<>>]
  /\ writers = {} /\ closed = {} /\ ch = [s \in Subs |-> <<>>]
  /\ lock = Nil /\ msg = [p \in Pubs |-> 0] /\ todo = [p \in Pubs |-> {}]
  /\ hist = [s \in Subs |-> <<>>] /\ seen = [s \in Subs |-> <<>>]
  /\ gone = {} /\ pc = [t \in Threads |-> "idle"]
  /\ fwd = [w \in Watchers |-> "none"]
  /\ sent = 0 /\ log = <<>> /\ since = [s \in Subs |-> {}]

Goto(t, from, to) == pc[t] = from /\ pc' = [pc EXCEPT ![t] = to]

-----------------------------------------------------------------------------
(* WriteBroadcaster.Write                                                  *)

\* The ring is written before the lock is taken, so two publishers may load
\* the same ring and the store of one undoes the other's.
Post(p) ==
  /\ sent < MaxMsgs
  /\ Goto(p, "idle", "store")
  /\ sent' = sent + 1
  /\ msg' = [msg EXCEPT ![p] = sent + 1]
  /\ loaded' = [loaded EXCEPT ![p] = ring]
  /\ UNCHANGED <<ring, writers, ch, closed, lock, todo, seen, topic, subv>>

\* Mutant: the ring keeps the last message only.
StoreLast(p) ==
  /\ Goto(p, "store", "lock")
  /\ ring' = <<msg[p]>>
  /\ UNCHANGED <<loaded, writers, ch, closed, lock, msg, todo, seen, sent,
                 topic, subv>>

Store(p) ==
  /\ Goto(p, "store", "lock")
  /\ ring' = Append(loaded[p], msg[p])
  /\ UNCHANGED <<loaded, writers, ch, closed, lock, msg, todo, seen, sent,
                 topic, subv>>

\* Mutant: the loop over the writers without the lock.
LockFree(p) ==
  /\ Goto(p, "lock", "deliver")
  /\ lock' = p
  /\ todo' = [todo EXCEPT ![p] = writers]
  /\ log' = Append(log, msg[p])
  /\ UNCHANGED <<ring, loaded, writers, ch, closed, msg, seen, sent, since,
                 subv>>

Lock(p) ==
  /\ lock = Nil
  /\ Goto(p, "lock", "deliver")
  /\ lock' = p
  /\ todo' = [todo EXCEPT ![p] = writers]
  /\ log' = Append(log, msg[p])
  /\ UNCHANGED <<ring, loaded, writers, ch, closed, msg, seen, sent, since,
                 subv>>

\* Mutants: no bound on the channel; no timeout.
DeliverUnbounded(p, s) ==
  /\ pc[p] = "deliver" /\ s \in todo[p]
  /\ todo' = [todo EXCEPT ![p] = @ \ {s}]
  /\ ch' = [ch EXCEPT ![s] = Append(@, Live(msg[p]))]
  /\ UNCHANGED <<ring, loaded, writers, closed, lock, msg, seen, pc, sent,
                 topic, subv>>

DeliverBlocking(p, s) ==
  /\ pc[p] = "deliver" /\ s \in todo[p] /\ Len(ch[s]) < Cap
  /\ todo' = [todo EXCEPT ![p] = @ \ {s}]
  /\ ch' = [ch EXCEPT ![s] = Append(@, Live(msg[p]))]
  /\ UNCHANGED <<ring, loaded, writers, closed, lock, msg, seen, pc, sent,
                 topic, subv>>

\* chanStrWriter.Write: a closed writer or 100ms with a full channel fail,
\* and a writer that failed is closed and removed.
Deliver(p, s) ==
  /\ pc[p] = "deliver" /\ s \in todo[p]
  /\ todo' = [todo EXCEPT ![p] = @ \ {s}]
  /\ \/ /\ s \notin closed /\ Len(ch[s]) < Cap
        /\ ch' = [ch EXCEPT ![s] = Append(@, Live(msg[p]))]
        /\ UNCHANGED <<writers, closed>>
     \/ /\ s \in closed \/ Len(ch[s]) = Cap
        /\ closed' = closed \cup {s}
        /\ writers' = writers \ {s}
        /\ UNCHANGED ch
  /\ UNCHANGED <<ring, loaded, lock, msg, seen, pc, sent, topic, subv>>

Unlock(p) ==
  /\ todo[p] = {}
  /\ Goto(p, "deliver", "idle")
  /\ lock' = Nil
  /\ UNCHANGED <<ring, loaded, writers, ch, closed, msg, todo, seen, sent,
                 topic, subv>>

-----------------------------------------------------------------------------
(* NewChanString, called by handleWs and addEventSub                       *)

Arrive(s) ==
  /\ Goto(s, "idle", "register")
  /\ UNCHANGED <<ring, loaded, writers, ch, closed, lock, msg, todo, seen,
                 sent, topic, subv>>

Register(s) ==
  /\ lock = Nil
  /\ Goto(s, "register", "history")
  /\ writers' = writers \cup {s}
  /\ since' = [since EXCEPT ![s] = {Len(log)}]
  /\ UNCHANGED <<ring, loaded, ch, closed, lock, msg, todo, seen, sent, log,
                 subv>>

\* w.buf.Bytes, without the lock.
ReadHistory(s) ==
  /\ Goto(s, "history", "check")
  /\ hist' = [hist EXCEPT ![s] = ring]
  /\ UNCHANGED <<ring, loaded, writers, ch, closed, lock, msg, todo, seen,
                 gone, fwd, sent, topic>>

\* NewChanString returns; addEventSub then spawns the forwarder.
Subscribed(s) == fwd' = IF s \in Watchers THEN [fwd EXCEPT ![s] = "range"]
                                          ELSE fwd

CheckClosed(s) ==
  /\ IF s \in closed
     THEN Goto(s, "check", "loop") /\ Subscribed(s)
     ELSE Goto(s, "check", "send") /\ UNCHANGED fwd
  /\ UNCHANGED <<ring, loaded, writers, ch, closed, lock, msg, todo, seen,
                 hist, gone, sent, topic>>

\* Mutant: an empty history is not sent.
SendHistoryIfAny(s) ==
  /\ Goto(s, "send", "loop")
  /\ s \notin closed
  /\ IF Len(ch[s]) < Cap /\ hist[s] # <<>>
     THEN ch' = [ch EXCEPT ![s] = Append(@, History(hist[s]))]
     ELSE UNCHANGED ch
  /\ Subscribed(s)
  /\ UNCHANGED <<ring, loaded, writers, closed, lock, msg, todo, seen, hist,
                 gone, sent, topic>>

\* The select of chanStrWriter.Write, without the lock: a publisher that gave
\* up on this writer may have closed its channel, and the send panics, which
\* net/http recovers.  100ms with a full channel end it without a history.
SendHistory(s) ==
  /\ \/ /\ s \in closed
        /\ Goto(s, "send", "end")
        /\ UNCHANGED <<ch, fwd>>
     \/ /\ s \notin closed
        /\ Goto(s, "send", "loop")
        /\ IF Len(ch[s]) < Cap
           THEN ch' = [ch EXCEPT ![s] = Append(@, History(hist[s]))]
           ELSE UNCHANGED ch
        /\ Subscribed(s)
  /\ UNCHANGED <<ring, loaded, writers, closed, lock, msg, todo, seen, hist,
                 gone, sent, topic>>

-----------------------------------------------------------------------------
(* handleWs                                                                *)

\* Receive(s): the first that is received is not passed on if it is an event
\* (skipFirst), the others are; the client may take as long as it likes.
Receive(s) ==
  /\ ch[s] # <<>>
  /\ ch' = [ch EXCEPT ![s] = Tail(@)]
  /\ seen' = IF IsLive(Head(ch[s]))
             THEN [seen EXCEPT ![s] = Append(@, Head(ch[s]).msgs[1])]
             ELSE seen

Forward(s) ==
  /\ s \in Sockets /\ pc[s] = "loop" /\ Receive(s)
  /\ UNCHANGED <<ring, loaded, writers, closed, lock, msg, todo, pc, sent,
                 topic, subv>>

\* The client closes, or a write to it fails.
Leave(s) ==
  /\ s \in Sockets /\ pc[s] = "loop" /\ s \notin gone
  /\ gone' = gone \cup {s}
  /\ UNCHANGED <<ring, loaded, writers, ch, closed, lock, msg, todo, seen,
                 hist, fwd, pc, sent, topic>>

\* The loop of handleWs ends when it is told to, or finds its channel closed.
EndLoop(s) ==
  /\ \/ s \in gone
     \/ s \in Sockets \cap closed /\ ch[s] = <<>>
  /\ Goto(s, "loop", "unsubscribe")
  /\ UNCHANGED <<ring, loaded, writers, ch, closed, lock, msg, todo, seen,
                 sent, topic, subv>>

\* Mutant: closed, but not deleted.
CloseWriterOnly(s) ==
  /\ lock = Nil
  /\ Goto(s, "unsubscribe", "end")
  /\ closed' = closed \cup {s}
  /\ UNCHANGED <<ring, loaded, writers, ch, lock, msg, todo, seen, sent, topic,
                 subv>>

CloseWriter(s) ==
  /\ lock = Nil
  /\ Goto(s, "unsubscribe", "end")
  /\ closed' = closed \cup {s}
  /\ writers' = writers \ {s}
  /\ UNCHANGED <<ring, loaded, ch, lock, msg, todo, seen, sent, topic, subv>>

-----------------------------------------------------------------------------
(* addEventSub: the goroutine that forwards to the channel of its caller   *)

Range(w) ==
  /\ fwd[w] = "range"
  /\ \/ /\ Receive(w)
        /\ fwd' = [fwd EXCEPT ![w] = "give"]
     \/ /\ w \in closed /\ ch[w] = <<>>
        /\ fwd' = [fwd EXCEPT ![w] = "end"]
        /\ UNCHANGED <<seen, ch>>
  /\ UNCHANGED <<ring, loaded, writers, closed, lock, msg, todo, pc, sent,
                 hist, gone, topic>>

\* The caller's channel has no buffer: the caller must be at its select.  It
\* leaves if it finds its process stopped, and waits for the next event if not.
Give(w) ==
  /\ fwd[w] = "give" /\ pc[w] = "loop" /\ w \notin gone
  /\ fwd' = [fwd EXCEPT ![w] = "range"]
  /\ gone' \in {gone, gone \cup {w}}
  /\ UNCHANGED <<ring, loaded, writers, ch, closed, lock, msg, todo, seen,
                 hist, pc, sent, topic>>

-----------------------------------------------------------------------------
PubStep(p) == \/ Store(p) \/ Lock(p) \/ Unlock(p)
              \/ \E s \in Subs : Deliver(p, s)
SubStep(s) == \/ Register(s) \/ ReadHistory(s) \/ CheckClosed(s)
              \/ SendHistory(s) \/ EndLoop(s) \/ CloseWriter(s)
FwdStep(w) == Range(w) \/ Give(w)

Next ==
  \/ \E p \in Pubs : Post(p) \/ PubStep(p)
  \/ \E s \in Subs : Arrive(s) \/ SubStep(s) \/ Leave(s)
  \/ \E s \in Sockets : Forward(s)
  \/ \E w \in Watchers : FwdStep(w)

Spec == Init /\ [][Next]_vars

\* Threads run; a publisher's and a subscriber's timers fire.  Nothing is
\* assumed of the clients: one may read nothing and never leave.
Fairness ==
  /\ \A p \in Pubs : WF_vars(PubStep(p))
  /\ \A s \in Subs : WF_vars(SubStep(s))
  /\ \A w \in Watchers : WF_vars(FwdStep(w))

FairSpec == Spec /\ Fairness

-----------------------------------------------------------------------------
(* Properties *)

Abstract == INSTANCE Topic WITH log <- log, since <- since, seen <- seen

\* Whatever publishers, slow clients and leaving clients do, each subscriber
\* receives the messages that follow its registration in the one order, none
\* missing and none twice (WriteBroadcaster.Write, chanStrWriter.Write).
ImplementsTopic == Abstract!Spec

\* With one publisher (drain of a QuickLossBroadcastWriter) nothing is lost
\* between the history and what follows it: what came before the registration
\* is in the history that is read after it (NewChanString).
HistoryComplete ==
  \A s \in Subs : pc[s] \in {"check", "send", "loop"} =>
    \A n \in since[s] : \A i \in 1..n : \E j \in 1..Len(hist[s]) :
      hist[s][j] = log[i]

\* A write comes back, though a client may read nothing: PostEvent is called
\* by FSM.SetState, Write by the goroutine that drains the output.
PublisherReturns == \A p \in Pubs : (pc[p] # "idle") ~> (pc[p] = "idle")

\* A handler whose client has gone returns, and nothing is left registered
\* for it, though publishers close writers on their own.
HandlerLeaves ==
  \A s \in Sockets :
    (s \in gone) ~> [](pc[s] = "end" /\ s \notin writers /\ s \in closed)

\* stopAndWait, which subscribes after its stop and may have missed the last
\* event, is woken at least once: the history is sent even if it is empty.
WakesUp ==
  \A w \in Watchers :
    (pc[w] = "register") ~> (fwd[w] = "give" \/ pc[w] = "end")
=============================================================================
