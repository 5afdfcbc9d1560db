-------------------------- MODULE BroadcastProofs --------------------------
(***************************************************************************)
(* Broadcast implements Topic, and a history is complete when writes do    *)
(* not overlap, for any number of publishers, subscribers and messages and *)
(* any capacity of the channels.                                           *)
(*                                                                         *)
(* The argument.  Behind what a subscriber was handed comes what is in its *)
(* channel, where one history at most stands among the messages; the two   *)
(* together follow the log from the registration on (InOrder).  They reach *)
(* its end for every open writer, but for the message that the holder of   *)
(* the lock has yet to deliver; who was cut off gets nothing any more, and *)
(* so keeps a prefix.  As for the history (Kept): a lone writer has put in *)
(* the ring what it is about to log, and a history is read after the       *)
(* registration that it must reach back from.                              *)
(***************************************************************************)
EXTENDS MCBroadcast, TLAPS

Written ==
  /\ \A p \in Pubs : pc[p] \in {"store", "lock", "deliver"} => msg[p] \in Msgs
  /\ \A s \in Subs : \A i \in 1..Len(ch[s]) :
       IsLive(ch[s][i]) => Len(ch[s][i].msgs) = 1

\* The loop over the writers runs with the lock, over open writers.
Locked ==
  /\ \A p \in Pubs : pc[p] = "deliver" <=> lock = p
  /\ \A p \in Pubs : pc[p] # "deliver" => todo[p] = {}
  /\ \A p \in Pubs : todo[p] \subseteq writers
  /\ writers \cap closed = {}
  /\ \A p \in Pubs : lock = p => Len(log) > 0 /\ log[Len(log)] = msg[p]

Registered ==
  \A s \in Subs :
    /\ since[s] = {} <=> pc[s] \in {"idle", "register"}
    /\ \A m, n \in since[s] : m = n
    /\ since[s] = {} => /\ s \notin writers \cup closed
                        /\ ch[s] = <<>> /\ seen[s] = <<>>

OneHistory ==
  \A s \in Subs : \A i \in 1..Len(ch[s]) : ~IsLive(ch[s][i]) =>
    /\ pc[s] \notin {"idle", "register", "history", "check", "send"}
    /\ \A j \in 1..Len(ch[s]) : ~IsLive(ch[s][j]) => i = j

\* How many of the first n of a channel are messages, if one at most is not.
Past(q, n)  == \E i \in 1..n : ~IsLive(q[i])
Count(q, n) == IF Past(q, n) THEN n - 1 ELSE n

\* The place in the log of the i-th message in the channel, if n came before
\* the registration.
At(s, n, i) == n + Len(seen[s]) + Count(ch[s], i)

Open(s) == \A p \in Pubs : s \notin todo[p]

Follows(s, n) ==
  /\ \A i \in 1..Len(ch[s]) :
       IsLive(ch[s][i]) => ch[s][i].msgs[1] = log[At(s, n, i)]
  /\ At(s, n, Len(ch[s])) <= Len(log)
  /\ s \in writers =>
       At(s, n, Len(ch[s])) = IF Open(s) THEN Len(log) ELSE Len(log) - 1

InOrder == \A s \in Subs : \A n \in since[s] : Follows(s, n)

IInv == /\ TypeOK /\ Written /\ Locked /\ Registered /\ OneHistory /\ InOrder

-----------------------------------------------------------------------------
(* Sequences and Count                                                     *)

LEMMA AppendIs ==
  ASSUME NEW S, NEW q \in Seq(S), NEW x \in S
  PROVE  /\ Append(q, x) \in Seq(S) /\ Len(Append(q, x)) = Len(q) + 1
         /\ Len(q) \in Nat
         /\ \A i \in 1..Len(q) : Append(q, x)[i] = q[i]
         /\ Append(q, x)[Len(q) + 1] = x
  OBVIOUS

LEMMA TailIs ==
  ASSUME NEW S, NEW q \in Seq(S), q # <<>>
  PROVE  /\ Tail(q) \in Seq(S) /\ Len(Tail(q)) = Len(q) - 1
         /\ Len(q) \in Nat \ {0}
         /\ Head(q) = q[1] /\ Head(q) \in S
         /\ \A i \in 1..(Len(q) - 1) : Tail(q)[i] = q[i + 1]
  OBVIOUS

LEMMA CountNat ==
  ASSUME NEW q, NEW n \in Nat
  PROVE  Count(q, n) \in Nat
  BY DEF Count, Past

LEMMA CountAppend ==
  ASSUME NEW q \in Seq(Items), NEW x \in Items
  PROVE  /\ \A n \in 0..Len(q) : Count(Append(q, x), n) = Count(q, n)
         /\ Count(Append(q, x), Len(q) + 1) =
              IF IsLive(x) THEN Count(q, Len(q)) + 1
              ELSE Len(q)
<1>1. /\ Len(q) \in Nat /\ \A i \in 1..Len(q) : Append(q, x)[i] = q[i]
      /\ Append(q, x)[Len(q) + 1] = x
  BY AppendIs
<1>2. \A n \in 0..Len(q) : Past(Append(q, x), n) <=> Past(q, n)
  BY <1>1 DEF Past
<1>3. Past(Append(q, x), Len(q) + 1) <=> Past(q, Len(q)) \/ ~IsLive(x)
  BY <1>1 DEF Past
<1> QED
  BY <1>1, <1>2, <1>3 DEF Count

LEMMA CountTail ==
  ASSUME NEW q \in Seq(Items), q # <<>>,
         \A i, j \in 1..Len(q) : ~IsLive(q[i]) /\ ~IsLive(q[j]) => i = j
  PROVE  \A n \in 0..(Len(q) - 1) :
           Count(Tail(q), n) =
             Count(q, n + 1) - IF IsLive(Head(q)) THEN 1 ELSE 0
<1>1. /\ Len(q) \in Nat \ {0} /\ Head(q) = q[1]
      /\ \A i \in 1..(Len(q) - 1) : Tail(q)[i] = q[i + 1]
  BY TailIs
<1> SUFFICES ASSUME NEW n \in 0..(Len(q) - 1)
             PROVE  Count(Tail(q), n) =
                      Count(q, n + 1) - IF IsLive(Head(q)) THEN 1 ELSE 0
  OBVIOUS
<1>2. Past(q, n + 1) <=> ~IsLive(Head(q)) \/ Past(Tail(q), n)
  <2>1. Past(Tail(q), n) => Past(q, n + 1)
    BY <1>1 DEF Past
  <2>2. ASSUME NEW i \in 1..(n + 1), ~IsLive(q[i]), IsLive(Head(q))
        PROVE  Past(Tail(q), n)
    <3>1. i - 1 \in 1..n /\ Tail(q)[i - 1] = q[i]
      BY <1>1, <2>2
    <3> QED
      BY <3>1, <2>2 DEF Past
  <2>3. ~IsLive(Head(q)) => Past(q, n + 1)
    BY <1>1 DEF Past
  <2> QED
    BY <2>1, <2>2, <2>3 DEF Past
<1>3. ~IsLive(Head(q)) => ~Past(Tail(q), n)
  BY <1>1 DEF Past
<1> QED
  BY <1>1, <1>2, <1>3 DEF Count

-----------------------------------------------------------------------------
LEMMA IInvInit == Init => IInv
  BY BroadcastAssumption
     DEF Init, IInv, TypeOK, Written, Locked, Registered, OneHistory, InOrder,
         Follows, Threads, Subs

LEMMA TypeStep == TypeOK /\ Written /\ [Next]_vars => TypeOK' /\ Written'
<1> SUFFICES ASSUME TypeOK, Written, [Next]_vars PROVE TypeOK' /\ Written'
  OBVIOUS
<1> USE BroadcastAssumption DEF TypeOK, Goto, topic, subv, Threads
<1>i. ASSUME NEW m \in Msgs
      PROVE  /\ Live(m) \in Items /\ IsLive(Live(m)) /\ Len(Live(m).msgs) = 1
  BY DEF Live, Items, IsLive
<1>h. ASSUME NEW h \in Seq(Msgs)
      PROVE  History(h) \in Items /\ ~IsLive(History(h))
  BY DEF History, Items, IsLive
<1>1. ASSUME NEW p \in Pubs, Post(p) PROVE TypeOK' /\ Written'
  BY <1>1 DEF Post, Written, Msgs
<1>2. ASSUME NEW p \in Pubs, Store(p) PROVE TypeOK' /\ Written'
  BY <1>2 DEF Store, Written
<1>3. ASSUME NEW p \in Pubs, Lock(p) PROVE TypeOK' /\ Written'
  BY <1>3 DEF Lock, Written
<1>4. ASSUME NEW p \in Pubs, Unlock(p) PROVE TypeOK' /\ Written'
  BY <1>4 DEF Unlock, Written
<1>5. ASSUME NEW p \in Pubs, NEW s \in Subs, Deliver(p, s)
      PROVE  TypeOK' /\ Written'
  <2>1. CASE s \notin closed /\ Len(ch[s]) < Cap
    <3>1. ch' = [ch EXCEPT ![s] = Append(@, Live(msg[p]))] /\ msg[p] \in Msgs
      BY <1>5, <2>1 DEF Deliver, Written
    <3>2. ch' \in [Subs -> Seq(Items)] /\ \A t \in Subs : Len(ch'[t]) <= Cap
      BY <2>1, <3>1, <1>i, AppendIs
    <3>3. Written'
      BY SMTT(30), <1>5, <2>1, <3>1, <1>i, AppendIs DEF Deliver, Written
    <3> QED
      BY <1>5, <2>1, <3>2, <3>3 DEF Deliver
  <2>2. CASE s \in closed \/ Len(ch[s]) = Cap
    BY <1>5, <2>2 DEF Deliver, Written
  <2> QED
    BY <1>5, <2>1, <2>2 DEF Deliver
<1>6. ASSUME NEW s \in Subs, Arrive(s) PROVE TypeOK' /\ Written'
  BY <1>6 DEF Arrive, Written
<1>7. ASSUME NEW s \in Subs, Register(s) PROVE TypeOK' /\ Written'
  BY <1>7 DEF Register, Written
<1>8. ASSUME NEW s \in Subs, ReadHistory(s) PROVE TypeOK' /\ Written'
  BY <1>8 DEF ReadHistory, Written
<1>9. ASSUME NEW s \in Subs, CheckClosed(s) PROVE TypeOK' /\ Written'
  BY ZenonT(40), <1>9 DEF CheckClosed, Subscribed, Written
<1>10. ASSUME NEW s \in Subs, SendHistory(s) PROVE TypeOK' /\ Written'
  <2>a. fwd' \in [Watchers -> {"none", "range", "give", "end"}]
    BY ZenonT(40), <1>10 DEF SendHistory, Subscribed
  <2>b. \E to \in {"loop", "end"} : pc' = [pc EXCEPT ![s] = to]
    BY <1>10 DEF SendHistory
  <2>c. UNCHANGED <<ring, loaded, writers, closed, lock, msg, todo, seen, hist,
                    gone, sent, topic>>
    BY <1>10 DEF SendHistory
  <2>1. CASE ch' = ch
    BY <2>a, <2>b, <2>c, <2>1 DEF Written
  <2>2. CASE /\ Len(ch[s]) < Cap
             /\ ch' = [ch EXCEPT ![s] = Append(@, History(hist[s]))]
    <3>1. ch' \in [Subs -> Seq(Items)] /\ \A t \in Subs : Len(ch'[t]) <= Cap
      BY <2>2, <1>h, AppendIs
    <3>2. \A t \in Subs : \A i \in 1..Len(ch'[t]) :
            IsLive(ch'[t][i]) => Len(ch'[t][i].msgs) = 1
      BY <2>2, <1>h, AppendIs DEF Written
    <3> QED
      BY <2>a, <2>b, <2>c, <3>1, <3>2 DEF Written
  <2> QED
    BY <1>10, <2>1, <2>2 DEF SendHistory
<1>r. ASSUME NEW s \in Subs, Receive(s)
      PROVE  /\ ch' \in [Subs -> Seq(Items)] /\ seen' \in [Subs -> Seq(Msgs)]
             /\ \A t \in Subs : Len(ch'[t]) <= Cap
             /\ \A t \in Subs : \A i \in 1..Len(ch'[t]) :
                  IsLive(ch'[t][i]) => Len(ch'[t][i].msgs) = 1
  <2>1. ch' \in [Subs -> Seq(Items)] /\ \A t \in Subs : Len(ch'[t]) <= Cap
    BY <1>r, TailIs DEF Receive
  <2>2. \A t \in Subs : \A i \in 1..Len(ch'[t]) :
                  IsLive(ch'[t][i]) => Len(ch'[t][i].msgs) = 1
    BY <1>r, TailIs DEF Receive, Written
  <2>3. ASSUME IsLive(Head(ch[s])) PROVE Head(ch[s]).msgs[1] \in Msgs
    <3>1. /\ Head(ch[s]) = ch[s][1]
          /\ Head(ch[s]) \in Items
          /\ 1 \in 1..Len(ch[s])
      BY <1>r, TailIs DEF Receive
    <3>2. Head(ch[s]).msgs \in Seq(Msgs) /\ Len(Head(ch[s]).msgs) = 1
      BY <2>3, <3>1 DEF Written, Items
    <3> QED
      BY <3>2
  <2>4. seen' \in [Subs -> Seq(Msgs)]
    BY <1>r, <2>3, AppendIs DEF Receive
  <2> QED
    BY <2>1, <2>2, <2>4
<1>11. ASSUME NEW s \in Sockets, Forward(s) PROVE TypeOK' /\ Written'
  BY <1>11, <1>r DEF Forward, Written, Subs
<1>12. ASSUME NEW s \in Subs, Leave(s) PROVE TypeOK' /\ Written'
  BY <1>12 DEF Leave, Written
<1>13. ASSUME NEW s \in Subs, EndLoop(s) PROVE TypeOK' /\ Written'
  BY <1>13 DEF EndLoop, Written
<1>14. ASSUME NEW s \in Subs, CloseWriter(s) PROVE TypeOK' /\ Written'
  BY <1>14 DEF CloseWriter, Written
<1>15. ASSUME NEW w \in Watchers, Range(w) PROVE TypeOK' /\ Written'
  <2>1. CASE Receive(w)
    BY <1>15, <2>1, <1>r DEF Range, Written, Subs
  <2> QED
    BY <1>15, <2>1 DEF Range, Written
<1>16. ASSUME NEW w \in Watchers, Give(w) PROVE TypeOK' /\ Written'
  BY <1>16 DEF Give, Written, Subs
<1>17. CASE UNCHANGED vars
  BY <1>17 DEF vars, Written
<1> QED
  BY <1>1, <1>2, <1>3, <1>4, <1>5, <1>6, <1>7, <1>8, <1>9, <1>10, <1>11,
     <1>12, <1>13, <1>14, <1>15, <1>16, <1>17
     DEF Next, PubStep, SubStep, FwdStep

LEMMA LockedStep ==
  TypeOK /\ Written /\ Registered /\ Locked /\ [Next]_vars => Locked'
<1> SUFFICES ASSUME TypeOK, Written, Registered, Locked, [Next]_vars
             PROVE  Locked'
  OBVIOUS
<1> USE BroadcastAssumption DEF TypeOK, Locked, Goto, topic, subv, Threads
<1>1. ASSUME NEW p \in Pubs, Post(p) PROVE Locked'
  BY <1>1 DEF Post
<1>2. ASSUME NEW p \in Pubs, Store(p) PROVE Locked'
  BY <1>2 DEF Store
<1>3. ASSUME NEW p \in Pubs, Lock(p) PROVE Locked'
  <2>1. msg[p] \in Msgs
    BY <1>3 DEF Lock, Written
  <2>2. Len(log') > 0 /\ log'[Len(log')] = msg[p]
    <3>1. log' = Append(log, msg[p]) /\ log \in Seq(Msgs)
      BY <1>3 DEF Lock
    <3>2. Len(Append(log, msg[p])) = Len(log) + 1 /\ Len(log) \in Nat
      BY <2>1, <3>1, AppendIs
    <3>3. Append(log, msg[p])[Len(log) + 1] = msg[p]
      BY <2>1, <3>1, AppendIs
    <3> QED
      BY <3>1, <3>2, <3>3
  <2> QED
    BY <1>3, <2>2 DEF Lock
<1>4. ASSUME NEW p \in Pubs, Unlock(p) PROVE Locked'
  BY <1>4 DEF Unlock
<1>5. ASSUME NEW p \in Pubs, NEW s \in Subs, Deliver(p, s) PROVE Locked'
  BY <1>5 DEF Deliver
<1>6. ASSUME NEW s \in Subs, Arrive(s) PROVE Locked'
  BY <1>6 DEF Arrive
<1>7. ASSUME NEW s \in Subs, Register(s) PROVE Locked'
  BY <1>7 DEF Register, Registered
<1>8. ASSUME NEW s \in Subs, ReadHistory(s) PROVE Locked'
  BY <1>8 DEF ReadHistory
<1>9. ASSUME NEW s \in Subs, CheckClosed(s) PROVE Locked'
  BY ZenonT(40), <1>9 DEF CheckClosed
<1>10. ASSUME NEW s \in Subs, SendHistory(s) PROVE Locked'
  BY <1>10 DEF SendHistory
<1>11. ASSUME NEW s \in Sockets, Forward(s) PROVE Locked'
  BY <1>11 DEF Forward, Receive
<1>12. ASSUME NEW s \in Subs, Leave(s) PROVE Locked'
  BY <1>12 DEF Leave
<1>13. ASSUME NEW s \in Subs, EndLoop(s) PROVE Locked'
  BY <1>13 DEF EndLoop
<1>14. ASSUME NEW s \in Subs, CloseWriter(s) PROVE Locked'
  BY <1>14 DEF CloseWriter
<1>15. ASSUME NEW w \in Watchers, Range(w) PROVE Locked'
  BY <1>15 DEF Range, Receive
<1>16. ASSUME NEW w \in Watchers, Give(w) PROVE Locked'
  BY <1>16 DEF Give
<1>17. CASE UNCHANGED vars
  BY <1>17 DEF vars
<1> QED
  BY <1>1, <1>2, <1>3, <1>4, <1>5, <1>6, <1>7, <1>8, <1>9, <1>10, <1>11, <1>12,
     <1>13, <1>14, <1>15, <1>16, <1>17
     DEF Next, PubStep, SubStep, FwdStep

LEMMA RegisteredStep ==
  TypeOK /\ Locked /\ Registered /\ [Next]_vars => Registered'
<1> SUFFICES ASSUME TypeOK, Locked, Registered, [Next]_vars PROVE Registered'
  OBVIOUS
<1> USE BroadcastAssumption DEF TypeOK, Registered, Goto, topic, subv, Threads
<1>1. ASSUME NEW p \in Pubs, Post(p) PROVE Registered'
  BY <1>1 DEF Post
<1>2. ASSUME NEW p \in Pubs, Store(p) PROVE Registered'
  BY <1>2 DEF Store
<1>3. ASSUME NEW p \in Pubs, Lock(p) PROVE Registered'
  BY <1>3 DEF Lock
<1>4. ASSUME NEW p \in Pubs, Unlock(p) PROVE Registered'
  BY <1>4 DEF Unlock
<1>5. ASSUME NEW p \in Pubs, NEW s \in Subs, Deliver(p, s) PROVE Registered'
  <2>1. UNCHANGED <<pc, since, seen>>
    BY <1>5 DEF Deliver
  <2>2. \A t \in Subs : \A m, n \in since'[t] : m = n
    BY <2>1
  <2>3. \A t \in Subs : since'[t] = {} <=> pc'[t] \in {"idle", "register"}
    BY <2>1
  <2>4. s \in writers
    BY <1>5 DEF Deliver, Locked
  <2>5. /\ \A t \in Subs \ {s} : ch'[t] = ch[t]
        /\ writers' \cup closed' \subseteq writers \cup closed
    BY SMTT(30), <1>5, <2>4 DEF Deliver
  <2>6. ASSUME NEW t \in Subs, since'[t] = {}
        PROVE  /\ t \notin writers' \cup closed'
               /\ ch'[t] = <<>> /\ seen'[t] = <<>>
    BY <2>1, <2>4, <2>5, <2>6
  <2> QED
    BY <2>2, <2>3, <2>6
<1>6. ASSUME NEW s \in Subs, Arrive(s) PROVE Registered'
  BY <1>6 DEF Arrive
<1>7. ASSUME NEW s \in Subs, Register(s) PROVE Registered'
  BY ZenonT(40), <1>7 DEF Register
<1>8. ASSUME NEW s \in Subs, ReadHistory(s) PROVE Registered'
  BY <1>8 DEF ReadHistory
<1>9. ASSUME NEW s \in Subs, CheckClosed(s) PROVE Registered'
  <2>1. /\ pc[s] = "check"
        /\ \E to \in {"loop", "send"} : pc' = [pc EXCEPT ![s] = to]
    BY <1>9 DEF CheckClosed
  <2> QED
    BY <1>9, <2>1 DEF CheckClosed
<1>10. ASSUME NEW s \in Subs, SendHistory(s) PROVE Registered'
  <2>1. /\ pc[s] = "send"
        /\ \E to \in {"loop", "end"} : pc' = [pc EXCEPT ![s] = to]
    BY <1>10 DEF SendHistory
  <2>2. /\ UNCHANGED <<writers, closed, seen, since>>
        /\ \A t \in Subs : t # s => ch'[t] = ch[t]
    BY <1>10 DEF SendHistory
  <2> QED
    BY SMTT(30), <2>1, <2>2
<1>11. ASSUME NEW s \in Sockets, Forward(s) PROVE Registered'
  BY <1>11 DEF Forward, Receive, Subs
<1>12. ASSUME NEW s \in Subs, Leave(s) PROVE Registered'
  BY <1>12 DEF Leave
<1>13. ASSUME NEW s \in Subs, EndLoop(s) PROVE Registered'
  BY <1>13 DEF EndLoop
<1>14. ASSUME NEW s \in Subs, CloseWriter(s) PROVE Registered'
  BY <1>14 DEF CloseWriter
<1>15. ASSUME NEW w \in Watchers, Range(w) PROVE Registered'
  BY SMTT(30), <1>15 DEF Range, Receive, Subs
<1>16. ASSUME NEW w \in Watchers, Give(w) PROVE Registered'
  BY <1>16 DEF Give
<1>17. CASE UNCHANGED vars
  BY <1>17 DEF vars
<1> QED
  BY <1>1, <1>2, <1>3, <1>4, <1>5, <1>6, <1>7, <1>8, <1>9, <1>10, <1>11, <1>12,
     <1>13, <1>14, <1>15, <1>16, <1>17
     DEF Next, PubStep, SubStep, FwdStep

LEMMA OneHistoryStep ==
  TypeOK /\ Registered /\ OneHistory /\ [Next]_vars => OneHistory'
<1> SUFFICES ASSUME TypeOK, Registered, OneHistory, [Next]_vars
             PROVE  OneHistory'
  OBVIOUS
<1> USE BroadcastAssumption DEF TypeOK, Goto, topic, subv, Threads
<1>u. ASSUME UNCHANGED ch,
             \A s \in Subs : pc'[s] # pc[s] =>
               \/ pc'[s] \notin
                    {"idle", "register", "history", "check", "send"}
               \/ pc[s] \in {"idle", "register", "history", "check", "send"}
      PROVE  OneHistory'
  BY <1>u DEF OneHistory
<1>r. ASSUME NEW s \in Subs, Receive(s), UNCHANGED pc PROVE OneHistory'
  BY <1>r, TailIs DEF Receive, OneHistory
<1>1. ASSUME NEW p \in Pubs, Post(p) \/ PubStep(p) PROVE OneHistory'
  <2>1. ASSUME NEW s \in Subs, Deliver(p, s) PROVE OneHistory'
    <3>1. CASE UNCHANGED ch
      BY <2>1, <3>1, <1>u DEF Deliver
    <3>2. CASE ch' = [ch EXCEPT ![s] = Append(@, Live(msg[p]))]
      BY <2>1, <3>2 DEF Deliver, OneHistory, Live, IsLive
    <3> QED
      BY <2>1, <3>1, <3>2 DEF Deliver
  <2>2. CASE Post(p) \/ Store(p) \/ Lock(p) \/ Unlock(p)
    BY <2>2, <1>u DEF Post, Store, Lock, Unlock
  <2> QED
    BY <1>1, <2>1, <2>2 DEF PubStep
<1>2. ASSUME NEW s \in Subs, SendHistory(s) PROVE OneHistory'
  <2>1. CASE UNCHANGED ch
    BY <1>2, <2>1, <1>u DEF SendHistory
  <2>2. CASE ch' = [ch EXCEPT ![s] = Append(@, History(hist[s]))]
    <3>1. pc[s] = "send" /\ \A t \in Subs : t # s => pc'[t] = pc[t]
      BY <1>2 DEF SendHistory
    <3>2. pc'[s] \in {"loop", "end"}
      BY <1>2 DEF SendHistory
    <3> QED
      BY <2>2, <3>1, <3>2 DEF OneHistory
  <2> QED
    BY <1>2, <2>1, <2>2 DEF SendHistory
<1>3. ASSUME NEW s \in Subs,
             \/ Arrive(s) \/ Register(s) \/ ReadHistory(s) \/ CheckClosed(s)
             \/ EndLoop(s) \/ CloseWriter(s) \/ Leave(s)
      PROVE  OneHistory'
  BY <1>3, <1>u DEF Arrive, Register, ReadHistory, CheckClosed, EndLoop,
                    CloseWriter, Leave
<1>4. ASSUME NEW s \in Sockets, Forward(s) PROVE OneHistory'
  BY <1>4, <1>r DEF Forward, Subs
<1>5. ASSUME NEW w \in Watchers, FwdStep(w) PROVE OneHistory'
  BY <1>5, <1>r, <1>u DEF FwdStep, Range, Give, Subs
<1>6. CASE UNCHANGED vars
  BY <1>6, <1>u DEF vars
<1> QED
  BY <1>1, <1>2, <1>3, <1>4, <1>5, <1>6 DEF Next, SubStep

LEMMA InOrderStep == IInv /\ TypeOK' /\ Locked' /\ [Next]_vars => InOrder'
<1> SUFFICES ASSUME IInv, TypeOK', Locked', [Next]_vars PROVE InOrder'
  OBVIOUS
<1> USE BroadcastAssumption DEF Goto, topic, subv
<1>t. /\ TypeOK /\ Written /\ Locked /\ Registered /\ OneHistory /\ InOrder
      /\ log \in Seq(Msgs) /\ Len(log) \in Nat
      /\ ch \in [Subs -> Seq(Items)] /\ seen \in [Subs -> Seq(Msgs)]
      /\ \A s \in Subs : Len(ch[s]) \in Nat /\ Len(seen[s]) \in Nat
      /\ \A s \in Subs : since[s] \subseteq Nat
  BY SMTT(30) DEF IInv, TypeOK
\* A step that adds nothing to a channel or the log, and takes nothing off.
<1>u. ASSUME UNCHANGED <<ch, seen, log, since>>, writers' \subseteq writers,
             \A s \in writers' : Open(s)' <=> Open(s)
      PROVE  InOrder'
  <2>1. \A s, n, i : At(s, n, i)' = At(s, n, i)
    BY <1>u DEF At, Count, Past
  <2> SUFFICES ASSUME NEW s \in Subs, NEW n \in since[s] PROVE Follows(s, n)'
    BY <1>u DEF InOrder
  <2>2. Follows(s, n)
    BY <1>t DEF InOrder
  <2>3. At(s, n, Len(ch[s]))' = At(s, n, Len(ch[s]))
    BY <2>1, <1>u
  <2>4. s \in writers' => s \in writers /\ (Open(s)' <=> Open(s))
    BY <1>u
  <2>5. At(s, n, Len(ch[s]))' <= Len(log')
    BY <2>2, <2>3, <1>u DEF Follows
  <2>6. \A i \in 1..Len(ch'[s]) :
          IsLive(ch'[s][i]) => ch'[s][i].msgs[1] = log'[At(s, n, i)']
    BY <2>1, <2>2, <1>u DEF Follows
  <2>7. s \in writers' => At(s, n, Len(ch[s]))' =
          IF Open(s)' THEN Len(log') ELSE Len(log') - 1
    BY <2>2, <2>3, <2>4, <1>u DEF Follows
  <2> QED
    BY <2>5, <2>6, <2>7 DEF Follows
<1>r. ASSUME NEW s \in Subs, Receive(s),
             UNCHANGED <<log, since, writers, todo>>
      PROVE  InOrder'
  <2> SUFFICES ASSUME NEW n \in since[s]
               PROVE  /\ \A i \in 1..Len(ch'[s]) : IsLive(ch'[s][i]) =>
                           ch'[s][i].msgs[1] = log[At(s, n, i)']
                      /\ At(s, n, Len(ch[s]))' = At(s, n, Len(ch[s]))
    <3>1. \A t \in Subs \ {s} : ch'[t] = ch[t] /\ seen'[t] = seen[t]
      BY <1>r, <1>t DEF Receive
    <3>2. \A t \in Subs \ {s} : \A n, i : At(t, n, i)' = At(t, n, i)
      BY <3>1 DEF At, Count, Past
    <3>3. \A t \in Subs : Open(t)' <=> Open(t)
      BY <1>r DEF Open
    <3>4. \A t \in Subs \ {s} : \A n : Follows(t, n) => Follows(t, n)'
      BY <1>r, <3>1, <3>2, <3>3 DEF Follows
    <3>5. \A n \in since[s] : Follows(s, n)'
      BY <1>r, <1>t, <3>3 DEF InOrder, Follows
    <3> QED
      BY <1>r, <1>t, <3>4, <3>5 DEF InOrder
  <2>1. /\ ch'[s] = Tail(ch[s]) /\ ch[s] # <<>> /\ ch[s] \in Seq(Items)
        /\ Len(ch'[s]) = Len(ch[s]) - 1 /\ Len(ch[s]) \in Nat \ {0}
        /\ \A i \in 1..Len(ch'[s]) : ch'[s][i] = ch[s][i + 1]
    BY <1>r, <1>t, TailIs DEF Receive
  <2>2. Len(seen'[s]) = Len(seen[s]) + IF IsLive(Head(ch[s])) THEN 1 ELSE 0
    <3>1. CASE IsLive(Head(ch[s]))
      <4>1. seen'[s] = Append(seen[s], Head(ch[s]).msgs[1])
        BY <1>r, <1>t, <3>1 DEF Receive
      <4> QED
        BY <4>1, <3>1, <1>t
    <3>2. CASE ~IsLive(Head(ch[s]))
      BY <1>r, <1>t, <3>2 DEF Receive
    <3> QED
      BY <3>1, <3>2
  <2>3. \A k \in 0..(Len(ch[s]) - 1) :
          Count(ch'[s], k) = Count(ch[s], k + 1)
                             - IF IsLive(Head(ch[s])) THEN 1 ELSE 0
    BY ZenonT(40), <2>1, <1>t, CountTail DEF OneHistory
  <2>4. \A k \in 0..(Len(ch[s]) - 1) :
          /\ At(s, n, k)' = At(s, n, k + 1)
          /\ n + Len(seen'[s]) + Count(ch'[s], k) = At(s, n, k + 1)
    <3> SUFFICES ASSUME NEW k \in 0..(Len(ch[s]) - 1)
                 PROVE  /\ At(s, n, k)' = At(s, n, k + 1)
                        /\ n + Len(seen'[s]) + Count(ch'[s], k)
                             = At(s, n, k + 1)
      OBVIOUS
    <3>1. At(s, n, k)' = n + Len(seen'[s]) + Count(ch'[s], k)
      BY DEF At, Count, Past
    <3>2. Count(ch[s], k + 1) \in Nat
      BY <2>1, CountNat
    <3>3. n \in Nat
      BY <1>t
    <3> QED
      BY <3>1, <3>2, <3>3, <2>2, <2>3, <1>t DEF At
  <2>5. \A i \in 1..Len(ch'[s]) : IsLive(ch'[s][i]) =>
          ch'[s][i].msgs[1] = log[At(s, n, i)']
    <3> SUFFICES ASSUME NEW i \in 1..Len(ch'[s]), IsLive(ch'[s][i])
                 PROVE  ch'[s][i].msgs[1] = log[At(s, n, i)']
      OBVIOUS
    <3>1. i + 1 \in 1..Len(ch[s]) /\ i \in 0..(Len(ch[s]) - 1)
      BY <2>1
    <3>2. ch[s][i + 1].msgs[1] = log[At(s, n, i + 1)]
      BY <3>1, <2>1, <1>t DEF InOrder, Follows
    <3> QED
      BY <3>1, <3>2, <2>1, <2>4
  <2>6. At(s, n, Len(ch[s]))' = At(s, n, Len(ch[s]))
    <3>1. PICK k \in 0..(Len(ch[s]) - 1) :
            Len(ch'[s]) = k /\ Len(ch[s]) = k + 1
      BY <2>1
    <3>2. At(s, n, Len(ch[s]))' =
            n + Len(seen'[s]) + Count(ch'[s], Len(ch'[s]))
      BY DEF At, Count, Past
    <3> QED
      BY <3>1, <3>2, <2>4
  <2> QED
    BY <2>5, <2>6
\* A step that appends x to the channel of s.
<1>a. ASSUME NEW s \in Subs, NEW x \in Items,
             UNCHANGED <<log, seen, since, writers>>,
             ch'[s] = Append(ch[s], x),
             \A t \in Subs \ {s} : ch'[t] = ch[t] /\ (Open(t)' <=> Open(t)),
             IF IsLive(x)
             THEN /\ s \in writers /\ ~Open(s) /\ Open(s)'
                  /\ x.msgs[1] = log[Len(log)]
             ELSE ~Past(ch[s], Len(ch[s])) /\ (Open(s)' <=> Open(s))
      PROVE  InOrder'
  <2>1. /\ ch[s] \in Seq(Items) /\ Len(ch[s]) \in Nat
        /\ Len(ch'[s]) = Len(ch[s]) + 1 /\ ch'[s][Len(ch[s]) + 1] = x
        /\ \A i \in 1..Len(ch[s]) : ch'[s][i] = ch[s][i]
    BY <1>a, <1>t, AppendIs
  <2>2. /\ \A i \in 0..Len(ch[s]) : Count(ch'[s], i) = Count(ch[s], i)
        /\ Count(ch'[s], Len(ch[s]) + 1) =
             IF IsLive(x) THEN Count(ch[s], Len(ch[s])) + 1 ELSE Len(ch[s])
    BY <1>a, <2>1, CountAppend
  <2>3. ~IsLive(x) => Count(ch[s], Len(ch[s])) = Len(ch[s])
    BY <1>a DEF Count
  <2> SUFFICES ASSUME NEW n \in since[s]
               PROVE  LET at(i) == n + Len(seen[s]) + Count(ch'[s], i) IN
                      /\ \A i \in 1..Len(ch'[s]) : IsLive(ch'[s][i]) =>
                           ch'[s][i].msgs[1] = log[at(i)]
                      /\ at(Len(ch'[s])) <= Len(log)
                      /\ s \in writers => at(Len(ch'[s])) =
                           IF Open(s)' THEN Len(log) ELSE Len(log) - 1
    <3>1. \A t \in Subs \ {s} : \A n, i : At(t, n, i)' = At(t, n, i)
      BY <1>a DEF At, Count, Past
    <3>2. \A n, i : At(s, n, i)' = n + Len(seen[s]) + Count(ch'[s], i)
      BY <1>a DEF At, Count, Past
    <3>3. \A t \in Subs \ {s} : \A n : Follows(t, n) => Follows(t, n)'
      BY <1>a, <3>1 DEF Follows
    <3>4. \A n \in since[s] : Follows(s, n)'
      BY <1>a, <3>2 DEF Follows
    <3> QED
      BY <1>a, <1>t, <3>3, <3>4 DEF InOrder
  <2> DEFINE at(i) == n + Len(seen[s]) + Count(ch'[s], i)
  <2>4. /\ \A i \in 1..Len(ch[s]) : IsLive(ch[s][i]) =>
             ch[s][i].msgs[1] = log[At(s, n, i)]
        /\ At(s, n, Len(ch[s])) <= Len(log)
        /\ s \in writers => At(s, n, Len(ch[s])) =
             IF Open(s) THEN Len(log) ELSE Len(log) - 1
    BY <1>t DEF InOrder, Follows
  <2>5. n \in Nat /\ Count(ch[s], Len(ch[s])) \in Nat
    BY <1>t, CountNat
  <2>6. \A i \in 0..Len(ch[s]) : at(i) = At(s, n, i)
    BY <2>2 DEF At
  <2>7. at(Len(ch'[s])) = At(s, n, Len(ch[s])) + IF IsLive(x) THEN 1 ELSE 0
    BY <2>1, <2>2, <2>3, <2>5, <1>t DEF At
  <2>8. IsLive(x) => at(Len(ch'[s])) = Len(log)
    BY <1>a, <2>4, <2>7, <1>t
  <2>9. \A i \in 1..Len(ch'[s]) : IsLive(ch'[s][i]) =>
          ch'[s][i].msgs[1] = log[at(i)]
    <3> SUFFICES ASSUME NEW i \in 1..Len(ch'[s]), IsLive(ch'[s][i])
                 PROVE  ch'[s][i].msgs[1] = log[at(i)]
      OBVIOUS
    <3>1. CASE i \in 1..Len(ch[s])
      BY <2>1, <2>4, <2>6, <3>1
    <3>2. CASE i = Len(ch'[s])
      BY <1>a, <2>1, <2>8, <3>2
    <3> QED
      BY <2>1, <3>1, <3>2
  <2>10. CASE IsLive(x)
    <3>1. at(Len(ch'[s])) = Len(log) /\ Len(log) \in Nat /\ Open(s)'
      BY <1>a, <2>8, <2>10, <1>t
    <3> QED
      BY <2>9, <3>1
  <2>11. CASE ~IsLive(x)
    <3>1. at(Len(ch'[s])) = At(s, n, Len(ch[s]))
      BY <2>5, <2>7, <2>11, <1>t DEF At
    <3> QED
      BY <1>a, <2>4, <2>9, <2>11, <3>1
  <2> QED
    BY <2>10, <2>11
<1>1. ASSUME NEW p \in Pubs, Lock(p) PROVE InOrder'
  <2>1. log' = Append(log, msg[p]) /\ msg[p] \in Msgs
    BY <1>1, <1>t DEF Lock, Written
  <2>2. Len(log') = Len(log) + 1 /\ \A i \in 1..Len(log) : log'[i] = log[i]
    BY <2>1, <1>t, AppendIs
  <2>3. \A s \in Subs : Open(s)
    BY <1>1, <1>t DEF Lock, Locked, Open, Threads
  <2>4. \A s \in writers : ~Open(s)'
    BY <1>1, <1>t DEF Lock, Open, TypeOK
  <2>5. UNCHANGED <<ch, seen, since, writers>>
    BY <1>1 DEF Lock
  <2> SUFFICES ASSUME NEW s \in Subs, NEW n \in since[s]
               PROVE  /\ \A i \in 1..Len(ch[s]) : IsLive(ch[s][i]) =>
                           ch[s][i].msgs[1] = log'[At(s, n, i)]
                      /\ At(s, n, Len(ch[s])) <= Len(log')
                      /\ s \in writers => At(s, n, Len(ch[s])) = Len(log') - 1
    BY <2>3, <2>4, <2>5 DEF InOrder, Follows, At, Count, Past
  <2>6. At(s, n, Len(ch[s])) <= Len(log)
    BY <1>t DEF InOrder, Follows
  <2>7. \A i \in 1..Len(ch[s]) :
          IsLive(ch[s][i]) => At(s, n, i) \in 1..Len(log)
    <3> SUFFICES ASSUME NEW i \in 1..Len(ch[s]), IsLive(ch[s][i])
                 PROVE  At(s, n, i) \in 1..Len(log)
      OBVIOUS
    <3>1. Count(ch[s], i) >= 1
      BY <1>t DEF Count, Past
    <3>2. Count(ch[s], i) <= Count(ch[s], Len(ch[s]))
      BY <1>t DEF Count, Past
    <3>3. /\ n \in Nat
          /\ Count(ch[s], i) \in Nat
          /\ Count(ch[s], Len(ch[s])) \in Nat
      BY <1>t, CountNat
    <3> QED
      BY <3>1, <3>2, <3>3, <2>6, <1>t DEF At
  <2>8. \A i \in 1..Len(ch[s]) : IsLive(ch[s][i]) =>
          ch[s][i].msgs[1] = log[At(s, n, i)]
    BY <1>t DEF InOrder, Follows
  <2>9. s \in writers => At(s, n, Len(ch[s])) = Len(log)
    BY <2>3, <1>t DEF InOrder, Follows
  <2>10. At(s, n, Len(ch[s])) \in Nat
    BY <1>t, CountNat DEF At
  <2>11. \A i \in 1..Len(ch[s]) : IsLive(ch[s][i]) =>
           ch[s][i].msgs[1] = log'[At(s, n, i)]
    BY <2>2, <2>7, <2>8
  <2>12. At(s, n, Len(ch[s])) <= Len(log')
    BY <2>2, <2>6, <2>10, <1>t
  <2>13. s \in writers => At(s, n, Len(ch[s])) = Len(log') - 1
    BY <2>2, <2>9, <1>t
  <2> QED
    BY <2>11, <2>12, <2>13
<1>2. ASSUME NEW p \in Pubs, NEW s \in Subs, Deliver(p, s) PROVE InOrder'
  <2>1. CASE UNCHANGED ch
    BY SMTT(30), <1>2, <2>1, <1>u, <1>t DEF Deliver, Open, TypeOK
  <2>2. CASE ch' = [ch EXCEPT ![s] = Append(@, Live(msg[p]))]
    <3>1. /\ msg[p] \in Msgs /\ lock = p /\ s \in writers /\ ~Open(s)
          /\ log[Len(log)] = msg[p] /\ \A q \in Pubs \ {p} : todo[q] = {}
      BY ZenonT(40), <1>2, <1>t DEF Deliver, Written, Locked, Open
    <3>2. /\ UNCHANGED <<log, seen, since, writers>>
          /\ todo' = [todo EXCEPT ![p] = @ \ {s}]
      BY <1>2, <2>2, <1>t DEF Deliver
    <3>3. /\ Live(msg[p]) \in Items
          /\ IsLive(Live(msg[p]))
          /\ Live(msg[p]).msgs[1] = msg[p]
      BY <3>1 DEF Live, Items, IsLive
    <3>4. \A t \in Subs \ {s} : ch'[t] = ch[t] /\ (Open(t)' <=> Open(t))
      BY <2>2, <3>2, <1>t DEF Open, TypeOK
    <3>5. Open(s)'
      BY <3>1, <3>2, <1>t DEF Open, TypeOK
    <3>6. ch'[s] = Append(ch[s], Live(msg[p]))
      BY <2>2, <1>t
    <3> QED
      BY <3>1, <3>2, <3>3, <3>4, <3>5, <3>6, <1>a
  <2> QED
    BY <1>2, <2>1, <2>2 DEF Deliver
<1>3. ASSUME NEW s \in Subs, Register(s) PROVE InOrder'
  <2>1. since[s] = {} /\ ch[s] = <<>> /\ seen[s] = <<>> /\ s \notin writers
    BY <1>3, <1>t DEF Register, Registered
  <2>2. \A t \in Subs : Open(t)
    BY <1>3, <1>t DEF Register, Locked, Open, Threads
  <2>3. /\ UNCHANGED <<ch, log, seen, todo>> /\ writers' = writers \cup {s}
        /\ since'[s] = {Len(log)} /\ \A t \in Subs \ {s} : since'[t] = since[t]
    BY <1>3, <1>t DEF Register, TypeOK
  <2>4. At(s, Len(log), Len(ch[s])) = Len(log)
    BY <2>1, <1>t DEF At, Count, Past
  <2>5. \A t \in Subs : \A n, i : At(t, n, i)' = At(t, n, i) /\ Open(t)'
    BY <2>2, <2>3 DEF At, Count, Past, Open
  <2>6. \A t \in Subs \ {s} : \A n : Follows(t, n) => Follows(t, n)'
    BY <2>2, <2>3, <2>5 DEF Follows
  <2>7. \A n \in since'[s] : Follows(s, n)'
    <3> SUFFICES ASSUME NEW n, n = Len(log) PROVE Follows(s, n)'
      BY <2>3
    <3> QED
      BY <2>1, <2>2, <2>3, <2>4, <2>5, <1>t DEF Follows
  <2> QED
    BY <2>3, <2>6, <2>7, <1>t DEF InOrder
<1>4. ASSUME NEW s \in Subs, SendHistory(s) PROVE InOrder'
  <2>1. CASE UNCHANGED ch
    BY <1>4, <2>1, <1>u DEF SendHistory, Open
  <2>2. CASE ch' = [ch EXCEPT ![s] = Append(@, History(hist[s]))]
    <3>1. pc[s] = "send" /\ UNCHANGED <<log, seen, since, writers, todo>>
      BY <1>4 DEF SendHistory
    <3>2. ~Past(ch[s], Len(ch[s]))
      BY <3>1, <1>t DEF OneHistory, Past
    <3>3. History(hist[s]) \in Items /\ ~IsLive(History(hist[s]))
      BY <1>t DEF History, Items, IsLive, TypeOK
    <3>4. /\ \A t \in Subs \ {s} : ch'[t] = ch[t]
          /\ \A t \in Subs : Open(t)' <=> Open(t)
      BY <2>2, <3>1, <1>t DEF Open
    <3>5. ch'[s] = Append(ch[s], History(hist[s]))
      BY <2>2, <1>t
    <3> QED
      BY <3>1, <3>2, <3>3, <3>4, <3>5, <1>a
  <2> QED
    BY <1>4, <2>1, <2>2 DEF SendHistory
<1>5. ASSUME NEW p \in Pubs, Post(p) \/ Store(p) \/ Unlock(p) PROVE InOrder'
  BY <1>5, <1>u DEF Post, Store, Unlock, Open
<1>6. ASSUME NEW s \in Subs,
             \/ Arrive(s) \/ ReadHistory(s) \/ CheckClosed(s) \/ EndLoop(s)
             \/ CloseWriter(s) \/ Leave(s)
      PROVE  InOrder'
  BY <1>6, <1>u DEF Arrive, ReadHistory, CheckClosed, EndLoop, CloseWriter,
                    Leave, Open
<1>7. ASSUME NEW s \in Sockets, Forward(s) PROVE InOrder'
  BY <1>7, <1>r DEF Forward, Subs
<1>8. ASSUME NEW w \in Watchers, FwdStep(w) PROVE InOrder'
  BY <1>8, <1>r, <1>u DEF FwdStep, Range, Give, Subs, Open
<1>9. CASE UNCHANGED vars
  BY <1>9, <1>u DEF vars, Open
<1> QED
  BY <1>1, <1>2, <1>3, <1>4, <1>5, <1>6, <1>7, <1>8, <1>9
     DEF Next, PubStep, SubStep

LEMMA IInvStep == IInv /\ [Next]_vars => IInv'
  BY TypeStep, LockedStep, RegisteredStep, OneHistoryStep, InOrderStep DEF IInv

LEMMA IInvAlways == Spec => []IInv
  BY IInvInit, IInvStep, PTL DEF Spec

\* Every variable keeps its type; a channel holds Cap items at most, whatever
\* the publishers do (chanStrWriter.Write, NewChanString).
THEOREM BroadcastTypes == Spec => []TypeOK
<1>1. IInv => TypeOK
  BY DEF IInv
<1> QED
  BY <1>1, IInvAlways, PTL

-----------------------------------------------------------------------------
(* Broadcast implements Topic                                              *)

LEMMA AbstractInit == Init => Abstract!Init
  BY DEF Init, Abstract!Init, Abstract!NotYet

\* What is handed over is the next of the log.
LEMMA ReceiveHands ==
  ASSUME IInv, NEW s \in Subs, Receive(s), UNCHANGED topic
  PROVE  Abstract!Hand(s) \/ UNCHANGED seen
<1> USE DEF topic
<1>1. CASE ~IsLive(Head(ch[s]))
  BY <1>1 DEF Receive
<1>2. CASE IsLive(Head(ch[s]))
  <2>1. /\ ch[s] # <<>> /\ ch[s] \in Seq(Items) /\ Len(ch[s]) \in Nat \ {0}
        /\ Head(ch[s]) = ch[s][1] /\ Len(seen[s]) \in Nat
    BY TailIs DEF Receive, IInv, TypeOK
  <2>2. Registered /\ OneHistory /\ InOrder /\ TypeOK
    BY DEF IInv
  <2>3. PICK n \in since[s] : n \in Nat
    BY <2>1, <2>2 DEF Registered, TypeOK
  <2>4. Follows(s, n)
    BY <2>2, <2>3 DEF InOrder
  <2>5. At(s, n, 1) = n + Len(seen[s]) + 1
    BY <1>2, <2>1 DEF At, Count, Past
  <2>6. Head(ch[s]).msgs[1] = log[n + Len(seen[s]) + 1]
    BY <1>2, <2>1, <2>4, <2>5 DEF Follows
  <2>7. n + Len(seen[s]) + 1 <= Len(log)
    <3>1. Count(ch[s], Len(ch[s])) >= 1
      BY <1>2, <2>1 DEF Count, Past
    <3>2. Count(ch[s], Len(ch[s])) \in Nat /\ Len(log) \in Nat
      BY <2>1, <2>2, CountNat DEF TypeOK
    <3> QED
      BY <2>1, <2>3, <2>4, <3>1, <3>2 DEF Follows, At
  <2>8. seen' = [seen EXCEPT ![s] = Append(@, Head(ch[s]).msgs[1])]
    BY <1>2 DEF Receive
  <2> QED
    BY <2>3, <2>6, <2>7, <2>8 DEF Abstract!Hand
<1> QED
  BY <1>1, <1>2

LEMMA AbstractStep == IInv /\ [Next]_vars => [Abstract!Next]_(Abstract!vars)
<1> SUFFICES ASSUME IInv, [Next]_vars, ~ UNCHANGED <<log, since, seen>>
             PROVE  Abstract!Next
  BY DEF Abstract!vars
<1> USE DEF Goto, topic, subv
<1>1. ASSUME NEW p \in Pubs, Lock(p) PROVE Abstract!Next
  BY <1>1 DEF Lock, IInv, Written, Abstract!Next, Abstract!Publish
<1>2. ASSUME NEW s \in Subs, Register(s) PROVE Abstract!Next
  <2>1. since[s] = {}
    BY <1>2 DEF Register, IInv, Registered
  <2> QED
    BY <1>2, <2>1 DEF Register, Abstract!Next, Abstract!Subscribe,
                      Abstract!NotYet
<1>3. ASSUME NEW s \in Sockets, Forward(s) PROVE Abstract!Next
  BY <1>3, ReceiveHands DEF Forward, Subs, Abstract!Next
<1>4. ASSUME NEW w \in Watchers, Range(w) PROVE Abstract!Next
  BY <1>4, ReceiveHands DEF Range, Subs, Abstract!Next
<1>5. ASSUME NEW p \in Pubs,
             \/ Post(p) \/ Store(p) \/ Unlock(p)
             \/ \E s \in Subs : Deliver(p, s)
      PROVE  FALSE
  BY <1>5 DEF Post, Store, Unlock, Deliver
<1>6. ASSUME NEW s \in Subs,
             \/ Arrive(s) \/ ReadHistory(s) \/ CheckClosed(s)
             \/ SendHistory(s) \/ EndLoop(s) \/ CloseWriter(s) \/ Leave(s)
      PROVE  FALSE
  BY <1>6 DEF Arrive, ReadHistory, CheckClosed, SendHistory, EndLoop,
              CloseWriter, Leave
<1>7. ASSUME NEW w \in Watchers, Give(w) PROVE FALSE
  BY <1>7 DEF Give
<1>8. CASE UNCHANGED vars
  BY <1>8 DEF vars
<1> QED
  BY <1>1, <1>2, <1>3, <1>4, <1>5, <1>6, <1>7, <1>8
     DEF Next, PubStep, SubStep, FwdStep

\* Each subscriber is handed the messages that follow its registration in the
\* one order, none missing and none twice, for any capacity and any number of
\* publishers and clients, slow or leaving (WriteBroadcaster.Write).
THEOREM TopicRefinement == Spec => ImplementsTopic
<1>1. Init => Abstract!Init
  BY AbstractInit
<1>2. IInv /\ [Next]_vars => [Abstract!Next]_(Abstract!vars)
  BY AbstractStep
<1> QED
  BY <1>1, <1>2, IInvAlways, PTL DEF Spec, ImplementsTopic, Abstract!Spec

-----------------------------------------------------------------------------
(* The history is complete when writes do not overlap                      *)

OneWriter == \A p, q \in Pubs : pc[p] # "idle" /\ pc[q] # "idle" => p = q

In(m, q) == \E i \in 1..Len(q) : q[i] = m

\* The history that s read has all that came before its registration.
Has(s) == \A n \in since[s] : \A i \in 1..n : In(log[i], hist[s])

LEMMA HistoryCompleteIs ==
  HistoryComplete <=>
    \A s \in Subs : pc[s] \in {"check", "send", "loop"} => Has(s)
  BY DEF HistoryComplete, Has, In

\* The ring has the log; what is about to be logged is in it, and what is
\* about to be stored extends it.
Kept ==
  /\ \A i \in 1..Len(log) : In(log[i], ring)
  /\ \A p \in Pubs : pc[p] = "store" => loaded[p] = ring
  /\ \A p \in Pubs : pc[p] = "lock" => In(msg[p], ring)
  /\ \A s \in Subs : \A n \in since[s] : n <= Len(log)
  /\ \A s \in Subs : pc[s] \in {"check", "send", "loop"} => Has(s)

LEMMA KeptInit == Init => Kept
  BY BroadcastAssumption DEF Init, Kept, Threads, Subs

LEMMA InAppend ==
  ASSUME NEW q \in Seq(Msgs), NEW x \in Msgs
  PROVE  In(x, Append(q, x)) /\ \A m : In(m, q) => In(m, Append(q, x))
  BY AppendIs DEF In

LEMMA KeptStep ==
  TypeOK /\ Written /\ OneWriter /\ Kept /\ [Next]_vars => Kept'
<1> SUFFICES ASSUME TypeOK, Written, OneWriter, Kept, [Next]_vars PROVE Kept'
  OBVIOUS
<1> USE BroadcastAssumption DEF TypeOK, Goto, topic, subv, Threads
<1>h. ASSUME UNCHANGED <<log, since, hist>>,
             \A s \in Subs : pc'[s] \in {"check", "send", "loop"} =>
                             pc[s] \in {"check", "send", "loop"}
      PROVE  \A s \in Subs : pc'[s] \in {"check", "send", "loop"} => Has(s)'
  <2>1. \A s : Has(s)' <=> Has(s)
    BY <1>h DEF Has
  <2>2. \A s \in Subs : pc[s] \in {"check", "send", "loop"} => Has(s)
    BY DEF Kept
  <2> QED
    BY <1>h, <2>1, <2>2
<1>u. ASSUME UNCHANGED <<ring, log, since, loaded, msg, hist>>,
             \A p \in Pubs : pc'[p] = pc[p] \/ pc'[p] = "idle",
             \A s \in Subs : pc'[s] \in {"check", "send", "loop"} =>
                             pc[s] \in {"check", "send", "loop"}
      PROVE  Kept'
  BY <1>u, <1>h DEF Kept, In
<1>1. ASSUME NEW p \in Pubs, Post(p) PROVE Kept'
  BY <1>1, <1>h DEF Post, Kept, In
<1>2. ASSUME NEW p \in Pubs, Store(p) PROVE Kept'
  <2>1. msg[p] \in Msgs /\ ring' = Append(ring, msg[p])
    BY <1>2 DEF Store, Kept, Written
  <2>2. In(msg[p], ring') /\ \A m : In(m, ring) => In(m, ring')
    BY <2>1, InAppend
  <2>3. \A q \in Pubs \ {p} : pc'[q] = "idle"
    BY <1>2 DEF Store, OneWriter
  <2>4. \A s \in Subs : pc'[s] \in {"check", "send", "loop"} => Has(s)'
    BY <1>2, <1>h DEF Store
  <2>5. pc'[p] = "lock" /\ UNCHANGED <<log, since, msg>>
    BY <1>2 DEF Store
  <2> QED
    BY <2>2, <2>3, <2>4, <2>5 DEF Kept, In
<1>3. ASSUME NEW p \in Pubs, Lock(p) PROVE Kept'
  <2>1. /\ log' = Append(log, msg[p]) /\ msg[p] \in Msgs
        /\ UNCHANGED <<ring, loaded, msg, since, hist>>
        /\ pc' = [pc EXCEPT ![p] = "deliver"]
    BY <1>3 DEF Lock, Written
  <2>2. /\ Len(log) \in Nat /\ Len(log') = Len(log) + 1
        /\ log'[Len(log) + 1] = msg[p]
        /\ \A i \in 1..Len(log) : log'[i] = log[i]
    BY <2>1, AppendIs
  <2>3. In(msg[p], ring)
    BY <1>3 DEF Lock, Kept
  <2>4. \A i \in 1..Len(log') : In(log'[i], ring)
    <3>1. \A i \in 1..Len(log') : i \in 1..Len(log) \/ i = Len(log) + 1
      BY <2>2
    <3> QED
      BY <2>2, <2>3, <3>1 DEF Kept
  <2>5. \A s \in Subs : \A n \in since[s] : n \in Nat /\ n <= Len(log)
    BY DEF Kept
  <2>6. \A s \in Subs : pc'[s] \in {"check", "send", "loop"} => Has(s)'
    BY SMTT(30), <2>1, <2>2, <2>5 DEF Kept, Has, In
  <2> QED
    BY SMTT(30), <2>1, <2>2, <2>4, <2>5, <2>6 DEF Kept, In
<1>4. ASSUME NEW s \in Subs, Register(s) PROVE Kept'
  BY SMTT(30), <1>4 DEF Register, Kept, Has, In
<1>5. ASSUME NEW s \in Subs, ReadHistory(s) PROVE Kept'
  <2>1. /\ UNCHANGED <<ring, log, since, loaded, msg>>
        /\ pc' = [pc EXCEPT ![s] = "check"]
    BY <1>5 DEF ReadHistory
  <2>2. hist'[s] = ring /\ \A t \in Subs \ {s} : hist'[t] = hist[t]
    BY <1>5 DEF ReadHistory
  <2>3. Has(s)'
    <3>1. \A n \in since[s] : n \in Nat /\ n <= Len(log) /\ Len(log) \in Nat
      BY DEF Kept
    <3>2. \A n \in since[s] : \A i \in 1..n : In(log[i], ring)
      BY <3>1 DEF Kept
    <3> QED
      BY <2>1, <2>2, <3>2 DEF Has, In
  <2>4. \A t \in Subs \ {s} : Has(t)' <=> Has(t)
    BY <2>1, <2>2 DEF Has, In
  <2> QED
    BY <2>1, <2>3, <2>4 DEF Kept, In
<1>6. ASSUME NEW s \in Subs,
             \/ Arrive(s) \/ CheckClosed(s) \/ SendHistory(s) \/ EndLoop(s)
             \/ CloseWriter(s) \/ Leave(s)
      PROVE  Kept'
  BY SMTT(30), <1>6, <1>u
     DEF Arrive, CheckClosed, SendHistory, EndLoop, CloseWriter, Leave
<1>7. ASSUME NEW p \in Pubs, Unlock(p) \/ \E s \in Subs : Deliver(p, s)
      PROVE  Kept'
  BY <1>7, <1>u DEF Unlock, Deliver
<1>8. ASSUME NEW s \in Sockets, Forward(s) PROVE Kept'
  BY <1>8, <1>u DEF Forward
<1>9. ASSUME NEW w \in Watchers, FwdStep(w) PROVE Kept'
  BY <1>9, <1>u DEF FwdStep, Range, Give
<1>10. CASE UNCHANGED vars
  BY <1>10, <1>u DEF vars
<1> QED
  BY <1>1, <1>2, <1>3, <1>4, <1>5, <1>6, <1>7, <1>8, <1>9, <1>10
     DEF Next, PubStep, SubStep

\* Of any publishers that are never in Write at the same time nothing is lost
\* between the history and what follows it (WriteBroadcaster.NewChanString,
\* which reads the ring without the lock).
THEOREM HistoryOfOneWriter == Spec /\ []OneWriter => []HistoryComplete
<1>1. Kept => HistoryComplete
  BY HistoryCompleteIs DEF Kept
<1>2. IInv => TypeOK /\ Written
  BY DEF IInv
<1> QED
  BY <1>1, <1>2, KeptInit, KeptStep, IInvAlways, PTL DEF Spec

LogInv == instance = "log" => Kept /\ \A p \in Pubs \ {Drain} : pc[p] = "idle"

LEMMA LogInvStep ==
  TypeOK /\ Written /\ LogInv /\ [InstanceNext]_<<vars, instance>> => LogInv'
<1> SUFFICES ASSUME TypeOK, Written, LogInv,
                    [InstanceNext]_<<vars, instance>>, instance' = "log"
             PROVE  Kept' /\ \A p \in Pubs \ {Drain} : pc'[p] = "idle"
  BY DEF LogInv
<1>1. instance = "log" /\ Kept /\ [Next]_vars
      /\ \A p \in Pubs \ {Drain} : pc[p] = "idle"
  BY DEF LogInv, InstanceNext
<1>2. OneWriter
  BY <1>1 DEF OneWriter
<1>3. \A p \in Pubs \ {Drain} : pc'[p] = "idle"
  BY <1>1 DEF InstanceNext, vars
<1> QED
  BY <1>1, <1>2, <1>3, KeptStep

\* The output of a process is written by its drain goroutine alone, so what a
\* log window reads as history lacks nothing (QuickLossBroadcastWriter.drain).
THEOREM OutputHistory == InstanceSpec => []OutputComplete
<1>1. InstanceInit => LogInv /\ Init
  BY KeptInit, BroadcastAssumption DEF InstanceInit, LogInv, Init, Threads
<1>2. [InstanceNext]_<<vars, instance>> => [Next]_vars
  BY DEF InstanceNext, vars
<1>3. LogInv => OutputComplete
  BY HistoryCompleteIs DEF LogInv, Kept, OutputComplete
<1>4. IInv => TypeOK /\ Written
  BY DEF IInv
<1> QED
  BY <1>1, <1>2, <1>3, <1>4, LogInvStep, IInvInit, IInvStep, PTL
     DEF InstanceSpec
=============================================================================
