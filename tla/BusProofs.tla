----------------------------- MODULE BusProofs -----------------------------
(***************************************************************************)
(* Proofs about the Bus, for any number of publisher threads, any set of   *)
(* patterns and topics, any capacity of the channels and any number of     *)
(* subscriptions and offers, and about the benchmark trials over it.       *)
(*                                                                         *)
(* The mutex makes the fan-outs a sequence: the last message of the order  *)
(* is the one whose loop is running, so nothing of it can be in a channel  *)
(* before.  While the loop runs, the set of subscriptions still to visit   *)
(* divides those that have been served from those that have not, and the   *)
(* counters of the loop are the numbers of the first kind.                 *)
(***************************************************************************)
EXTENDS BusTrial, SequenceTheorems, FiniteSetTheorems, TLAPS

(* The thread is inside offer.                                             *)
InCall(t) == pc[t] \in {"stamped", "fanout"}

(* Outside the loop of offer the locals of the loop are at their start.    *)
MutexInv ==
  \A t \in Threads : pc[t] # "fanout" => todo[t] = {} /\ sent[t] = 0 /\ dropped[t] = 0

(* Every call in progress has a message of its own that has not returned,  *)
(* and what a call saw as returned has returned.                           *)
CallInv ==
  /\ \A t \in Threads : InCall(t) => cur[t] \in 1 .. Len(topic) /\ cur[t] \notin Returned
  /\ \A t, u \in Threads : InCall(t) /\ InCall(u) /\ cur[t] = cur[u] => t = u
  /\ \A m \in 1 .. Len(topic) : before[m] \subseteq Returned

(* Message m has a place in the order of the fan-outs.                     *)
InOrder(m) == \E k \in 1 .. Len(order) : order[k] = m

(* A message that waits for the mutex has no place in the order yet, the   *)
(* one whose offer holds it has the last place.                            *)
OrderInv ==
  /\ \A t \in Threads : pc[t] = "stamped" => ~InOrder(cur[t])
  /\ \A t \in Threads : pc[t] = "fanout" => order # <<>> /\ order[Len(order)] = cur[t]
  /\ \A k \in 1 .. Len(order) : order[k] <= Len(topic)

(* Types, the mutex and the calls: what the other parts rest on.           *)
CoreInv == TypeOK /\ MutexInv /\ CallInv /\ OrderInv

(* Only what has a place in the order was delivered or lost, and nothing   *)
(* was delivered twice.                                                    *)
StreamInv ==
  \A s \in SubIds :
    /\ \A m \in Messages : Got(s, m) \/ m \in missed[s] => InOrder(m)
    /\ \A i, j \in 1 .. Len(Stream(s)) : Stream(s)[i] = Stream(s)[j] => i = j

(* Subscription s as the loop of the offer of m leaves it so far, with     *)
(* the set S of subscriptions still to visit.                              *)
ServedSoFar(s, m, S) ==
  /\ ~(Got(s, m) /\ m \in missed[s])
  /\ s \in S => /\ Matches(filter[s + 1], topic[m])
                /\ ~Got(s, m) /\ m \notin missed[s]
  /\ s \in subs /\ ~Matches(filter[s + 1], topic[m]) => ~Got(s, m) /\ m \notin missed[s]
  /\ s \in (subs \cap rx) \ S /\ Matches(filter[s + 1], topic[m]) =>
       Got(s, m) \/ m \in missed[s]

(* The loop of offer that runs has served what it has visited.             *)
ServeInv ==
  \A t \in Threads, m \in Messages, s \in SubIds :
    pc[t] = "fanout" /\ cur[t] = m => ServedSoFar(s, m, todo[t])

(* The subscriptions that got m, those that lost it, and all losses.       *)
Holders(m) == {s \in SubIds : Got(s, m)}
Losers(m) == {s \in SubIds : m \in missed[s]}
Losses == {w \in SubIds \X Messages : w[2] \in missed[w[1]]}

(* The counters count deliveries and losses while the loop runs.           *)
CountInv ==
  /\ \A t \in Threads, m \in Messages :
       pc[t] = "fanout" /\ cur[t] = m => /\ sent[t] = Cardinality(Holders(m))
                                        /\ dropped[t] = Cardinality(Losers(m))
  /\ \A m \in Returned : /\ result[m].sent = Cardinality(Holders(m))
                         /\ result[m].dropped = Cardinality(Losers(m))
  /\ drop_count = Cardinality(Losses)

(* The inductive invariant.                                                *)
IInv == CoreInv /\ StreamInv /\ RealTimeOrder /\ ServeInv /\ CountInv

-----------------------------------------------------------------------------
(***************************************************************************)
(* The core: types, the mutex, and the calls in progress                   *)
(***************************************************************************)
USE DEF registry, channels, locals, calls

(* The bus begins with the core invariant.                                 *)
LEMMA CoreInit == Init => CoreInv
BY CapAssumption, BoundAssumption, NoneAssumption
   DEF Init, CoreInv, TypeOK, RegistryOK, ChannelsOK, LocalsOK, CallsOK, MutexInv, CallInv,
       OrderInv, InCall, InOrder, SubIds, Messages, Returned

(* Filter::parse returns a filter, whatever the pattern.                   *)
LEMMA ParseType ==
  ASSUME NEW p \in Patterns
  PROVE  Parse(p) \in [kind : {"Exact", "Prefix"}, text : Seq(Nat)]
<1>1. p \in Seq(Nat)
  BY TextAssumption
<1>2. CASE p # <<>> /\ p[Len(p)] = Star
  <2>1. SubSeq(p, 1, Len(p) - 1) \in Seq(Nat)
    BY <1>1, SubSeqProperties
  <2> QED
    BY <1>2, <2>1 DEF Parse
<1>3. CASE ~(p # <<>> /\ p[Len(p)] = Star)
  BY <1>1, <1>3 DEF Parse
<1> QED
  BY <1>2, <1>3

(* subscribe adds a filter, an entry of the map and a receiver.            *)
LEMMA CoreSubscribe ==
  ASSUME CoreInv, NEW p \in Patterns, Subscribe(p)
  PROVE  CoreInv'
<1> USE DEF CoreInv, TypeOK, Subscribe
<1>1. RegistryOK'
  <2> DEFINE F == [kind : {"Exact", "Prefix"}, text : Seq(Nat)]
  <2>1. filter \in Seq(F) /\ Parse(p) \in F
    BY ParseType DEF RegistryOK
  <2>2. filter' \in Seq(F) /\ Len(filter') = Len(filter) + 1
    <3> HIDE DEF F
    <3> QED
      BY <2>1, AppendProperties
  <2> QED
    BY <2>2, BoundAssumption DEF RegistryOK
<1>2. ChannelsOK'
  BY BoundAssumption DEF ChannelsOK, RegistryOK
<1>3. LocalsOK'
  BY DEF LocalsOK
<1>4. CallsOK' /\ MutexInv' /\ CallInv' /\ OrderInv'
  BY DEF CallsOK, MutexInv, CallInv, InCall, OrderInv, InOrder, Returned
<1> QED
  BY <1>1, <1>2, <1>3, <1>4

(* unsubscribe finds no offer in its loop: the mutex is free.              *)
LEMMA CoreUnsubscribe ==
  ASSUME CoreInv, NEW s \in SubIds, Unsubscribe(s)
  PROVE  CoreInv'
<1> USE DEF CoreInv, TypeOK, Unsubscribe
<1>1. RegistryOK' /\ ChannelsOK'
  BY DEF RegistryOK, ChannelsOK
<1>2. LocalsOK'
  <2>1. \A t \in Threads : todo[t] = {}
    BY NoneAssumption DEF LocalsOK, MutexInv, Locked
  <2>2. \A t \in Threads : todo'[t] \in SUBSET subs'
    BY <2>1
  <2> QED
    BY <2>2 DEF LocalsOK
<1>3. CallsOK' /\ MutexInv' /\ CallInv' /\ OrderInv'
  BY DEF CallsOK, MutexInv, CallInv, InCall, OrderInv, InOrder, Returned
<1> QED
  BY <1>1, <1>2, <1>3

(* Dropping the last clone takes every thread out of the game.             *)
LEMMA CoreDropBus ==
  ASSUME CoreInv, DropBus
  PROVE  CoreInv'
<1> USE DEF CoreInv, TypeOK, DropBus
<1>1. RegistryOK' /\ ChannelsOK'
  BY DEF RegistryOK, ChannelsOK
<1>2. LocalsOK' /\ MutexInv'
  BY DEF LocalsOK, MutexInv
<1>3. CallsOK' /\ CallInv' /\ OrderInv'
  BY DEF CallsOK, CallInv, InCall, OrderInv, InOrder, Returned
<1> QED
  BY <1>1, <1>2, <1>3

(* A receiver touches nothing but its channel.                             *)
LEMMA CoreRecv ==
  ASSUME CoreInv, NEW s \in SubIds, Recv(s)
  PROVE  CoreInv'
<1> USE DEF CoreInv, TypeOK, Recv
<1>1. ChannelsOK'
  <2>1. /\ chan[s] \in Seq(Messages) /\ chan[s] # <<>> /\ taken[s] \in Seq(Messages)
        /\ Len(chan[s]) <= Cap
    BY DEF ChannelsOK
  <2>2. /\ Head(chan[s]) \in Messages /\ Tail(chan[s]) \in Seq(Messages)
        /\ Len(Tail(chan[s])) <= Cap
        /\ Append(taken[s], Head(chan[s])) \in Seq(Messages)
    BY <2>1, CapAssumption, HeadTailProperties, AppendProperties, LenProperties
  <2> QED
    BY <2>2 DEF ChannelsOK
<1>2. RegistryOK' /\ LocalsOK' /\ CallsOK' /\ MutexInv' /\ CallInv' /\ OrderInv'
  BY DEF RegistryOK, LocalsOK, CallsOK, MutexInv, CallInv, InCall, OrderInv, InOrder,
         Returned
<1> QED
  BY <1>1, <1>2

(* So does a receiver that is dropped.                                     *)
LEMMA CoreDropReceiver ==
  ASSUME CoreInv, NEW s \in SubIds, DropReceiver(s)
  PROVE  CoreInv'
<1> USE DEF CoreInv, TypeOK, DropReceiver
<1>1. ChannelsOK'
  <2>1. taken[s] \o chan[s] \in Seq(Messages)
    BY ConcatProperties DEF ChannelsOK
  <2> QED
    BY <2>1, CapAssumption DEF ChannelsOK
<1>2. RegistryOK' /\ LocalsOK' /\ CallsOK' /\ MutexInv' /\ CallInv' /\ OrderInv'
  BY DEF RegistryOK, LocalsOK, CallsOK, MutexInv, CallInv, InCall, OrderInv, InOrder,
         Returned
<1> QED
  BY <1>1, <1>2

(* The new message has the next number: nobody else offers it, it has not  *)
(* returned and it has no place in the order yet.                          *)
LEMMA CoreOfferStamp ==
  ASSUME CoreInv, NEW t \in Threads, NEW text \in Topics, OfferStamp(t, text)
  PROVE  CoreInv'
<1> USE DEF CoreInv, TypeOK, OfferStamp
<1>1. /\ Len(topic) \in Nat /\ Len(topic') = Len(topic) + 1 /\ topic' \in Seq(Topics)
      /\ cur \in [Threads -> 0 .. Len(topic)]
      /\ Returned \subseteq 1 .. Len(topic) /\ Returned' = Returned
  BY LenProperties, AppendProperties DEF CallsOK, LocalsOK, Returned
<1>2. /\ before' \in Seq(SUBSET Messages) /\ Len(before') = Len(topic')
      /\ \A m \in 1 .. Len(topic) : before'[m] = before[m]
      /\ before'[Len(topic')] = Returned
  BY <1>1, BoundAssumption, AppendProperties DEF CallsOK, Messages
<1>3. present' \in Seq(SUBSET SubIds) /\ Len(present') = Len(topic')
  <2>1. subs \in SUBSET SubIds
    BY BoundAssumption DEF RegistryOK, SubIds
  <2> QED
    BY <1>1, <2>1, AppendProperties DEF CallsOK
<1>4. RegistryOK' /\ ChannelsOK'
  BY DEF RegistryOK, ChannelsOK
<1>5. LocalsOK'
  <2>1. cur' \in [Threads -> 0 .. Len(topic')]
    BY <1>1
  <2>2. pc' \in [Threads -> {"idle", "stamped", "fanout", "gone"}]
    BY DEF LocalsOK
  <2>3. \A u \in Threads : pc'[u] = "fanout" <=> lock' = u
    BY DEF LocalsOK
  <2> QED
    BY <2>1, <2>2, <2>3 DEF LocalsOK
<1>6. CallsOK'
  BY <1>1, <1>2, <1>3, BoundAssumption DEF CallsOK, Returned
<1>7. MutexInv'
  BY DEF MutexInv, LocalsOK
<1>8. CallInv'
  <2>1. \A u \in Threads : InCall(u)' => cur'[u] \in 1 .. Len(topic') /\ cur'[u] \notin Returned'
    BY <1>1 DEF CallInv, InCall, LocalsOK
  <2>2. \A u, v \in Threads : InCall(u)' /\ InCall(v)' /\ cur'[u] = cur'[v] => u = v
    BY <1>1 DEF CallInv, InCall, LocalsOK
  <2>3. \A m \in 1 .. Len(topic') : before'[m] \subseteq Returned'
    BY <1>1, <1>2 DEF CallInv
  <2> QED
    BY <2>1, <2>2, <2>3 DEF CallInv
<1>9. OrderInv'
  <2>0. \A k \in 1 .. Len(order) : order[k] <= Len(topic) /\ order[k] \in Nat
    BY BoundAssumption, ElementOfSeq DEF OrderInv, CallsOK, Messages
  <2>1. \A u \in Threads : pc'[u] = "stamped" => ~InOrder(cur[u])'
    <3>2. ~InOrder(cur[t])'
      BY <1>1, <2>0 DEF InOrder
    <3>3. \A u \in Threads \ {t} : pc'[u] = pc[u] /\ cur'[u] = cur[u]
      BY DEF LocalsOK
    <3> QED
      BY <3>2, <3>3 DEF OrderInv, InOrder
  <2>2. \A u \in Threads : pc'[u] = "fanout" => order' # <<>> /\ order'[Len(order')] = cur'[u]
    BY DEF OrderInv, LocalsOK
  <2>3. \A k \in 1 .. Len(order') : order'[k] <= Len(topic')
    BY <1>1, <2>0
  <2> QED
    BY <2>1, <2>2, <2>3 DEF OrderInv
<1> QED
  BY <1>4, <1>5, <1>6, <1>7, <1>8, <1>9

(* Entering the loop gives the message its place, the last one so far.     *)
LEMMA CoreOfferLock ==
  ASSUME CoreInv, NEW t \in Threads, OfferLock(t)
  PROVE  CoreInv'
<1> USE DEF CoreInv, TypeOK, OfferLock
<1>1. RegistryOK' /\ ChannelsOK'
  BY DEF RegistryOK, ChannelsOK
<1>2. LocalsOK' /\ MutexInv'
  <2>1. Audience(cur[t]) \in SUBSET subs
    BY DEF Audience
  <2>2. todo' \in [Threads -> SUBSET subs']
    BY <2>1 DEF LocalsOK
  <2>3. \A u \in Threads : pc'[u] = "fanout" <=> lock' = u
    BY NoneAssumption DEF LocalsOK, Locked
  <2> QED
    BY <2>2, <2>3 DEF LocalsOK, MutexInv
<1>3. cur[t] \in Messages /\ ~InOrder(cur[t]) /\ order \in Seq(Messages)
  BY BoundAssumption, LenProperties DEF CallInv, InCall, OrderInv, CallsOK, Messages
<1>4. /\ order' \in Seq(Messages) /\ Len(order') = Len(order) + 1 /\ Len(order) \in Nat
      /\ order'[Len(order')] = cur[t]
      /\ \A k \in 1 .. Len(order) : order'[k] = order[k]
  BY <1>3, AppendProperties, LenProperties
<1>5. CallsOK'
  BY <1>4 DEF CallsOK, Returned
<1>6. CallInv'
  BY DEF CallInv, InCall, LocalsOK, Returned
<1>7. OrderInv'
  <2>1. \A u \in Threads : pc'[u] = "stamped" => ~InOrder(cur[u])'
    <3> SUFFICES ASSUME NEW u \in Threads, pc'[u] = "stamped", NEW k \in 1 .. Len(order'),
                        order'[k] = cur[u]
                 PROVE  FALSE
      BY DEF InOrder
    <3>1. u # t /\ pc[u] = "stamped"
      BY DEF LocalsOK
    <3>2. cur[u] # cur[t]
      BY <3>1 DEF CallInv, InCall
    <3> QED
      BY <1>4, <3>1, <3>2 DEF OrderInv, InOrder
  <2>2. \A u \in Threads : pc'[u] = "fanout" => order' # <<>> /\ order'[Len(order')] = cur'[u]
    <3>1. \A u \in Threads : pc'[u] = "fanout" => u = t
      BY NoneAssumption DEF LocalsOK, Locked
    <3> QED
      BY <1>4, <3>1
  <2>3. \A k \in 1 .. Len(order') : order'[k] <= Len(topic')
    BY <1>4 DEF OrderInv, CallInv, InCall
  <2> QED
    BY <2>1, <2>2, <2>3 DEF OrderInv
<1> QED
  BY <1>1, <1>2, <1>5, <1>6, <1>7

(* One try_send: the channel grows only while it holds less than Cap.      *)
LEMMA CoreOfferVisit ==
  ASSUME CoreInv, NEW t \in Threads, NEW s \in SubIds, OfferVisit(t, s)
  PROVE  CoreInv'
<1> USE DEF CoreInv, TypeOK, OfferVisit
<1>1. RegistryOK'
  BY DEF RegistryOK, SendOk, SendFull, SendDisconnected
<1>2. ChannelsOK'
  <2>1. cur[t] \in Messages /\ chan[s] \in Seq(Messages)
    BY BoundAssumption, LenProperties DEF CallInv, InCall, CallsOK, ChannelsOK, Messages
  <2>2. CASE SendOk(t, s)
    <3>1. Len(chan[s]) < Cap
      BY <2>1, <2>2, CapAssumption, LenProperties DEF SendOk, HasRoom, IsFull, IsDisconnected
    <3>2. Append(chan[s], cur[t]) \in Seq(Messages) /\ Len(Append(chan[s], cur[t])) <= Cap
      BY <2>1, <3>1, CapAssumption, AppendProperties, LenProperties
    <3> QED
      BY <2>2, <3>2 DEF SendOk, Push, ChannelsOK
  <2>3. CASE SendFull(t, s)
    BY <2>1, <2>3 DEF SendFull, ChannelsOK
  <2>4. CASE SendDisconnected(t, s)
    BY <2>4 DEF SendDisconnected, ChannelsOK
  <2> QED
    BY <2>2, <2>3, <2>4
<1>3. LocalsOK' /\ MutexInv'
  <2>1. sent' \in [Threads -> Nat] /\ dropped' \in [Threads -> Nat]
    BY DEF LocalsOK, SendOk, SendFull, SendDisconnected
  <2>2. todo' \in [Threads -> SUBSET subs']
    BY DEF LocalsOK
  <2>3. MutexInv'
    BY DEF LocalsOK, MutexInv, SendOk, SendFull, SendDisconnected
  <2> QED
    BY <2>1, <2>2, <2>3 DEF LocalsOK
<1>4. CallsOK' /\ CallInv' /\ OrderInv'
  BY DEF CallsOK, CallInv, InCall, OrderInv, InOrder, Returned
<1> QED
  BY <1>1, <1>2, <1>3, <1>4

(* The return moves the message from the calls in progress to Returned.    *)
LEMMA CoreOfferReturn ==
  ASSUME CoreInv, NEW t \in Threads, OfferReturn(t)
  PROVE  CoreInv'
<1> USE DEF CoreInv, TypeOK, OfferReturn
<1>1. cur[t] \in 1 .. Len(topic) /\ Returned' = Returned \cup {cur[t]}
  BY DEF CallInv, InCall, Returned
<1>2. RegistryOK' /\ ChannelsOK'
  BY DEF RegistryOK, ChannelsOK
<1>3. LocalsOK' /\ MutexInv'
  <2>1. cur' \in [Threads -> 0 .. Len(topic')] /\ sent' \in [Threads -> Nat]
        /\ dropped' \in [Threads -> Nat] /\ todo' \in [Threads -> SUBSET subs']
    BY LenProperties DEF LocalsOK, CallsOK
  <2>2. \A u \in Threads : pc'[u] = "fanout" <=> lock' = u
    BY NoneAssumption DEF LocalsOK
  <2>3. MutexInv'
    BY DEF LocalsOK, MutexInv, LoopOver
  <2> QED
    BY <2>1, <2>2, <2>3 DEF LocalsOK
<1>4. CallsOK'
  <2>1. [sent |-> sent[t], dropped |-> dropped[t]] \in [sent : Nat, dropped : Nat]
    BY DEF LocalsOK
  <2>2. \A m \in Returned : result[m] \in [sent : Nat, dropped : Nat]
    BY DEF CallsOK
  <2>3. result' \in [Returned' -> [sent : Nat, dropped : Nat]]
    BY <1>1, <2>1, <2>2
  <2> QED
    BY <1>1, <2>3 DEF CallsOK
<1>5. CallInv'
  <2>1. \A u \in Threads : InCall(u)' => u # t /\ InCall(u) /\ cur'[u] = cur[u] /\ cur[u] # cur[t]
    BY DEF CallInv, InCall, LocalsOK
  <2> QED
    BY <1>1, <2>1 DEF CallInv
<1>6. OrderInv'
  BY DEF OrderInv, InOrder, LocalsOK
<1> QED
  BY <1>2, <1>3, <1>4, <1>5, <1>6

(* The core invariant is inductive.                                        *)
LEMMA CoreStep == CoreInv /\ [Next]_vars => CoreInv'
<1> SUFFICES ASSUME CoreInv, [Next]_vars PROVE CoreInv'
  OBVIOUS
<1>1. CASE UNCHANGED vars
  BY <1>1 DEF vars, CoreInv, TypeOK, RegistryOK, ChannelsOK, LocalsOK, CallsOK, MutexInv,
              CallInv, InCall, OrderInv, InOrder, Returned
<1>2. CASE Next
  BY <1>2, CoreSubscribe, CoreUnsubscribe, CoreDropBus, CoreRecv, CoreDropReceiver,
     CoreOfferStamp, CoreOfferLock, CoreOfferVisit, CoreOfferReturn DEF Next
<1> QED
  BY <1>1, <1>2

(* The variables of the bus keep their types in every behaviour, for any   *)
(* number of threads and subscribers, any capacity and any patterns: no    *)
(* channel ever holds more than Cap messages, and only the holder of the   *)
(* mutex is in the loop of offer.                                          *)
THEOREM TypeCorrect == Spec => []TypeOK
<1>1. Spec => []CoreInv
  BY CoreInit, CoreStep, PTL DEF Spec
<1> QED
  BY <1>1, PTL DEF CoreInv

-----------------------------------------------------------------------------
(***************************************************************************)
(* What a step does to the streams                                         *)
(***************************************************************************)

(* A step that delivers nothing and loses nothing.                         *)
Quiet == \A s \in SubIds : Stream(s)' = Stream(s) /\ missed'[s] = missed[s]

(* A step that delivers message m to subscription s.                       *)
Delivers(s, m) ==
  /\ Stream(s)' = Append(Stream(s), m)
  /\ Len(Stream(s)') = Len(Stream(s)) + 1
  /\ \A i \in 1 .. Len(Stream(s)) : (Stream(s)')[i] = Stream(s)[i]
  /\ (Stream(s)')[Len(Stream(s)) + 1] = m
  /\ \A u \in SubIds \ {s} : Stream(u)' = Stream(u)
  /\ missed' = missed

(* A step that loses message m to the full channel of s.                   *)
Loses(s, m) ==
  /\ \A u \in SubIds : Stream(u)' = Stream(u)
  /\ missed' = [missed EXCEPT ![s] = @ \cup {m}]

(* A stream is a sequence of messages.                                     *)
LEMMA StreamType ==
  ASSUME CoreInv, NEW s \in SubIds
  PROVE  Stream(s) \in Seq(Messages) /\ Len(Stream(s)) \in Nat
BY ConcatProperties, LenProperties DEF CoreInv, TypeOK, ChannelsOK, Stream

(* Receiving moves a message from the channel to the owner: the stream of  *)
(* the subscription, which holds both, is the same.                        *)
LEMMA RecvQuiet ==
  ASSUME CoreInv, NEW s \in SubIds, Recv(s)
  PROVE  Quiet
<1> DEFINE T == taken[s]
           C == chan[s]
<1>1. T \in Seq(Messages) /\ C \in Seq(Messages) /\ C # <<>>
  BY DEF Recv, CoreInv, TypeOK, ChannelsOK
<1>2. taken'[s] = Append(T, Head(C)) /\ chan'[s] = Tail(C)
  BY DEF Recv, CoreInv, TypeOK, ChannelsOK
<1>3. Append(T, Head(C)) \o Tail(C) = T \o C
  <2> HIDE DEF T, C
  <2>1. C = <<Head(C)>> \o Tail(C)
    <3>1. Len(C) \in Nat \ {0} /\ Head(C) = C[1]
      BY <1>1, EmptySeq
    <3>2. SubSeq(C, 1, Len(C)) = <<C[1]>> \o SubSeq(C, 2, Len(C))
      BY <1>1, <3>1, SubSeqRecursiveFirst
    <3> QED
      BY <1>1, <3>1, <3>2, SubSeqFull, TailIsSubSeq
  <2>2. Head(C) \in Messages /\ Tail(C) \in Seq(Messages) /\ <<Head(C)>> \in Seq(Messages)
    BY <1>1, HeadTailProperties
  <2>3. (T \o <<Head(C)>>) \o Tail(C) = T \o (<<Head(C)>> \o Tail(C))
    BY <1>1, <2>2, ConcatAssociative
  <2> QED
    BY <1>1, <2>1, <2>2, <2>3, AppendIsConcat
<1> QED
  BY <1>2, <1>3 DEF Quiet, Stream, Recv, CoreInv, TypeOK, ChannelsOK

(* What a dropped receiver discards counts as taken.                       *)
LEMMA DropReceiverQuiet ==
  ASSUME CoreInv, NEW s \in SubIds, DropReceiver(s)
  PROVE  Quiet
<1>1. (taken[s] \o chan[s]) \o <<>> = taken[s] \o chan[s]
  BY ConcatProperties, ConcatEmptySeq DEF CoreInv, TypeOK, ChannelsOK
<1> QED
  BY <1>1 DEF Quiet, Stream, DropReceiver, CoreInv, TypeOK, ChannelsOK

(* A successful try_send puts the message at the end of the stream.        *)
LEMMA SendOkDelivers ==
  ASSUME CoreInv, NEW t \in Threads, NEW s \in SubIds, OfferVisit(t, s), SendOk(t, s)
  PROVE  Delivers(s, cur[t])
<1> DEFINE T == taken[s]
           C == chan[s]
           m == cur[t]
<1>1. T \in Seq(Messages) /\ C \in Seq(Messages) /\ m \in Messages
  BY BoundAssumption, LenProperties
     DEF CoreInv, TypeOK, ChannelsOK, CallsOK, CallInv, InCall, OfferVisit, Messages
<1>2. taken' = taken /\ chan' = [chan EXCEPT ![s] = Append(C, m)] /\ missed' = missed
  BY DEF OfferVisit, SendOk, Push
<1>3. T \o Append(C, m) = Append(T \o C, m)
  <2> HIDE DEF T, C, m
  <2>1. T \o (C \o <<m>>) = (T \o C) \o <<m>>
    BY <1>1, ConcatAssociative
  <2>2. T \o C \in Seq(Messages)
    BY <1>1, ConcatProperties
  <2> QED
    BY <1>1, <2>1, <2>2, AppendIsConcat
<1>4. Stream(s) = T \o C /\ Stream(s)' = T \o Append(C, m)
  BY <1>2 DEF Stream, CoreInv, TypeOK, ChannelsOK
<1>5. \A u \in SubIds \ {s} : Stream(u)' = Stream(u)
  BY <1>2 DEF Stream, CoreInv, TypeOK, ChannelsOK
<1>6. Stream(s)' = Append(Stream(s), m)
  BY <1>3, <1>4
<1>7. /\ Len(Stream(s)') = Len(Stream(s)) + 1
      /\ \A i \in 1 .. Len(Stream(s)) : (Stream(s)')[i] = Stream(s)[i]
      /\ (Stream(s)')[Len(Stream(s)) + 1] = m
  BY <1>1, <1>6, StreamType, AppendProperties
<1> QED
  BY <1>2, <1>5, <1>6, <1>7 DEF Delivers

(* A full channel loses the message and keeps what it has.                 *)
LEMMA SendFullLoses ==
  ASSUME CoreInv, NEW t \in Threads, NEW s \in SubIds, OfferVisit(t, s), SendFull(t, s)
  PROVE  Loses(s, cur[t])
BY DEF Loses, OfferVisit, SendFull, Stream

(* A disconnected one takes nothing.                                       *)
LEMMA SendDisconnectedQuiet ==
  ASSUME CoreInv, NEW t \in Threads, NEW s \in SubIds, OfferVisit(t, s), SendDisconnected(t, s)
  PROVE  Quiet
BY DEF Quiet, OfferVisit, SendDisconnected, Stream

(* All other steps leave the streams alone.                                *)
LEMMA OtherStepsQuiet ==
  ASSUME \/ \E p \in Patterns : Subscribe(p)
         \/ \E s \in SubIds : Unsubscribe(s)
         \/ \E t \in Threads, text \in Topics : OfferStamp(t, text)
         \/ \E t \in Threads : OfferLock(t) \/ OfferReturn(t)
         \/ DropBus
         \/ UNCHANGED vars
  PROVE  Quiet
BY DEF Subscribe, Unsubscribe, OfferStamp, OfferLock, OfferReturn, DropBus, vars, Quiet, Stream

(* What Got becomes.                                                       *)
LEMMA GotQuiet ==
  ASSUME Quiet, NEW s \in SubIds, NEW m
  PROVE  Got(s, m)' <=> Got(s, m)
BY DEF Quiet, Got

(* A delivery adds one message to what one subscription got.               *)
LEMMA GotDelivers ==
  ASSUME CoreInv, NEW s \in SubIds, NEW m, Delivers(s, m), NEW u \in SubIds, NEW x
  PROVE  Got(u, x)' <=> Got(u, x) \/ (u = s /\ x = m)
<1>1. Len(Stream(s)) \in Nat
  BY StreamType
<1>2. CASE u = s
  <2>1. 1 .. Len(Stream(s)') = 1 .. Len(Stream(s)) \cup {Len(Stream(s)) + 1}
    BY <1>1 DEF Delivers
  <2>2. Got(s, x)' <=> \E i \in 1 .. Len(Stream(s)') : (Stream(s)')[i] = x
    BY DEF Got
  <2> QED
    BY <1>2, <2>1, <2>2 DEF Got, Delivers
<1>3. CASE u # s
  BY <1>3 DEF Got, Delivers
<1> QED
  BY <1>2, <1>3

(* A loss adds nothing to what anyone got.                                 *)
LEMMA GotLoses ==
  ASSUME NEW s \in SubIds, NEW m, Loses(s, m), NEW u \in SubIds, NEW x
  PROVE  Got(u, x)' <=> Got(u, x)
BY DEF Loses, Got

(* What Got holds has a place in the order and was stamped.                *)
LEMMA StreamElements ==
  ASSUME CoreInv, StreamInv, NEW s \in SubIds, NEW i \in 1 .. Len(Stream(s))
  PROVE  Stream(s)[i] \in Messages /\ InOrder(Stream(s)[i]) /\ Stream(s)[i] \in 1 .. Len(topic)
<1>1. PICK m \in Messages : m = Stream(s)[i]
  BY StreamType, ElementOfSeq
<1>2. Got(s, m)
  BY <1>1 DEF Got
<1>3. InOrder(m)
  BY <1>2 DEF StreamInv
<1>4. m <= Len(topic)
  BY <1>3 DEF CoreInv, OrderInv, InOrder
<1>5. m \in 1 .. Len(topic)
  BY <1>4, BoundAssumption, LenProperties DEF CoreInv, TypeOK, CallsOK, Messages
<1> QED
  BY <1>1, <1>3, <1>5

(* The message whose offer is in its loop.                                 *)
LEMMA Offered ==
  ASSUME CoreInv, NEW t \in Threads, pc[t] = "fanout"
  PROVE  /\ cur[t] \in Messages /\ cur[t] \in 1 .. Len(topic)
         /\ InOrder(cur[t]) /\ cur[t] \notin Returned
<1>1. cur[t] \in 1 .. Len(topic) /\ cur[t] \notin Returned
  BY DEF CoreInv, CallInv, InCall
<1>2. cur[t] \in Messages
  BY <1>1, BoundAssumption, LenProperties DEF CoreInv, TypeOK, CallsOK, Messages
<1>3. Len(order) \in 1 .. Len(order) /\ order[Len(order)] = cur[t]
  BY LenProperties, EmptySeq DEF CoreInv, TypeOK, CallsOK, OrderInv
<1> QED
  BY <1>1, <1>2, <1>3 DEF InOrder

-----------------------------------------------------------------------------
(***************************************************************************)
(* Order in the streams                                                    *)
(***************************************************************************)

(* The histories of the calls only grow.                                   *)
LEMMA HistoriesGrow ==
  ASSUME CoreInv, [Next]_vars
  PROVE  /\ \A m : InOrder(m) => InOrder(m)'
         /\ \A m \in 1 .. Len(topic) : before'[m] = before[m]
<1>1. CASE \E t \in Threads, text \in Topics : OfferStamp(t, text)
  <2>1. \A m \in 1 .. Len(topic) : before'[m] = before[m]
    <3>1. before \in Seq(SUBSET Messages) /\ Returned \in SUBSET Messages
      BY BoundAssumption DEF CoreInv, TypeOK, CallsOK, Messages
    <3> QED
      BY <1>1, <3>1, AppendProperties DEF OfferStamp, CoreInv, TypeOK, CallsOK
  <2> QED
    BY <1>1, <2>1 DEF OfferStamp, InOrder
<1>2. CASE \E t \in Threads : OfferLock(t)
  <2>1. PICK t \in Threads : OfferLock(t)
    BY <1>2
  <2>2. cur[t] \in Messages /\ order \in Seq(Messages)
    BY <2>1, BoundAssumption, LenProperties
       DEF OfferLock, CoreInv, TypeOK, CallsOK, CallInv, InCall, Messages
  <2>3. /\ Len(order') = Len(order) + 1 /\ Len(order) \in Nat
        /\ \A k \in 1 .. Len(order) : order'[k] = order[k]
    BY <2>1, <2>2, AppendProperties, LenProperties DEF OfferLock
  <2> QED
    BY <2>1, <2>3 DEF OfferLock, InOrder
<1>3. CASE /\ ~\E t \in Threads, text \in Topics : OfferStamp(t, text)
           /\ ~\E t \in Threads : OfferLock(t)
  <2>1. order' = order /\ before' = before
    BY <1>3 DEF Next, vars, Subscribe, Unsubscribe, Recv, DropReceiver, OfferReturn,
                OfferVisit, DropBus
  <2> QED
    BY <2>1 DEF InOrder
<1> QED
  BY <1>1, <1>2, <1>3

(* Every step is quiet, or delivers or loses the message of an offer that  *)
(* has still to visit the subscription.                                    *)
LEMMA StepEffect ==
  ASSUME CoreInv, [Next]_vars
  PROVE  \/ Quiet
         \/ \E t \in Threads, s \in SubIds :
              /\ pc[t] = "fanout" /\ s \in todo[t] /\ s \in subs /\ OfferVisit(t, s)
              /\ \/ SendOk(t, s) /\ Delivers(s, cur[t])
                 \/ SendFull(t, s) /\ Loses(s, cur[t])
<1>1. CASE \E t \in Threads, s \in SubIds : OfferVisit(t, s)
  <2>1. PICK t \in Threads, s \in SubIds : OfferVisit(t, s)
    BY <1>1
  <2>2. pc[t] = "fanout" /\ s \in todo[t] /\ s \in subs
    BY <2>1 DEF OfferVisit, CoreInv, TypeOK, LocalsOK
  <2>3. SendOk(t, s) \/ SendFull(t, s) \/ SendDisconnected(t, s)
    BY <2>1 DEF OfferVisit
  <2> QED
    BY <2>1, <2>2, <2>3, SendOkDelivers, SendFullLoses, SendDisconnectedQuiet
<1>2. CASE \E s \in SubIds : Recv(s) \/ DropReceiver(s)
  BY <1>2, RecvQuiet, DropReceiverQuiet
<1>3. CASE /\ ~\E t \in Threads, s \in SubIds : OfferVisit(t, s)
           /\ ~\E s \in SubIds : Recv(s) \/ DropReceiver(s)
  BY <1>3, OtherStepsQuiet DEF Next
<1> QED
  BY <1>1, <1>2, <1>3

(* Nothing is delivered or lost out of order, and nothing twice.           *)
LEMMA StreamStep ==
  ASSUME CoreInv, StreamInv, ServeInv, [Next]_vars
  PROVE  StreamInv'
<1>1. \A m : InOrder(m) => InOrder(m)'
  BY HistoriesGrow
<1>2. CASE Quiet
  <2>1. ASSUME NEW s \in SubIds
        PROVE  /\ \A m \in Messages : Got(s, m)' \/ m \in missed'[s] => InOrder(m)'
               /\ \A i, j \in 1 .. Len(Stream(s)') : (Stream(s)')[i] = (Stream(s)')[j] => i = j
    BY <1>1, <1>2, GotQuiet DEF Quiet, StreamInv
  <2> QED
    BY <2>1 DEF StreamInv
<1>3. ASSUME NEW t \in Threads, NEW u \in SubIds, pc[t] = "fanout", u \in todo[t],
             Delivers(u, cur[t])
      PROVE  StreamInv'
  <2>1. PICK x \in Messages : x = cur[t] /\ InOrder(x)
    BY <1>3, Offered
  <2>2. ~Got(u, x)
    BY <1>3, <2>1 DEF ServeInv, ServedSoFar
  <2>3. Delivers(u, x)
    BY <1>3, <2>1
  <2>4. ASSUME NEW s \in SubIds, NEW m \in Messages, Got(s, m)' \/ m \in missed'[s]
        PROVE  InOrder(m)'
    <3>1. Got(s, m) \/ m \in missed[s] \/ m = x
      BY <2>3, <2>4, GotDelivers DEF Delivers
    <3> QED
      BY <1>1, <2>1, <3>1 DEF StreamInv
  <2>5. ASSUME NEW s \in SubIds, NEW i \in 1 .. Len(Stream(s)'), NEW j \in 1 .. Len(Stream(s)'),
               (Stream(s)')[i] = (Stream(s)')[j]
        PROVE  i = j
    <3>1. CASE s # u
      BY <2>3, <2>5, <3>1 DEF Delivers, StreamInv
    <3>2. CASE s = u
      <4>1. Len(Stream(u)) \in Nat
        BY StreamType
      <4>2. \A k \in 1 .. Len(Stream(u)) : (Stream(u)')[k] = Stream(u)[k] /\ Stream(u)[k] # x
        BY <2>2, <2>3 DEF Got, Delivers
      <4>3. 1 .. Len(Stream(u)') = 1 .. Len(Stream(u)) \cup {Len(Stream(u)) + 1}
        BY <2>3, <4>1 DEF Delivers
      <4>4. (Stream(u)')[Len(Stream(u)) + 1] = x
        BY <2>3 DEF Delivers
      <4>5. \A k, l \in 1 .. Len(Stream(u)) : Stream(u)[k] = Stream(u)[l] => k = l
        BY DEF StreamInv
      <4> QED
        BY <2>5, <3>2, <4>2, <4>3, <4>4, <4>5
    <3> QED
      BY <3>1, <3>2
  <2> QED
    BY <2>4, <2>5 DEF StreamInv
<1>4. ASSUME NEW t \in Threads, NEW u \in SubIds, pc[t] = "fanout", Loses(u, cur[t])
      PROVE  StreamInv'
  <2>1. PICK x \in Messages : x = cur[t] /\ InOrder(x)
    BY <1>4, Offered
  <2>2. Loses(u, x)
    BY <1>4, <2>1
  <2>3. ASSUME NEW s \in SubIds, NEW m \in Messages, Got(s, m)' \/ m \in missed'[s]
        PROVE  InOrder(m)'
    <3>1. Got(s, m) \/ m \in missed[s] \/ m = x
      BY <2>2, <2>3, GotLoses DEF Loses, CoreInv, TypeOK, ChannelsOK
    <3> QED
      BY <1>1, <2>1, <3>1 DEF StreamInv
  <2>4. ASSUME NEW s \in SubIds
        PROVE  \A i, j \in 1 .. Len(Stream(s)') : (Stream(s)')[i] = (Stream(s)')[j] => i = j
    BY <2>2 DEF Loses, StreamInv
  <2> QED
    BY <2>3, <2>4 DEF StreamInv
<1> QED
  BY <1>2, <1>3, <1>4, StepEffect

(* The message delivered last is of an offer that has not returned, so no  *)
(* offer began after its return.                                           *)
LEMMA RealTimeStep ==
  ASSUME CoreInv, StreamInv, RealTimeOrder, [Next]_vars
  PROVE  RealTimeOrder'
<1>1. \A m \in 1 .. Len(topic) : before'[m] = before[m]
  BY HistoriesGrow
<1>2. ASSUME NEW s \in SubIds, Stream(s)' = Stream(s),
             NEW i \in 1 .. Len(Stream(s)'), NEW j \in 1 .. Len(Stream(s)'), i < j
      PROVE  (Stream(s)')[j] \notin before'[(Stream(s)')[i]]
  BY <1>1, <1>2, StreamElements DEF RealTimeOrder
<1>3. CASE Quiet \/ \E u \in SubIds, m \in Messages : Loses(u, m)
  <2>1. \A s \in SubIds : Stream(s)' = Stream(s)
    BY <1>3 DEF Quiet, Loses
  <2> QED
    BY <1>2, <2>1 DEF RealTimeOrder
<1>4. ASSUME NEW t \in Threads, NEW u \in SubIds, pc[t] = "fanout", Delivers(u, cur[t])
      PROVE  RealTimeOrder'
  <2> SUFFICES ASSUME NEW s \in SubIds,
                      NEW i \in 1 .. Len(Stream(s)'), NEW j \in 1 .. Len(Stream(s)'), i < j
               PROVE  (Stream(s)')[j] \notin before'[(Stream(s)')[i]]
    BY DEF RealTimeOrder
  <2>1. CASE s # u
    BY <1>2, <1>4, <2>1 DEF Delivers
  <2>2. CASE s = u
    <3>1. Len(Stream(u)) \in Nat /\ Len(Stream(u)') = Len(Stream(u)) + 1
      BY <1>4, StreamType DEF Delivers
    <3>2. i \in 1 .. Len(Stream(u)) /\ (Stream(u)')[i] = Stream(u)[i]
      BY <1>4, <2>2, <3>1 DEF Delivers
    <3>3. Stream(u)[i] \in 1 .. Len(topic)
      BY <3>2, StreamElements
    <3>4. CASE j \in 1 .. Len(Stream(u))
      <4>1. (Stream(u)')[j] = Stream(u)[j]
        BY <1>4, <3>4 DEF Delivers
      <4> QED
        BY <1>1, <2>2, <3>2, <3>3, <3>4, <4>1 DEF RealTimeOrder
    <3>5. CASE j = Len(Stream(u)) + 1
      <4>1. (Stream(u)')[j] = cur[t]
        BY <1>4, <3>5 DEF Delivers
      <4>2. before'[Stream(u)[i]] \subseteq Returned
        BY <1>1, <3>3 DEF CoreInv, CallInv
      <4>3. cur[t] \notin Returned
        BY <1>4, Offered
      <4> QED
        BY <2>2, <3>2, <4>1, <4>2, <4>3
    <3> QED
      BY <2>2, <3>1, <3>4, <3>5
  <2> QED
    BY <2>1, <2>2
<1> QED
  BY <1>3, <1>4, StepEffect, Offered

-----------------------------------------------------------------------------
(***************************************************************************)
(* The loop serves every matching subscription once                        *)
(***************************************************************************)

(* Two threads are never both in the loop.                                 *)
LEMMA OneInLoop ==
  ASSUME CoreInv, NEW t \in Threads, NEW u \in Threads, pc[t] = "fanout", pc[u] = "fanout"
  PROVE  t = u
BY DEF CoreInv, TypeOK, LocalsOK

(* With the mutex free nobody is in the loop.                              *)
LEMMA NobodyInLoop ==
  ASSUME CoreInv, ~Locked, NEW t \in Threads
  PROVE  pc[t] # "fanout"
BY NoneAssumption DEF CoreInv, TypeOK, LocalsOK, Locked

(* A quiet step that leaves the loops alone and only removes receivers.    *)
LEMMA ServeQuiet ==
  ASSUME CoreInv, ServeInv, Quiet, UNCHANGED <<filter, subs, todo>>, rx' \subseteq rx,
         \A m \in 1 .. Len(topic) : topic'[m] = topic[m],
         \A t \in Threads : pc'[t] = "fanout" => pc[t] = "fanout" /\ cur'[t] = cur[t]
  PROVE  ServeInv'
<1> SUFFICES ASSUME NEW t \in Threads, NEW m \in Messages, NEW s \in SubIds,
                    pc'[t] = "fanout", cur'[t] = m
             PROVE  ServedSoFar(s, m, todo[t])'
  BY DEF ServeInv
<1>1. pc[t] = "fanout" /\ cur[t] = m
  OBVIOUS
<1>2. topic'[m] = topic[m]
  BY <1>1, Offered
<1>3. ServedSoFar(s, m, todo[t])
  BY <1>1 DEF ServeInv
<1>4. (Got(s, m)' <=> Got(s, m)) /\ missed'[s] = missed[s]
  BY GotQuiet DEF Quiet
<1> QED
  BY <1>2, <1>3, <1>4 DEF ServedSoFar

(* The loop begins with a message nobody has got or lost, and with all     *)
(* matching subscriptions to visit.                                        *)
LEMMA ServeLock ==
  ASSUME CoreInv, StreamInv, NEW t \in Threads, OfferLock(t)
  PROVE  ServeInv'
<1> SUFFICES ASSUME NEW u \in Threads, NEW m \in Messages, NEW s \in SubIds,
                    pc'[u] = "fanout", cur'[u] = m
             PROVE  ServedSoFar(s, m, todo[u])'
  BY DEF ServeInv
<1>1. u = t /\ cur[t] = m /\ pc[t] = "stamped"
  <2>1. pc[u] # "fanout"
    BY NobodyInLoop DEF OfferLock
  <2> QED
    BY <2>1 DEF OfferLock, CoreInv, TypeOK, LocalsOK
<1>2. ~InOrder(m)
  BY <1>1 DEF CoreInv, OrderInv
<1>3. ~Got(s, m) /\ m \notin missed[s]
  BY <1>2 DEF StreamInv
<1>4. ~Got(s, m)' /\ m \notin missed'[s]
  BY <1>3, OtherStepsQuiet, GotQuiet DEF Quiet
<1>5. todo'[u] = {v \in subs : Matches(filter[v + 1], topic[m])}
  BY <1>1 DEF OfferLock, Audience, CoreInv, TypeOK, LocalsOK
<1> QED
  BY <1>4, <1>5 DEF ServedSoFar, OfferLock

(* One visit serves one subscription and takes it off the list.            *)
LEMMA ServeVisit ==
  ASSUME CoreInv, ServeInv, NEW t \in Threads, NEW v \in SubIds, OfferVisit(t, v)
  PROVE  ServeInv'
<1> SUFFICES ASSUME NEW u \in Threads, NEW m \in Messages, NEW s \in SubIds,
                    pc'[u] = "fanout", cur'[u] = m
             PROVE  ServedSoFar(s, m, todo[u])'
  BY DEF ServeInv
<1>1. /\ pc[u] = "fanout" /\ cur[u] = m /\ u = t /\ v \in todo[t]
      /\ todo'[u] = todo[t] \ {v}
      /\ UNCHANGED <<filter, subs, rx, topic>>
  <2>1. pc[u] = "fanout" /\ cur[u] = m /\ pc[t] = "fanout"
    BY DEF OfferVisit
  <2>2. u = t
    BY <2>1, OneInLoop
  <2> QED
    BY <2>1, <2>2 DEF OfferVisit, CoreInv, TypeOK, LocalsOK
<1>2. ServedSoFar(s, m, todo[t]) /\ ServedSoFar(v, m, todo[t])
  BY <1>1 DEF ServeInv
<1>3. CASE SendOk(t, v)
  <2>1. Delivers(v, m)
    BY <1>1, <1>3, SendOkDelivers
  <2>2. Got(s, m)' <=> Got(s, m) \/ s = v
    BY <2>1, GotDelivers
  <2>3. missed'[s] = missed[s]
    BY <2>1 DEF Delivers
  <2> QED
    BY <1>1, <1>2, <2>2, <2>3 DEF ServedSoFar
<1>4. CASE SendFull(t, v)
  <2>1. Loses(v, m)
    BY <1>1, <1>4, SendFullLoses
  <2>2. Got(s, m)' <=> Got(s, m)
    BY <2>1, GotLoses
  <2>3. m \in missed'[s] <=> m \in missed[s] \/ s = v
    BY <2>1 DEF Loses, CoreInv, TypeOK, ChannelsOK
  <2> QED
    BY <1>1, <1>2, <2>2, <2>3 DEF ServedSoFar
<1>5. CASE SendDisconnected(t, v)
  <2>1. Quiet /\ v \notin rx
    BY <1>5, SendDisconnectedQuiet DEF SendDisconnected, IsDisconnected
  <2>2. (Got(s, m)' <=> Got(s, m)) /\ missed'[s] = missed[s]
    BY <2>1, GotQuiet DEF Quiet
  <2> QED
    BY <1>1, <1>2, <2>1, <2>2 DEF ServedSoFar
<1> QED
  BY <1>3, <1>4, <1>5 DEF OfferVisit

(* Every step keeps what the loop of offer has done so far.                *)
LEMMA ServeStep ==
  ASSUME CoreInv, StreamInv, ServeInv, [Next]_vars
  PROVE  ServeInv'
<1>1. ASSUME \A t \in Threads : pc'[t] # "fanout" PROVE ServeInv'
  BY <1>1 DEF ServeInv
<1>2. ASSUME NEW p \in Patterns, Subscribe(p) PROVE ServeInv'
  BY <1>1, <1>2, NobodyInLoop DEF Subscribe
<1>3. ASSUME NEW s \in SubIds, Unsubscribe(s) PROVE ServeInv'
  BY <1>1, <1>3, NobodyInLoop DEF Unsubscribe
<1>4. ASSUME DropBus PROVE ServeInv'
  BY <1>1, <1>4 DEF DropBus
<1>5. ASSUME NEW s \in SubIds, Recv(s) PROVE ServeInv'
  BY <1>5, RecvQuiet, ServeQuiet DEF Recv
<1>6. ASSUME NEW s \in SubIds, DropReceiver(s) PROVE ServeInv'
  BY <1>6, DropReceiverQuiet, ServeQuiet DEF DropReceiver
<1>7. ASSUME NEW t \in Threads, NEW text \in Topics, OfferStamp(t, text) PROVE ServeInv'
  <2>1. \A m \in 1 .. Len(topic) : topic'[m] = topic[m]
    BY <1>7, AppendProperties DEF OfferStamp, CoreInv, TypeOK, CallsOK
  <2>2. \A u \in Threads : pc'[u] = "fanout" => pc[u] = "fanout" /\ cur'[u] = cur[u]
    BY <1>7 DEF OfferStamp, CoreInv, TypeOK, LocalsOK
  <2>3. Quiet
    BY <1>7, OtherStepsQuiet
  <2> QED
    BY <1>7, <2>1, <2>2, <2>3, ServeQuiet DEF OfferStamp
<1>8. ASSUME NEW t \in Threads, OfferReturn(t) PROVE ServeInv'
  <2>1. \A u \in Threads : pc'[u] # "fanout"
    BY <1>8, OneInLoop DEF OfferReturn, CoreInv, TypeOK, LocalsOK
  <2> QED
    BY <1>1, <2>1
<1>9. CASE UNCHANGED vars
  BY <1>9, OtherStepsQuiet, ServeQuiet DEF vars
<1> QED
  BY <1>2, <1>3, <1>4, <1>5, <1>6, <1>7, <1>8, <1>9, ServeLock, ServeVisit DEF Next

-----------------------------------------------------------------------------
(***************************************************************************)
(* The counters                                                            *)
(***************************************************************************)

(* All the counted sets are finite.                                        *)
LEMMA FiniteCounts ==
  /\ IsFiniteSet(SubIds)
  /\ \A m : IsFiniteSet(Holders(m)) /\ IsFiniteSet(Losers(m))
  /\ IsFiniteSet(Losses)
<1>1. IsFiniteSet(SubIds) /\ IsFiniteSet(Messages)
  BY BoundAssumption, FS_Interval DEF SubIds, Messages
<1>2. IsFiniteSet(SubIds \X Messages)
  BY <1>1, FS_Product
<1>3. \A m : Holders(m) \in SUBSET SubIds /\ Losers(m) \in SUBSET SubIds
  BY DEF Holders, Losers
<1>4. Losses \in SUBSET (SubIds \X Messages)
  BY DEF Losses
<1> QED
  BY <1>1, <1>2, <1>3, <1>4, FS_Subset

(* A quiet step changes none of them.                                      *)
LEMMA SetsQuiet ==
  ASSUME Quiet
  PROVE  /\ \A m : Holders(m)' = Holders(m) /\ Losers(m)' = Losers(m)
         /\ Losses' = Losses
<1>1. ASSUME NEW m PROVE Holders(m)' = Holders(m) /\ Losers(m)' = Losers(m)
  <2>1. \A s \in SubIds : Got(s, m)' <=> Got(s, m)
    BY GotQuiet
  <2>2. \A s \in SubIds : missed'[s] = missed[s]
    BY DEF Quiet
  <2> QED
    BY <2>1, <2>2 DEF Holders, Losers
<1>2. Losses' = Losses
  <2>1. \A w \in SubIds \X Messages : missed'[w[1]] = missed[w[1]]
    BY DEF Quiet
  <2> QED
    BY <2>1 DEF Losses
<1> QED
  BY <1>1, <1>2

(* A delivery adds one holder of the message.                              *)
LEMMA SetsDeliver ==
  ASSUME CoreInv, NEW s \in SubIds, NEW m, Delivers(s, m)
  PROVE  /\ Holders(m)' = Holders(m) \cup {s}
         /\ \A x : x # m => Holders(x)' = Holders(x)
         /\ \A x : Losers(x)' = Losers(x)
         /\ Losses' = Losses
<1>1. ASSUME NEW x PROVE Holders(x)' = IF x = m THEN Holders(x) \cup {s} ELSE Holders(x)
  <2>1. \A u \in SubIds : Got(u, x)' <=> Got(u, x) \/ (u = s /\ x = m)
    BY GotDelivers
  <2> QED
    BY <2>1 DEF Holders
<1>2. \A x : Losers(x)' = Losers(x)
  BY DEF Losers, Delivers
<1>3. Losses' = Losses
  BY DEF Losses, Delivers
<1> QED
  BY <1>1, <1>2, <1>3

(* A loss adds one loser of the message.                                   *)
LEMMA SetsLose ==
  ASSUME CoreInv, NEW s \in SubIds, NEW m \in Messages, Loses(s, m)
  PROVE  /\ \A x : Holders(x)' = Holders(x)
         /\ Losers(m)' = Losers(m) \cup {s}
         /\ \A x : x # m => Losers(x)' = Losers(x)
         /\ Losses' = Losses \cup {<<s, m>>}
<1>1. missed \in [SubIds -> SUBSET Messages]
  BY DEF CoreInv, TypeOK, ChannelsOK
<1>2. ASSUME NEW x PROVE Holders(x)' = Holders(x)
  <2>1. \A u \in SubIds : Got(u, x)' <=> Got(u, x)
    BY GotLoses
  <2> QED
    BY <2>1 DEF Holders
<1>3. ASSUME NEW x PROVE Losers(x)' = IF x = m THEN Losers(x) \cup {s} ELSE Losers(x)
  BY <1>1 DEF Losers, Loses
<1>4. Losses' = Losses \cup {<<s, m>>}
  <2>1. ASSUME NEW a \in SubIds, NEW b \in Messages
        PROVE  b \in missed'[a] <=> b \in missed[a] \/ (a = s /\ b = m)
    BY <1>1 DEF Loses
  <2> QED
    BY <2>1 DEF Losses
<1> QED
  BY <1>2, <1>3, <1>4

(* A step that neither counts nor returns.                                 *)
LEMMA CountQuiet ==
  ASSUME CoreInv, CountInv, Quiet, UNCHANGED <<sent, dropped, drop_count, result>>,
         \A t \in Threads : pc'[t] = "fanout" => pc[t] = "fanout" /\ cur'[t] = cur[t]
  PROVE  CountInv'
<1>1. /\ \A m : Holders(m)' = Holders(m) /\ Losers(m)' = Losers(m)
      /\ Losses' = Losses
  BY SetsQuiet
<1>2. \A t \in Threads, m \in Messages :
        pc'[t] = "fanout" /\ cur'[t] = m => /\ sent'[t] = Cardinality(Holders(m)')
                                           /\ dropped'[t] = Cardinality(Losers(m)')
  BY <1>1 DEF CountInv
<1>3. \A m \in Returned' : /\ result'[m].sent = Cardinality(Holders(m)')
                          /\ result'[m].dropped = Cardinality(Losers(m)')
  BY <1>1 DEF CountInv, Returned
<1>4. drop_count' = Cardinality(Losses')
  BY <1>1 DEF CountInv
<1> QED
  BY <1>2, <1>3, <1>4 DEF CountInv

(* The loop begins with nothing counted and nothing to count.              *)
LEMMA CountLock ==
  ASSUME CoreInv, StreamInv, CountInv, NEW t \in Threads, OfferLock(t)
  PROVE  CountInv'
<1>1. /\ \A m : Holders(m)' = Holders(m) /\ Losers(m)' = Losers(m)
      /\ Losses' = Losses
  BY OtherStepsQuiet, SetsQuiet
<1>2. ASSUME NEW u \in Threads, NEW m \in Messages, pc'[u] = "fanout", cur'[u] = m
      PROVE  sent'[u] = Cardinality(Holders(m)') /\ dropped'[u] = Cardinality(Losers(m)')
  <2>1. pc[u] # "fanout"
    BY NobodyInLoop DEF OfferLock
  <2>2. u = t /\ cur[t] = m /\ pc[t] = "stamped"
    BY <1>2, <2>1 DEF OfferLock, CoreInv, TypeOK, LocalsOK
  <2>3. ~InOrder(m)
    BY <2>2 DEF CoreInv, OrderInv
  <2>4. Holders(m) = {} /\ Losers(m) = {}
    BY <2>3 DEF StreamInv, Holders, Losers
  <2>5. sent'[u] = 0 /\ dropped'[u] = 0
    BY <2>1 DEF OfferLock, CoreInv, MutexInv
  <2> QED
    BY <1>1, <2>4, <2>5, FS_EmptySet
<1>3. \A m \in Returned' : /\ result'[m].sent = Cardinality(Holders(m)')
                          /\ result'[m].dropped = Cardinality(Losers(m)')
  BY <1>1 DEF CountInv, Returned, OfferLock
<1>4. drop_count' = Cardinality(Losses')
  BY <1>1 DEF CountInv, OfferLock
<1> QED
  BY <1>2, <1>3, <1>4 DEF CountInv

(* Each visit counts what it does.                                         *)
LEMMA CountVisit ==
  ASSUME CoreInv, ServeInv, CountInv, NEW t \in Threads, NEW s \in SubIds, OfferVisit(t, s)
  PROVE  CountInv'
<1> DEFINE Counted(u, x) == /\ sent'[u] = Cardinality(Holders(x)')
                            /\ dropped'[u] = Cardinality(Losers(x)')
           Kept(x) == /\ Cardinality(Holders(x)') = Cardinality(Holders(x))
                      /\ Cardinality(Losers(x)') = Cardinality(Losers(x))
<1>1. PICK m \in Messages : m = cur[t] /\ m \notin Returned
  BY Offered DEF OfferVisit
<1>2. ~Got(s, m) /\ m \notin missed[s]
  BY <1>1 DEF ServeInv, ServedSoFar, OfferVisit
<1>3. s \notin Holders(m) /\ s \notin Losers(m) /\ <<s, m>> \notin Losses
  BY <1>2 DEF Holders, Losers, Losses
<1>4. sent[t] = Cardinality(Holders(m)) /\ dropped[t] = Cardinality(Losers(m))
  BY <1>1 DEF CountInv, OfferVisit
<1>5. drop_count = Cardinality(Losses)
  BY DEF CountInv
<1>6. /\ \A x : IsFiniteSet(Holders(x)) /\ IsFiniteSet(Losers(x))
      /\ IsFiniteSet(Losses)
  BY FiniteCounts
<1>7. sent \in [Threads -> Nat] /\ dropped \in [Threads -> Nat]
  BY DEF CoreInv, TypeOK, LocalsOK
<1>8. /\ Counted(t, m)
      /\ drop_count' = Cardinality(Losses')
      /\ \A x \in Returned : Kept(x)
  <2>1. CASE SendOk(t, s)
    <3>1. Delivers(s, m)
      BY <1>1, <2>1, SendOkDelivers
    <3>2. Cardinality(Holders(m) \cup {s}) = Cardinality(Holders(m)) + 1
      BY <1>3, <1>6, FS_AddElement
    <3>3. Counted(t, m)
      BY <1>4, <1>7, <2>1, <3>1, <3>2, SetsDeliver DEF SendOk
    <3>4. drop_count' = Cardinality(Losses')
      BY <1>5, <2>1, <3>1, SetsDeliver DEF SendOk
    <3>5. \A x \in Returned : Kept(x)
      BY <1>1, <3>1, SetsDeliver
    <3> QED
      BY <3>3, <3>4, <3>5
  <2>2. CASE SendFull(t, s)
    <3>1. Loses(s, m)
      BY <1>1, <2>2, SendFullLoses
    <3>2. /\ Cardinality(Losers(m) \cup {s}) = Cardinality(Losers(m)) + 1
          /\ Cardinality(Losses \cup {<<s, m>>}) = Cardinality(Losses) + 1
      BY <1>3, <1>6, FS_AddElement
    <3>3. Counted(t, m)
      BY <1>4, <1>7, <2>2, <3>1, <3>2, SetsLose DEF SendFull
    <3>4. drop_count' = Cardinality(Losses')
      BY <1>5, <2>2, <3>1, <3>2, SetsLose DEF SendFull
    <3>5. \A x \in Returned : Kept(x)
      BY <1>1, <3>1, SetsLose
    <3> QED
      BY <3>3, <3>4, <3>5
  <2>3. CASE SendDisconnected(t, s)
    <3>1. Quiet
      BY <2>3, SendDisconnectedQuiet
    <3> QED
      BY <1>4, <1>5, <2>3, <3>1, SetsQuiet DEF SendDisconnected
  <2> QED
    BY <2>1, <2>2, <2>3 DEF OfferVisit
<1>9. ASSUME NEW u \in Threads, NEW x \in Messages, pc'[u] = "fanout", cur'[u] = x
      PROVE  Counted(u, x)
  <2>1. u = t /\ x = m
    BY <1>1, <1>9, OneInLoop DEF OfferVisit
  <2> QED
    BY <1>8, <2>1
<1>10. \A x \in Returned' : /\ result'[x].sent = Cardinality(Holders(x)')
                           /\ result'[x].dropped = Cardinality(Losers(x)')
  BY <1>8 DEF CountInv, Returned, OfferVisit
<1> QED
  BY <1>8, <1>9, <1>10 DEF CountInv

(* The counts of the loop become the OfferResult.                          *)
LEMMA CountReturn ==
  ASSUME CoreInv, CountInv, NEW t \in Threads, OfferReturn(t)
  PROVE  CountInv'
<1>1. /\ \A m : Holders(m)' = Holders(m) /\ Losers(m)' = Losers(m)
      /\ Losses' = Losses
  BY OtherStepsQuiet, SetsQuiet
<1>2. \A u \in Threads : pc'[u] # "fanout"
  BY OneInLoop DEF OfferReturn, CoreInv, TypeOK, LocalsOK
<1>3. PICK x \in Messages : x = cur[t]
  BY Offered DEF OfferReturn
<1>4. sent[t] = Cardinality(Holders(x)) /\ dropped[t] = Cardinality(Losers(x))
  BY <1>3 DEF CountInv, OfferReturn
<1>5. ASSUME NEW m \in Returned'
      PROVE  /\ result'[m].sent = Cardinality(Holders(m)')
             /\ result'[m].dropped = Cardinality(Losers(m)')
  <2>1. result' = [y \in Returned \cup {x} |->
                    IF y = x THEN [sent |-> sent[t], dropped |-> dropped[t]] ELSE result[y]]
    BY <1>3 DEF OfferReturn
  <2>2. m \in Returned \cup {x}
    BY <2>1 DEF Returned
  <2>3. CASE m = x
    BY <1>1, <1>4, <2>1, <2>3
  <2>4. CASE m # x
    <3>1. m \in Returned /\ result'[m] = result[m]
      BY <2>1, <2>2, <2>4
    <3> QED
      BY <1>1, <3>1 DEF CountInv
  <2> QED
    BY <2>3, <2>4
<1>6. drop_count' = Cardinality(Losses')
  BY <1>1 DEF CountInv, OfferReturn
<1> QED
  BY <1>2, <1>5, <1>6 DEF CountInv

(* Every step keeps the counters truthful.                                 *)
LEMMA CountStep ==
  ASSUME CoreInv, StreamInv, ServeInv, CountInv, [Next]_vars
  PROVE  CountInv'
<1>1. ASSUME NEW p \in Patterns, Subscribe(p) PROVE CountInv'
  BY <1>1, OtherStepsQuiet, CountQuiet DEF Subscribe
<1>2. ASSUME NEW s \in SubIds, Unsubscribe(s) PROVE CountInv'
  BY <1>2, OtherStepsQuiet, CountQuiet DEF Unsubscribe
<1>3. ASSUME DropBus PROVE CountInv'
  BY <1>3, OtherStepsQuiet, CountQuiet DEF DropBus
<1>4. ASSUME NEW s \in SubIds, Recv(s) PROVE CountInv'
  BY <1>4, RecvQuiet, CountQuiet DEF Recv
<1>5. ASSUME NEW s \in SubIds, DropReceiver(s) PROVE CountInv'
  BY <1>5, DropReceiverQuiet, CountQuiet DEF DropReceiver
<1>6. ASSUME NEW t \in Threads, NEW text \in Topics, OfferStamp(t, text) PROVE CountInv'
  <2>1. \A u \in Threads : pc'[u] = "fanout" => pc[u] = "fanout" /\ cur'[u] = cur[u]
    BY <1>6 DEF OfferStamp, CoreInv, TypeOK, LocalsOK
  <2> QED
    BY <1>6, <2>1, OtherStepsQuiet, CountQuiet DEF OfferStamp
<1>7. CASE UNCHANGED vars
  BY <1>7, OtherStepsQuiet, CountQuiet DEF vars
<1> QED
  BY <1>1, <1>2, <1>3, <1>4, <1>5, <1>6, <1>7, CountLock, CountVisit, CountReturn DEF Next

-----------------------------------------------------------------------------
(***************************************************************************)
(* The theorems                                                            *)
(***************************************************************************)

(* The bus begins with the invariant.                                      *)
LEMMA InitIInv == Init => IInv
<1> SUFFICES ASSUME Init PROVE IInv
  OBVIOUS
<1>1. CoreInv
  BY CoreInit
<1>2. \A s \in SubIds : Stream(s) = <<>> /\ Len(Stream(s)) = 0 /\ missed[s] = {}
  <2>1. <<>> \o <<>> = <<>> /\ Len(<<>>) = 0
    BY ConcatEmptySeq, EmptySeq
  <2> QED
    BY <2>1 DEF Init, Stream
<1>3. StreamInv /\ RealTimeOrder
  BY <1>2 DEF StreamInv, RealTimeOrder, Got
<1>4. ServeInv
  BY DEF Init, ServeInv
<1>5. CountInv
  <2>1. Losses = {}
    BY <1>2 DEF Losses
  <2> QED
    BY <2>1, FS_EmptySet DEF Init, CountInv, Returned
<1> QED
  BY <1>1, <1>3, <1>4, <1>5 DEF IInv

(* Every step keeps the invariant.                                         *)
LEMMA NextIInv == IInv /\ [Next]_vars => IInv'
BY CoreStep, StreamStep, RealTimeStep, ServeStep, CountStep DEF IInv

(* IInv holds in every reachable state.                                    *)
THEOREM Invariance == Spec => []IInv
BY InitIInv, NextIInv, PTL DEF Spec

(* An offer that returned before another began comes first in every        *)
(* stream, for any number of publishers, subscribers and messages.         *)
THEOREM OrderInRealTime == Spec => []RealTimeOrder
BY Invariance, PTL DEF IInv

(* OfferResult and drop_count are exact: the counters the loop of offer    *)
(* keeps in its locals are the numbers of deliveries and losses, whatever  *)
(* the receivers do between the visits.                                    *)
THEOREM CountsTruthful == Spec => []TruthfulCounts
<1>1. IInv => TruthfulCounts
  BY DEF IInv, CountInv, TruthfulCounts, Holders, Losers, Losses
<1> QED
  BY <1>1, Invariance, PTL

(* Unsubscribe and the drop of the last clone leave what is queued to the  *)
(* receiver, and from then on nothing enters the channel and nothing       *)
(* leaves the stream: an offer only visits subscriptions still in the map. *)
THEOREM UnsubscribeIsQuiet == Spec => QuietAfterUnsubscribe
<1>0. ASSUME [Next]_vars, NEW s \in SubIds, s \in subs, s \notin subs'
      PROVE  chan' = chan /\ taken' = taken /\ rx' = rx /\ missed' = missed
  BY <1>0 DEF Next, vars, registry, channels, Subscribe, Unsubscribe, Recv, DropReceiver, DropBus,
              OfferStamp, OfferLock, OfferVisit, OfferReturn
<1>1. ASSUME CoreInv, [Next]_vars, NEW s \in SubIds, s \notin subs
      PROVE  Stream(s)' = Stream(s) /\ missed'[s] = missed[s]
  <2>1. CASE Quiet
    BY <2>1 DEF Quiet
  <2>2. ASSUME NEW t \in Threads, NEW u \in SubIds, u \in subs,
               Delivers(u, cur[t]) \/ Loses(u, cur[t])
        PROVE  Stream(s)' = Stream(s) /\ missed'[s] = missed[s]
    BY <1>1, <2>2 DEF Delivers, Loses, CoreInv, TypeOK, ChannelsOK
  <2> QED
    BY <1>1, <2>1, <2>2, StepEffect
<1>2. ASSUME IInv, [Next]_vars, NEW s \in SubIds, s \notin subs'
      PROVE  StaysQuiet(s) /\ (s \in subs => chan'[s] = chan[s] /\ rx' = rx)
  <2>1. CASE s \in subs
    BY <1>0, <1>2, <2>1 DEF StaysQuiet, Stream
  <2>2. CASE s \notin subs
    BY <1>1, <1>2, <2>2 DEF IInv, StaysQuiet
  <2> QED
    BY <2>1, <2>2
<1>3. IInv /\ [Next]_vars =>
        [\A s \in SubIds : s \notin subs' =>
           /\ StaysQuiet(s)
           /\ s \in subs => chan'[s] = chan[s] /\ rx' = rx]_vars
  BY <1>2
<1> QED
  BY <1>3, Invariance, PTL DEF Spec, QuietAfterUnsubscribe

(* offer returns only when every subscription it had to serve has got the  *)
(* message once or lost it to a full queue, and no other has got it.       *)
THEOREM NoSilentLoss == Spec => EveryoneServed
<1>1. ASSUME IInv, [Next]_vars, NEW m \in Messages, m \in Returned' \ Returned
      PROVE  ServedOnReturn(m)
  <2>1. PICK t \in Threads : OfferReturn(t) /\ m = cur[t]
    <3>1. PICK t \in Threads : OfferReturn(t)
      BY <1>1 DEF Next, vars, Returned, Subscribe, Unsubscribe, Recv, DropReceiver, DropBus,
                  OfferStamp, OfferLock, OfferVisit
    <3>2. Returned' = Returned \cup {cur[t]}
      BY <3>1 DEF OfferReturn, Returned
    <3> QED
      BY <1>1, <3>1, <3>2
  <2> SUFFICES ASSUME NEW s \in present[m] \cap subs' \cap rx'
               PROVE  IF Matches(filter[s + 1], topic[m])
                        THEN Cardinality({i \in 1 .. Len(Stream(s)) : Stream(s)[i] = m})
                               + (IF m \in missed[s] THEN 1 ELSE 0) = 1
                        ELSE ~Got(s, m) /\ m \notin missed[s]
    BY DEF ServedOnReturn
  <2>2. s \in SubIds /\ s \in subs /\ s \in rx /\ todo[t] = {}
    <3>1. subs' = subs /\ rx' = rx /\ todo[t] = {}
      BY <2>1 DEF OfferReturn, LoopOver
    <3>2. subs \subseteq SubIds
      BY <1>1, BoundAssumption DEF IInv, CoreInv, TypeOK, RegistryOK, SubIds
    <3> QED
      BY <3>1, <3>2
  <2>3. ServedSoFar(s, m, todo[t])
    BY <1>1, <2>1, <2>2 DEF IInv, ServeInv, OfferReturn
  <2>4. CASE ~Matches(filter[s + 1], topic[m])
    BY <2>2, <2>3, <2>4 DEF ServedSoFar
  <2>5. CASE Matches(filter[s + 1], topic[m])
    <3> DEFINE P == {i \in 1 .. Len(Stream(s)) : Stream(s)[i] = m}
    <3>1. CASE Got(s, m)
      <4>1. m \notin missed[s]
        BY <2>3, <3>1 DEF ServedSoFar
      <4>2. PICK k \in 1 .. Len(Stream(s)) : Stream(s)[k] = m
        BY <3>1 DEF Got
      <4>3. P = {k}
        BY <1>1, <2>2, <4>2 DEF IInv, StreamInv
      <4>4. Cardinality(P) = 1
        BY <4>3, FS_Singleton
      <4> QED
        BY <2>5, <4>1, <4>4
    <3>2. CASE ~Got(s, m)
      <4>1. m \in missed[s]
        BY <2>2, <2>3, <2>5, <3>2 DEF ServedSoFar
      <4>2. Cardinality(P) = 0
        BY <3>2, FS_EmptySet DEF Got
      <4> QED
        BY <2>5, <4>1, <4>2
    <3> QED
      BY <3>1, <3>2
  <2> QED
    BY <2>4, <2>5
<1>2. IInv /\ [Next]_vars =>
        [\A m \in Messages : m \in Returned' \ Returned => ServedOnReturn(m)]_vars
  BY <1>1
<1> QED
  BY <1>2, Invariance, PTL DEF Spec, EveryoneServed

-----------------------------------------------------------------------------
(***************************************************************************)
(* The bus implements OrderedBroadcast                                     *)
(***************************************************************************)

(* Taking the mutex publishes the message: nobody published it before.     *)
LEMMA LockPublishes ==
  ASSUME CoreInv, NEW t \in Threads, OfferLock(t)
  PROVE  Broadcast!Publish(cur[t]) /\ cur[t] \in Messages
<1>1. cur[t] \in Messages /\ ~InOrder(cur[t])
  BY BoundAssumption, LenProperties
     DEF OfferLock, CoreInv, TypeOK, CallsOK, CallInv, InCall, OrderInv, Messages
<1>2. ~Broadcast!Occurs(cur[t], order)
  BY <1>1 DEF InOrder, Broadcast!Occurs
<1>3. [s \in SubIds |-> Stream(s)]' = [s \in SubIds |-> Stream(s)]
  BY OtherStepsQuiet DEF Quiet
<1> QED
  BY <1>1, <1>2, <1>3 DEF Broadcast!Publish, OfferLock

(* A delivery hands over the last entry of the log, which the subscription *)
(* has not got yet.                                                        *)
LEMMA DeliveryHands ==
  ASSUME CoreInv, ServeInv, NEW t \in Threads, NEW u \in SubIds, OfferVisit(t, u),
         Delivers(u, cur[t])
  PROVE  Len(order) \in 1 .. Len(order) /\ Broadcast!Hand(u, Len(order))
<1> DEFINE F == [s \in SubIds |-> Stream(s)]
<1>1. /\ Len(order) \in 1 .. Len(order) /\ order[Len(order)] = cur[t]
      /\ cur[t] \in Messages
  BY LenProperties, EmptySeq, Offered DEF OfferVisit, CoreInv, TypeOK, CallsOK, OrderInv
<1>2. ~Got(u, cur[t])
  <2>1. u \in todo[t] /\ pc[t] = "fanout"
    BY DEF OfferVisit
  <2>2. ServedSoFar(u, cur[t], todo[t])
    BY <1>1, <2>1 DEF ServeInv
  <2> QED
    BY <2>1, <2>2 DEF ServedSoFar
<1>3. \A j \in Len(order) .. Len(order) : ~Broadcast!Occurs(order[j], F[u])
  <2>1. ~Broadcast!Occurs(cur[t], F[u])
    BY <1>2 DEF Got, Broadcast!Occurs
  <2> QED
    BY <1>1, <2>1
<1>4. F' = [F EXCEPT ![u] = Append(F[u], order[Len(order)])]
  <2>1. Stream(u)' = Append(Stream(u), cur[t]) /\ \A s \in SubIds \ {u} : Stream(s)' = Stream(s)
    BY DEF Delivers
  <2> QED
    BY <1>1, <2>1
<1>5. order' = order
  BY DEF OfferVisit
<1> QED
  BY <1>1, <1>3, <1>4, <1>5 DEF Broadcast!Hand

(* Every other step leaves both the log and the streams as they are.       *)
LEMMA OtherStepsStutter ==
  ASSUME [Next]_vars, ~\E t \in Threads : OfferLock(t),
         \A s \in SubIds : Stream(s)' = Stream(s)
  PROVE  UNCHANGED Broadcast!broadcastVars
<1>1. order' = order
  BY DEF Next, vars, Subscribe, Unsubscribe, Recv, DropReceiver, OfferStamp, OfferReturn,
         OfferVisit, DropBus
<1>2. [s \in SubIds |-> Stream(s)]' = [s \in SubIds |-> Stream(s)]
  OBVIOUS
<1> QED
  BY <1>1, <1>2 DEF Broadcast!broadcastVars

(* The bus is a broadcast in one common order: every behaviour of the bus  *)
(* is, under the mapping of Bus, one of OrderedBroadcast, whatever the     *)
(* number of threads, subscriptions and messages.                          *)
THEOREM Refinement == Spec => OneCommonOrder
<1>1. Init => Broadcast!Init
  <2>1. <<>> \o <<>> = <<>>
    BY ConcatEmptySeq, EmptySeq
  <2> QED
    BY <2>1 DEF Init, Broadcast!Init, Stream
<1>2. IInv /\ [Next]_vars => [Broadcast!Next]_(Broadcast!broadcastVars)
  <2> SUFFICES ASSUME IInv, [Next]_vars
               PROVE  Broadcast!Next \/ UNCHANGED Broadcast!broadcastVars
    OBVIOUS
  <2>1. CASE \E t \in Threads : OfferLock(t)
    BY <2>1, LockPublishes DEF IInv, Broadcast!Next
  <2>2. ASSUME NEW t \in Threads, NEW u \in SubIds, OfferVisit(t, u), Delivers(u, cur[t])
        PROVE  Broadcast!Next
    BY <2>2, DeliveryHands DEF IInv, Broadcast!Next
  <2>3. CASE /\ ~\E t \in Threads : OfferLock(t)
             /\ Quiet \/ \E u \in SubIds, t \in Threads : Loses(u, cur[t])
    <3>1. \A s \in SubIds : Stream(s)' = Stream(s)
      BY <2>3 DEF Quiet, Loses
    <3> QED
      BY <2>3, <3>1, OtherStepsStutter
  <2> QED
    BY <2>1, <2>2, <2>3, StepEffect DEF IInv
<1> QED
  BY <1>1, <1>2, Invariance, PTL DEF Spec, OneCommonOrder, Broadcast!Spec

-----------------------------------------------------------------------------
(***************************************************************************)
(* Trials                                                                  *)
(*                                                                         *)
(* A trial is a use of the bus by one publisher and one subscriber, so all *)
(* that is proved of the bus holds in it.  Its offers do not overlap,      *)
(* which makes the order of their fan-outs the order of their numbers.     *)
(***************************************************************************)

(* What the subscriber is doing tells what main has done, and the flag     *)
(* goes up after the last offer.                                           *)
StageInv ==
  /\ subpc \in {"unborn", "poll", "empty", "exited"}
  /\ subpc = "unborn" => next_id = 0 /\ Len(topic) = 0
  /\ subpc # "unborn" => /\ Bench \in SubIds /\ next_id = 1 /\ subs = {Bench}
                         /\ filter[1] = Parse(BenchTopic)
  /\ subpc \in {"poll", "empty"} => Bench \in rx
  /\ subpc = "exited" => done /\ chan[Bench] = <<>>
  /\ done => Returned = Messages
  /\ reported # None => subpc = "exited" /\ reported = drop_count

(* Only the publisher offers, one message after the other.                 *)
SoloInv ==
  /\ \A t \in Threads : pc[t] # "gone" /\ (t # Publisher => pc[t] = "idle")
  /\ \A m \in 1 .. Len(topic) : topic[m] = BenchTopic /\ before[m] = 1 .. m - 1
  /\ pc[Publisher] = "idle" => Returned = 1 .. Len(topic)
  /\ InCall(Publisher) => cur[Publisher] = Len(topic) /\ Returned = 1 .. Len(topic) - 1

(* Every offer that has returned was either delivered or lost.             *)
ServedInv ==
  /\ \A m \in Returned : /\ Got(Bench, m) \/ m \in missed[Bench]
                         /\ ~(Got(Bench, m) /\ m \in missed[Bench])
  /\ \A s \in SubIds : s # Bench => missed[s] = {}

(* The subscriber has taken all that left its channel, until it drops the  *)
(* Receiver; its histogram has what came after the warm-up.                *)
RecordInv ==
  Bench \in SubIds =>
    /\ received \in 0 .. Len(taken[Bench])
    /\ subpc # "exited" => received = Len(taken[Bench])
    /\ Len(taken[Bench]) <= received + Cap
    /\ hist \in Seq(Messages)
    /\ Len(hist) = IF received <= Warmup THEN 0 ELSE received - Warmup
    /\ \A i \in 1 .. Len(hist) : hist[i] = taken[Bench][Warmup + i]

DriverInv == StageInv /\ SoloInv /\ ServedInv /\ RecordInv

TrialInv == IInv /\ DriverInv

(* The subscription is among the ids when its channel or its map entry is  *)
(* used.                                                                   *)
LEMMA BenchIsId ==
  ASSUME CoreInv
  PROVE  /\ \A s \in subs : s \in SubIds
         /\ \A s \in rx : s \in SubIds
         /\ \A t \in Threads : \A s \in todo[t] : s \in SubIds
<1>1. next_id \in 0 .. MaxSubs /\ subs \subseteq 0 .. next_id - 1 /\ rx \subseteq 0 .. next_id - 1
  BY DEF CoreInv, TypeOK, RegistryOK, ChannelsOK
<1>2. \A s \in 0 .. next_id - 1 : s \in SubIds
  BY <1>1, BoundAssumption DEF SubIds
<1>3. \A t \in Threads : todo[t] \subseteq subs
  BY DEF CoreInv, TypeOK, LocalsOK
<1> QED
  BY <1>1, <1>2, <1>3

(* Every step of a trial is a step of the bus, or leaves it alone.         *)
LEMMA TrialStepIsBusStep ==
  ASSUME CoreInv, [TrialNext]_trialVars
  PROVE  [Next]_vars
<1>1. CASE SpawnSubscriber
  BY <1>1, TrialAssumption DEF SpawnSubscriber, Next
<1>2. CASE PublishNext
  BY <1>2, TrialAssumption DEF PublishNext, Next
<1>3. CASE Offering
  <2>1. CASE OfferVisit(Publisher, Bench)
    <3>1. Bench \in SubIds
      BY <2>1, BenchIsId, TrialAssumption DEF OfferVisit
    <3> QED
      BY <2>1, <3>1, TrialAssumption DEF Next
  <2>2. CASE OfferLock(Publisher) \/ OfferReturn(Publisher)
    BY <2>2, TrialAssumption DEF Next
  <2> QED
    BY <1>3, <2>1, <2>2 DEF Offering
<1>4. CASE PollOk
  BY <1>4, BenchIsId DEF PollOk, Recv, Next
<1>5. CASE Break
  BY <1>5, BenchIsId DEF Break, DropReceiver, Next
<1>6. CASE RaiseDone \/ PollErr \/ PollAgain \/ Report \/ UNCHANGED trialVars
  BY <1>6 DEF RaiseDone, PollErr, PollAgain, Report, trialVars
<1> QED
  BY <1>1, <1>2, <1>3, <1>4, <1>5, <1>6 DEF TrialNext

(* A trial begins with the invariant.                                      *)
LEMMA InitTrialInv == TrialInit => TrialInv
<1> SUFFICES ASSUME TrialInit
             PROVE  TrialInv
  OBVIOUS
<1>1. IInv
  BY InitIInv DEF TrialInit
<1>2. StageInv
  BY DEF TrialInit, Init, StageInv
<1>3. SoloInv
  BY TrialAssumption DEF TrialInit, Init, SoloInv, InCall, Returned
<1>4. ServedInv
  BY DEF TrialInit, Init, ServedInv, Returned
<1>5. RecordInv
  <2> SUFFICES ASSUME Bench \in SubIds
               PROVE  RecordInv
    BY DEF RecordInv
  <2>1. taken[Bench] = <<>> /\ hist = <<>> /\ received = 0 /\ Warmup \in Nat
    BY TrialAssumption, BoundAssumption DEF TrialInit, Init
  <2> QED
    BY <2>1, CapAssumption DEF RecordInv
<1> QED
  BY <1>1, <1>2, <1>3, <1>4, <1>5 DEF TrialInv, DriverInv

-----------------------------------------------------------------------------
(***************************************************************************)
(* The steps of a trial                                                    *)
(***************************************************************************)

(* A call of offer in progress has a message, so there is a subscription,  *)
(* its Receiver is alive and the flag is down.                             *)
LEMMA WhileOffering ==
  ASSUME TrialInv, InCall(Publisher)
  PROVE  /\ subpc \in {"poll", "empty"} /\ ~done /\ reported = None
         /\ Len(topic) \in Messages /\ Len(topic) \in Nat /\ Bench \in SubIds /\ Bench \in rx
         /\ Len(topic) \notin Returned
<1>1. Publisher \in Threads /\ Len(topic) \in Nat /\ Len(topic) <= MaxOffers
  BY TrialAssumption, LenProperties DEF TrialInv, IInv, CoreInv, TypeOK, CallsOK
<1>2. cur[Publisher] = Len(topic) /\ Returned = 1 .. Len(topic) - 1
      /\ Len(topic) \in 1 .. Len(topic)
  BY <1>1 DEF TrialInv, IInv, CoreInv, CallInv, DriverInv, SoloInv
<1>3. Len(topic) \in Messages /\ Len(topic) \notin Returned
  BY <1>1, <1>2, BoundAssumption DEF Messages
<1>4. ~done
  BY <1>3 DEF TrialInv, DriverInv, StageInv
<1>5. subpc \in {"poll", "empty"} /\ reported = None /\ Bench \in SubIds /\ Bench \in rx
  BY <1>1, <1>2, <1>4 DEF TrialInv, DriverInv, StageInv
<1> QED
  BY <1>1, <1>3, <1>4, <1>5

(* The subscription matches every message of the trial: it is made for the *)
(* topic they carry.                                                       *)
LEMMA TopicMatchesItself ==
  ASSUME NEW p \in Seq(Nat)
  PROVE  Matches(Parse(p), p)
<1>1. CASE p # <<>> /\ p[Len(p)] = Star
  <2> DEFINE q == SubSeq(p, 1, Len(p) - 1)
  <2>1. Len(p) \in Nat /\ Len(p) # 0
    BY <1>1, LenProperties, EmptySeq
  <2>2. Len(q) = Len(p) - 1
    <3> DEFINE n == Len(p) - 1
    <3>1. 1 \in Int /\ n \in Nat /\ n - 1 + 1 = n
      BY <2>1
    <3>2. \A i \in 1 .. n : p[i] \in Nat
      BY <2>1, ElementOfSeq
    <3> HIDE DEF n
    <3>3. Len(SubSeq(p, 1, n)) = IF 1 <= n THEN n - 1 + 1 ELSE 0
      BY <3>1, <3>2, SubSeqProperties
    <3>4. Len(SubSeq(p, 1, n)) = n
      BY <3>1, <3>3
    <3> QED
      BY <3>4 DEF n
  <2>4. Parse(p) = [kind |-> "Prefix", text |-> q]
    BY <1>1 DEF Parse
  <2> HIDE DEF q
  <2>5. StartsWith(p, q)
    BY <2>1, <2>2 DEF StartsWith, q
  <2> QED
    BY <2>4, <2>5 DEF Matches
<1>2. CASE ~(p # <<>> /\ p[Len(p)] = Star)
  BY <1>2 DEF Matches, Parse
<1> QED
  BY <1>1, <1>2

(* What the steps leave alone.                                             *)
LEMMA ServedQuiet ==
  ASSUME ServedInv, Quiet, Bench \in SubIds, UNCHANGED result
  PROVE  ServedInv'
<1>1. \A m : Got(Bench, m)' <=> Got(Bench, m)
  BY GotQuiet
<1>2. missed'[Bench] = missed[Bench] /\ \A s \in SubIds : missed'[s] = missed[s]
  BY DEF Quiet
<1> QED
  BY <1>1, <1>2 DEF ServedInv, Returned

(* main subscribes.                                                        *)
LEMMA SpawnDriver ==
  ASSUME TrialInv, SpawnSubscriber
  PROVE  DriverInv'
<1>1. /\ subpc = "unborn" /\ subpc' = "poll" /\ next_id = 0 /\ Len(topic) = 0
      /\ UNCHANGED <<received, hist, done, reported>>
      /\ Subscribe(BenchTopic)
  BY DEF SpawnSubscriber, TrialInv, DriverInv, StageInv
<1>2. /\ next_id < MaxSubs /\ next_id' = next_id + 1 /\ subs' = subs \cup {next_id}
      /\ filter' = Append(filter, Parse(BenchTopic)) /\ rx' = rx \cup {next_id}
      /\ UNCHANGED <<lock, drop_count, chan, taken, locals, calls, order, missed, result>>
  BY <1>1 DEF Subscribe
<1>3. Bench \in SubIds /\ Bench = next_id
  BY <1>1, <1>2, BoundAssumption DEF Bench, SubIds
<1>4. subs = {}
  <2>1. subs \subseteq 0 .. 0 - 1
    BY <1>1 DEF TrialInv, IInv, CoreInv, TypeOK, RegistryOK
  <2> QED
    BY <2>1
<1>5. filter'[1] = Parse(BenchTopic)
  <2>1. filter \in Seq([kind : {"Exact", "Prefix"}, text : Seq(Nat)]) /\ Len(filter) = 0
    BY <1>1 DEF TrialInv, IInv, CoreInv, TypeOK, RegistryOK
  <2>2. Parse(BenchTopic) \in [kind : {"Exact", "Prefix"}, text : Seq(Nat)]
    BY TrialAssumption, ParseType
  <2> QED
    BY <1>2, <2>1, <2>2, AppendProperties
<1>6. StageInv'
  BY <1>1, <1>2, <1>3, <1>4, <1>5 DEF TrialInv, DriverInv, StageInv, Returned
<1>7. SoloInv'
  BY <1>2 DEF TrialInv, DriverInv, SoloInv, InCall, Returned
<1>8. ServedInv'
  BY <1>2 DEF TrialInv, DriverInv, ServedInv, Got, Stream, Returned
<1>9. RecordInv'
  BY <1>1, <1>2 DEF TrialInv, DriverInv, RecordInv
<1> QED
  BY <1>6, <1>7, <1>8, <1>9 DEF DriverInv

(* A call of offer sees that all earlier ones have returned.               *)
LEMMA PublishNextDriver ==
  ASSUME TrialInv, PublishNext
  PROVE  DriverInv'
<1>1. /\ subpc # "unborn" /\ OfferStamp(Publisher, BenchTopic)
      /\ UNCHANGED <<subpc, received, hist, done, reported>>
  BY DEF PublishNext, driver
<1>2. /\ pc[Publisher] = "idle" /\ Len(topic) < MaxOffers
      /\ pc' = [pc EXCEPT ![Publisher] = "stamped"]
      /\ cur' = [cur EXCEPT ![Publisher] = Len(topic) + 1]
      /\ topic' = Append(topic, BenchTopic) /\ before' = Append(before, Returned)
      /\ UNCHANGED <<registry, drop_count, channels, todo, sent, dropped, order, missed, result>>
  BY <1>1 DEF OfferStamp
<1>3. /\ topic \in Seq(Topics) /\ before \in Seq(SUBSET Messages) /\ Len(before) = Len(topic)
      /\ Returned \in SUBSET Messages /\ Len(topic) \in Nat
      /\ pc \in [Threads -> {"idle", "stamped", "fanout", "gone"}] /\ cur \in [Threads -> 0 .. Len(topic)]
  <2>1. TypeOK
    BY DEF TrialInv, IInv, CoreInv
  <2>2. Returned \subseteq 1 .. Len(topic) /\ Len(topic) <= MaxOffers /\ Len(topic) \in Nat
    BY <2>1, LenProperties DEF TypeOK, CallsOK
  <2>3. Returned \in SUBSET Messages
    BY <2>2, BoundAssumption DEF Messages
  <2> QED
    BY <2>1, <2>2, <2>3 DEF TypeOK, CallsOK, LocalsOK
<1>4. BenchTopic \in Topics /\ Publisher \in Threads
  BY TrialAssumption
<1>5. /\ Len(topic') = Len(topic) + 1 /\ topic'[Len(topic) + 1] = BenchTopic
      /\ \A m \in 1 .. Len(topic) : topic'[m] = topic[m]
  BY <1>2, <1>3, <1>4, AppendProperties
<1>6. /\ before'[Len(topic) + 1] = Returned
      /\ \A m \in 1 .. Len(topic) : before'[m] = before[m]
  BY <1>2, <1>3, AppendProperties
<1>7. Returned = 1 .. Len(topic) /\ Returned' = Returned
  BY <1>2 DEF TrialInv, DriverInv, SoloInv, Returned
<1>8. StageInv'
  BY <1>1, <1>2, <1>7 DEF TrialInv, DriverInv, StageInv
<1>9. SoloInv'
  <2>1. \A m \in 1 .. Len(topic) + 1 : m \in 1 .. Len(topic) \/ m = Len(topic) + 1
    BY <1>3
  <2>2. (Len(topic) + 1) - 1 = Len(topic)
    BY <1>3
  <2>3. \A m \in 1 .. Len(topic') : topic'[m] = BenchTopic /\ before'[m] = 1 .. m - 1
    BY <1>5, <1>6, <1>7, <2>1, <2>2 DEF TrialInv, DriverInv, SoloInv
  <2>4. \A t \in Threads : pc'[t] # "gone" /\ (t # Publisher => pc'[t] = "idle")
    BY <1>2, <1>3 DEF TrialInv, DriverInv, SoloInv
  <2>5. pc'[Publisher] = "stamped" /\ cur'[Publisher] = Len(topic')
    BY <1>2, <1>3, <1>4, <1>5
  <2>6. Returned' = 1 .. Len(topic') - 1
    BY <1>5, <1>7, <2>2
  <2> QED
    BY <2>3, <2>4, <2>5, <2>6 DEF SoloInv
<1>10. ServedInv'
  BY <1>2 DEF TrialInv, DriverInv, ServedInv, Got, Stream, Returned
<1>11. RecordInv'
  BY <1>1, <1>2 DEF TrialInv, DriverInv, RecordInv
<1> QED
  BY <1>8, <1>9, <1>10, <1>11 DEF DriverInv

(* Inside offer only the loop touches the channel.                         *)
LEMMA OfferingDriver ==
  ASSUME TrialInv, Offering
  PROVE  DriverInv'
<1>0. Publisher \in Threads /\ UNCHANGED <<subpc, received, hist, done, reported>>
  BY TrialAssumption DEF Offering, driver
<1>i. InCall(Publisher)
  BY DEF Offering, OfferLock, OfferVisit, OfferReturn, InCall
<1>w. /\ subpc \in {"poll", "empty"} /\ ~done /\ reported = None
      /\ Len(topic) \in Messages /\ Len(topic) \in Nat /\ Bench \in SubIds /\ Bench \in rx
      /\ Len(topic) \notin Returned
  BY <1>i, WhileOffering
<1>c. cur[Publisher] = Len(topic) /\ Returned = 1 .. Len(topic) - 1
  BY <1>i DEF TrialInv, DriverInv, SoloInv
<1>t. pc \in [Threads -> {"idle", "stamped", "fanout", "gone"}] /\ CoreInv
  BY DEF TrialInv, IInv, CoreInv, TypeOK, LocalsOK
<1>1. CASE OfferLock(Publisher)
  <2>1. /\ pc' = [pc EXCEPT ![Publisher] = "fanout"]
        /\ UNCHANGED <<next_id, subs, filter, drop_count, channels, cur, calls, missed, result>>
    BY <1>1 DEF OfferLock
  <2>2. StageInv'
    BY <1>0, <2>1 DEF TrialInv, DriverInv, StageInv, Returned
  <2>3. SoloInv'
    BY <1>0, <1>i, <1>t, <2>1 DEF TrialInv, DriverInv, SoloInv, InCall, Returned
  <2>4. ServedInv'
    BY <2>1 DEF TrialInv, DriverInv, ServedInv, Got, Stream, Returned
  <2>5. RecordInv'
    BY <1>0, <2>1 DEF TrialInv, DriverInv, RecordInv
  <2> QED
    BY <2>2, <2>3, <2>4, <2>5 DEF DriverInv
<1>2. CASE OfferVisit(Publisher, Bench)
  <2>1. UNCHANGED <<registry, rx, taken, pc, cur, calls, order, result>>
    BY <1>2 DEF OfferVisit
  <2>2. StageInv'
    BY <1>0, <1>w, <2>1 DEF TrialInv, DriverInv, StageInv, Returned
  <2>3. SoloInv'
    BY <2>1 DEF TrialInv, DriverInv, SoloInv, InCall, Returned
  <2>4. ServedInv'
    <3> DEFINE c == cur[Publisher]
    <3>0. c \notin Returned /\ Returned' = Returned
      BY <1>c, <1>w, <2>1 DEF Returned
    <3>1. CASE SendOk(Publisher, Bench)
      <4>1. Delivers(Bench, c)
        BY <1>0, <1>2, <1>t, <1>w, <3>1, SendOkDelivers
      <4>2. \A x : Got(Bench, x)' <=> Got(Bench, x) \/ x = c
        BY <1>t, <1>w, <4>1, GotDelivers
      <4>3. missed' = missed
        BY <3>1 DEF SendOk
      <4> QED
        BY <3>0, <4>2, <4>3 DEF TrialInv, DriverInv, ServedInv
    <3>2. CASE SendFull(Publisher, Bench)
      <4>1. Loses(Bench, c)
        BY <1>0, <1>2, <1>t, <1>w, <3>2, SendFullLoses
      <4>2. \A x : Got(Bench, x)' <=> Got(Bench, x)
        BY <1>w, <4>1, GotLoses
      <4>3. missed' = [missed EXCEPT ![Bench] = @ \cup {c}] /\ missed \in [SubIds -> SUBSET Messages]
        BY <1>t, <3>2 DEF SendFull, CoreInv, TypeOK, ChannelsOK
      <4>4. missed'[Bench] = missed[Bench] \cup {c} /\ \A s \in SubIds : s # Bench => missed'[s] = missed[s]
        BY <1>w, <4>3
      <4> QED
        BY <3>0, <4>2, <4>4 DEF TrialInv, DriverInv, ServedInv
    <3>3. CASE SendDisconnected(Publisher, Bench)
      <4>1. Quiet
        BY <1>0, <1>2, <1>t, <1>w, <3>3, SendDisconnectedQuiet
      <4> QED
        BY <1>w, <2>1, <4>1, ServedQuiet DEF TrialInv, DriverInv
    <3> QED
      BY <1>2, <3>1, <3>2, <3>3 DEF OfferVisit
  <2>5. RecordInv'
    BY <1>0, <2>1 DEF TrialInv, DriverInv, RecordInv
  <2> QED
    BY <2>2, <2>3, <2>4, <2>5 DEF DriverInv
<1>3. CASE OfferReturn(Publisher)
  <2> DEFINE c == cur[Publisher]
  <2>1. /\ pc[Publisher] = "fanout" /\ todo[Publisher] = {} /\ pc' = [pc EXCEPT ![Publisher] = "idle"]
        /\ DOMAIN result' = Returned \cup {c}
        /\ UNCHANGED <<next_id, subs, filter, drop_count, channels, todo, calls, order, missed>>
    BY <1>3 DEF OfferReturn, LoopOver
  <2>2. Returned' = 1 .. Len(topic)
    <3>1. Len(topic) \in Nat /\ Len(topic) >= 1
      BY <1>w, BoundAssumption DEF Messages
    <3>2. (1 .. Len(topic) - 1) \cup {Len(topic)} = 1 .. Len(topic)
      BY <3>1
    <3> QED
      BY <1>c, <2>1, <3>2 DEF Returned
  <2>3. StageInv'
    BY <1>0, <1>w, <2>1 DEF TrialInv, DriverInv, StageInv
  <2>4. SoloInv'
    <3>1. pc'[Publisher] = "idle" /\ \A t \in Threads : t # Publisher => pc'[t] = pc[t]
      BY <1>0, <1>t, <2>1
    <3> QED
      BY <1>0, <2>1, <2>2, <3>1 DEF TrialInv, DriverInv, SoloInv, InCall
  <2>5. ServedInv'
    <3>1. c \in Messages /\ ServedSoFar(Bench, c, {})
      BY <1>0, <1>c, <1>w, <2>1 DEF TrialInv, IInv, ServeInv
    <3>2. Matches(filter[Bench + 1], topic[c])
      <4>1. Bench + 1 = 1 /\ c \in 1 .. Len(topic)
        BY <1>c, <1>w DEF Bench, Messages
      <4>2. filter[1] = Parse(BenchTopic) /\ topic[c] = BenchTopic
        BY <1>w, <4>1 DEF TrialInv, DriverInv, StageInv, SoloInv
      <4>3. BenchTopic \in Seq(Nat)
        BY TrialAssumption, TextAssumption
      <4> QED
        BY <4>1, <4>2, <4>3, TopicMatchesItself
    <3>3. Bench \in (subs \cap rx) \ {}
      BY <1>w DEF TrialInv, DriverInv, StageInv
    <3>4. (Got(Bench, c) \/ c \in missed[Bench]) /\ ~(Got(Bench, c) /\ c \in missed[Bench])
      BY <3>1, <3>2, <3>3 DEF ServedSoFar
    <3>5. \A m \in Returned' : m \in Returned \/ m = c
      BY <2>1 DEF Returned
    <3>6. \A m : Got(Bench, m)' <=> Got(Bench, m)
      BY <2>1 DEF Got, Stream
    <3> QED
      BY <2>1, <3>4, <3>5, <3>6 DEF TrialInv, DriverInv, ServedInv
  <2>6. RecordInv'
    BY <1>0, <2>1 DEF TrialInv, DriverInv, RecordInv
  <2> QED
    BY <2>3, <2>4, <2>5, <2>6 DEF DriverInv
<1> QED
  BY <1>1, <1>2, <1>3 DEF Offering

(* The flag, the empty polls and the report touch nothing of the bus.      *)
LEMMA AloneDriver ==
  ASSUME TrialInv, RaiseDone \/ PollErr \/ PollAgain \/ Report \/ UNCHANGED trialVars
  PROVE  DriverInv'
<1>1. UNCHANGED <<vars, received, hist>>
  BY DEF RaiseDone, PollErr, PollAgain, Report, trialVars, driver
<1>2. StageInv'
  <2>1. CASE RaiseDone
    BY <1>1, <2>1 DEF TrialInv, DriverInv, StageInv, RaiseDone, Published, vars, Returned
  <2>2. CASE PollErr \/ PollAgain
    BY <1>1, <2>2 DEF TrialInv, DriverInv, StageInv, PollErr, PollAgain, vars, Returned
  <2>3. CASE Report \/ UNCHANGED trialVars
    BY <1>1, <2>3 DEF TrialInv, DriverInv, StageInv, Report, trialVars, driver, vars, Returned
  <2> QED
    BY <2>1, <2>2, <2>3
<1>3. SoloInv' /\ ServedInv'
  BY <1>1 DEF TrialInv, DriverInv, SoloInv, ServedInv, InCall, Got, Stream, vars, Returned
<1>4. RecordInv'
  BY <1>1 DEF TrialInv, DriverInv, RecordInv, RaiseDone, PollErr, PollAgain, Report, trialVars, driver,
              vars
<1> QED
  BY <1>2, <1>3, <1>4 DEF DriverInv

(* A receive takes the oldest message, and records it after the warm-up.   *)
LEMMA PollOkDriver ==
  ASSUME TrialInv, PollOk
  PROVE  DriverInv'
<1>1. /\ subpc = "poll" /\ Recv(Bench) /\ received' = received + 1 /\ UNCHANGED <<subpc, done, reported>>
      /\ hist' = IF received >= Warmup THEN Append(hist, Head(chan[Bench])) ELSE hist
  BY DEF PollOk
<1>2. /\ chan[Bench] # <<>> /\ taken' = [taken EXCEPT ![Bench] = Append(@, Head(chan[Bench]))]
      /\ UNCHANGED <<registry, drop_count, rx, locals, calls, order, missed, result>>
  BY <1>1 DEF Recv
<1>3. Bench \in SubIds /\ CoreInv
  BY <1>1, BenchIsId DEF Recv, TrialInv, IInv
<1>4. taken \in [SubIds -> Seq(Messages)] /\ chan \in [SubIds -> Seq(Messages)]
  BY <1>3 DEF CoreInv, TypeOK, ChannelsOK
<1>5. Head(chan[Bench]) \in Messages
  BY <1>2, <1>3, <1>4, HeadTailProperties
<1>6. StageInv'
  BY <1>1, <1>2 DEF TrialInv, DriverInv, StageInv, Returned
<1>7. SoloInv'
  BY <1>2 DEF TrialInv, DriverInv, SoloInv, InCall, Returned
<1>8. ServedInv'
  BY <1>1, <1>2, <1>3, RecvQuiet, ServedQuiet DEF TrialInv, DriverInv
<1>9. RecordInv'
  <2> DEFINE x == Head(chan[Bench])
             n == Len(taken[Bench])
  <2>1. /\ taken'[Bench] = Append(taken[Bench], x) /\ taken[Bench] \in Seq(Messages) /\ n \in Nat
    BY <1>2, <1>3, <1>4, LenProperties
  <2>2. /\ Len(taken'[Bench]) = n + 1 /\ taken'[Bench][n + 1] = x
        /\ \A i \in 1 .. n : taken'[Bench][i] = taken[Bench][i]
    BY <1>5, <2>1, AppendProperties
  <2>3. /\ received = n /\ hist \in Seq(Messages) /\ Len(hist) \in Nat
        /\ Len(hist) = (IF n <= Warmup THEN 0 ELSE n - Warmup)
        /\ \A i \in 1 .. Len(hist) : hist[i] = taken[Bench][Warmup + i]
    BY <1>1, <1>3, LenProperties DEF TrialInv, DriverInv, RecordInv
  <2>4. Warmup \in Nat /\ Cap \in Nat
    BY TrialAssumption, BoundAssumption, CapAssumption
  <2> HIDE DEF x, n
  <2>5. /\ received' \in 0 .. Len(taken'[Bench]) /\ received' = Len(taken'[Bench])
        /\ Len(taken'[Bench]) <= received' + Cap
    BY <1>1, <2>1, <2>2, <2>3, <2>4
  <2>6. /\ hist' \in Seq(Messages)
        /\ Len(hist') = (IF received' <= Warmup THEN 0 ELSE received' - Warmup)
        /\ \A i \in 1 .. Len(hist') : hist'[i] = taken'[Bench][Warmup + i]
    <3>1. CASE n >= Warmup
      <4>1. hist' = Append(hist, x) /\ Len(hist) = n - Warmup
        BY <1>1, <2>1, <2>3, <2>4, <3>1 DEF x
      <4>2. /\ hist' \in Seq(Messages) /\ Len(hist') = Len(hist) + 1 /\ hist'[Len(hist) + 1] = x
            /\ \A i \in 1 .. Len(hist) : hist'[i] = hist[i]
        BY <1>5, <2>3, <4>1, AppendProperties DEF x
      <4>3. Len(hist') = (IF received' <= Warmup THEN 0 ELSE received' - Warmup)
        <5>1. received' = n + 1 /\ Len(hist') = n - Warmup + 1
          BY <1>1, <2>3, <4>1, <4>2
        <5> QED
          BY <2>1, <2>4, <3>1, <5>1
      <4>4. ASSUME NEW i \in 1 .. Len(hist')
            PROVE  hist'[i] = taken'[Bench][Warmup + i]
        <5>1. CASE i = Len(hist) + 1
          <6>1. Warmup + i = n + 1
            BY <2>1, <2>3, <2>4, <4>1, <5>1
          <6> QED
            BY <2>2, <4>2, <5>1, <6>1
        <5>2. CASE i # Len(hist) + 1
          <6>1. i \in 1 .. Len(hist) /\ Warmup + i \in 1 .. n
            BY <2>1, <2>3, <2>4, <4>1, <4>2, <5>2
          <6> QED
            BY <2>2, <2>3, <4>2, <6>1
        <5> QED
          BY <5>1, <5>2
      <4> QED
        BY <4>2, <4>3, <4>4
    <3>2. CASE ~(n >= Warmup)
      <4>1. hist' = hist /\ Len(hist) = 0 /\ received' <= Warmup
        BY <1>1, <2>1, <2>3, <2>4, <3>2
      <4> QED
        BY <2>3, <4>1
    <3> QED
      BY <3>1, <3>2
  <2> QED
    BY <2>5, <2>6 DEF RecordInv
<1> QED
  BY <1>6, <1>7, <1>8, <1>9 DEF DriverInv

(* The subscriber leaves at most a full channel behind.                    *)
LEMMA BreakDriver ==
  ASSUME TrialInv, Break
  PROVE  DriverInv'
<1>1. /\ subpc = "empty" /\ done /\ DropReceiver(Bench) /\ subpc' = "exited"
      /\ UNCHANGED <<received, hist, done, reported>>
  BY DEF Break
<1>2. /\ rx' = rx \ {Bench} /\ taken' = [taken EXCEPT ![Bench] = @ \o chan[Bench]]
      /\ chan' = [chan EXCEPT ![Bench] = <<>>]
      /\ UNCHANGED <<registry, drop_count, locals, calls, order, missed, result>>
  BY <1>1 DEF DropReceiver
<1>3. Bench \in SubIds /\ CoreInv
  BY <1>1, BenchIsId DEF DropReceiver, TrialInv, IInv
<1>4. /\ taken \in [SubIds -> Seq(Messages)] /\ chan \in [SubIds -> Seq(Messages)]
      /\ Len(chan[Bench]) <= Cap
  BY <1>3 DEF CoreInv, TypeOK, ChannelsOK
<1>5. StageInv'
  <2>1. chan'[Bench] = <<>>
    BY <1>2, <1>3, <1>4
  <2> QED
    BY <1>1, <1>2, <2>1 DEF TrialInv, DriverInv, StageInv, Returned
<1>6. SoloInv'
  BY <1>2 DEF TrialInv, DriverInv, SoloInv, InCall, Returned
<1>7. ServedInv'
  BY <1>1, <1>2, <1>3, DropReceiverQuiet, ServedQuiet DEF TrialInv, DriverInv
<1>8. RecordInv'
  <2> DEFINE n == Len(taken[Bench])
             k == Len(chan[Bench])
             u == taken[Bench] \o chan[Bench]
  <2>1. /\ taken'[Bench] = u /\ taken[Bench] \in Seq(Messages) /\ chan[Bench] \in Seq(Messages)
        /\ n \in Nat /\ k \in Nat /\ k <= Cap
    BY <1>2, <1>3, <1>4, LenProperties
  <2>2. Len(u) = n + k /\ \A i \in 1 .. n : u[i] = taken[Bench][i]
    <3> DEFINE a == taken[Bench]
               b == chan[Bench]
    <3>1. \A i \in 1 .. n : i \in 1 .. n + k /\ i <= n
      <4>1. n \in Nat /\ k \in Nat
        BY <2>1
      <4> HIDE DEF n, k
      <4> QED
        BY <4>1
    <3> HIDE DEF a, b
    <3>2. a \in Seq(Messages) /\ b \in Seq(Messages) /\ n = Len(a) /\ k = Len(b) /\ u = a \o b
      BY <2>1 DEF a, b
    <3>3. /\ Len(a \o b) = Len(a) + Len(b)
          /\ \A i \in 1 .. Len(a) + Len(b) : (a \o b)[i] = IF i <= Len(a) THEN a[i] ELSE b[i - Len(a)]
      BY <3>2, ConcatProperties
    <3> HIDE DEF u, n, k
    <3>4. \A i \in 1 .. n : u[i] = a[i]
      BY <3>1, <3>2, <3>3
    <3> QED
      BY <3>2, <3>3, <3>4 DEF a
  <2>3. /\ received = n /\ hist \in Seq(Messages) /\ Len(hist) \in Nat
        /\ Len(hist) = (IF received <= Warmup THEN 0 ELSE received - Warmup)
        /\ \A i \in 1 .. Len(hist) : hist[i] = taken[Bench][Warmup + i]
    BY <1>1, <1>3, LenProperties DEF TrialInv, DriverInv, RecordInv
  <2>4. Warmup \in Nat /\ Cap \in Nat
    BY TrialAssumption, BoundAssumption, CapAssumption
  <2> HIDE DEF u, n, k
  <2>5. /\ received \in 0 .. Len(u) /\ Len(u) <= received + Cap
    BY <2>1, <2>2, <2>3, <2>4
  <2>6. \A i \in 1 .. Len(hist) : Warmup + i \in 1 .. n
    BY <2>1, <2>3, <2>4
  <2>7. \A i \in 1 .. Len(hist) : hist[i] = u[Warmup + i]
    BY <2>2, <2>3, <2>6
  <2> QED
    BY <1>1, <2>1, <2>3, <2>5, <2>7 DEF RecordInv
<1> QED
  BY <1>5, <1>6, <1>7, <1>8 DEF DriverInv

(* The invariant of the trial is inductive.                                *)
LEMMA NextTrialInv == TrialInv /\ [TrialNext]_trialVars => TrialInv'
<1> SUFFICES ASSUME TrialInv, [TrialNext]_trialVars
             PROVE  TrialInv'
  OBVIOUS
<1>1. IInv'
  BY TrialStepIsBusStep, NextIInv DEF TrialInv, IInv
<1>2. DriverInv'
  BY SpawnDriver, PublishNextDriver, OfferingDriver, AloneDriver, PollOkDriver, BreakDriver DEF TrialNext
<1> QED
  BY <1>1, <1>2 DEF TrialInv

-----------------------------------------------------------------------------
(***************************************************************************)
(* Theorems about trials                                                   *)
(***************************************************************************)

(* Bus, driver and histogram of a trial always agree.                      *)
THEOREM TrialInvariance == TrialSpec => []TrialInv
BY InitTrialInv, NextTrialInv, PTL DEF TrialSpec

(* A trial is a use of the bus: whatever is proved of Bus holds in the     *)
(* measurements of the benchmarks.                                         *)
THEOREM TrialUsesBus == TrialSpec => Spec
<1>1. TrialInit => Init
  BY DEF TrialInit
<1>2. TrialInv /\ [TrialNext]_trialVars => [Next]_vars
  BY TrialStepIsBusStep DEF TrialInv, IInv
<1> QED
  BY <1>1, <1>2, TrialInvariance, PTL DEF TrialSpec, Spec

(* Elements of a sequence without repetition are as many as their places.  *)
LEMMA DistinctCount ==
  ASSUME NEW q, NEW a \in Nat, NEW b \in Nat, a <= b, NEW S,
         \A x : x \in S <=> \E i \in a + 1 .. b : q[i] = x,
         \A i, j \in a + 1 .. b : q[i] = q[j] => i = j
  PROVE  IsFiniteSet(S) /\ Cardinality(S) = b - a
<1> DEFINE f == [i \in a + 1 .. b |-> q[i]]
<1>1. IsFiniteSet(a + 1 .. b) /\ Cardinality(a + 1 .. b) = b - a
  <2>1. a + 1 \in Int /\ b \in Int /\ b - (a + 1) + 1 = b - a
    OBVIOUS
  <2>2. IsFiniteSet(a + 1 .. b) /\ Cardinality(a + 1 .. b) = IF a + 1 > b THEN 0 ELSE b - (a + 1) + 1
    BY <2>1, FS_Interval
  <2> QED
    BY <2>1, <2>2
<1>2. f \in Bijection(a + 1 .. b, S)
  <2>1. f \in [a + 1 .. b -> S] /\ \A i, j \in a + 1 .. b : f[i] = f[j] => i = j
    OBVIOUS
  <2>2. \A s \in S : \E i \in a + 1 .. b : f[i] = s
    OBVIOUS
  <2> HIDE DEF f
  <2> QED
    BY <2>1, <2>2 DEF Bijection, Injection, Surjection, IsInjective
<1> HIDE DEF f
<1>3. IsFiniteSet(S) /\ Cardinality(S) = Cardinality(a + 1 .. b)
  BY <1>1, <1>2, FS_Bijection DEF ExistsBijection
<1> QED
  BY <1>1, <1>3

(* The losses of a trial are the messages its only subscription missed.    *)
LEMMA LossesOfTrial ==
  ASSUME TrialInv, Bench \in SubIds
  PROVE  IsFiniteSet(missed[Bench]) /\ drop_count = Cardinality(missed[Bench])
<1> DEFINE L == missed[Bench]
           f == [m \in L |-> <<Bench, m>>]
<1>1. L \in SUBSET Messages /\ drop_count = Cardinality(Losses)
  BY DEF TrialInv, IInv, CoreInv, TypeOK, ChannelsOK, CountInv
<1>2. IsFiniteSet(Messages)
  BY BoundAssumption, FS_Interval DEF Messages
<1>3. IsFiniteSet(L)
  BY <1>1, <1>2, FS_Subset
<1>4. \A w \in SubIds \X Messages : w \in Losses <=> w[1] = Bench /\ w[2] \in L
  BY DEF Losses, TrialInv, DriverInv, ServedInv
<1>5. f \in Bijection(L, Losses)
  <2>1. \A m \in L : <<Bench, m>> \in SubIds \X Messages /\ <<Bench, m>> \in Losses
    BY <1>1, <1>4
  <2>2. f \in [L -> Losses] /\ \A m, n \in L : f[m] = f[n] => m = n
    BY <2>1
  <2>3. \A w \in Losses : w[2] \in L /\ f[w[2]] = w
    BY <1>4 DEF Losses
  <2> HIDE DEF f
  <2> QED
    BY <2>2, <2>3 DEF Bijection, Injection, Surjection, IsInjective
<1>6. Cardinality(Losses) = Cardinality(L)
  <2> HIDE DEF f, L
  <2> QED
    BY <1>3, <1>5, FS_Bijection DEF ExistsBijection
<1> QED
  BY <1>1, <1>3, <1>6

(* What the subscription was sent came in the order of the offers: they do *)
(* not overlap.                                                            *)
LEMMA StreamAscends ==
  ASSUME TrialInv, Bench \in SubIds
  PROVE  \A i, j \in 1 .. Len(Stream(Bench)) : i < j => Stream(Bench)[i] < Stream(Bench)[j]
<1> SUFFICES ASSUME NEW i \in 1 .. Len(Stream(Bench)), NEW j \in 1 .. Len(Stream(Bench)), i < j
             PROVE  Stream(Bench)[i] < Stream(Bench)[j]
  OBVIOUS
<1> DEFINE x == Stream(Bench)[i]
           y == Stream(Bench)[j]
<1>1. x \in 1 .. Len(topic) /\ y \in 1 .. Len(topic) /\ Len(topic) \in Nat
  BY StreamElements, LenProperties DEF TrialInv, IInv, CoreInv, TypeOK, CallsOK
<1>2. y \notin before[x]
  BY DEF TrialInv, IInv, RealTimeOrder
<1>3. before[x] = 1 .. x - 1
  BY <1>1 DEF TrialInv, DriverInv, SoloInv
<1>4. x # y
  <2>1. i # j
    OBVIOUS
  <2> QED
    BY <2>1 DEF TrialInv, IInv, StreamInv
<1> HIDE DEF x, y
<1>5. x < y
  BY <1>1, <1>2, <1>3, <1>4
<1> QED
  BY <1>5 DEF x, y

(* crossbeam_latency and crossbeam_throughput: once the subscriber has     *)
(* left, every offer was received, is among the drops the bus has counted  *)
(* (which only crossbeam_latency reports), or is one of the at most Cap    *)
(* last ones that were left in the channel.                                *)
THEOREM EveryOfferAccounted == TrialSpec => []Accounted
<1>1. ASSUME TrialInv
      PROVE  Accounted
  <2> SUFFICES ASSUME reported # None
               PROVE  LET got == SubSeq(taken[Bench], 1, received)
                          left == Messages \ (missed[Bench] \cup {got[i] : i \in 1 .. received})
                      IN  /\ \A i, j \in 1 .. received : i < j => got[i] < got[j]
                          /\ reported = Cardinality(missed[Bench])
                          /\ reported + received + Cardinality(left) = MaxOffers
                          /\ Cardinality(left) <= Cap
                          /\ \A m \in left, i \in 1 .. received : got[i] < m
                          /\ hist = SubSeq(got, Warmup + 1, received)
    BY DEF Accounted
  <2> DEFINE q == taken[Bench]
             n == Len(q)
             k == received
             lost == missed[Bench]
             got == SubSeq(q, 1, k)
             G == {got[i] : i \in 1 .. k}
             left == Messages \ (lost \cup G)
             Q == {q[i] : i \in 1 .. n}
             R == {q[i] : i \in k + 1 .. n}
  <2>1. subpc = "exited" /\ reported = drop_count /\ Bench \in SubIds /\ Returned = Messages
        /\ chan[Bench] = <<>> /\ CoreInv
    BY <1>1 DEF TrialInv, DriverInv, StageInv, IInv
  <2>2. q \in Seq(Messages) /\ n \in Nat /\ lost \in SUBSET Messages
    BY <2>1, LenProperties DEF CoreInv, TypeOK, ChannelsOK
  <2>3. k \in 0 .. n /\ n <= k + Cap /\ hist \in Seq(Messages) /\ Len(hist) \in Nat
        /\ Len(hist) = (IF k <= Warmup THEN 0 ELSE k - Warmup)
        /\ \A i \in 1 .. Len(hist) : hist[i] = q[Warmup + i]
    BY <1>1, <2>1, LenProperties DEF TrialInv, DriverInv, RecordInv
  <2>4. Stream(Bench) = q
    BY <2>1, <2>2, ConcatEmptySeq DEF Stream
  <2>5. \A i, j \in 1 .. n : i < j => q[i] < q[j]
    BY <1>1, <2>1, <2>4, StreamAscends
  <2>6. \A m \in Messages : /\ (\E i \in 1 .. n : q[i] = m) \/ m \in lost
                            /\ ~((\E i \in 1 .. n : q[i] = m) /\ m \in lost)
    BY <1>1, <2>1, <2>4 DEF TrialInv, DriverInv, ServedInv, Got
  <2>7. IsFiniteSet(lost) /\ reported = Cardinality(lost) /\ Cardinality(lost) \in Nat
    BY <1>1, <2>1, LossesOfTrial, FS_CardinalityType
  <2>8. MaxOffers \in Nat /\ Warmup \in Nat /\ Cap \in Nat /\ IsFiniteSet(Messages)
        /\ Cardinality(Messages) = MaxOffers
    <3>1. 1 \in Int /\ MaxOffers \in Int /\ MaxOffers - 1 + 1 = MaxOffers
          /\ (1 > MaxOffers => MaxOffers = 0)
      BY BoundAssumption
    <3>2. IsFiniteSet(1 .. MaxOffers)
          /\ Cardinality(1 .. MaxOffers) = IF 1 > MaxOffers THEN 0 ELSE MaxOffers - 1 + 1
      BY <3>1, FS_Interval
    <3> QED
      BY <3>1, <3>2, BoundAssumption, CapAssumption, TrialAssumption DEF Messages
  <2> HIDE DEF q, n, k, lost
  <2>9. \A i \in 1 .. n : q[i] \in Messages /\ q[i] \in Int
    <3>1. \A i \in 1 .. n : q[i] \in Messages
      BY <2>2, ElementOfSeq DEF n
    <3>2. \A m \in Messages : m \in Int
      BY DEF Messages
    <3> QED
      BY <3>1, <3>2
  <2>10. got \in Seq(Messages) /\ Len(got) = k /\ \A i \in 1 .. k : got[i] = q[i]
    <3>1. 1 \in Int /\ k \in Int /\ k \in Nat /\ k - 1 + 1 = k /\ \A i \in 1 .. k : i \in 1 .. n /\ 1 + i - 1 = i
      BY <2>2, <2>3
    <3>2. \A i \in 1 .. k : q[i] \in Messages
      BY <2>9, <3>1
    <3>3. /\ got \in Seq(Messages) /\ Len(got) = (IF 1 <= k THEN k - 1 + 1 ELSE 0)
          /\ \A i \in 1 .. k - 1 + 1 : got[i] = q[1 + i - 1]
      BY <3>1, <3>2, SubSeqProperties
    <3> HIDE DEF got
    <3> QED
      BY <3>1, <3>3
  <2> HIDE DEF got
  <2>11. \A i, j \in 1 .. n : q[i] = q[j] => i = j
    BY <2>2, <2>5, <2>9
  <2>12. IsFiniteSet(Q) /\ Cardinality(Q) = n
    <3> DEFINE z == 0
    <3>1. z \in Nat /\ n \in Nat /\ z <= n /\ n - z = n /\ z + 1 .. n = 1 .. n
      BY <2>2
    <3>2. \A x : x \in Q <=> \E i \in 1 .. n : q[i] = x
      OBVIOUS
    <3> HIDE DEF Q, z
    <3>3. /\ \A x : x \in Q <=> \E i \in z + 1 .. n : q[i] = x
          /\ \A i, j \in z + 1 .. n : q[i] = q[j] => i = j
      BY <2>11, <3>1, <3>2
    <3>4. z \in Nat /\ n \in Nat /\ z <= n
      BY <3>1
    <3>5. IsFiniteSet(Q) /\ Cardinality(Q) = n - z
      BY <3>3, <3>4, DistinctCount
    <3> QED
      BY <3>1, <3>5
  <2>13. IsFiniteSet(R) /\ Cardinality(R) = n - k
    <3>1. k \in Nat /\ k <= n /\ \A i \in k + 1 .. n : i \in 1 .. n
      BY <2>2, <2>3
    <3>2. \A i, j \in k + 1 .. n : q[i] = q[j] => i = j
      BY <2>11, <3>1
    <3>3. \A x : x \in R <=> \E i \in k + 1 .. n : q[i] = x
      OBVIOUS
    <3> HIDE DEF R
    <3> QED
      BY <2>2, <3>1, <3>2, <3>3, DistinctCount
  <2>14. \A x : x \in Q <=> \E i \in 1 .. n : q[i] = x
    BY <2>2
  <2>15. left = R
    <3>1. ASSUME NEW m \in left
          PROVE  m \in R
      <4>1. PICK i \in 1 .. n : q[i] = m
        BY <2>6
      <4>2. i \notin 1 .. k
        BY <2>10, <4>1
      <4>3. i \in k + 1 .. n
        BY <2>2, <2>3, <4>2
      <4> QED
        BY <4>1, <4>3
    <3>2. ASSUME NEW m \in R
          PROVE  m \in left
      <4>1. PICK i \in k + 1 .. n : q[i] = m
        OBVIOUS
      <4>2. i \in 1 .. n /\ \A j \in 1 .. k : j \in 1 .. n /\ j # i
        BY <2>2, <2>3
      <4>3. m \in Messages /\ m \notin lost
        BY <2>6, <2>9, <4>1, <4>2
      <4>4. \A j \in 1 .. k : got[j] # m
        BY <2>10, <2>11, <4>1, <4>2
      <4> QED
        BY <4>3, <4>4
    <3> HIDE DEF left, R
    <3> QED
      BY <3>1, <3>2
  <2>16. MaxOffers = Cardinality(lost) + n
    <3>1. Messages = lost \cup Q /\ lost \cap Q = {}
      <4>1. \A m \in Messages : m \in lost \/ m \in Q
        BY <2>6, <2>14
      <4>2. \A m \in Q : m \in Messages /\ m \notin lost
        BY <2>6, <2>9, <2>14
      <4> HIDE DEF Q
      <4> QED
        BY <2>2, <4>1, <4>2
    <3> HIDE DEF Q
    <3>2. Cardinality(lost \cup Q) = Cardinality(lost) + Cardinality(Q) - Cardinality(lost \cap Q)
      BY <2>7, <2>12, FS_Union
    <3>3. Cardinality({}) = 0
      BY FS_EmptySet
    <3>4. Cardinality(Messages) = Cardinality(lost) + Cardinality(Q) - 0
      BY <3>1, <3>2, <3>3
    <3>5. Cardinality(lost) + n - 0 = Cardinality(lost) + n
      BY <2>2, <2>7
    <3> QED
      BY <2>8, <2>12, <3>4, <3>5
  <2> HIDE DEF Q
  <2>17. \A m \in left, i \in 1 .. k : got[i] < m
    <3> SUFFICES ASSUME NEW m \in R, NEW i \in 1 .. k
                 PROVE  got[i] < m
      BY <2>15
    <3>1. PICK j \in k + 1 .. n : q[j] = m
      OBVIOUS
    <3>2. i \in 1 .. n /\ j \in 1 .. n /\ i < j
      BY <2>2, <2>3
    <3> QED
      BY <2>5, <2>10, <3>1, <3>2
  <2> HIDE DEF left, R
  <2>18. Cardinality(left) = n - k /\ n - k <= Cap /\ reported + k + Cardinality(left) = MaxOffers
    BY <2>2, <2>3, <2>7, <2>8, <2>13, <2>15, <2>16
  <2>19. hist = SubSeq(got, Warmup + 1, k)
    <3> DEFINE u == SubSeq(got, Warmup + 1, k)
    <3>1. /\ Warmup + 1 \in Int /\ k \in Int /\ k \in Nat
          /\ (IF Warmup + 1 <= k THEN k - (Warmup + 1) + 1 ELSE 0) = Len(hist)
          /\ \A i \in Warmup + 1 .. k : i \in 1 .. k
          /\ \A i \in 1 .. Len(hist) : i \in 1 .. k - (Warmup + 1) + 1 /\ (Warmup + 1) + i - 1 = Warmup + i
                                       /\ Warmup + i \in 1 .. k
      BY <2>2, <2>3, <2>8
    <3>2. \A i \in Warmup + 1 .. k : got[i] \in Messages
      <4>1. \A i \in 1 .. k : got[i] \in Messages
        BY <2>10, ElementOfSeq
      <4> QED
        BY <3>1, <4>1
    <3>3. /\ u \in Seq(Messages) /\ Len(u) = (IF Warmup + 1 <= k THEN k - (Warmup + 1) + 1 ELSE 0)
          /\ \A i \in 1 .. k - (Warmup + 1) + 1 : u[i] = got[(Warmup + 1) + i - 1]
      BY <3>1, <3>2, SubSeqProperties
    <3> HIDE DEF u
    <3>4. Len(u) = Len(hist)
      BY <3>1, <3>3
    <3>5. ASSUME NEW i \in 1 .. Len(hist)
          PROVE  u[i] = hist[i]
      <4>1. u[i] = got[Warmup + i]
        BY <3>1, <3>3
      <4>2. got[Warmup + i] = q[Warmup + i]
        BY <2>10, <3>1
      <4> QED
        BY <2>3, <4>1, <4>2
    <3>6. u = hist
      BY <2>3, <3>3, <3>4, <3>5, SeqEqual
    <3> QED
      BY <3>6 DEF u
  <2>20. \A i, j \in 1 .. k : i < j => got[i] < got[j]
    <3>1. \A i \in 1 .. k : i \in 1 .. n
      BY <2>2, <2>3
    <3> QED
      BY <2>5, <2>10, <3>1
  <2> QED
    BY <2>7, <2>17, <2>18, <2>19, <2>20 DEF q, n, k, lost, got, G, left
<1> QED
  BY <1>1, TrialInvariance, PTL
=============================================================================
