-------------------------------- MODULE Bus --------------------------------
(***************************************************************************)
(* The in-process pub/sub bus of crates/bus/src/lib.rs: several threads    *)
(* hold clones of one Bus and call offer (or publish), subscribe and       *)
(* unsubscribe, while the owners of the receivers drain or drop them.      *)
(*                                                                         *)
(* offer is not atomic.  It stamps the message before it takes the mutex,  *)
(* then visits the subscriptions one try_send at a time; receivers need no *)
(* mutex and run between the visits.  subscribe and unsubscribe hold the   *)
(* mutex for a single update and are one step each.                        *)
(*                                                                         *)
(* Messages are numbered in the order offer stamps them, so that with a    *)
(* clock that does not step back the number also orders the timestamps.    *)
(***************************************************************************)
EXTENDS Integers, Sequences, FiniteSets, Filter

CONSTANTS
  Threads,    \* the threads that hold a clone of the Bus
  Cap,        \* `capacity` of every subscriber's channel
  Patterns,   \* the patterns passed to subscribe
  Topics,     \* the topics read from the messages passed to offer
  MaxSubs,    \* bound: calls of subscribe
  MaxOffers,  \* bound: calls of offer
  None        \* not a thread: the mutex is free

(* A capacity of zero would make the channels rendezvous points.           *)
ASSUME CapAssumption == Cap \in Nat \ {0}
ASSUME BoundAssumption == MaxSubs \in Nat /\ MaxOffers \in Nat
ASSUME NoneAssumption == None \notin Threads
ASSUME TextAssumption == Patterns \subseteq Seq(Nat) /\ Topics \subseteq Seq(Nat)

SubIds == 0 .. MaxSubs - 1
Messages == 1 .. MaxOffers

VARIABLES
  lock,        \* holder of the mutex, or None
  next_id,     \* `next_id`
  subs,        \* keys of the map `subs`
  filter,      \* the Filter of every SubId handed out
  drop_count,  \* `drop_count`
  chan,        \* content of every subscription's channel
  rx,          \* subscriptions whose Receiver is still alive
  pc,          \* per thread: "idle", "stamped", "fanout" or "gone"
  cur,         \* per thread: the message it offers
  todo,        \* per thread: matching subscriptions it has still to visit
  sent,        \* per thread: local `sent`
  dropped,     \* per thread: local `dropped`
  topic,       \* history: the topic of every message
  before,      \* history: the messages whose offer had returned when the
               \* offer of this one began
  present,     \* history: the subscriptions that existed at that moment
  order,       \* history: the messages in the order they took the mutex
  taken,       \* history: the messages that left each channel
  missed,      \* history: the messages each subscription lost to a full
               \* channel
  result       \* history: the OfferResult of every offer that returned

registry == <<lock, next_id, subs, filter>>
channels == <<chan, rx, taken>>
locals == <<pc, cur, todo, sent, dropped>>
calls == <<topic, before, present>>
vars == <<registry, drop_count, channels, locals, calls, order, missed, result>>

Returned == DOMAIN result

Init ==
  /\ lock = None /\ next_id = 0 /\ subs = {} /\ filter = <<>> /\ drop_count = 0
  /\ chan = [s \in SubIds |-> <<>>] /\ rx = {} /\ taken = [s \in SubIds |-> <<>>]
  /\ pc = [t \in Threads |-> "idle"] /\ cur = [t \in Threads |-> 0]
  /\ todo = [t \in Threads |-> {}]
  /\ sent = [t \in Threads |-> 0] /\ dropped = [t \in Threads |-> 0]
  /\ topic = <<>> /\ before = <<>> /\ present = <<>>
  /\ order = <<>> /\ missed = [s \in SubIds |-> {}] /\ result = <<>>

-----------------------------------------------------------------------------
(***************************************************************************)
(* Subscriptions                                                           *)
(***************************************************************************)
NoMutex_Locked == FALSE
Locked == lock # None

(* Some clone of the Bus is still alive.                                   *)
Alive == \E t \in Threads : pc[t] # "gone"

(* Bus::subscribe: a new channel, a new id, an entry in the map.           *)
Subscribe(pattern) ==
  /\ Alive /\ ~Locked
  /\ next_id < MaxSubs
  /\ next_id' = next_id + 1
  /\ subs' = subs \cup {next_id}
  /\ filter' = Append(filter, Parse(pattern))
  /\ rx' = rx \cup {next_id}
  /\ UNCHANGED <<lock, drop_count, chan, taken, locals, calls, order, missed, result>>

(* Bus::unsubscribe: the sender goes; the Receiver keeps what is queued.   *)
Discards_Unsubscribe(s) ==
  /\ ~Locked
  /\ s \in subs
  /\ subs' = subs \ {s}
  /\ chan' = [chan EXCEPT ![s] = <<>>]
  /\ UNCHANGED <<lock, next_id, filter, drop_count, rx, taken, locals, calls, order, missed,
                 result>>
Unsubscribe(s) ==
  /\ ~Locked
  /\ s \in subs
  /\ subs' = subs \ {s}
  /\ UNCHANGED <<lock, next_id, filter, drop_count, channels, locals, calls, order, missed,
                 result>>

(* The last clone of the Bus is dropped, by a thread outside offer like    *)
(* all others: the map goes, and every sender in it.  Dropping an earlier  *)
(* clone changes nothing.                                                  *)
DropBus ==
  /\ \A t \in Threads : pc[t] = "idle"
  /\ pc' = [t \in Threads |-> "gone"]
  /\ subs' = {}
  /\ UNCHANGED <<lock, next_id, filter, drop_count, channels, cur, todo, sent, dropped,
                 calls, order, missed, result>>

(* The owner of a Receiver takes the oldest message.                       *)
Recv(s) ==
  /\ s \in rx
  /\ chan[s] # <<>>
  /\ chan' = [chan EXCEPT ![s] = Tail(@)]
  /\ taken' = [taken EXCEPT ![s] = Append(@, Head(chan[s]))]
  /\ UNCHANGED <<registry, drop_count, rx, locals, calls, order, missed, result>>

(* The owner drops the Receiver: the channel discards what it holds and    *)
(* its sender is disconnected from then on.                                *)
DropReceiver(s) ==
  /\ s \in rx
  /\ rx' = rx \ {s}
  /\ taken' = [taken EXCEPT ![s] = @ \o chan[s]]
  /\ chan' = [chan EXCEPT ![s] = <<>>]
  /\ UNCHANGED <<registry, drop_count, locals, calls, order, missed, result>>

-----------------------------------------------------------------------------
(***************************************************************************)
(* Bus::offer (and Bus::publish, which calls it)                           *)
(***************************************************************************)

(* The call: timestamp and topic are taken, before the mutex.              *)
OfferStamp(t, text) ==
  /\ pc[t] = "idle"
  /\ Len(topic) < MaxOffers
  /\ pc' = [pc EXCEPT ![t] = "stamped"]
  /\ cur' = [cur EXCEPT ![t] = Len(topic) + 1]
  /\ topic' = Append(topic, text)
  /\ before' = Append(before, Returned)
  /\ present' = Append(present, subs)
  /\ UNCHANGED <<registry, drop_count, channels, todo, sent, dropped, order, missed, result>>

Audience(m) == {s \in subs : Matches(filter[s + 1], topic[m])}

(* inner.lock(); the loop will visit the subscriptions that match.         *)
OfferLock(t) ==
  /\ pc[t] = "stamped"
  /\ ~Locked
  /\ lock' = t
  /\ pc' = [pc EXCEPT ![t] = "fanout"]
  /\ todo' = [todo EXCEPT ![t] = Audience(cur[t])]
  /\ order' = Append(order, cur[t])
  /\ UNCHANGED <<next_id, subs, filter, drop_count, channels, cur, sent, dropped, calls,
                 missed, result>>

(* What try_send does to subscription s's channel.                         *)
IsDisconnected(s) == s \notin rx
IsFull(s) == s \in rx /\ Len(chan[s]) >= Cap
HasRoom(s) == ~IsDisconnected(s) /\ ~IsFull(s)
Push(s, m) == [chan EXCEPT ![s] = Append(@, m)]

(* One iteration of the loop for a matching subscription; the map yields   *)
(* them in any order.                                                      *)
SendOk(t, s) ==
  /\ HasRoom(s)
  /\ chan' = Push(s, cur[t])
  /\ sent' = [sent EXCEPT ![t] = @ + 1]
  /\ UNCHANGED <<dropped, drop_count, missed>>

Overwrites_SendFull(t, s) ==
  /\ IsFull(s)
  /\ chan' = [chan EXCEPT ![s][1] = cur[t]]
  /\ sent' = [sent EXCEPT ![t] = @ + 1]
  /\ UNCHANGED <<dropped, drop_count, missed>>
Blocks_SendFull(t, s) == FALSE
SendFull(t, s) ==
  /\ IsFull(s)
  /\ dropped' = [dropped EXCEPT ![t] = @ + 1]
  /\ drop_count' = drop_count + 1
  /\ missed' = [missed EXCEPT ![s] = @ \cup {cur[t]}]
  /\ UNCHANGED <<chan, sent>>

CountedAsSent_SendDisconnected(t, s) ==
  /\ IsDisconnected(s)
  /\ sent' = [sent EXCEPT ![t] = @ + 1]
  /\ UNCHANGED <<chan, dropped, drop_count, missed>>
SendDisconnected(t, s) ==
  /\ IsDisconnected(s)
  /\ UNCHANGED <<chan, sent, dropped, drop_count, missed>>

OfferVisit(t, s) ==
  /\ pc[t] = "fanout" /\ s \in todo[t]
  /\ SendOk(t, s) \/ SendFull(t, s) \/ SendDisconnected(t, s)
  /\ todo' = [todo EXCEPT ![t] = @ \ {s}]
  /\ UNCHANGED <<registry, rx, taken, pc, cur, calls, order, result>>

(* The loop ends when every matching subscription has been visited.        *)
StopsEarly_LoopOver(t) == Cardinality(todo[t]) < 2
LoopOver(t) == todo[t] = {}

(* The loop is over: the OfferResult is returned, the guard is dropped and *)
(* the locals go (a next call starts them at zero).                        *)
OfferReturn(t) ==
  /\ pc[t] = "fanout" /\ LoopOver(t)
  /\ lock' = None
  /\ pc' = [pc EXCEPT ![t] = "idle"]
  /\ result' = [m \in Returned \cup {cur[t]} |->
                  IF m = cur[t] THEN [sent |-> sent[t], dropped |-> dropped[t]] ELSE result[m]]
  /\ cur' = [cur EXCEPT ![t] = 0]
  /\ sent' = [sent EXCEPT ![t] = 0] /\ dropped' = [dropped EXCEPT ![t] = 0]
  /\ UNCHANGED <<next_id, subs, filter, drop_count, channels, todo, calls, order, missed>>

-----------------------------------------------------------------------------
Next ==
  \/ \E p \in Patterns : Subscribe(p)
  \/ \E s \in SubIds : Unsubscribe(s) \/ Recv(s) \/ DropReceiver(s)
  \/ \E t \in Threads, text \in Topics : OfferStamp(t, text)
  \/ \E t \in Threads : OfferLock(t) \/ OfferReturn(t)
  \/ DropBus
  \/ \E t \in Threads, s \in SubIds : OfferVisit(t, s)

Spec == Init /\ [][Next]_vars

(* A thread inside offer keeps running.  Nothing is assumed of the mutex   *)
(* beyond being granted when it stays free, and nothing of the receivers.  *)
Fairness ==
  \A t \in Threads :
    /\ WF_vars(OfferLock(t))
    /\ WF_vars(\E s \in SubIds : OfferVisit(t, s))
    /\ WF_vars(OfferReturn(t))

FairSpec == Spec /\ Fairness

-----------------------------------------------------------------------------
(***************************************************************************)
(* Properties                                                              *)
(***************************************************************************)

(* All that was ever put into subscription s's channel, oldest first.      *)
Stream(s) == taken[s] \o chan[s]

Got(s, m) == \E i \in 1 .. Len(Stream(s)) : Stream(s)[i] = m

RegistryOK ==
  /\ lock \in Threads \cup {None}
  /\ next_id \in 0 .. MaxSubs /\ subs \subseteq 0 .. next_id - 1
  /\ filter \in Seq([kind : {"Exact", "Prefix"}, text : Seq(Nat)]) /\ Len(filter) = next_id
  /\ drop_count \in Nat

ChannelsOK ==
  /\ chan \in [SubIds -> Seq(Messages)] /\ \A s \in SubIds : Len(chan[s]) <= Cap
  /\ rx \subseteq 0 .. next_id - 1
  /\ taken \in [SubIds -> Seq(Messages)]
  /\ missed \in [SubIds -> SUBSET Messages]

LocalsOK ==
  /\ pc \in [Threads -> {"idle", "stamped", "fanout", "gone"}]
  /\ \A t \in Threads : pc[t] = "fanout" <=> lock = t
  /\ cur \in [Threads -> 0 .. Len(topic)]
  /\ todo \in [Threads -> SUBSET subs]
  /\ sent \in [Threads -> Nat] /\ dropped \in [Threads -> Nat]

CallsOK ==
  /\ topic \in Seq(Topics) /\ Len(topic) <= MaxOffers
  /\ before \in Seq(SUBSET Messages) /\ Len(before) = Len(topic)
  /\ present \in Seq(SUBSET SubIds) /\ Len(present) = Len(topic)
  /\ order \in Seq(Messages)
  /\ result \in [Returned -> [sent : Nat, dropped : Nat]] /\ Returned \subseteq 1 .. Len(topic)

(* Every variable keeps its type; no channel holds more than Cap messages  *)
(* and whoever is in the loop of offer holds the mutex.                    *)
TypeOK == RegistryOK /\ ChannelsOK /\ LocalsOK /\ CallsOK

(* The OfferResult of an offer and drop_count tell the truth, however the  *)
(* receivers ran meanwhile: `sent` is the number of subscriptions that got *)
(* the message, `dropped` the number that lost it to a full queue, and     *)
(* drop_count the number of all such losses, those of unfinished offers    *)
(* included.                                                               *)
TruthfulCounts ==
  /\ \A m \in Returned :
       /\ result[m].sent = Cardinality({s \in SubIds : Got(s, m)})
       /\ result[m].dropped = Cardinality({s \in SubIds : m \in missed[s]})
  /\ drop_count = Cardinality({w \in SubIds \X Messages : w[2] \in missed[w[1]]})

(* No silent loss: a subscription that existed when an offer began and     *)
(* still exists when it returns has got the message or lost it to a full   *)
(* queue, once, if its filter matches and its receiver lives; and a        *)
(* subscription whose filter does not match never gets it.                 *)
ServedOnReturn(m) ==
  \A s \in present[m] \cap subs' \cap rx' :
    IF Matches(filter[s + 1], topic[m])
      THEN Cardinality({i \in 1 .. Len(Stream(s)) : Stream(s)[i] = m})
             + (IF m \in missed[s] THEN 1 ELSE 0) = 1
      ELSE ~Got(s, m) /\ m \notin missed[s]

(* Every subscriber is served by the time offer returns.                   *)
EveryoneServed == [][\A m \in Messages : m \in Returned' \ Returned => ServedOnReturn(m)]_vars

(* Subscription s gets nothing and loses nothing.                          *)
StaysQuiet(s) == Stream(s)' = Stream(s) /\ missed'[s] = missed[s]

(* The step that ends a subscription, unsubscribe or the drop of the last  *)
(* clone, leaves all that is queued to the receiver, which alone may take  *)
(* it; and from that step on nothing enters the channel, even if an offer  *)
(* was already waiting for the mutex.                                      *)
QuietAfterUnsubscribe ==
  [][\A s \in SubIds : s \notin subs' =>
       /\ StaysQuiet(s)
       /\ s \in subs => chan'[s] = chan[s] /\ rx' = rx]_vars

(* Order in real time: when an offer returned before another one began,    *)
(* its message comes first in every subscriber's stream.  Timestamps in a  *)
(* stream can therefore be out of order only between offers that overlap.  *)
RealTimeOrder ==
  \A s \in SubIds :
    \A i, j \in 1 .. Len(Stream(s)) : i < j => Stream(s)[j] \notin before[Stream(s)[i]]

(* All subscribers see the messages in one common order, the order in      *)
(* which the offers took the mutex, and nobody sees a message twice.       *)
Broadcast == INSTANCE OrderedBroadcast
               WITH Subscribers <- SubIds,
                    log <- order,
                    stream <- [s \in SubIds |-> Stream(s)]

OneCommonOrder == Broadcast!Spec

(* A slow subscriber never blocks the publishers: every offer returns,     *)
(* with no assumption that anybody receives.  (The offers of a behaviour   *)
(* are finitely many, so in the end all threads stay outside offer.)       *)
OffersReturn == <>[](\A t \in Threads : pc[t] \in {"idle", "gone"})
=============================================================================
