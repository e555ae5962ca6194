------------------------------ MODULE BusTrial ------------------------------
(***************************************************************************)
(* One measurement of the benchmarks over the Bus (crossbeam_latency and   *)
(* crossbeam_throughput of crates/bench/src/main.rs): main subscribes to   *)
(* "bench", a publisher offers a fixed number of messages, a subscriber    *)
(* thread receives, and the flag `done` goes up after the last offer.  The *)
(* subscriber looks at the flag only when a receive found nothing.         *)
(*                                                                         *)
(* The two differ in who publishes (a thread that main joins, or main) and *)
(* in how the subscriber waits (recv_timeout or try_recv).  Neither        *)
(* changes a step: the 200 ms may elapse whenever the channel is empty.    *)
(***************************************************************************)
EXTENDS Bus

CONSTANTS
  Publisher,   \* the thread that offers; main, the other one, only subscribes
  BenchTopic,  \* the topic of every message and the pattern of main: "bench"
  Warmup       \* LAT_WARMUP, 0 for throughput; MaxOffers is the total

ASSUME TrialAssumption ==
  Publisher \in Threads /\ BenchTopic \in Patterns \cap Topics /\ Warmup \in 0 .. MaxOffers

Bench == 0   \* the SubId of the one subscription

VARIABLES
  subpc,      \* subscriber: not spawned, about to receive, after Err, exited
  received,   \* subscriber: `received`, `count` for throughput
  hist,       \* subscriber: the messages whose latency it recorded
  done,       \* the AtomicBool
  reported    \* drop_count when the result is put together, or None

driver == <<subpc, received, hist, done, reported>>
trialVars == <<vars, driver>>

TrialInit ==
  /\ Init
  /\ subpc = "unborn" /\ received = 0 /\ hist = <<>> /\ done = FALSE /\ reported = None

-----------------------------------------------------------------------------
(* main subscribes and spawns the subscriber.                              *)
SpawnSubscriber ==
  /\ subpc = "unborn"
  /\ Subscribe(BenchTopic)
  /\ subpc' = "poll"
  /\ UNCHANGED <<received, hist, done, reported>>

(* The publisher's loop: the next call of offer, and the steps inside it.  *)
PublishNext ==
  /\ subpc # "unborn"
  /\ OfferStamp(Publisher, BenchTopic)
  /\ UNCHANGED driver

Offering ==
  /\ OfferLock(Publisher) \/ OfferVisit(Publisher, Bench) \/ OfferReturn(Publisher)
  /\ UNCHANGED driver

(* After the last offer (pub_h.join(), where a thread publishes) main      *)
(* stores `done`.                                                          *)
NoJoin_Published == TRUE
JoinsSubscriberFirst_Published == Returned = Messages /\ subpc = "exited"
Published == Returned = Messages

RaiseDone ==
  /\ ~done
  /\ Published
  /\ done' = TRUE
  /\ UNCHANGED <<vars, subpc, received, hist, reported>>

(* Ok(msg): a latency is recorded once `received` has reached the warm-up. *)
PollOk ==
  /\ subpc = "poll"
  /\ Recv(Bench)
  /\ hist' = IF received >= Warmup THEN Append(hist, Head(chan[Bench])) ELSE hist
  /\ received' = received + 1
  /\ UNCHANGED <<subpc, done, reported>>

(* Err(_): the channel was empty, for 200 ms in the latency trial.         *)
PollErr ==
  /\ subpc = "poll"
  /\ chan[Bench] = <<>>
  /\ subpc' = "empty"
  /\ UNCHANGED <<vars, received, hist, done, reported>>

(* The Relaxed load of `done` yields false, stale or not.                  *)
PollAgain ==
  /\ subpc = "empty"
  /\ subpc' = "poll"
  /\ UNCHANGED <<vars, received, hist, done, reported>>

(* It yields true: break; the closure returns and drops the Receiver.      *)
Break ==
  /\ subpc = "empty" /\ done
  /\ DropReceiver(Bench)
  /\ subpc' = "exited"
  /\ UNCHANGED <<received, hist, done, reported>>

(* sub.join(), then the result is put together.  bus.drop_count() is a     *)
(* field of the LatResult; the ThrResult of crossbeam_throughput has no    *)
(* such field, and there the counter is only what it could have reported.  *)
Report ==
  /\ subpc = "exited" /\ done /\ reported = None
  /\ reported' = drop_count
  /\ UNCHANGED <<vars, subpc, received, hist, done>>

TrialNext ==
  \/ SpawnSubscriber \/ PublishNext \/ Offering \/ RaiseDone
  \/ PollOk \/ PollErr \/ PollAgain \/ Break \/ Report

TrialSpec == TrialInit /\ [][TrialNext]_trialVars

(* All threads run, the wait of recv_timeout ends, and a subscriber that   *)
(* keeps loading the flag sees it in the end.                              *)
FairTrial ==
  /\ TrialSpec
  /\ WF_trialVars(SpawnSubscriber) /\ WF_trialVars(PublishNext) /\ WF_trialVars(Offering)
  /\ WF_trialVars(RaiseDone) /\ WF_trialVars(Report)
  /\ WF_trialVars(PollOk \/ PollErr) /\ WF_trialVars(PollAgain \/ Break)
  /\ SF_trialVars(Break)

-----------------------------------------------------------------------------
(* Received messages and drop_count account for the trial.  The offers     *)
(* come out in order; one that was not received is counted as dropped, or  *)
(* is one of the at most Cap last ones, which the subscriber left in its   *)
(* queue when it saw `done`.  The histogram is what was received after the *)
(* first Warmup ones, so its gaps are exactly the drops that               *)
(* crossbeam_latency reports.                                              *)
Accounted ==
  reported # None =>
    LET got == SubSeq(taken[Bench], 1, received)
        left == Messages \ (missed[Bench] \cup {got[i] : i \in 1 .. received})
    IN  /\ \A i, j \in 1 .. received : i < j => got[i] < got[j]
        /\ reported = Cardinality(missed[Bench])
        /\ reported + received + Cardinality(left) = MaxOffers
        /\ Cardinality(left) <= Cap
        /\ \A m \in left, i \in 1 .. received : got[i] < m
        /\ hist = SubSeq(got, Warmup + 1, received)

(* Every trial ends with a result: offers that find the queue full, the    *)
(* subscriber that finds it empty, and the joins never wait for each other *)
(* forever.                                                                *)
TrialEnds == <>(reported # None)
=============================================================================
