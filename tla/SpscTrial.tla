----------------------------- MODULE SpscTrial -----------------------------
(***************************************************************************)
(* One SPSC measurement of the benchmarks (spsc_latency, spsc_throughput   *)
(* and spsc_trial of crates/bench/src): a publisher thread sends a fixed   *)
(* number of messages with the blocking send and ends, a subscriber thread *)
(* polls with try_recv, and the main thread joins the publisher, raises    *)
(* the flag `done` and joins the subscriber.  The subscriber looks at the  *)
(* flag only after an empty poll.                                          *)
(*                                                                         *)
(* The ring is the one of Spsc, stale loads included; this module says     *)
(* which of its operations the three threads call and when.  Messages are  *)
(* numbered from 1; a latency is abstracted to the message it was measured *)
(* on, and the pacing of the publisher to an arbitrary delay.              *)
(***************************************************************************)
EXTENDS Spsc

CONSTANTS Warmup   \* LAT_WARMUP; MaxSends is LAT_MSGS + LAT_WARMUP

ASSUME TrialAssumption == Warmup \in 0 .. MaxSends

VARIABLES
  subpc,   \* subscriber: about to poll, inside try_recv, after None, exited
  done,    \* the AtomicBool
  hist     \* the messages whose latency the histogram holds

driver == <<subpc, done, hist>>
trialVars == <<vars, driver>>

TrialInit ==
  /\ Init
  /\ subpc = "poll"
  /\ done = FALSE
  /\ hist = <<>>

-----------------------------------------------------------------------------
(***************************************************************************)
(* Publisher thread and main thread                                        *)
(***************************************************************************)

(* The next iteration of the publisher's loop; the ring's Values are the   *)
(* numbers of the messages.                                                *)
PublishNext ==
  /\ \E v \in Values : v = Len(sent) + 1 /\ CallSend("send", v)
  /\ UNCHANGED driver

Sending ==
  /\ (\E k \in Visible(tailLog, pseen) : SendLoad(k)) \/ SendWrite \/ SendPublish
  /\ UNCHANGED driver

(* The closure returns and drops the Producer.                             *)
PublisherExits ==
  /\ Len(sent) = MaxSends
  /\ DropProducer
  /\ UNCHANGED driver

(* pub_h.join(), then done.store(true, Relaxed).                           *)
NoJoin_RaiseDone ==
  /\ ~done
  /\ done' = TRUE
  /\ UNCHANGED <<vars, subpc, hist>>
RaiseDone ==
  /\ ppc = "gone" /\ ~done
  /\ done' = TRUE
  /\ UNCHANGED <<vars, subpc, hist>>

-----------------------------------------------------------------------------
(***************************************************************************)
(* Subscriber thread                                                       *)
(***************************************************************************)
Poll ==
  /\ subpc = "poll"
  /\ CallRecv("try_recv")
  /\ subpc' = "call"
  /\ UNCHANGED <<done, hist>>

PollLoad(k) ==
  /\ RecvLoad(k)
  /\ subpc' = IF cpc' = "idle" THEN "empty" ELSE "call"
  /\ UNCHANGED <<done, hist>>

PollRead ==
  /\ RecvRead
  /\ UNCHANGED driver

(* Some(msg): recorded once `received` has reached the warm-up count.      *)
OffByOne_Recorded(m) == IF Len(received) > Warmup THEN Append(hist, m) ELSE hist
Recorded(m) == IF Len(received) >= Warmup THEN Append(hist, m) ELSE hist

PollSome ==
  /\ RecvPublish
  /\ hist' = Recorded(cval)
  /\ subpc' = "poll"
  /\ UNCHANGED done

(* None and done.load(Relaxed) is false.  The load may be stale, so it may *)
(* still yield false when the flag is up.                                  *)
PollAgain ==
  /\ subpc = "empty"
  /\ subpc' = "poll"
  /\ UNCHANGED <<vars, done, hist>>

(* None and the flag is up: break; the closure returns the histogram and   *)
(* drops the Consumer.                                                     *)
NoFlag_Break ==
  /\ subpc = "empty"
  /\ DropConsumer
  /\ subpc' = "exited"
  /\ UNCHANGED <<done, hist>>
Break ==
  /\ subpc = "empty" /\ done
  /\ DropConsumer
  /\ subpc' = "exited"
  /\ UNCHANGED <<done, hist>>

-----------------------------------------------------------------------------
TrialNext ==
  \/ PublishNext \/ Sending \/ PublisherExits \/ RaiseDone
  \/ Poll \/ (\E k \in Visible(headLog, cseen) : PollLoad(k)) \/ PollRead \/ PollSome
  \/ PollAgain \/ Break

TrialSpec == TrialInit /\ [][TrialNext]_trialVars

(* All three threads run; a thread that keeps loading a cursor or the flag *)
(* sees the newest value in the end.                                       *)
FairTrial ==
  /\ TrialSpec
  /\ WF_trialVars(PublishNext) /\ WF_trialVars(PublisherExits) /\ WF_trialVars(RaiseDone)
  /\ SF_trialVars(SendLoad(Len(tailLog)) /\ UNCHANGED driver)
  /\ WF_trialVars((SendWrite \/ SendPublish) /\ UNCHANGED driver)
  /\ WF_trialVars(Poll) /\ WF_trialVars(PollRead) /\ WF_trialVars(PollSome)
  /\ SF_trialVars(PollLoad(Len(headLog)))
  /\ WF_trialVars(PollAgain \/ Break)
  /\ SF_trialVars(Break)

-----------------------------------------------------------------------------
(***************************************************************************)
(* Properties                                                              *)
(***************************************************************************)

(* The subscriber leaves only after the publisher has sent everything and  *)
(* is gone: `send`, which cannot tell that the Consumer was dropped, never *)
(* spins on a ring nobody drains.                                          *)
NeverStranded == cpc = "gone" => ppc = "gone" /\ Len(sent) = MaxSends

(* The histogram holds the messages after the warm-up, one after the other *)
(* without a gap, and at the end of a trial all but at most Cap of them.   *)
(* A loss is at the end of the trial and never biased towards its middle.  *)
MeasuredRun ==
  /\ \A i \in 1 .. Len(hist) : hist[i] = Warmup + i
  /\ subpc = "exited" => Len(hist) >= MaxSends - Warmup - Cap

(* Every trial ends: the blocking publisher, the polling subscriber and    *)
(* the two joins of the main thread never wait for each other forever.     *)
TrialEnds == <>(subpc = "exited" /\ ppc = "gone")

(* "SPSC never drops": no message of a trial is thrown away.               *)
NeverDrops == disposed = <<>>
=============================================================================
