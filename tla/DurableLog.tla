----------------------------- MODULE DurableLog -----------------------------
(***************************************************************************)
(* What a MessageWriter of crates/persist/src/lib.rs promises its caller:  *)
(* a log that only grows.  A batch is acknowledged once all of it is in    *)
(* the log, a sync makes the log durable, and a power loss takes records   *)
(* only from the end of the log that is not durable.                       *)
(*                                                                         *)
(* The caller numbers its messages in the order it passes them.  A batch   *)
(* that failed may have left any part of itself in the log.                *)
(***************************************************************************)
EXTENDS Naturals, Sequences

VARIABLES
  log,      \* the records of the log, in order
  durable,  \* how many of them, from the first, survive a power loss
  acked,    \* messages for which write_batch has returned Ok
  synced    \* how many of those were acknowledged before a sync

logVars == <<log, durable, acked, synced>>

Elements(s) == {s[i] : i \in 1 .. Len(s)}
IsPrefixOf(s, t) == Len(s) <= Len(t) /\ s = SubSeq(t, 1, Len(s))
Increasing(s) == \A i, j \in 1 .. Len(s) : i < j => s[i] < s[j]

Init == log = <<>> /\ durable = 0 /\ acked = <<>> /\ synced = 0

(* "Append `msgs` to the log": new records, after all others.              *)
Write ==
  /\ log' \in Seq(Nat) /\ IsPrefixOf(log, log') /\ Increasing(log')
  /\ UNCHANGED <<durable, acked, synced>>

(* "Returns number written".                                               *)
Acknowledge ==
  /\ acked' \in Seq(Nat) /\ IsPrefixOf(acked, acked') /\ Increasing(acked')
  /\ Elements(acked') \subseteq Elements(log)
  /\ UNCHANGED <<log, durable, synced>>

(* "Ensure all data is on disk".                                           *)
Sync ==
  /\ durable' = Len(log)
  /\ synced' = Len(acked)
  /\ UNCHANGED <<log, acked>>

(* More may become durable at any time.                                    *)
WriteBack ==
  /\ durable' \in durable + 1 .. Len(log)
  /\ UNCHANGED <<log, acked, synced>>

(* Power loss: any of the records that were not durable are gone, the ones *)
(* that are left are durable, and nobody is owed more than was synced.     *)
PowerLoss ==
  /\ log' \in Seq(Nat) /\ IsPrefixOf(SubSeq(log, 1, durable), log') /\ Increasing(log')
  /\ Elements(log') \subseteq Elements(log)
  /\ durable' = Len(log')
  /\ acked' = SubSeq(acked, 1, synced)
  /\ UNCHANGED synced

Next == Write \/ Acknowledge \/ Sync \/ WriteBack \/ PowerLoss

Spec == Init /\ [][Next]_logVars
-----------------------------------------------------------------------------
(* What the caller gets from it, whatever it does and whenever the power   *)
(* goes: every acknowledged message is in the log, the log is in the order *)
(* of the calls without repetition, and what was acknowledged before a     *)
(* sync is in the part of the log that a power loss cannot take.           *)
TypeOK ==
  /\ log \in Seq(Nat) /\ durable \in 0 .. Len(log)
  /\ acked \in Seq(Nat) /\ synced \in 0 .. Len(acked)

AckedInLog == Elements(acked) \subseteq Elements(log)
SyncedDurable == \A i \in 1 .. synced : \E j \in 1 .. durable : log[j] = acked[i]

Contract == TypeOK /\ Increasing(log) /\ Increasing(acked) /\ AckedInLog /\ SyncedDurable
=============================================================================
