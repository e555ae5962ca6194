----------------------------- MODULE StdWriter -----------------------------
(***************************************************************************)
(* The std I/O log writer of crates/persist/src/lib.rs: StdWriter over     *)
(* BufWriter<File> opened for appending.                                   *)
(*                                                                         *)
(* A record is written as its two halves <<m, 1>>, <<m, 2>>, so that a     *)
(* write(2) may stop inside a record.  BufWriter is external: it collects  *)
(* records, writes its buffer out with as many write(2) calls as it takes, *)
(* and after a failed one keeps exactly what was not written.  So is the   *)
(* kernel: what sync_data has not covered may reach the disk in any order, *)
(* and a part that has not when the power goes reads as zeros.             *)
(***************************************************************************)
EXTENDS Integers, Sequences, FiniteSets

CONSTANTS
  BufCap,      \* STD_BUF_CAP, in half records
  BatchSizes,  \* numbers of messages passed to write_batch
  MaxMsgs,     \* bound: messages passed to write_batch in all
  MaxOpens     \* bound: calls of create on the same path

ASSUME BufAssumption == BufCap \in Nat /\ BufCap >= 2
ASSUME BatchAssumption == BatchSizes \subseteq Nat /\ MaxMsgs \in Nat /\ MaxOpens \in Nat

VARIABLES
  file,     \* the file, a sequence of half records
  disk,     \* how much of it is sure to survive a crash
  buf,      \* the buffer of the BufWriter
  pc,       \* where write_batch is
  rest,     \* messages of the batch not yet passed to write_all
  call,     \* the batch of this call
  next,     \* number of the next message the caller passes
  acked,    \* history: the messages of the calls that returned Ok
  synced,   \* history: how many of them were acknowledged before a sync
  opens,    \* history: calls of create
  syncs     \* history: "good", "failed" once a sync has returned Err, and
            \* "doubtful" once one after that has returned Ok

vars == <<file, disk, buf, pc, rest, call, next, acked, synced, opens, syncs>>

Halves(m) == <<<<m, 1>>, <<m, 2>>>>
Lost == <<0, 0>>    \* half a record that did not reach the disk

Init ==
  /\ file = <<>> /\ disk = 0 /\ buf = <<>> /\ pc = "closed"
  /\ rest = <<>> /\ call = <<>> /\ next = 1 /\ acked = <<>> /\ synced = 0 /\ opens = 0
  /\ syncs = "good"

(* create: open for appending, an empty buffer.                            *)
Create ==
  /\ pc = "closed" /\ opens < MaxOpens
  /\ opens' = opens + 1
  /\ buf' = <<>>
  /\ pc' = "idle"
  /\ UNCHANGED <<file, disk, rest, call, next, acked, synced, syncs>>

CallWriteBatch(n) ==
  /\ pc = "idle"
  /\ next + n <= MaxMsgs + 1
  /\ call' = [i \in 1 .. n |-> next + i - 1]
  /\ rest' = call'
  /\ next' = next + n
  /\ pc' = "copy"
  /\ UNCHANGED <<file, disk, buf, acked, synced, opens, syncs>>

(* write_all of one record that fits the buffer.                           *)
NoLimit_Fits == TRUE
Fits == Len(buf) + 2 <= BufCap

CopyRecord ==
  /\ pc = "copy" /\ rest # <<>>
  /\ Fits
  /\ buf' = buf \o Halves(Head(rest))
  /\ rest' = Tail(rest)
  /\ UNCHANGED <<file, disk, pc, call, next, acked, synced, opens, syncs>>

(* The buffer must be written out: no room for a record, or flush().       *)
MustDrain == pc = "copy" /\ buf # <<>> /\ (rest = <<>> \/ ~Fits)

(* One write(2) of the buffer takes its first n half records.              *)
AfterWrite(n) == SubSeq(buf, n + 1, Len(buf))

WriteOut ==
  /\ MustDrain
  /\ \E n \in 1 .. Len(buf) : file' = file \o SubSeq(buf, 1, n) /\ buf' = AfterWrite(n)
  /\ UNCHANGED <<disk, pc, rest, call, next, acked, synced, opens, syncs>>

(* write(2) fails: `?` leaves write_batch, the buffer keeps its content.   *)
Discards_WriteFails ==
  /\ MustDrain
  /\ pc' = "idle"
  /\ buf' = <<>>
  /\ UNCHANGED <<file, disk, rest, call, next, acked, synced, opens, syncs>>
WriteFails ==
  /\ MustDrain
  /\ pc' = "idle"
  /\ UNCHANGED <<file, disk, buf, rest, call, next, acked, synced, opens, syncs>>

(* Ok(msgs.len()), after the flush.                                        *)
NoFlush_Flushed == TRUE
Flushed == buf = <<>>

ReturnOk ==
  /\ pc = "copy" /\ rest = <<>> /\ Flushed
  /\ acked' = acked \o call
  /\ pc' = "idle"
  /\ UNCHANGED <<file, disk, buf, rest, call, next, synced, opens, syncs>>

(* sync: sync_data of the file; the buffer is not flushed.  The kernel     *)
(* reports a failed write-back once and may then forget what it could not  *)
(* write, so the Ok of a sync after a failed one promises nothing.         *)
Sync ==
  /\ pc = "idle"
  /\ disk' = IF syncs = "good" THEN Len(file) ELSE disk
  /\ syncs' = IF syncs = "good" THEN "good" ELSE "doubtful"
  /\ synced' = Len(acked)
  /\ UNCHANGED <<file, buf, pc, rest, call, next, acked, opens>>

SyncFails ==
  /\ pc = "idle"
  /\ syncs' = IF syncs = "good" THEN "failed" ELSE syncs
  /\ UNCHANGED <<file, disk, buf, pc, rest, call, next, acked, synced, opens>>

(* Dropping the writer drops the BufWriter, which tries once more to write *)
(* out what an earlier error left in the buffer.                           *)
DropWriter ==
  /\ pc = "idle"
  /\ pc' = "closed"
  /\ \E n \in 0 .. Len(buf) : file' = file \o SubSeq(buf, 1, n)
  /\ buf' = <<>>
  /\ UNCHANGED <<disk, rest, call, next, acked, synced, opens, syncs>>

(* Power loss, at any time: the file has any size it had since the last   *)
(* sync, any part of what came after that may not have been written back,  *)
(* and what is left is on disk.  Only what was synced is owed to the       *)
(* caller.                                                                 *)
WithoutParts(n, lost) == [i \in 1 .. n |-> IF i \in lost THEN Lost ELSE file[i]]

Crash ==
  /\ \E n \in disk .. Len(file) : \E lost \in SUBSET (disk + 1 .. n) :
       file' = WithoutParts(n, lost) /\ disk' = n
  /\ acked' = SubSeq(acked, 1, synced)
  /\ pc' = "closed" /\ buf' = <<>>
  /\ syncs' = IF syncs = "doubtful" THEN syncs ELSE "good"
  /\ UNCHANGED <<rest, call, next, synced, opens>>

Next ==
  \/ Create \/ Sync \/ SyncFails \/ DropWriter \/ Crash
  \/ \E n \in BatchSizes : CallWriteBatch(n)
  \/ CopyRecord \/ WriteOut \/ WriteFails \/ ReturnOk

Spec == Init /\ [][Next]_vars
-----------------------------------------------------------------------------
IsWhole(q, i) == i < Len(q) /\ q[i][2] = 1 /\ q[i + 1] = <<q[i][1], 2>>

(* Every variable keeps its type.                                          *)
TypeOK ==
  /\ file \in Seq(((1 .. MaxMsgs) \X {1, 2}) \cup {Lost}) /\ disk \in 0 .. Len(file)
  /\ buf \in Seq((1 .. MaxMsgs) \X {1, 2}) /\ Len(buf) <= BufCap
  /\ pc \in {"closed", "idle", "copy"} /\ syncs \in {"good", "failed", "doubtful"}
  /\ synced \in 0 .. Len(acked)

(* The whole records among the half records of q, in order.                *)
Records(q) ==
  LET first == {i \in 1 .. Len(q) : IsWhole(q, i)}
      Nth(n) == CHOOSE i \in first : Cardinality({j \in first : j <= i}) = n
  IN  [n \in 1 .. Cardinality(first) |-> q[Nth(n)][1]]

(* The contract of MessageWriter, through partial and failing writes, what *)
(* an earlier call left in the buffer, power loss that takes any part of   *)
(* what was not synced, and reopening.  Acknowledged messages are in the   *)
(* file, whole, once and in order; those acknowledged before a sync        *)
(* survive although sync does not flush the buffer; no record is ever      *)
(* changed or moved.  It holds for as long as no sync returned Ok after    *)
(* one that failed.                                                        *)
Log == INSTANCE DurableLog WITH log <- Records(file), durable <- Len(Records(SubSeq(file, 1, disk)))

ImplementsLog ==
  Log!Init /\ [][syncs' # "doubtful" => Log!Next \/ UNCHANGED Log!logVars]_vars

(* "Random access by record index is trivial (offset = i * 64)": within    *)
(* one life of the writer a write that stopped inside a record is          *)
(* continued there, so every record starts at a multiple of its size, and  *)
(* a power loss moves none of them.  It does not extend to a log with a    *)
(* torn tail that is opened again.                                         *)
RecordsAligned ==
  opens = 1 => \A i \in 1 .. Len(file) :
                 file[i] # Lost => file[i][2] = (IF i % 2 = 1 THEN 1 ELSE 2)
=============================================================================
