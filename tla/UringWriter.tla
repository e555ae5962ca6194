---------------------------- MODULE UringWriter ----------------------------
(***************************************************************************)
(* The io_uring log writers of crates/persist/src/lib.rs, UringWriter and  *)
(* UringFixedWriter, together with the kernel they talk to: the submission *)
(* queue, the operations in flight, the completion queue, the page cache   *)
(* and the disk.                                                           *)
(*                                                                         *)
(* The unit of position is one record of 64 bytes.  The two writers differ *)
(* in the operations they build for a chunk and in the buffer these read:  *)
(* a Vec freed when the chunk is done, or the registered buffer that the   *)
(* next chunk overwrites.  An operation that the kernel runs after that    *)
(* reads something else than its record.                                   *)
(***************************************************************************)
EXTENDS Integers, Sequences, FiniteSets

CONSTANTS
  Writers,       \* the writers create may open, a subset of AllWriters
  RingDepth,     \* `ring_depth` of UringWriter: messages of a chunk
  RingEntries,   \* what IoUring::new(ring_depth) rounds it up to
  CapMsgs,       \* `cap_msgs` of UringFixedWriter: messages of a chunk
  FixedEntries,  \* 8, the ring of UringFixedWriter
  BatchSizes,    \* numbers of messages passed to write_batch
  MaxMsgs,       \* bound: messages passed to write_batch in all
  MaxOpens,      \* bound: calls of create on the same path
  Faults         \* what may go wrong, a subset of AllFaults

AllWriters == {"Write", "WriteFixed"}   \* UringWriter, UringFixedWriter

AllFaults == {"error",      \* an operation completes with a negative result
              "short",      \* an operation writes less than it was asked to
              "enter",      \* io_uring_enter fails before it takes anything
              "partial",    \* it takes a part of the queue, and does not wait
              "interrupt",  \* a signal ends the wait for completions early
              "sync",       \* sync_data fails
              "reuse"}      \* the caller goes on with a writer after an Err

ASSUME WriterAssumption == Writers \subseteq AllWriters
ASSUME ChunkAssumption == RingDepth \in Nat \ {0} /\ CapMsgs \in Nat \ {0}
ASSUME QueueAssumption ==
  RingEntries \in Nat /\ RingEntries >= RingDepth /\ FixedEntries \in Nat \ {0}
ASSUME BatchAssumption == BatchSizes \subseteq Nat /\ MaxMsgs \in Nat /\ MaxOpens \in Nat
ASSUME FaultAssumption == Faults \subseteq AllFaults

Pos == 1 .. MaxMsgs
Hole == 0         \* no record was ever written here
Torn == -1        \* part of a record
Garbage == -2     \* bytes of a buffer that was no longer the operation's own
Cell == {Hole, Torn, Garbage} \cup 1 .. MaxMsgs

VARIABLES
  writer,    \* which of the two writers was created last
  file,      \* content of the file as the page cache shows it
  disk,      \* content that survives a crash
  offset,    \* `offset`, in records
  pc,        \* where write_batch is
  rest,      \* messages of the batch that no finished chunk covers
  call,      \* the batch of this call
  chunk,     \* the current chunk
  gen,       \* number of the current chunk, the identity of its buffer
  sq,        \* operations pushed and not yet taken by the kernel
  inflight,  \* operations the kernel works on
  cq,        \* results not yet reaped
  next,      \* number of the next message the caller passes
  acked,     \* history: the messages of the calls that returned Ok
  synced,    \* history: how many of them were acknowledged before a sync
  opens,     \* history: calls of create
  failed,    \* history: has a write_batch returned Err?
  safe,      \* history: how many messages were acknowledged before that
  unsynced,  \* history: has sync_data failed since the last power loss?
  harm       \* history: short writes, interrupted waits, partly taken queues,
             \* reuse of a writer after an Err, a sync that succeeds after one
             \* that failed, and reopening of a log, as far as they happened

kernel == <<sq, inflight, cq>>
storage == <<file, disk>>
caller == <<call, next, acked, synced, opens>>
errors == <<failed, safe, unsynced, harm>>
vars == <<writer, storage, kernel, offset, pc, rest, chunk, gen, caller, errors>>

Init ==
  /\ writer \in Writers
  /\ file = [p \in Pos |-> Hole] /\ disk = [p \in Pos |-> Hole]
  /\ offset = 0 /\ pc = "closed" /\ rest = <<>> /\ call = <<>> /\ chunk = <<>> /\ gen = 0
  /\ sq = {} /\ inflight = {} /\ cq = <<>>
  /\ next = 1 /\ acked = <<>> /\ synced = 0 /\ opens = 0
  /\ failed = FALSE /\ safe = 0 /\ unsynced = FALSE /\ harm = {}

-----------------------------------------------------------------------------
(***************************************************************************)
(* create, and what a caller does with the writer                          *)
(***************************************************************************)

(* create: open without truncation, a new ring, offset 0.                  *)
Create ==
  /\ pc = "closed" /\ opens < MaxOpens
  /\ opens' = opens + 1
  /\ writer' \in Writers
  /\ harm' = IF opens > 0 THEN harm \cup {"reopen"} ELSE harm
  /\ offset' = 0 /\ gen' = gen + 1
  /\ pc' = "idle"
  /\ UNCHANGED <<storage, kernel, rest, chunk, call, next, acked, synced, failed, safe, unsynced>>

CallWriteBatch(n) ==
  /\ pc = "idle"
  /\ next + n <= MaxMsgs + 1
  /\ call' = [i \in 1 .. n |-> next + i - 1]
  /\ rest' = call'
  /\ next' = next + n
  /\ pc' = "build"
  /\ UNCHANGED <<writer, storage, kernel, offset, chunk, gen, acked, synced, opens, errors>>

(* sync: sync_data of the file.  When it fails, some of the dirty pages    *)
(* may have been written (WriteBack) and the kernel may take the others    *)
(* for clean: a later sync_data may succeed without writing them.          *)
ForgetsData_Synced == disk
Synced == file

Sync ==
  /\ pc = "idle"
  /\ IF unsynced THEN UNCHANGED disk /\ harm' = harm \cup {"resync"}
                 ELSE disk' = Synced /\ UNCHANGED harm
  /\ synced' = Len(acked)
  /\ UNCHANGED <<writer, file, kernel, offset, pc, rest, chunk, gen, call, next, acked, opens,
                 failed, safe, unsynced>>

SyncFails ==
  /\ "sync" \in Faults
  /\ pc = "idle"
  /\ unsynced' = TRUE
  /\ UNCHANGED <<writer, storage, kernel, offset, pc, rest, chunk, gen, caller, failed, safe, harm>>

Fixed == writer = "WriteFixed"

(* The messages of a chunk, and the entries of the submission queue.       *)
ChunkLen == IF Fixed THEN CapMsgs ELSE RingDepth
SqEntries == IF Fixed THEN FixedEntries ELSE RingEntries

(* The buffer of op is still there and still holds the records of op.  The *)
(* Vec of UringWriter lives as long as its chunk, the registered buffer    *)
(* keeps the chunk until the next one is packed.                           *)
BufferIntact(op) == op.gen = gen /\ (Fixed \/ pc \in {"enter", "wait", "drain"})

(* The positions of the first n records of op, and what the kernel puts    *)
(* there.                                                                  *)
Extent(op, n) == op.pos .. op.pos + n - 1
Content(op, p) == IF BufferIntact(op) THEN op.msgs[p - op.pos + 1] ELSE Garbage

(* The file once the kernel has run the operations of the set ops.         *)
Executed(ops) ==
  [p \in Pos |-> LET here == {op \in ops : p \in Extent(op, Len(op.msgs))}
                 IN  IF here = {} THEN file[p] ELSE Content(CHOOSE op \in here : TRUE, p)]

(* The writer is dropped between two calls, its ring with it: of what is   *)
(* in flight the kernel finishes some and cancels the rest.                *)
DropWriter ==
  /\ pc \in {"idle", "failed"}
  /\ pc' = "closed"
  /\ \E done \in SUBSET inflight : file' = Executed(done)
  /\ sq' = {} /\ inflight' = {} /\ cq' = <<>>
  /\ UNCHANGED <<writer, disk, offset, rest, chunk, gen, caller, errors>>

-----------------------------------------------------------------------------
(***************************************************************************)
(* write_batch                                                             *)
(***************************************************************************)
OneTooMany_First(s, n) == SubSeq(s, 1, IF Len(s) < n + 1 THEN Len(s) ELSE n + 1)
First(s, n) == SubSeq(s, 1, IF Len(s) < n THEN Len(s) ELSE n)
After(s, n) == SubSeq(s, n + 1, Len(s))

Op(pos, msgs) == [pos |-> pos, msgs |-> msgs, gen |-> gen + 1]

(* UringWriter: one Write per message, at offset + i * 64.                 *)
SameOffset_WriteOps(c) == {Op(offset + 1, <<c[i]>>) : i \in 1 .. Len(c)}
WriteOps(c) == {Op(offset + i, <<c[i]>>) : i \in 1 .. Len(c)}

(* UringFixedWriter: one WriteFixed of the packed chunk.                   *)
WriteFixedOps(c) == {Op(offset + 1, c)}

OpsOf(c) == IF Fixed THEN WriteFixedOps(c) ELSE WriteOps(c)

(* The next chunk: copy its records into the buffer, push its operations.  *)
BuildChunk ==
  /\ pc = "build" /\ rest # <<>>
  /\ chunk' = First(rest, ChunkLen)
  /\ Cardinality(sq) + Cardinality(OpsOf(chunk')) <= SqEntries
  /\ sq' = sq \cup OpsOf(chunk')
  /\ gen' = gen + 1
  /\ pc' = "enter"
  /\ UNCHANGED <<writer, storage, inflight, cq, offset, rest, caller, errors>>

(* expect("ring submission full")                                          *)
SubmissionFull ==
  /\ pc = "build" /\ rest # <<>>
  /\ Cardinality(sq) + Cardinality(OpsOf(First(rest, ChunkLen))) > SqEntries
  /\ pc' = "panicked"
  /\ UNCHANGED <<writer, storage, kernel, offset, rest, chunk, gen, caller, errors>>

(* An Err leaves write_batch; the chunk's buffer is gone with it.          *)
ReturnErr ==
  /\ pc' = "failed"
  /\ failed' = TRUE
  /\ UNCHANGED <<safe, unsynced, harm>>

(* The caller ignores the Err and goes on with the writer.                 *)
Reuse ==
  /\ "reuse" \in Faults
  /\ pc = "failed"
  /\ pc' = "idle"
  /\ harm' = harm \cup {"reuse"}
  /\ UNCHANGED <<writer, storage, kernel, offset, rest, chunk, gen, caller, failed, safe, unsynced>>

(* submit_and_wait, first half: the kernel takes the queue, or the call    *)
(* fails and the queue stays as it is.  It may also take only the older    *)
(* part of the queue; then io_uring_enter returns at once with the number  *)
(* taken, which write_batch does not look at.                              *)
Submit ==
  /\ pc = "enter"
  /\ inflight' = inflight \cup sq
  /\ sq' = {}
  /\ pc' = "wait"
  /\ UNCHANGED <<writer, storage, cq, offset, rest, chunk, gen, caller, errors>>

Before(op, o) == op.gen < o.gen \/ (op.gen = o.gen /\ op.pos < o.pos)

SubmitPart ==
  /\ "partial" \in Faults
  /\ pc = "enter"
  /\ \E taken \in SUBSET sq :
       /\ taken # {} /\ taken # sq
       /\ \A op \in taken, o \in sq \ taken : Before(op, o)
       /\ inflight' = inflight \cup taken
       /\ sq' = sq \ taken
  /\ pc' = "drain"
  /\ harm' = harm \cup {"partial"}
  /\ UNCHANGED <<writer, storage, cq, offset, rest, chunk, gen, caller, failed, safe, unsynced>>

SubmitFails ==
  /\ "enter" \in Faults
  /\ pc = "enter"
  /\ ReturnErr
  /\ UNCHANGED <<writer, storage, kernel, offset, rest, chunk, gen, caller>>

(* submit_and_wait, second half: as many results as were asked for are in  *)
(* the completion queue.  A signal ends the wait early, and the call still *)
(* succeeds because the operations were submitted.                         *)
NoWait_WaitFor(c) == 0
OneTooMany_WaitFor(c) == IF Fixed THEN 2 ELSE Len(c) + 1
WaitFor(c) == IF Fixed THEN 1 ELSE Len(c)

Enough == Len(cq) >= WaitFor(chunk)

Wait ==
  /\ pc = "wait"
  /\ Enough
  /\ pc' = "drain"
  /\ UNCHANGED <<writer, storage, kernel, offset, rest, chunk, gen, caller, errors>>

Interrupted ==
  /\ "interrupt" \in Faults
  /\ pc = "wait"
  /\ ~Enough
  /\ pc' = "drain"
  /\ harm' = harm \cup {"interrupt"}
  /\ UNCHANGED <<writer, storage, kernel, offset, rest, chunk, gen, caller, failed, safe, unsynced>>

(* The drain loop: results are reaped up to the first negative one.  Only  *)
(* negative results are errors.                                            *)
Errors == {i \in 1 .. Len(cq) : cq[i] = "error"}

ForgetsOffset_Advance == 0
WholeChunk_Advance == ChunkLen
Advance == Len(chunk)

DrainOk ==
  /\ pc = "drain" /\ Errors = {}
  /\ cq' = <<>>
  /\ offset' = offset + Advance
  /\ rest' = After(rest, Len(chunk))
  /\ pc' = "build"
  /\ UNCHANGED <<writer, storage, sq, inflight, chunk, gen, caller, errors>>

DrainErr ==
  /\ pc = "drain" /\ Errors # {}
  /\ \E e \in Errors : (\A f \in Errors : e <= f) /\ cq' = After(cq, e)
  /\ ReturnErr
  /\ UNCHANGED <<writer, storage, sq, inflight, offset, rest, chunk, gen, caller>>

(* Ok(written)                                                             *)
ReturnOk ==
  /\ pc = "build" /\ rest = <<>>
  /\ acked' = acked \o call
  /\ safe' = IF failed THEN safe ELSE Len(acked')
  /\ pc' = "idle"
  /\ UNCHANGED <<writer, storage, kernel, offset, rest, chunk, gen, call, next, synced, opens, failed, unsynced, harm>>

-----------------------------------------------------------------------------
(***************************************************************************)
(* The kernel: operations complete in any order.                           *)
(***************************************************************************)

(* The file after the first n records of op; t marks one record after.     *)
Written(op, n, t) ==
  [p \in Pos |-> IF p \in Extent(op, n) THEN Content(op, p)
                 ELSE IF t /\ p = op.pos + n THEN Torn ELSE file[p]]

Complete(op) ==
  /\ inflight' = inflight \ {op}
  /\ file' = Written(op, Len(op.msgs), FALSE)
  /\ cq' = Append(cq, "ok")
  /\ UNCHANGED <<writer, disk, sq, offset, pc, rest, chunk, gen, caller, errors>>

CompleteShort(op) ==
  /\ "short" \in Faults
  /\ inflight' = inflight \ {op}
  /\ \E n \in 0 .. Len(op.msgs) - 1 : file' = Written(op, n, TRUE)
  /\ cq' = Append(cq, "ok")
  /\ harm' = harm \cup {"short"}
  /\ UNCHANGED <<writer, disk, sq, offset, pc, rest, chunk, gen, caller, failed, safe, unsynced>>

CompleteError(op) ==
  /\ "error" \in Faults
  /\ inflight' = inflight \ {op}
  /\ cq' = Append(cq, "error")
  /\ UNCHANGED <<writer, storage, sq, offset, pc, rest, chunk, gen, caller, errors>>

(* Any dirty page may be written back at any time.                         *)
WriteBack(p) ==
  /\ disk[p] # file[p]
  /\ disk' = [disk EXCEPT ![p] = file[p]]
  /\ UNCHANGED <<writer, file, kernel, offset, pc, rest, chunk, gen, caller, errors>>

(* Power loss: the file is what the disk holds, and only what was synced   *)
(* is still owed to the caller.                                            *)
Crash ==
  /\ file' = disk
  /\ acked' = SubSeq(acked, 1, synced)
  /\ safe' = IF safe < synced THEN safe ELSE synced
  /\ unsynced' = FALSE
  /\ pc' = "closed"
  /\ sq' = {} /\ inflight' = {} /\ cq' = <<>>
  /\ UNCHANGED <<writer, disk, offset, rest, chunk, gen, call, next, synced, opens, failed, harm>>

-----------------------------------------------------------------------------
WriterStep ==
  \/ BuildChunk \/ SubmissionFull \/ Submit \/ SubmitPart \/ SubmitFails \/ Wait
  \/ DrainOk \/ DrainErr \/ ReturnOk

KernelStep == \E op \in inflight : Complete(op) \/ CompleteShort(op) \/ CompleteError(op)

Next ==
  \/ Create \/ Sync \/ SyncFails \/ Reuse \/ DropWriter \/ Crash
  \/ \E n \in BatchSizes : CallWriteBatch(n)
  \/ WriterStep
  \/ Interrupted
  \/ KernelStep
  \/ \E p \in Pos : WriteBack(p)

Spec == Init /\ [][Next]_vars

(* The writing thread runs, and the kernel completes what it was given;    *)
(* nobody owes the thread a signal.                                        *)
FairSpec == Spec /\ WF_vars(WriterStep) /\ WF_vars(KernelStep)

-----------------------------------------------------------------------------
(***************************************************************************)
(* Properties                                                              *)
(***************************************************************************)

(* Every variable keeps its type.                                          *)
TypeOK ==
  /\ writer \in Writers
  /\ file \in [Pos -> Cell] /\ disk \in [Pos -> Cell]
  /\ offset \in 0 .. MaxMsgs
  /\ pc \in {"closed", "idle", "build", "enter", "wait", "drain", "failed", "panicked"}
  /\ Cardinality(sq) <= SqEntries
  /\ \A op \in sq \cup inflight :
       op.pos \in Pos /\ op.pos + Len(op.msgs) - 1 \in Pos /\ op.gen <= gen
  /\ next \in 1 .. MaxMsgs + 1
  /\ synced \in 0 .. Len(acked) /\ safe \in 0 .. Len(acked)

(* "Append `msgs` to the log.  Returns number written": once write_batch   *)
(* has returned Ok, its messages are in the file, whole, in order and      *)
(* without a gap, whatever the order in which the kernel ran the writes.   *)
AckedAlwaysLogged == \A i \in 1 .. Len(acked) : file[i] = acked[i]

(* That holds as long as no write was short, no wait was interrupted, no   *)
(* queue was taken in part, no writer was used after an Err, no sync was   *)
(* repeated after one that failed and no log was opened twice; operations, *)
(* submissions and syncs may fail.                                         *)
AckedIsLogged == harm = {} => AckedAlwaysLogged

(* An error harms nothing older: what was acknowledged before the first    *)
(* Err stays in the file, however the caller goes on with the writer and   *)
(* whatever the failed call left in the queues.                            *)
OlderAcksSafe == harm \subseteq {"reuse"} => \A i \in 1 .. safe : file[i] = acked[i]

(* The contract of MessageWriter, as long as nothing of harm happened: the *)
(* records up to the first hole are a log that only grows although the     *)
(* kernel runs the writes in any order, and an acknowledgement, a sync and *)
(* a power loss mean there what they should.                               *)
LogOf(f) ==
  LET whole == {n \in 0 .. MaxMsgs : \A p \in 1 .. n : f[p] \in 1 .. MaxMsgs}
  IN  SubSeq(f, 1, CHOOSE n \in whole : \A k \in whole : k <= n)

Log == INSTANCE DurableLog WITH log <- LogOf(file), durable <- Len(LogOf(disk))

ImplementsLog ==
  Log!Init /\ [][harm' = {} => Log!Next \/ UNCHANGED Log!logVars]_vars

(* The SAFETY comments: an operation the kernel works on reads a buffer    *)
(* that is still there and still holds the operation's records.            *)
BuffersAlwaysOutlive == \A op \in inflight : BufferIntact(op)

(* That holds, short writes included, unless a wait was interrupted, a     *)
(* queue was taken in part or a writer with a stale submission queue was   *)
(* used again.                                                             *)
BuffersOutliveOps == harm \cap {"interrupt", "partial", "reuse"} = {} => BuffersAlwaysOutlive

KeepsRecords == \A p \in Pos : file[p] \in 1 .. MaxMsgs /\ pc' # "closed" => file'[p] = file[p]

(* "Append-only": no call ever changes a record that is in the file,       *)
(* whatever fails, in a log that is opened once by a caller who gives up   *)
(* on the first Err.                                                       *)
AppendOnly == [][harm \cap {"reuse", "reopen"} = {} => KeepsRecords]_vars

(* expect("ring submission full") never fires for such a caller, although  *)
(* a chunk of UringFixedWriter may have more messages than its ring has    *)
(* entries, unless the kernel left operations in the queue.                *)
NeverPanics == harm \cap {"partial", "reuse"} = {} => pc # "panicked"

(* write_batch returns, with Ok, with Err or by a panic, unless the        *)
(* machine stops: it never waits for more results than there will be.      *)
WriteBatchReturns == (pc = "build") ~> (pc \in {"idle", "failed", "panicked", "closed"})
=============================================================================
