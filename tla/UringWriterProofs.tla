------------------------- MODULE UringWriterProofs -------------------------
(***************************************************************************)
(* Proofs about the io_uring writers, for both of them, any chunk length,  *)
(* any submission queue with room for the operations of a chunk, any       *)
(* number of messages and any combination of faults.                       *)
(*                                                                         *)
(* Each property holds until something of `harm` has happened, and each    *)
(* under another part of it; the inductive invariant has one part for each *)
(* of these conditions.                                                    *)
(***************************************************************************)
EXTENDS UringWriter, SequenceTheorems, FiniteSetTheorems, TLAPS

Pending == sq \cup inflight

(* All positions of an operation.                                          *)
Span(op) == Extent(op, Len(op.msgs))

OpOK(op) ==
  /\ op \in [pos : Pos, msgs : Seq(Pos), gen : Nat]
  /\ op.msgs # <<>> /\ op.pos + Len(op.msgs) - 1 <= MaxMsgs
  /\ op.gen <= gen

(* write_batch is in the middle of a chunk, or of a batch.                 *)
InChunk == pc \in {"enter", "wait", "drain"}
InBatch == pc = "build" \/ InChunk

(* Types, and the bounds behind them: no chunk reaches beyond the messages *)
(* that were passed.                                                       *)
TypeInv ==
  /\ writer \in Writers
  /\ file \in [Pos -> Cell] /\ disk \in [Pos -> Cell]
  /\ pc \in {"closed", "idle", "build", "enter", "wait", "drain", "failed", "panicked"}
  /\ gen \in Nat /\ opens \in Nat /\ offset \in Nat /\ next \in 1 .. MaxMsgs + 1
  /\ rest \in Seq(Pos) /\ call \in Seq(Pos) /\ chunk \in Seq(Pos) /\ acked \in Seq(Pos)
  /\ cq \in Seq({"ok", "error"})
  /\ IsFiniteSet(sq) /\ IsFiniteSet(inflight) /\ Cardinality(sq) <= SqEntries
  /\ \A op \in Pending : OpOK(op)
  /\ synced \in 0 .. Len(acked) /\ safe \in 0 .. Len(acked)
  /\ failed \in BOOLEAN /\ unsynced \in BOOLEAN
  /\ offset <= next - 1
  /\ InBatch => offset + Len(rest) <= next - 1
  /\ InChunk => chunk = First(rest, ChunkLen) /\ chunk # <<>>

(* Before the first create there is nothing.                               *)
StartInv ==
  opens = 0 => /\ pc = "closed" /\ next = 1 /\ acked = <<>> /\ offset = 0
               /\ \A p \in Pos : file[p] = Hole /\ disk[p] = Hole

(* The submission queue is empty when a chunk is built.                    *)
QueueInv ==
  /\ pc = "closed" => sq = {} /\ inflight = {} /\ cq = <<>>
  /\ harm \cap {"partial", "reuse"} = {} => /\ pc \notin {"enter", "failed"} => sq = {}
                                           /\ pc # "panicked"

(* submit_and_wait has a result for every operation of the chunk, and no   *)
(* operation is in flight outside it.                                      *)
WaitInv ==
  harm \cap {"interrupt", "partial", "reuse"} = {} =>
    /\ pc \in {"idle", "build", "enter"} => inflight = {} /\ cq = <<>>
    /\ pc \in {"drain", "failed"} => inflight = {}
    /\ pc = "enter" => Cardinality(sq) = WaitFor(chunk)
    /\ pc = "wait" => Cardinality(inflight) + Len(cq) = WaitFor(chunk)
    /\ \A op \in Pending : op.gen = gen

(* How far the file may be written to.                                     *)
Frontier == offset + (IF InChunk \/ pc = "failed" THEN Len(chunk) ELSE 0)

(* Every position belongs to one operation, which has it to itself and has *)
(* not been there yet.                                                     *)
PlaceInv ==
  harm \cap {"reuse", "reopen"} = {} =>
    /\ sq \cap inflight = {}
    /\ \A op, o \in Pending : op # o => Span(op) \cap Span(o) = {}
    /\ \A op \in Pending : \A p \in Span(op) : file[p] \notin Pos /\ p <= Frontier
    /\ pc # "closed" => \A p \in Pos : p > Frontier => file[p] = Hole

(* Without any harm record number i is the i-th message.                   *)
LogInv ==
  harm = {} =>
    /\ \A i \in 1 .. Len(acked) : acked[i] = i /\ file[i] = i
    /\ \A i \in 1 .. synced : disk[i] = i
    /\ pc = "idle" => offset = Len(acked) /\ offset = next - 1
    /\ InBatch =>
         /\ Len(acked) <= offset /\ Len(acked) + Len(call) = next - 1
         /\ offset + Len(rest) = next - 1
         /\ \A i \in 1 .. Len(call) : call[i] = Len(acked) + i
         /\ \A i \in 1 .. Len(rest) : rest[i] = offset + i
         /\ \A p \in 1 .. offset : file[p] = p
    /\ \A op \in Pending : \A j \in 1 .. Len(op.msgs) : op.msgs[j] = op.pos + j - 1
    /\ pc = "enter" => \A p \in offset + 1 .. offset + Len(chunk) : \E op \in sq : p \in Span(op)
    /\ pc \in {"wait", "drain"} /\ Errors = {} =>
         \A p \in offset + 1 .. offset + Len(chunk) :
           file[p] = p \/ \E op \in inflight : p \in Span(op)

(* After an Err nothing reaches back to what was acknowledged before it.   *)
SafeInv ==
  /\ "reuse" \in harm \/ pc = "failed" => failed
  /\ ~failed => safe = Len(acked)
  /\ harm \subseteq {"reuse"} =>
       /\ \A op \in Pending : safe < op.pos
       /\ pc # "closed" => safe <= offset
       /\ \A i \in 1 .. safe : file[i] = acked[i]
       /\ \A i \in 1 .. synced : i <= safe => disk[i] = acked[i]

(* The inductive invariant: the parts depend on each other, so they are    *)
(* preserved together.                                                     *)
IInv == TypeInv /\ StartInv /\ QueueInv /\ WaitInv /\ PlaceInv /\ LogInv /\ SafeInv

USE DEF kernel, storage, caller, errors

-----------------------------------------------------------------------------
(***************************************************************************)
(* Chunks and operations                                                   *)
(***************************************************************************)

(* Either writer has a chunk of some length, and a queue with room for the *)
(* operations of a chunk.                                                  *)
LEMMA Sizes ==
  /\ ChunkLen \in Nat \ {0} /\ SqEntries \in Nat \ {0}
  /\ ~Fixed => ChunkLen <= SqEntries
BY ChunkAssumption, QueueAssumption DEF ChunkLen, SqEntries

(* The first n elements of a sequence, and those after them.               *)
LEMMA FirstAfter ==
  ASSUME NEW S, NEW s \in Seq(S), NEW n \in Nat
  PROVE  /\ First(s, n) \in Seq(S)
         /\ Len(First(s, n)) = IF Len(s) < n THEN Len(s) ELSE n
         /\ \A i \in 1 .. Len(First(s, n)) : First(s, n)[i] = s[i]
         /\ n <= Len(s) => /\ After(s, n) \in Seq(S)
                          /\ Len(After(s, n)) = Len(s) - n
                          /\ \A i \in 1 .. Len(s) - n : After(s, n)[i] = s[n + i]
<1> DEFINE m == IF Len(s) < n THEN Len(s) ELSE n
<1>1. Len(s) \in Nat /\ m \in 0 .. Len(s) /\ m \in Int /\ \A i \in 1 .. Len(s) : s[i] \in S
  BY LenProperties, ElementOfSeq
<1>2. /\ SubSeq(s, 1, m) \in Seq(S) /\ Len(SubSeq(s, 1, m)) = m
      /\ \A i \in 1 .. m : SubSeq(s, 1, m)[i] = s[i]
  <2> HIDE DEF m
  <2>1. \A i \in 1 .. m : s[i] \in S
    BY <1>1
  <2>2. /\ SubSeq(s, 1, m) \in Seq(S) /\ Len(SubSeq(s, 1, m)) = (IF 1 <= m THEN m - 1 + 1 ELSE 0)
        /\ \A i \in 1 .. m - 1 + 1 : SubSeq(s, 1, m)[i] = s[1 + i - 1]
    BY <1>1, <2>1, SubSeqProperties
  <2> QED
    BY <1>1, <2>2
<1>3. ASSUME n <= Len(s)
      PROVE  /\ SubSeq(s, n + 1, Len(s)) \in Seq(S) /\ Len(SubSeq(s, n + 1, Len(s))) = Len(s) - n
             /\ \A i \in 1 .. Len(s) - n : SubSeq(s, n + 1, Len(s))[i] = s[n + i]
  <2>1. \A i \in n + 1 .. Len(s) : s[i] \in S
    BY <1>1
  <2>2. /\ SubSeq(s, n + 1, Len(s)) \in Seq(S)
        /\ Len(SubSeq(s, n + 1, Len(s))) = (IF n + 1 <= Len(s) THEN Len(s) - (n + 1) + 1 ELSE 0)
        /\ \A i \in 1 .. Len(s) - (n + 1) + 1 : SubSeq(s, n + 1, Len(s))[i] = s[n + 1 + i - 1]
    BY <1>1, <2>1, SubSeqProperties
  <2> QED
    BY <1>1, <1>3, <2>2
<1> QED
  BY <1>2, <1>3 DEF First, After

(* The positions of an operation.                                          *)
LEMMA SpanFacts ==
  ASSUME NEW op, OpOK(op)
  PROVE  /\ Len(op.msgs) \in Nat \ {0} /\ op.pos \in Span(op)
         /\ Span(op) = op.pos .. op.pos + Len(op.msgs) - 1
         /\ Span(op) \subseteq Pos
         /\ \A p \in Span(op) : p - op.pos + 1 \in 1 .. Len(op.msgs) /\ op.msgs[p - op.pos + 1] \in Pos
<1>1. op.pos \in Pos /\ op.msgs \in Seq(Pos) /\ op.msgs # <<>>
  BY DEF OpOK
<1>2. Len(op.msgs) \in Nat \ {0}
  BY <1>1, EmptySeq
<1>3. Span(op) = op.pos .. op.pos + Len(op.msgs) - 1
  BY DEF Span, Extent
<1>4. op.pos + Len(op.msgs) - 1 <= MaxMsgs
  BY DEF OpOK
<1>5. \A p \in Span(op) : p - op.pos + 1 \in 1 .. Len(op.msgs)
  BY <1>1, <1>2, <1>3 DEF Pos
<1>6. Span(op) \subseteq Pos /\ op.pos \in Span(op)
  BY <1>1, <1>2, <1>3, <1>4, BatchAssumption DEF Pos
<1>7. \A p \in Span(op) : op.msgs[p - op.pos + 1] \in Pos
  BY <1>1, <1>5, ElementOfSeq
<1> QED
  BY <1>2, <1>3, <1>5, <1>6, <1>7

(* What the kernel puts into the file is a record, or garbage; and it is   *)
(* put at the positions of the operation.                                  *)
LEMMA WrittenFacts ==
  ASSUME TypeInv, NEW op \in Pending, NEW n \in 0 .. Len(op.msgs), NEW t \in BOOLEAN,
         t => n < Len(op.msgs)
  PROVE  /\ Written(op, n, t) \in [Pos -> Cell]
         /\ \A p \in Pos \ Span(op) : Written(op, n, t)[p] = file[p]
         /\ n = Len(op.msgs) => \A p \in Span(op) : Written(op, n, t)[p] = Content(op, p)
<1>1. OpOK(op)
  BY DEF TypeInv
<1>2. /\ Len(op.msgs) \in Nat \ {0}
      /\ Span(op) = op.pos .. op.pos + Len(op.msgs) - 1 /\ Span(op) \subseteq Pos
      /\ \A p \in Span(op) : op.msgs[p - op.pos + 1] \in Pos
  BY <1>1, SpanFacts
<1>3. op.pos \in Nat
  BY <1>1, BatchAssumption DEF OpOK, Pos
<1>4. Extent(op, n) \subseteq Span(op) /\ (n = Len(op.msgs) => Extent(op, n) = Span(op))
  BY <1>2, <1>3 DEF Extent
<1>5. \A p \in Span(op) : Content(op, p) \in Cell
  BY <1>2 DEF Content, Cell, Pos
<1>6. t => op.pos + n \in Span(op)
  BY <1>2, <1>3
<1>7. Torn \in Cell /\ \A p \in Pos : file[p] \in Cell
  BY DEF Cell, TypeInv
<1> QED
  BY <1>2, <1>4, <1>5, <1>6, <1>7 DEF Written

(* The same for all operations the kernel finishes when a ring goes.       *)
LEMMA ExecutedFacts ==
  ASSUME TypeInv, NEW ops \in SUBSET Pending
  PROVE  /\ Executed(ops) \in [Pos -> Cell]
         /\ \A p \in Pos : (\A op \in ops : p \notin Span(op)) => Executed(ops)[p] = file[p]
<1>1. ASSUME NEW p \in Pos
      PROVE  /\ Executed(ops)[p] \in Cell
             /\ (\A op \in ops : p \notin Span(op)) => Executed(ops)[p] = file[p]
  <2> DEFINE here == {op \in ops : p \in Extent(op, Len(op.msgs))}
  <2>1. Executed(ops)[p] = IF here = {} THEN file[p] ELSE Content(CHOOSE op \in here : TRUE, p)
    BY DEF Executed
  <2>2. CASE here = {}
    BY <2>1, <2>2 DEF TypeInv
  <2>3. CASE here # {}
    <3>1. PICK op \in here : Executed(ops)[p] = Content(op, p)
      BY <2>1, <2>3
    <3>2. op \in ops /\ p \in Span(op) /\ OpOK(op)
      BY <3>1 DEF Span, TypeInv
    <3>3. op.msgs[p - op.pos + 1] \in Pos
      BY <3>2, SpanFacts
    <3>4. Content(op, p) \in Cell
      BY <3>3 DEF Content, Cell, Pos
    <3> QED
      BY <3>1, <3>2, <3>4
  <2> QED
    BY <2>2, <2>3
<1> QED
  BY <1>1 DEF Executed

(* The operations of a chunk: as many as submit_and_wait waits for, one    *)
(* after the other from offset on, each with its part of the chunk.        *)
LEMMA ChunkOps ==
  ASSUME offset \in Nat, gen \in Nat, writer \in AllWriters, NEW c \in Seq(Pos), c # <<>>,
         offset + Len(c) <= MaxMsgs
  PROVE  /\ IsFiniteSet(OpsOf(c)) /\ Cardinality(OpsOf(c)) = WaitFor(c)
         /\ \A op \in OpsOf(c) :
              /\ op \in [pos : Pos, msgs : Seq(Pos), gen : Nat] /\ op.gen = gen + 1
              /\ op.msgs # <<>> /\ offset < op.pos /\ op.pos + Len(op.msgs) - 1 <= offset + Len(c)
              /\ \A j \in 1 .. Len(op.msgs) : op.msgs[j] = c[op.pos - offset + j - 1]
         /\ \A op, o \in OpsOf(c) : op # o => Span(op) \cap Span(o) = {}
         /\ \A p \in offset + 1 .. offset + Len(c) : \E op \in OpsOf(c) : p \in Span(op)
<1>1. Len(c) \in Nat \ {0} /\ \A i \in 1 .. Len(c) : c[i] \in Pos
  BY EmptySeq, ElementOfSeq
<1>2. CASE Fixed
  <2> DEFINE o1 == Op(offset + 1, c)
  <2>1. OpsOf(c) = {o1} /\ WaitFor(c) = 1
    BY <1>2 DEF OpsOf, WriteFixedOps, WaitFor
  <2>2. IsFiniteSet(OpsOf(c)) /\ Cardinality(OpsOf(c)) = WaitFor(c)
    BY <2>1, FS_Singleton
  <2>3. o1.pos = offset + 1 /\ o1.msgs = c /\ o1.gen = gen + 1
        /\ o1 \in [pos : Pos, msgs : Seq(Pos), gen : Nat]
    BY <1>1, BatchAssumption DEF Op, Pos
  <2>4. Span(o1) = offset + 1 .. offset + Len(c)
    BY <1>1, <2>3 DEF Span, Extent
  <2>5. \A j \in 1 .. Len(c) : c[j] = c[offset + 1 - offset + j - 1]
    BY <1>1
  <2> HIDE DEF o1
  <2> QED
    BY <1>1, <2>1, <2>2, <2>3, <2>4, <2>5
<1>3. CASE ~Fixed
  <2> DEFINE f == [i \in 1 .. Len(c) |-> Op(offset + i, <<c[i]>>)]
  <2>1. OpsOf(c) = {f[i] : i \in 1 .. Len(c)} /\ WaitFor(c) = Len(c)
    BY <1>3 DEF OpsOf, WriteOps, WaitFor
  <2>2. ASSUME NEW i \in 1 .. Len(c)
        PROVE  /\ f[i] \in [pos : Pos, msgs : Seq(Pos), gen : Nat]
               /\ f[i].pos = offset + i /\ f[i].msgs = <<c[i]>> /\ f[i].gen = gen + 1
               /\ Len(f[i].msgs) = 1 /\ f[i].msgs # <<>> /\ f[i].msgs[1] = c[i]
               /\ Span(f[i]) = {offset + i}
    <3>1. offset + i \in Pos /\ c[i] \in Pos
      BY <1>1, BatchAssumption DEF Pos
    <3>2. <<c[i]>> \in Seq(Pos) /\ Len(<<c[i]>>) = 1 /\ <<c[i]>> # <<>> /\ <<c[i]>>[1] = c[i]
      BY <3>1
    <3>3. f[i] = [pos |-> offset + i, msgs |-> <<c[i]>>, gen |-> gen + 1]
      BY DEF Op
    <3>4. f[i].pos = offset + i /\ f[i].msgs = <<c[i]>> /\ f[i].gen = gen + 1
      BY <3>3
    <3>5. f[i] \in [pos : Pos, msgs : Seq(Pos), gen : Nat]
      <4>1. gen + 1 \in Nat
        OBVIOUS
      <4> HIDE DEF f
      <4> QED
        BY <3>1, <3>2, <3>3, <4>1
    <3>6. offset + i .. offset + i + 1 - 1 = {offset + i}
      BY <1>1
    <3>7. Span(f[i]) = {offset + i}
      <4> HIDE DEF f
      <4> QED
        BY <3>2, <3>4, <3>6 DEF Span, Extent
    <3> HIDE DEF f
    <3> QED
      BY <3>2, <3>4, <3>5, <3>7
  <2> HIDE DEF f
  <2>3. IsFiniteSet(OpsOf(c)) /\ Cardinality(OpsOf(c)) = WaitFor(c)
    <3>1. IsFiniteSet(1 .. Len(c)) /\ Cardinality(1 .. Len(c)) = Len(c)
      BY <1>1, FS_Interval
    <3>2. f \in Bijection(1 .. Len(c), OpsOf(c))
      <4>1. f \in [1 .. Len(c) -> OpsOf(c)]
        BY <2>1 DEF f
      <4>2. \A i, j \in 1 .. Len(c) : f[i] = f[j] => i = j
        BY <1>1, <2>2
      <4>3. \A op \in OpsOf(c) : \E i \in 1 .. Len(c) : f[i] = op
        BY <2>1
      <4> QED
        BY <4>1, <4>2, <4>3 DEF Bijection, Injection, IsInjective, Surjection
    <3> QED
      BY <2>1, <3>1, <3>2, FS_Bijection DEF ExistsBijection
  <2>4. ASSUME NEW op \in OpsOf(c)
        PROVE  /\ op \in [pos : Pos, msgs : Seq(Pos), gen : Nat] /\ op.gen = gen + 1
               /\ op.msgs # <<>> /\ offset < op.pos /\ op.pos + Len(op.msgs) - 1 <= offset + Len(c)
               /\ \A j \in 1 .. Len(op.msgs) : op.msgs[j] = c[op.pos - offset + j - 1]
    <3>1. PICK i \in 1 .. Len(c) : op = f[i]
      BY <2>1
    <3>2. offset + i - offset + 1 - 1 = i /\ offset < offset + i /\ offset + i + 1 - 1 <= offset + Len(c)
      BY <1>1
    <3>3. op \in [pos : Pos, msgs : Seq(Pos), gen : Nat] /\ op.gen = gen + 1 /\ op.msgs # <<>>
          /\ op.pos = offset + i /\ Len(op.msgs) = 1 /\ op.msgs[1] = c[i]
      BY <2>2, <3>1
    <3>4. \A j \in 1 .. Len(op.msgs) : j = 1
      BY <3>3
    <3> QED
      BY <3>2, <3>3, <3>4
  <2>5. ASSUME NEW op \in OpsOf(c), NEW o \in OpsOf(c), op # o
        PROVE  Span(op) \cap Span(o) = {}
    <3>1. PICK i \in 1 .. Len(c) : op = f[i]
      BY <2>1
    <3>2. PICK k \in 1 .. Len(c) : o = f[k]
      BY <2>1
    <3>3. Span(op) = {offset + i} /\ Span(o) = {offset + k} /\ i # k
      BY <2>2, <2>5, <3>1, <3>2
    <3> QED
      BY <1>1, <3>3
  <2>6. ASSUME NEW p \in offset + 1 .. offset + Len(c)
        PROVE  \E op \in OpsOf(c) : p \in Span(op)
    <3>1. p - offset \in 1 .. Len(c) /\ offset + (p - offset) = p
      BY <1>1
    <3> QED
      BY <2>1, <2>2, <3>1
  <2> QED
    BY <2>3, <2>4, <2>5, <2>6
<1> QED
  BY <1>2, <1>3
-----------------------------------------------------------------------------
(*****************************************************************************)
(* Every action keeps the invariant: one lemma per action, one step per part. *)
(*****************************************************************************)

(* A completion without any harm: the buffer is still there, so that the   *)
(* positions of the operation, which nobody has written yet, hold its      *)
(* records.                                                                *)
LEMMA CompleteWrites ==
  ASSUME IInv, harm = {}, NEW op \in inflight, Complete(op)
  PROVE  /\ pc = "wait"
         /\ \A p \in Span(op) : p \in Pos /\ file[p] \notin Pos /\ file'[p] = p
         /\ \A p \in Pos \ Span(op) : file'[p] = file[p]
<1>1. op \in Pending /\ OpOK(op) /\ TypeInv
  BY DEF Pending, IInv, TypeInv
<1>2. pc = "wait" /\ BufferIntact(op)
  BY <1>1 DEF IInv, WaitInv, QueueInv, TypeInv, BufferIntact
<1>3. /\ Len(op.msgs) \in Nat /\ Span(op) \subseteq Pos
      /\ \A p \in Span(op) : p - op.pos + 1 \in 1 .. Len(op.msgs)
  BY <1>1, SpanFacts
<1>4. /\ \A p \in Span(op) : file'[p] = Content(op, p)
      /\ \A p \in Pos \ Span(op) : file'[p] = file[p]
  <2>1. Len(op.msgs) \in 0 .. Len(op.msgs)
    BY <1>3
  <2> QED
    BY <1>1, <2>1, WrittenFacts DEF Complete
<1>5. ASSUME NEW p \in Span(op)
      PROVE  Content(op, p) = p
  <2>1. op.pos \in Int /\ p \in Int /\ p - op.pos + 1 \in 1 .. Len(op.msgs)
    BY <1>1, <1>3, BatchAssumption DEF OpOK, Pos
  <2>2. Content(op, p) = op.pos + (p - op.pos + 1) - 1
    BY <1>1, <1>2, <2>1 DEF Content, IInv, LogInv
  <2>3. op.pos + (p - op.pos + 1) - 1 = p
    BY ONLY <2>1
  <2> QED
    BY <2>2, <2>3
<1>6. \A p \in Span(op) : file[p] \notin Pos
  BY <1>1 DEF IInv, PlaceInv
<1> QED
  BY <1>2, <1>3, <1>4, <1>5, <1>6

(* create keeps the invariant: a log that is opened for the first time is empty. *)
LEMMA CreateStep ==
  ASSUME IInv, Create
  PROVE  IInv'
<1> USE DEF IInv, Create
<1>0. opens # 0 => "reopen" \in harm'
  BY DEF TypeInv
<1>1. TypeInv'
  <2>1. sq = {} /\ Cardinality(sq) = 0 /\ SqEntries' \in Nat
    BY FS_EmptySet, ChunkAssumption, QueueAssumption DEF QueueInv, SqEntries
  <2> QED
    BY <2>1, BatchAssumption DEF TypeInv, InBatch, InChunk, Pending, OpOK
<1>2. StartInv'
  BY DEF StartInv, TypeInv
<1>3. QueueInv'
  BY BatchAssumption DEF QueueInv
<1>4. WaitInv'
  BY BatchAssumption DEF WaitInv, WaitFor, Fixed, Pending, TypeInv, QueueInv
<1>5. PlaceInv'
  <2>1. CASE opens = 0
    BY <2>1 DEF PlaceInv, StartInv, QueueInv, Frontier, Pending, InChunk
  <2>2. CASE opens # 0
    BY <1>0, <2>2 DEF PlaceInv
  <2> QED
    BY <2>1, <2>2
<1>6. LogInv'
  <2>1. CASE opens = 0
    BY <2>1 DEF LogInv, StartInv, QueueInv, Pending, InBatch, InChunk, TypeInv
  <2>2. CASE opens # 0
    BY <1>0, <2>2 DEF LogInv
  <2> QED
    BY <2>1, <2>2
<1>7. SafeInv'
  <2>1. CASE opens = 0
    BY <2>1 DEF SafeInv, StartInv, QueueInv, Pending, TypeInv
  <2>2. CASE opens # 0
    BY <1>0, <2>2 DEF SafeInv
  <2> QED
    BY <2>1, <2>2
<1> QED
  BY <1>1, <1>2, <1>3, <1>4, <1>5, <1>6, <1>7

(* write_batch is called: the batch is the next n messages.                *)
LEMMA CallStep ==
  ASSUME IInv, NEW n \in BatchSizes, CallWriteBatch(n)
  PROVE  IInv'
<1> USE DEF IInv, CallWriteBatch
<1>0. /\ n \in Nat /\ next \in Nat /\ next + n - 1 <= MaxMsgs
      /\ call' \in Seq(Pos) /\ Len(call') = n /\ rest' = call'
      /\ \A i \in 1 .. n : call'[i] = next + i - 1
  <2>1. n \in Nat /\ next \in Nat /\ 1 <= next
    BY BatchAssumption DEF TypeInv
  <2>2. \A i \in 1 .. n : next + i - 1 \in Pos
    BY <2>1, BatchAssumption DEF Pos
  <2>3. call' \in [1 .. n -> Pos]
    BY <2>2
  <2>4. call' \in Seq(Pos)
    BY <2>1, <2>3, SeqDef
  <2>5. DOMAIN call' = 1 .. n /\ DOMAIN call' = 1 .. Len(call') /\ Len(call') \in Nat
    BY <2>3, <2>4, LenProperties
  <2>6. Len(call') = n
    BY <2>1, <2>5
  <2> QED
    BY <2>1, <2>4, <2>6, BatchAssumption
<1>1. TypeInv'
  BY <1>0, BatchAssumption DEF TypeInv, ChunkLen, SqEntries, Fixed, InBatch, InChunk, Pending, OpOK
<1>2. StartInv'
  BY BatchAssumption DEF StartInv
<1>3. QueueInv'
  BY BatchAssumption DEF QueueInv
<1>4. WaitInv'
  BY BatchAssumption DEF WaitInv, WaitFor, Fixed, Pending, TypeInv, QueueInv
<1>5. PlaceInv'
  BY BatchAssumption DEF PlaceInv, Frontier, Pending, InChunk, Span, Extent, TypeInv
<1>6. LogInv'
  <2> SUFFICES ASSUME harm = {}
               PROVE  LogInv'
    BY DEF LogInv
  <2>1. offset = Len(acked) /\ offset = next - 1 /\ Len(acked) \in Nat
    BY DEF LogInv, TypeInv
  <2>2. /\ Len(acked) <= offset /\ Len(acked) + Len(call') = next' - 1
        /\ offset + Len(rest') = next' - 1
        /\ \A i \in 1 .. Len(call') : call'[i] = Len(acked) + i
        /\ \A i \in 1 .. Len(rest') : rest'[i] = offset + i
    BY <1>0, <2>1
  <2>3. \A p \in 1 .. offset : file[p] = p
    BY <2>1 DEF LogInv
  <2> QED
    BY <2>2, <2>3 DEF LogInv, Pending, Span, Extent, InBatch, InChunk
<1>7. SafeInv'
  BY BatchAssumption DEF SafeInv, Pending, TypeInv
<1> QED
  BY <1>1, <1>2, <1>3, <1>4, <1>5, <1>6, <1>7

(* sync: what the file holds is on the disk, unless an earlier one failed. *)
LEMMA SyncStep ==
  ASSUME IInv, Sync
  PROVE  IInv'
<1> USE DEF IInv, Sync
<1>0. (disk' = file /\ harm' = harm) \/ (disk' = disk /\ harm' = harm \cup {"resync"})
  BY DEF Synced
<1>1. TypeInv'
  BY <1>0 DEF TypeInv, ChunkLen, SqEntries, Fixed, InBatch, InChunk, Pending, OpOK
<1>2. StartInv'
  BY BatchAssumption DEF StartInv
<1>3. QueueInv'
  BY BatchAssumption DEF QueueInv
<1>4. WaitInv'
  BY BatchAssumption DEF WaitInv, WaitFor, Fixed, Pending, TypeInv, QueueInv
<1>5. PlaceInv'
  BY BatchAssumption DEF PlaceInv, Frontier, Pending, InChunk, Span, Extent, TypeInv
<1>6. LogInv'
  <2> SUFFICES ASSUME harm' = {}
               PROVE  LogInv'
    BY DEF LogInv
  <2>1. Len(acked) \in Nat /\ disk' = file /\ harm = {}
    BY <1>0 DEF TypeInv
  <2> QED
    BY <2>1 DEF LogInv, Pending, Span, Extent, InBatch, InChunk, Errors
<1>7. SafeInv'
  <2>1. Len(acked) \in Nat /\ safe \in Nat /\ safe <= Len(acked)
    BY DEF TypeInv
  <2>2. harm' \subseteq {"reuse"} => harm' = harm /\ disk' = file
    BY <1>0
  <2> QED
    BY <1>0, <2>1, <2>2 DEF SafeInv, Pending
<1> QED
  BY <1>1, <1>2, <1>3, <1>4, <1>5, <1>6, <1>7

(* sync_data fails: file and disk are as they were.                        *)
LEMMA SyncFailsStep ==
  ASSUME IInv, SyncFails
  PROVE  IInv'
<1> USE DEF IInv, SyncFails
<1>1. TypeInv'
  BY DEF TypeInv, ChunkLen, SqEntries, Fixed, InBatch, InChunk, Pending, OpOK
<1>2. StartInv' /\ QueueInv'
  BY DEF StartInv, QueueInv
<1>3. WaitInv'
  BY DEF WaitInv, WaitFor, Fixed, Pending
<1>4. PlaceInv'
  BY DEF PlaceInv, Frontier, Pending, InChunk, Span, Extent
<1>5. LogInv' /\ SafeInv'
  BY DEF LogInv, SafeInv, Pending, Errors, InBatch, InChunk, Span, Extent
<1> QED
  BY <1>1, <1>2, <1>3, <1>4, <1>5

(* The caller goes on after an Err.                                        *)
LEMMA ReuseStep ==
  ASSUME IInv, Reuse
  PROVE  IInv'
<1> USE DEF IInv, Reuse
<1>1. TypeInv'
  BY BatchAssumption DEF TypeInv, ChunkLen, SqEntries, Fixed, InBatch, InChunk, Pending, OpOK
<1>2. StartInv'
  BY BatchAssumption DEF StartInv
<1>3. QueueInv'
  BY BatchAssumption DEF QueueInv
<1>4. WaitInv'
  BY BatchAssumption DEF WaitInv, WaitFor, Fixed, Pending, TypeInv, QueueInv
<1>5. PlaceInv'
  BY BatchAssumption DEF PlaceInv, Frontier, Pending, InChunk, Span, Extent, TypeInv
<1>6. LogInv'
  BY BatchAssumption DEF LogInv, Pending, Errors, InBatch, InChunk, Span, Extent, TypeInv
<1>7. SafeInv'
  BY BatchAssumption DEF SafeInv, Pending, TypeInv
<1> QED
  BY <1>1, <1>2, <1>3, <1>4, <1>5, <1>6, <1>7

(* The writer is dropped.  Without reuse and interrupted waits nothing is in *)
(* flight, and whatever is lies behind what was acknowledged before the Err. *)
LEMMA DropStep ==
  ASSUME IInv, DropWriter
  PROVE  IInv'
<1> USE DEF IInv, DropWriter
<1>0. PICK done \in SUBSET inflight : file' = Executed(done)
  OBVIOUS
<1>a. /\ file' \in [Pos -> Cell]
      /\ \A p \in Pos : (\A op \in done : p \notin Span(op)) => file'[p] = file[p]
  BY <1>0, ExecutedFacts DEF Pending
<1>1. TypeInv'
  BY <1>a, FS_EmptySet, Sizes DEF TypeInv, ChunkLen, SqEntries, Fixed, InBatch, InChunk, Pending, OpOK
<1>2. StartInv'
  BY BatchAssumption DEF StartInv
<1>3. QueueInv'
  BY BatchAssumption DEF QueueInv
<1>4. WaitInv'
  BY BatchAssumption DEF WaitInv, WaitFor, Fixed, Pending, TypeInv, QueueInv
<1>5. PlaceInv'
  BY DEF PlaceInv, Pending
<1>6. LogInv'
  <2> SUFFICES ASSUME harm = {}
               PROVE  LogInv'
    BY DEF LogInv
  <2>1. done = {} /\ \A p \in Pos : file'[p] = file[p]
    BY <1>a DEF WaitInv
  <2>2. \A i \in 1 .. Len(acked) : acked[i] \in Pos
    BY ElementOfSeq DEF TypeInv
  <2>3. \A i \in 1 .. Len(acked) : file'[i] = i
    BY <2>1, <2>2 DEF LogInv
  <2> QED
    BY <2>3 DEF LogInv, Pending, InBatch, InChunk
<1>7. SafeInv'
  <2> SUFFICES ASSUME harm \subseteq {"reuse"}
               PROVE  \A i \in 1 .. safe : file'[i] = acked[i]
    BY DEF SafeInv, Pending
  <2> SUFFICES ASSUME NEW i \in 1 .. safe
               PROVE  file'[i] = file[i]
    BY DEF SafeInv
  <2>1. safe \in Nat /\ safe <= offset /\ offset \in Nat /\ offset <= MaxMsgs
    BY BatchAssumption DEF SafeInv, TypeInv
  <2>2. i \in Pos
    BY <2>1, BatchAssumption DEF Pos
  <2>3. ASSUME NEW op \in done PROVE i \notin Span(op)
    <3>1. OpOK(op) /\ safe < op.pos
      BY DEF TypeInv, SafeInv, Pending
    <3>2. op.pos \in Nat
      BY <3>1, BatchAssumption DEF OpOK, Pos
    <3> QED
      BY <2>1, <3>1, <3>2 DEF Span, Extent
  <2> QED
    BY <1>a, <2>2, <2>3
<1> QED
  BY <1>1, <1>2, <1>3, <1>4, <1>5, <1>6, <1>7

(* A chunk is built: its operations lie behind everything that is in the   *)
(* file, and behind every operation that may still be in flight.           *)
LEMMA BuildStep ==
  ASSUME IInv, BuildChunk
  PROVE  IInv'
<1> USE DEF IInv, BuildChunk
<1> DEFINE c == First(rest, ChunkLen)
           ops == OpsOf(c)
<1>0. /\ offset \in Nat /\ gen \in Nat /\ next \in Nat /\ next - 1 <= MaxMsgs
      /\ rest \in Seq(Pos) /\ Len(rest) \in Nat /\ offset + Len(rest) <= next - 1
      /\ writer \in AllWriters
  BY BatchAssumption, WriterAssumption DEF TypeInv, ChunkLen, SqEntries, Fixed, InBatch
<1>a. /\ c \in Seq(Pos) /\ c # <<>> /\ Len(c) \in Nat \ {0} /\ Len(c) <= Len(rest)
      /\ \A i \in 1 .. Len(c) : c[i] = rest[i]
  <2>1. /\ c \in Seq(Pos) /\ Len(c) = IF Len(rest) < ChunkLen THEN Len(rest) ELSE ChunkLen
        /\ \A i \in 1 .. Len(c) : c[i] = rest[i]
    BY <1>0, FirstAfter, Sizes
  <2>2. Len(rest) # 0
    BY <1>0, EmptySeq
  <2>3. Len(c) \in Nat \ {0} /\ Len(c) <= Len(rest)
    BY <1>0, <2>1, <2>2, Sizes
  <2> QED
    BY <2>1, <2>3, EmptySeq
<1>b. offset + Len(c) <= next - 1 /\ offset + Len(c) <= MaxMsgs
  BY <1>0, <1>a, BatchAssumption
<1>c. /\ IsFiniteSet(ops) /\ Cardinality(ops) = WaitFor(c)
      /\ \A op \in ops :
           /\ op \in [pos : Pos, msgs : Seq(Pos), gen : Nat] /\ op.gen = gen + 1
           /\ op.msgs # <<>> /\ offset < op.pos /\ op.pos + Len(op.msgs) - 1 <= offset + Len(c)
           /\ \A j \in 1 .. Len(op.msgs) : op.msgs[j] = c[op.pos - offset + j - 1]
      /\ \A op, o \in ops : op # o => Span(op) \cap Span(o) = {}
      /\ \A p \in offset + 1 .. offset + Len(c) : \E op \in ops : p \in Span(op)
  BY <1>0, <1>a, <1>b, ChunkOps
<1>d. /\ chunk' = c /\ sq' = sq \cup ops /\ gen' = gen + 1 /\ pc = "build" /\ pc' = "enter"
      /\ Cardinality(sq) + Cardinality(ops) <= SqEntries
  OBVIOUS
<1>e. \A op \in ops : Span(op) \subseteq offset + 1 .. offset + Len(c)
  <2>1. ASSUME NEW op \in ops PROVE Span(op) \subseteq offset + 1 .. offset + Len(c)
    <3>1. op.pos \in Nat /\ Len(op.msgs) \in Nat
      BY <1>c, BatchAssumption DEF Pos
    <3>2. \A p \in op.pos .. op.pos + Len(op.msgs) - 1 : p \in offset + 1 .. offset + Len(c)
      BY <1>0, <1>a, <1>c, <3>1
    <3> QED
      BY <3>2 DEF Span, Extent
  <2> QED
    BY <2>1
<1> HIDE DEF c, ops
<1>1. TypeInv'
  <2>1. IsFiniteSet(sq') /\ Cardinality(sq') <= SqEntries
    <3>1. IsFiniteSet(sq) /\ IsFiniteSet(ops) /\ IsFiniteSet(sq \cap ops)
      BY <1>c, FS_Subset DEF TypeInv
    <3>2. Cardinality(sq) \in Nat /\ Cardinality(ops) \in Nat /\ Cardinality(sq \cap ops) \in Nat
      BY <3>1, FS_CardinalityType
    <3>3. IsFiniteSet(sq \cup ops)
          /\ Cardinality(sq \cup ops) = Cardinality(sq) + Cardinality(ops) - Cardinality(sq \cap ops)
      BY <3>1, FS_Union
    <3>4. Cardinality(sq) + Cardinality(ops) <= SqEntries
      BY <1>d
    <3>5. Cardinality(sq \cup ops) <= SqEntries
      BY ONLY <3>2, <3>3, <3>4, Sizes
    <3> QED
      BY <1>d, <3>3, <3>5
  <2>2. \A op \in Pending' : OpOK(op)'
    <3>1. ASSUME NEW op \in Pending PROVE OpOK(op)'
      <4>1. OpOK(op)
        BY DEF TypeInv
      <4> QED
        BY <1>0, <1>d, <4>1 DEF OpOK
    <3>2. ASSUME NEW op \in ops PROVE OpOK(op)'
      <4>1. op.pos + Len(op.msgs) - 1 <= MaxMsgs
        <5>1. op.pos \in Nat /\ Len(op.msgs) \in Nat
          BY <1>c, BatchAssumption DEF Pos
        <5> QED
          BY <1>0, <1>a, <1>b, <1>c, <5>1, BatchAssumption
      <4> QED
        BY <1>0, <1>c, <1>d, <4>1 DEF OpOK
    <3>3. \A op \in Pending' : op \in Pending \/ op \in ops
      BY <1>d DEF Pending
    <3> QED
      BY <3>1, <3>2, <3>3
  <2>3. InChunk' => chunk' = First(rest', ChunkLen) /\ chunk' # <<>>
    BY <1>a, <1>d DEF c
  <2> QED
    BY <1>0, <1>a, <1>d, <2>1, <2>2, <2>3 DEF TypeInv, ChunkLen, SqEntries, Fixed, InBatch
<1>2. StartInv'
  BY BatchAssumption DEF StartInv
<1>3. QueueInv'
  BY <1>d DEF QueueInv
<1>4. WaitInv'
  <2> SUFFICES ASSUME harm \cap {"interrupt", "partial", "reuse"} = {}
               PROVE  WaitInv'
    BY DEF WaitInv
  <2>1. inflight = {} /\ cq = <<>> /\ sq = {}
    BY <1>d DEF WaitInv, QueueInv
  <2>2. sq' = ops
    BY <1>d, <2>1
  <2>3. WaitFor(chunk)' = WaitFor(c)
    BY <1>d DEF WaitFor, Fixed
  <2> QED
    BY <1>c, <1>d, <2>1, <2>2, <2>3 DEF WaitInv, Pending
<1>5. PlaceInv'
  <2> SUFFICES ASSUME harm \cap {"reuse", "reopen"} = {}
               PROVE  PlaceInv'
    BY DEF PlaceInv
  <2>1. Pending' = Pending \cup ops
    BY <1>d DEF Pending
  <2>2. Frontier = offset /\ Frontier' = offset + Len(c)
    BY <1>0, <1>d DEF Frontier, InChunk
  <2>3. \A op \in Pending : \A p \in Span(op) : file[p] \notin Pos /\ p <= offset /\ p \in Pos
    <3>1. \A op \in Pending : OpOK(op) /\ Span(op) \subseteq Pos
      BY SpanFacts DEF TypeInv
    <3> QED
      BY <2>2, <3>1 DEF PlaceInv
  <2>4. \A p \in offset + 1 .. offset + Len(c) : p \in Pos /\ file[p] = Hole
    <3>1. \A p \in offset + 1 .. offset + Len(c) : p \in Pos /\ p > offset
      BY <1>0, <1>a, <1>b, BatchAssumption DEF Pos
    <3> QED
      BY <1>d, <2>2, <3>1 DEF PlaceInv
  <2>5. \A op \in Pending' : \A p \in Span(op) : file[p] \notin Pos /\ p <= Frontier'
    <3>1. ASSUME NEW op \in Pending, NEW p \in Span(op) PROVE file[p] \notin Pos /\ p <= Frontier'
      BY <1>0, <1>a, <2>2, <2>3, BatchAssumption DEF Pos
    <3>2. ASSUME NEW op \in ops, NEW p \in Span(op) PROVE file[p] \notin Pos /\ p <= Frontier'
      <4>1. p \in offset + 1 .. offset + Len(c)
        BY <1>e
      <4>2. Hole \notin Pos
        BY DEF Hole, Pos
      <4> QED
        BY <1>0, <1>a, <2>2, <2>4, <4>1, <4>2
    <3> QED
      BY <2>1, <3>1, <3>2
  <2>6. ASSUME NEW op \in Pending', NEW o \in Pending', op # o
        PROVE  Span(op) \cap Span(o) = {}
    <3>1. ASSUME NEW x \in Pending, NEW y \in ops PROVE Span(x) \cap Span(y) = {}
      <4> SUFFICES ASSUME NEW p \in Span(x), p \in Span(y)
                   PROVE  FALSE
        OBVIOUS
      <4>1. p \in Pos /\ p <= offset /\ p \in offset + 1 .. offset + Len(c)
        BY <1>e, <2>3
      <4> QED
        BY <1>0, <4>1
    <3>2. CASE op \in Pending /\ o \in Pending
      BY <2>6, <3>2 DEF PlaceInv
    <3>3. CASE op \in ops /\ o \in ops
      BY <1>c, <2>6, <3>3
    <3> QED
      BY <2>1, <3>1, <3>2, <3>3
  <2>7. \A p \in Pos : p > Frontier' => file[p] = Hole
    <3>1. \A p \in Pos : p > offset + Len(c) => p > offset
      BY <1>0, <1>a, BatchAssumption DEF Pos
    <3> QED
      BY <1>d, <2>2, <3>1 DEF PlaceInv
  <2>8. sq' \cap inflight' = {}
    <3>1. sq \cap inflight = {}
      BY DEF PlaceInv
    <3> SUFFICES ASSUME NEW op \in ops, op \in inflight
                 PROVE  FALSE
      BY <1>d, <3>1
    <3>2. op \in Pending /\ OpOK(op)
      BY DEF TypeInv, Pending
    <3>3. op.pos \in Span(op) /\ op.pos \in Nat
      BY <3>2, SpanFacts, BatchAssumption DEF OpOK, Pos
    <3>4. op.pos <= offset /\ offset < op.pos
      BY <1>c, <2>3, <3>2, <3>3
    <3> QED
      BY <1>0, <3>3, <3>4
  <2> QED
    BY <1>d, <2>5, <2>6, <2>7, <2>8 DEF PlaceInv, Span, Extent
<1>6. LogInv'
  <2> SUFFICES ASSUME harm = {}
               PROVE  LogInv'
    BY DEF LogInv
  <2>1. Pending' = ops /\ sq' = ops
    BY <1>d DEF QueueInv, WaitInv, Pending
  <2>2. \A i \in 1 .. Len(rest) : rest[i] = offset + i
    BY <1>d DEF LogInv, InBatch
  <2>3. ASSUME NEW op \in ops, NEW j \in 1 .. Len(op.msgs)
        PROVE  op.msgs[j] = op.pos + j - 1
    <3>1. op.pos \in Nat /\ Len(op.msgs) \in Nat
      BY <1>c, BatchAssumption DEF Pos
    <3>2. op.pos - offset + j - 1 \in 1 .. Len(c)
      BY <1>0, <1>a, <1>c, <3>1, SMTT(30)
    <3>3. op.msgs[j] = rest[op.pos - offset + j - 1] /\ op.pos - offset + j - 1 \in 1 .. Len(rest)
      BY <1>0, <1>a, <1>c, <3>2, SMTT(30)
    <3>4. op.msgs[j] = offset + (op.pos - offset + j - 1)
      BY <2>2, <3>3
    <3> QED
      BY <1>0, <3>1, <3>4
  <2> QED
    BY <1>c, <1>d, <2>1, <2>3 DEF LogInv, InBatch, InChunk, Span, Extent
<1>7. SafeInv'
  <2>1. safe \in Nat /\ Pending' = Pending \cup ops
    BY <1>d DEF TypeInv, Pending
  <2>2. \A op \in ops : op.pos \in Nat /\ offset < op.pos
    BY <1>c, BatchAssumption DEF Pos
  <2> QED
    BY <1>0, <1>d, <2>1, <2>2 DEF SafeInv
<1> QED
  BY <1>1, <1>2, <1>3, <1>4, <1>5, <1>6, <1>7

(* The submission queue is never full for a caller who gives up on an Err, *)
(* since it is empty when a chunk is built.                                *)
LEMMA FullStep ==
  ASSUME IInv, SubmissionFull
  PROVE  IInv'
<1> USE DEF IInv, SubmissionFull
<1>1. TypeInv'
  BY BatchAssumption DEF TypeInv, ChunkLen, SqEntries, Fixed, InBatch, InChunk, Pending, OpOK
<1>2. StartInv'
  BY BatchAssumption DEF StartInv
<1>3. QueueInv'
  <2> DEFINE c == First(rest, ChunkLen)
  <2> SUFFICES ASSUME harm \cap {"partial", "reuse"} = {}
               PROVE  FALSE
    BY DEF QueueInv
  <2>1. sq = {} /\ Cardinality(sq) = 0
    BY FS_EmptySet DEF QueueInv
  <2>2. /\ offset \in Nat /\ gen \in Nat /\ next \in Nat /\ next - 1 <= MaxMsgs
        /\ rest \in Seq(Pos) /\ Len(rest) \in Nat \ {0} /\ offset + Len(rest) <= next - 1
        /\ writer \in AllWriters
    BY BatchAssumption, WriterAssumption, EmptySeq DEF TypeInv, ChunkLen, SqEntries, Fixed, InBatch
  <2>3. c \in Seq(Pos) /\ Len(c) = IF Len(rest) < ChunkLen THEN Len(rest) ELSE ChunkLen
    BY <2>2, FirstAfter, Sizes
  <2>4. c # <<>> /\ offset + Len(c) <= MaxMsgs /\ Len(c) \in Nat /\ Len(c) <= ChunkLen
    BY <2>2, <2>3, Sizes, BatchAssumption, EmptySeq
  <2>5. Cardinality(OpsOf(c)) = WaitFor(c)
    BY <2>2, <2>3, <2>4, ChunkOps
  <2>6. WaitFor(c) \in Nat /\ WaitFor(c) <= SqEntries
    BY <2>4, Sizes DEF WaitFor
  <2>7. Cardinality(sq) + Cardinality(OpsOf(c)) > SqEntries
    OBVIOUS
  <2> HIDE DEF c
  <2> QED
    BY <2>1, <2>5, <2>6, <2>7, Sizes
<1>4. WaitInv'
  BY BatchAssumption DEF WaitInv, WaitFor, Fixed, Pending, TypeInv, QueueInv
<1>5. PlaceInv'
  BY BatchAssumption DEF PlaceInv, Frontier, Pending, InChunk, Span, Extent, TypeInv
<1>6. LogInv'
  BY BatchAssumption DEF LogInv, Pending, Errors, InBatch, InChunk, Span, Extent, TypeInv
<1>7. SafeInv'
  BY BatchAssumption DEF SafeInv, Pending, TypeInv
<1> QED
  BY <1>1, <1>2, <1>3, <1>4, <1>5, <1>6, <1>7

(* The kernel takes the submission queue.                                  *)
LEMMA SubmitStep ==
  ASSUME IInv, Submit
  PROVE  IInv'
<1> USE DEF IInv, Submit
<1>1. TypeInv'
  <2>1. Pending' = Pending
    BY DEF Pending
  <2>2. IsFiniteSet(inflight') /\ IsFiniteSet(sq') /\ Cardinality(sq') = 0
    BY FS_Union, FS_EmptySet DEF TypeInv
  <2> QED
    BY <2>1, <2>2, Sizes DEF TypeInv, ChunkLen, SqEntries, Fixed, InBatch, InChunk, OpOK
<1>2. StartInv'
  BY BatchAssumption DEF StartInv
<1>3. QueueInv'
  BY BatchAssumption DEF QueueInv
<1>4. WaitInv'
  <2> SUFFICES ASSUME harm \cap {"interrupt", "partial", "reuse"} = {}
               PROVE  WaitInv'
    BY DEF WaitInv
  <2>1. inflight' = sq /\ cq' = <<>> /\ Len(cq') = 0 /\ Cardinality(sq) = WaitFor(chunk)
    BY DEF WaitInv
  <2>2. Cardinality(sq) \in Nat
    BY FS_CardinalityType DEF TypeInv
  <2>3. WaitFor(chunk)' = WaitFor(chunk) /\ Pending' = Pending
    BY DEF WaitFor, Fixed, Pending
  <2>4. Cardinality(inflight') + Len(cq') = WaitFor(chunk)
    BY ONLY <2>1, <2>2
  <2> QED
    BY <2>3, <2>4 DEF WaitInv
<1>5. PlaceInv'
  BY BatchAssumption DEF PlaceInv, Frontier, Pending, InChunk, Span, Extent, TypeInv
<1>6. LogInv'
  BY BatchAssumption DEF LogInv, Pending, Errors, InBatch, InChunk, Span, Extent, TypeInv
<1>7. SafeInv'
  BY BatchAssumption DEF SafeInv, Pending, TypeInv
<1> QED
  BY <1>1, <1>2, <1>3, <1>4, <1>5, <1>6, <1>7

(* The kernel takes a part of the queue, and write_batch does not notice.  *)
LEMMA SubmitPartStep ==
  ASSUME IInv, SubmitPart
  PROVE  IInv'
<1> USE DEF IInv, SubmitPart
<1>0. PICK taken \in SUBSET sq : inflight' = inflight \cup taken /\ sq' = sq \ taken
  OBVIOUS
<1>a. Pending' = Pending /\ pc' = "drain" /\ harm' = harm \cup {"partial"}
  BY <1>0 DEF Pending
<1>1. TypeInv'
  <2>1. IsFiniteSet(sq) /\ IsFiniteSet(inflight) /\ Cardinality(sq) <= SqEntries
        /\ IsFiniteSet(taken)
    BY <1>0, FS_Subset DEF TypeInv
  <2>2. IsFiniteSet(inflight') /\ IsFiniteSet(sq') /\ Cardinality(sq') <= Cardinality(sq)
    <3>1. sq' \in SUBSET sq
      BY <1>0
    <3> QED
      BY <1>0, <2>1, <3>1, FS_Union, FS_Subset
  <2>3. Cardinality(sq) \in Nat /\ Cardinality(sq') \in Nat /\ SqEntries \in Nat
    BY <2>1, <2>2, FS_CardinalityType, Sizes
  <2>4. Cardinality(sq') <= SqEntries
    BY ONLY <2>1, <2>2, <2>3
  <2>5. SqEntries' = SqEntries /\ ChunkLen' = ChunkLen
    BY DEF SqEntries, ChunkLen, Fixed
  <2> QED
    BY <1>a, <2>2, <2>4, <2>5 DEF TypeInv, InBatch, InChunk, OpOK
<1>2. StartInv' /\ QueueInv'
  BY <1>a DEF StartInv, QueueInv
<1>3. WaitInv' /\ LogInv'
  BY <1>a DEF WaitInv, LogInv
<1>4. PlaceInv'
  BY <1>0, <1>a DEF PlaceInv, Frontier, InChunk, Span, Extent
<1>5. SafeInv'
  BY <1>a DEF SafeInv
<1> QED
  BY <1>1, <1>2, <1>3, <1>4, <1>5

(* submit_and_wait fails before anything is taken.                         *)
LEMMA SubmitFailsStep ==
  ASSUME IInv, SubmitFails
  PROVE  IInv'
<1> USE DEF IInv, SubmitFails, ReturnErr
<1>1. TypeInv'
  BY BatchAssumption DEF TypeInv, ChunkLen, SqEntries, Fixed, InBatch, InChunk, Pending, OpOK
<1>2. StartInv'
  BY BatchAssumption DEF StartInv
<1>3. QueueInv'
  BY BatchAssumption DEF QueueInv
<1>4. WaitInv'
  BY BatchAssumption DEF WaitInv, WaitFor, Fixed, Pending, TypeInv, QueueInv
<1>5. PlaceInv'
  BY BatchAssumption DEF PlaceInv, Frontier, Pending, InChunk, Span, Extent, TypeInv
<1>6. LogInv'
  BY BatchAssumption DEF LogInv, Pending, Errors, InBatch, InChunk, Span, Extent, TypeInv
<1>7. SafeInv'
  BY BatchAssumption DEF SafeInv, Pending, TypeInv
<1> QED
  BY <1>1, <1>2, <1>3, <1>4, <1>5, <1>6, <1>7

(* submit_and_wait returns with a result for every operation: none is in flight. *)
LEMMA WaitStep ==
  ASSUME IInv, Wait
  PROVE  IInv'
<1> USE DEF IInv, Wait
<1>1. TypeInv'
  BY BatchAssumption DEF TypeInv, ChunkLen, SqEntries, Fixed, InBatch, InChunk, Pending, OpOK
<1>2. StartInv'
  BY BatchAssumption DEF StartInv
<1>3. QueueInv'
  BY BatchAssumption DEF QueueInv
<1>4. WaitInv'
  <2> SUFFICES ASSUME harm \cap {"interrupt", "partial", "reuse"} = {}
               PROVE  WaitInv'
    BY DEF WaitInv
  <2>1. IsFiniteSet(inflight) /\ Cardinality(inflight) \in Nat /\ Len(cq) \in Nat
    BY FS_CardinalityType DEF TypeInv
  <2>2. Cardinality(inflight) + Len(cq) = WaitFor(chunk) /\ Len(cq) >= WaitFor(chunk)
    BY DEF WaitInv, Enough
  <2>3. Cardinality(inflight) = 0
    BY ONLY <2>1, <2>2
  <2>4. inflight = {}
    BY <2>1, <2>3, FS_EmptySet
  <2> QED
    BY <2>4 DEF WaitInv, Pending
<1>5. PlaceInv'
  BY BatchAssumption DEF PlaceInv, Frontier, Pending, InChunk, Span, Extent, TypeInv
<1>6. LogInv'
  BY BatchAssumption DEF LogInv, Pending, Errors, InBatch, InChunk, Span, Extent, TypeInv
<1>7. SafeInv'
  BY BatchAssumption DEF SafeInv, Pending, TypeInv
<1> QED
  BY <1>1, <1>2, <1>3, <1>4, <1>5, <1>6, <1>7

(* A signal ends the wait.                                                 *)
LEMMA InterruptedStep ==
  ASSUME IInv, Interrupted
  PROVE  IInv'
<1> USE DEF IInv, Interrupted
<1>1. TypeInv'
  BY BatchAssumption DEF TypeInv, ChunkLen, SqEntries, Fixed, InBatch, InChunk, Pending, OpOK
<1>2. StartInv'
  BY BatchAssumption DEF StartInv
<1>3. QueueInv'
  BY BatchAssumption DEF QueueInv
<1>4. WaitInv'
  BY BatchAssumption DEF WaitInv, WaitFor, Fixed, Pending, TypeInv, QueueInv
<1>5. PlaceInv'
  BY BatchAssumption DEF PlaceInv, Frontier, Pending, InChunk, Span, Extent, TypeInv
<1>6. LogInv'
  BY BatchAssumption DEF LogInv, Pending, Errors, InBatch, InChunk, Span, Extent, TypeInv
<1>7. SafeInv'
  BY BatchAssumption DEF SafeInv, Pending, TypeInv
<1> QED
  BY <1>1, <1>2, <1>3, <1>4, <1>5, <1>6, <1>7

(* All results are good: the chunk is done and the offset moves behind it. *)
LEMMA DrainOkStep ==
  ASSUME IInv, DrainOk
  PROVE  IInv'
<1> USE DEF IInv, DrainOk
<1>0. /\ offset \in Nat /\ rest \in Seq(Pos) /\ Len(rest) \in Nat /\ safe \in Nat
      /\ offset + Len(rest) <= next - 1 /\ next \in Nat
      /\ chunk = First(rest, ChunkLen) /\ chunk # <<>>
  BY BatchAssumption DEF TypeInv, ChunkLen, SqEntries, Fixed, InBatch, InChunk
<1>a. /\ Len(chunk) \in Nat \ {0} /\ Len(chunk) <= Len(rest)
      /\ \A i \in 1 .. Len(chunk) : chunk[i] = rest[i]
  <2>1. /\ chunk \in Seq(Pos) /\ Len(chunk) = IF Len(rest) < ChunkLen THEN Len(rest) ELSE ChunkLen
        /\ \A i \in 1 .. Len(chunk) : chunk[i] = rest[i]
    BY <1>0, FirstAfter, Sizes
  <2> QED
    BY <1>0, <2>1, Sizes, EmptySeq
<1>b. /\ rest' \in Seq(Pos) /\ Len(rest') = Len(rest) - Len(chunk)
      /\ \A i \in 1 .. Len(rest) - Len(chunk) : rest'[i] = rest[Len(chunk) + i]
  BY <1>0, <1>a, FirstAfter, ZenonT(40)
<1>c. /\ offset' = offset + Len(chunk) /\ offset' \in Nat
      /\ offset' + Len(rest') = offset + Len(rest)
  <2>1. offset' = offset + Len(chunk)
    BY DEF Advance
  <2> QED
    BY ONLY <1>0, <1>a, <1>b, <2>1
<1>1. TypeInv'
  <2>1. offset' <= next - 1 /\ offset' + Len(rest') <= next - 1
    BY <1>0, <1>a, <1>b, <1>c
  <2>2. cq' \in Seq({"ok", "error"})
    OBVIOUS
  <2> QED
    BY <1>b, <1>c, <2>1, <2>2 DEF TypeInv, ChunkLen, SqEntries, Fixed, InChunk, Pending, OpOK
<1>2. StartInv'
  BY BatchAssumption DEF StartInv
<1>3. QueueInv'
  BY BatchAssumption DEF QueueInv
<1>4. WaitInv'
  BY BatchAssumption DEF WaitInv, WaitFor, Fixed, Pending, TypeInv, QueueInv
<1>5. PlaceInv'
  <2>1. Frontier' = Frontier
    BY <1>c DEF Frontier, InChunk
  <2> QED
    BY <2>1 DEF PlaceInv, Pending, Span, Extent
<1>6. LogInv'
  <2> SUFFICES ASSUME harm = {}
               PROVE  LogInv'
    BY DEF LogInv
  <2>1. Pending' = {} /\ inflight = {}
    BY DEF WaitInv, QueueInv, Pending
  <2>2. /\ Len(acked) \in Nat /\ Len(acked) <= offset /\ offset + Len(rest) = next - 1
        /\ \A i \in 1 .. Len(rest) : rest[i] = offset + i
        /\ \A p \in 1 .. offset : file[p] = p
    BY DEF LogInv, InBatch, InChunk, TypeInv
  <2>3. \A p \in offset + 1 .. offset + Len(chunk) : file[p] = p
    BY <2>1 DEF LogInv
  <2>4. ASSUME NEW p \in 1 .. offset'
        PROVE  file[p] = p
    <3>1. p \in 1 .. offset \/ p \in offset + 1 .. offset + Len(chunk)
      BY <1>0, <1>a, <1>c
    <3> QED
      BY <2>2, <2>3, <3>1
  <2>5. ASSUME NEW i \in 1 .. Len(rest')
        PROVE  rest'[i] = offset' + i
    <3>1. i \in 1 .. Len(rest) - Len(chunk) /\ Len(chunk) + i \in 1 .. Len(rest)
      BY <1>0, <1>a, <1>b
    <3>2. rest'[i] = offset + (Len(chunk) + i)
      BY <1>b, <2>2, <3>1
    <3> QED
      BY <1>0, <1>a, <1>c, <3>1, <3>2
  <2>6. Len(acked) <= offset' /\ offset' + Len(rest') = next - 1
    <3>1. Len(acked) \in Nat /\ Len(acked) <= offset
      BY <2>2
    <3>2. offset' + Len(rest') = next - 1
      BY <1>c, <2>2
    <3>3. Len(acked) <= offset + Len(chunk)
      BY ONLY <1>0, <1>a, <3>1
    <3> QED
      BY <1>c, <3>2, <3>3
  <2> QED
    BY <2>1, <2>4, <2>5, <2>6 DEF LogInv, InBatch, InChunk
<1>7. SafeInv'
  <2>1. safe <= offset => safe <= offset'
    BY <1>0, <1>a, <1>c
  <2> QED
    BY <2>1 DEF SafeInv, Pending
<1> QED
  BY <1>1, <1>2, <1>3, <1>4, <1>5, <1>6, <1>7

(* An operation failed: what was reaped is gone, write_batch ends with an Err. *)
LEMMA DrainErrStep ==
  ASSUME IInv, DrainErr
  PROVE  IInv'
<1> USE DEF IInv, DrainErr, ReturnErr
<1>1. TypeInv'
  <2>1. PICK e \in Errors : cq' = After(cq, e)
    OBVIOUS
  <2>2. e \in Nat /\ e <= Len(cq) /\ cq \in Seq({"ok", "error"})
    BY DEF Errors, TypeInv
  <2>3. cq' \in Seq({"ok", "error"})
    BY <2>1, <2>2, FirstAfter
  <2> QED
    BY <2>3 DEF TypeInv, ChunkLen, SqEntries, Fixed, InBatch, InChunk, Pending, OpOK
<1>2. StartInv'
  BY BatchAssumption DEF StartInv
<1>3. QueueInv'
  BY BatchAssumption DEF QueueInv
<1>4. WaitInv'
  BY BatchAssumption DEF WaitInv, WaitFor, Fixed, Pending, TypeInv, QueueInv
<1>5. PlaceInv'
  BY BatchAssumption DEF PlaceInv, Frontier, Pending, InChunk, Span, Extent, TypeInv
<1>6. LogInv'
  BY BatchAssumption DEF LogInv, Pending, Errors, InBatch, InChunk, Span, Extent, TypeInv
<1>7. SafeInv'
  BY BatchAssumption DEF SafeInv, Pending, TypeInv
<1> QED
  BY <1>1, <1>2, <1>3, <1>4, <1>5, <1>6, <1>7

(* write_batch returns Ok: its whole batch is in the file.                 *)
LEMMA ReturnOkStep ==
  ASSUME IInv, ReturnOk
  PROVE  IInv'
<1> USE DEF IInv, ReturnOk
<1>0. /\ acked \in Seq(Pos) /\ call \in Seq(Pos) /\ Len(acked) \in Nat /\ Len(call) \in Nat
      /\ safe \in Nat /\ synced \in Nat /\ safe <= Len(acked) /\ synced <= Len(acked)
      /\ offset \in Nat /\ Len(rest) = 0 /\ next \in Nat
  BY BatchAssumption DEF TypeInv
<1>a. /\ acked' \in Seq(Pos) /\ Len(acked') = Len(acked) + Len(call)
      /\ \A i \in 1 .. Len(acked) + Len(call) :
           acked'[i] = IF i <= Len(acked) THEN acked[i] ELSE call[i - Len(acked)]
  BY <1>0, ConcatProperties
<1>b. harm = {} => /\ Len(acked') = offset /\ offset = next - 1
                   /\ \A i \in 1 .. offset : acked'[i] = i /\ file[i] = i
  <2> SUFFICES ASSUME harm = {}
               PROVE  /\ Len(acked') = offset /\ offset = next - 1
                      /\ \A i \in 1 .. offset : acked'[i] = i /\ file[i] = i
    OBVIOUS
  <2>1. /\ Len(acked) + Len(call) = next - 1 /\ offset + Len(rest) = next - 1
        /\ \A i \in 1 .. Len(call) : call[i] = Len(acked) + i
        /\ \A p \in 1 .. offset : file[p] = p
        /\ \A i \in 1 .. Len(acked) : acked[i] = i
    BY DEF LogInv, InBatch
  <2>2. Len(acked') = offset /\ offset = next - 1
    <3>1. Len(rest) = 0 /\ offset \in Nat /\ Len(acked') = Len(acked) + Len(call)
      BY <1>0, <1>a
    <3>2. Len(acked) + Len(call) = next - 1 /\ offset + Len(rest) = next - 1
      BY <2>1
    <3> QED
      BY ONLY <3>1, <3>2
  <2>3. ASSUME NEW i \in 1 .. offset
        PROVE  acked'[i] = i
    <3>1. i \in 1 .. Len(acked) + Len(call) /\ i \in Int
      BY <1>a, <2>2
    <3>2. CASE i <= Len(acked)
      BY <1>0, <1>a, <2>1, <3>1, <3>2
    <3>3. CASE ~(i <= Len(acked))
      <4>1. i - Len(acked) \in 1 .. Len(call) /\ Len(acked) + (i - Len(acked)) = i
        BY <1>0, <3>1, <3>3
      <4> QED
        BY <1>a, <2>1, <3>1, <3>3, <4>1
    <3> QED
      BY <3>2, <3>3
  <2> QED
    BY <2>1, <2>2, <2>3
<1>1. TypeInv'
  <2>1. synced' \in 0 .. Len(acked') /\ safe' \in 0 .. Len(acked')
    BY <1>0, <1>a
  <2> QED
    BY <1>a, <2>1 DEF TypeInv, ChunkLen, SqEntries, Fixed, InBatch, InChunk, Pending, OpOK
<1>2. StartInv'
  BY BatchAssumption DEF StartInv
<1>3. QueueInv'
  BY BatchAssumption DEF QueueInv
<1>4. WaitInv'
  BY BatchAssumption DEF WaitInv, WaitFor, Fixed, Pending, TypeInv, QueueInv
<1>5. PlaceInv'
  BY BatchAssumption DEF PlaceInv, Frontier, Pending, InChunk, Span, Extent, TypeInv
<1>6. LogInv'
  <2> SUFFICES ASSUME harm = {}
               PROVE  LogInv'
    BY DEF LogInv
  <2> QED
    BY <1>b DEF LogInv, Pending, Span, Extent, InBatch, InChunk, Errors
<1>7. SafeInv'
  <2>1. \A i \in 1 .. Len(acked) : acked'[i] = acked[i]
    BY <1>0, <1>a
  <2>2. CASE failed
    <3>1. safe' = safe /\ failed'
      BY <2>2
    <3>2. \A i \in 1 .. safe : acked'[i] = acked[i]
      BY <1>0, <2>1
    <3>3. \A i \in 1 .. synced : i <= safe => acked'[i] = acked[i]
      BY <1>0, <2>1
    <3>4. Pending' = Pending /\ pc # "closed"
      BY DEF Pending
    <3> QED
      BY <2>2, <3>1, <3>2, <3>3, <3>4 DEF SafeInv
  <2>3. CASE ~failed
    <3>1. safe' = Len(acked') /\ "reuse" \notin harm
      BY <2>3 DEF SafeInv
    <3> SUFFICES ASSUME harm = {}
                 PROVE  SafeInv'
      BY <2>3, <3>1 DEF SafeInv
    <3>2. Pending' = {}
      BY DEF WaitInv, QueueInv, Pending
    <3>3. \A i \in 1 .. synced : disk[i] = i
      BY DEF LogInv
    <3>4. \A i \in 1 .. synced : i <= safe' => disk[i] = acked'[i]
      BY <1>0, <1>a, <1>b, <3>1, <3>3
    <3> QED
      BY <1>0, <1>b, <2>3, <3>1, <3>2, <3>4 DEF SafeInv
  <2> QED
    BY <2>2, <2>3
<1> QED
  BY <1>1, <1>2, <1>3, <1>4, <1>5, <1>6, <1>7

(* An operation completes: its positions are its own, and as long as its   *)
(* buffer was still there they hold its records now.                       *)
LEMMA CompleteStep ==
  ASSUME IInv, NEW op \in inflight, Complete(op)
  PROVE  IInv'
<1> USE DEF IInv, Complete
<1>0. OpOK(op) /\ op \in Pending /\ Pending' \subseteq Pending
  BY DEF Pending, TypeInv
<1>a. /\ IsFiniteSet(inflight') /\ Cardinality(inflight) \in Nat
      /\ Cardinality(inflight') = Cardinality(inflight) - 1
  BY FS_RemoveElement, FS_CardinalityType DEF TypeInv
<1>b. /\ cq' \in Seq({"ok", "error"}) /\ Len(cq') = Len(cq) + 1 /\ Len(cq) \in Nat
      /\ \A i \in 1 .. Len(cq) : cq'[i] = cq[i]
      /\ cq'[Len(cq) + 1] = "ok"
  BY AppendProperties DEF TypeInv
<1>c. harm \cap {"interrupt", "partial", "reuse"} = {} => pc = "wait" /\ op.gen = gen
  BY <1>0 DEF WaitInv, QueueInv, TypeInv
<1>d. /\ file' \in [Pos -> Cell]
      /\ \A p \in Pos : p \notin Span(op) => file'[p] = file[p]
  <2>1. Len(op.msgs) \in Nat
    BY <1>0, SpanFacts
  <2>2. Len(op.msgs) \in 0 .. Len(op.msgs)
    BY <2>1
  <2> QED
    BY <1>0, <2>2, WrittenFacts
<1>1. TypeInv'
  <2>1. \A o \in Pending' : OpOK(o)'
    BY <1>0 DEF TypeInv, OpOK
  <2> QED
    BY <1>a, <1>b, <1>d, <2>1 DEF TypeInv, ChunkLen, SqEntries, Fixed, InBatch, InChunk
<1>2. StartInv'
  BY DEF StartInv, QueueInv
<1>3. QueueInv'
  BY BatchAssumption DEF QueueInv
<1>4. WaitInv'
  <2> SUFFICES ASSUME harm \cap {"interrupt", "partial", "reuse"} = {}
               PROVE  WaitInv'
    BY DEF WaitInv
  <2>1. Cardinality(inflight) + Len(cq) = WaitFor(chunk)
    BY <1>c DEF WaitInv
  <2>2. Cardinality(inflight') + Len(cq') = WaitFor(chunk)
    BY ONLY <1>a, <1>b, <2>1
  <2>3. WaitFor(chunk)' = WaitFor(chunk)
    BY DEF WaitFor, Fixed
  <2> QED
    BY <1>0, <1>c, <2>2, <2>3 DEF WaitInv
<1>5. PlaceInv'
  <2> SUFFICES ASSUME harm \cap {"reuse", "reopen"} = {}
               PROVE  PlaceInv'
    BY DEF PlaceInv
  <2>1. Frontier' = Frontier
    BY DEF Frontier, InChunk
  <2>2. ASSUME NEW o \in Pending', NEW p \in Span(o)
        PROVE  file'[p] = file[p]
    <3>1. o # op /\ o \in Pending /\ OpOK(o)
      BY <1>0 DEF PlaceInv, Pending, TypeInv
    <3>2. p \in Pos /\ p \notin Span(op)
      BY <1>0, <3>1, SpanFacts DEF PlaceInv
    <3> QED
      BY <1>d, <3>2
  <2>3. ASSUME NEW p \in Pos, p > Frontier
        PROVE  file'[p] = file[p]
    <3>1. \A q \in Span(op) : q <= Frontier /\ q \in Pos
      BY <1>0, SpanFacts DEF PlaceInv
    <3>2. Frontier \in Int
      BY LenProperties DEF Frontier, TypeInv
    <3>3. p \in Int
      BY BatchAssumption DEF Pos
    <3>4. p \notin Span(op)
      BY ONLY <2>3, <3>1, <3>2, <3>3
    <3> QED
      BY <1>d, <3>4
  <2>4. \A o \in Pending' : \A p \in Span(o) : file'[p] \notin Pos /\ p <= Frontier
    BY <1>0, <2>2 DEF PlaceInv
  <2>5. pc # "closed" => \A p \in Pos : p > Frontier => file'[p] = Hole
    BY <2>3 DEF PlaceInv
  <2>6. sq' \cap inflight' = {} /\ \A x, y \in Pending' : x # y => Span(x) \cap Span(y) = {}
    BY <1>0 DEF PlaceInv
  <2> QED
    BY <2>1, <2>4, <2>5, <2>6 DEF PlaceInv, Span, Extent
<1>6. LogInv'
  <2> SUFFICES ASSUME harm = {}
               PROVE  LogInv'
    BY DEF LogInv
  <2>1. pc = "wait"
    BY <1>c
  <2>2. \A p \in Span(op) : p \in Pos /\ file'[p] = p
    BY CompleteWrites
  <2>3. \A p \in Pos : file[p] = p => file'[p] = p
    BY <1>d, <2>2
  <2>4. \A i \in 1 .. Len(acked) : acked'[i] = i /\ file'[i] = i
    <3>1. \A i \in 1 .. Len(acked) : acked[i] \in Pos
      BY ElementOfSeq DEF TypeInv
    <3> QED
      BY <2>3, <3>1 DEF LogInv
  <2>5. \A p \in 1 .. offset : file'[p] = p
    <3>1. \A p \in 1 .. offset : p \in Pos
      BY BatchAssumption DEF TypeInv, Pos
    <3> QED
      BY <2>1, <2>3, <3>1 DEF LogInv, InBatch, InChunk
  <2>6. ASSUME Errors' = {}, NEW p \in offset + 1 .. offset + Len(chunk)
        PROVE  file'[p] = p \/ \E o \in inflight' : p \in Span(o)
    <3>1. Errors = {}
      BY <1>b, <2>6 DEF Errors
    <3>2. file[p] = p \/ \E o \in inflight : p \in Span(o)
      BY <2>1, <3>1 DEF LogInv
    <3>3. p \in Pos
      <4>1. offset \in Nat /\ Len(chunk) \in Nat /\ Len(chunk) <= Len(rest) /\ Len(rest) \in Nat
        <5>1. chunk = First(rest, ChunkLen) /\ rest \in Seq(Pos)
          BY <2>1 DEF TypeInv, ChunkLen, SqEntries, Fixed, InChunk
        <5>2. Len(chunk) = IF Len(rest) < ChunkLen THEN Len(rest) ELSE ChunkLen
          BY <5>1, FirstAfter, Sizes
        <5>3. Len(rest) \in Nat
          BY <5>1
        <5> QED
          BY <5>2, <5>3, Sizes DEF TypeInv
      <4>2. offset + Len(rest) <= MaxMsgs
        <5>1. offset + Len(rest) <= next - 1 /\ next \in Nat /\ next <= MaxMsgs + 1
          BY <2>1, BatchAssumption DEF TypeInv, ChunkLen, SqEntries, Fixed, InBatch, InChunk
        <5> QED
          BY <4>1, <5>1, BatchAssumption
      <4> QED
        BY <4>1, <4>2, BatchAssumption DEF Pos
    <3> QED
      BY <2>2, <2>3, <3>2, <3>3
  <2>7. pc' = "wait" /\ Pending' \subseteq Pending
    BY <1>0, <2>1
  <2> QED
    BY <2>1, <2>4, <2>5, <2>6, <2>7 DEF LogInv, InBatch, InChunk, Span, Extent
<1>7. SafeInv'
  <2> SUFFICES ASSUME harm \subseteq {"reuse"}, pc # "closed"
               PROVE  \A i \in 1 .. safe : file'[i] = file[i]
    BY <1>0 DEF SafeInv, QueueInv
  <2> SUFFICES ASSUME NEW i \in 1 .. safe
               PROVE  file'[i] = file[i]
    OBVIOUS
  <2>1. /\ safe \in Nat /\ safe <= offset /\ offset \in Nat /\ offset <= MaxMsgs
        /\ safe < op.pos /\ op.pos \in Nat
    <3>1. safe \in Nat /\ offset \in Nat /\ offset <= next - 1 /\ next \in 1 .. MaxMsgs + 1
      BY DEF TypeInv
    <3>2. offset <= MaxMsgs
      BY ONLY <3>1, BatchAssumption
    <3>3. safe <= offset /\ safe < op.pos
      BY <1>0 DEF SafeInv
    <3>4. op.pos \in Nat
      BY <1>0, BatchAssumption DEF OpOK, Pos
    <3> QED
      BY <3>1, <3>2, <3>3, <3>4
  <2>2. i \in Pos /\ i \notin op.pos .. op.pos + Len(op.msgs) - 1
    BY <2>1, BatchAssumption DEF Pos
  <2> QED
    BY <1>d, <2>2 DEF Span, Extent
<1> QED
  BY <1>1, <1>2, <1>3, <1>4, <1>5, <1>6, <1>7

(* An operation writes less than it was asked to.                          *)
LEMMA CompleteShortStep ==
  ASSUME IInv, NEW op \in inflight, CompleteShort(op)
  PROVE  IInv'
<1> USE DEF IInv, CompleteShort
<1>0. OpOK(op) /\ op \in Pending /\ Pending' \subseteq Pending
  BY DEF Pending, TypeInv
<1>a. /\ IsFiniteSet(inflight') /\ Cardinality(inflight) \in Nat
      /\ Cardinality(inflight') = Cardinality(inflight) - 1
  BY FS_RemoveElement, FS_CardinalityType DEF TypeInv
<1>b. /\ cq' \in Seq({"ok", "error"}) /\ Len(cq') = Len(cq) + 1 /\ Len(cq) \in Nat
      /\ \A i \in 1 .. Len(cq) : cq'[i] = cq[i]
      /\ cq'[Len(cq) + 1] = "ok"
  BY AppendProperties DEF TypeInv
<1>c. harm \cap {"interrupt", "partial", "reuse"} = {} => pc = "wait" /\ op.gen = gen
  BY <1>0 DEF WaitInv, QueueInv, TypeInv
<1>d. /\ file' \in [Pos -> Cell]
      /\ \A p \in Pos : p \notin Span(op) => file'[p] = file[p]
  <2>1. PICK n \in 0 .. Len(op.msgs) - 1 : file' = Written(op, n, TRUE)
    OBVIOUS
  <2>2. n \in 0 .. Len(op.msgs) /\ n < Len(op.msgs)
    BY <1>0, SpanFacts
  <2> QED
    BY <1>0, <2>1, <2>2, WrittenFacts
<1>1. TypeInv'
  <2>1. \A o \in Pending' : OpOK(o)'
    BY <1>0 DEF TypeInv, OpOK
  <2> QED
    BY <1>a, <1>b, <1>d, <2>1 DEF TypeInv, ChunkLen, SqEntries, Fixed, InBatch, InChunk
<1>2. StartInv'
  BY DEF StartInv, QueueInv
<1>3. QueueInv'
  BY BatchAssumption DEF QueueInv
<1>4. WaitInv'
  <2> SUFFICES ASSUME harm \cap {"interrupt", "partial", "reuse"} = {}
               PROVE  WaitInv'
    BY DEF WaitInv
  <2>1. Cardinality(inflight) + Len(cq) = WaitFor(chunk)
    BY <1>c DEF WaitInv
  <2>2. Cardinality(inflight') + Len(cq') = WaitFor(chunk)
    BY ONLY <1>a, <1>b, <2>1
  <2>3. WaitFor(chunk)' = WaitFor(chunk)
    BY DEF WaitFor, Fixed
  <2> QED
    BY <1>0, <1>c, <2>2, <2>3 DEF WaitInv
<1>5. PlaceInv'
  <2> SUFFICES ASSUME harm \cap {"reuse", "reopen"} = {}
               PROVE  PlaceInv'
    BY DEF PlaceInv
  <2>1. Frontier' = Frontier
    BY DEF Frontier, InChunk
  <2>2. ASSUME NEW o \in Pending', NEW p \in Span(o)
        PROVE  file'[p] = file[p]
    <3>1. o # op /\ o \in Pending /\ OpOK(o)
      BY <1>0 DEF PlaceInv, Pending, TypeInv
    <3>2. p \in Pos /\ p \notin Span(op)
      BY <1>0, <3>1, SpanFacts DEF PlaceInv
    <3> QED
      BY <1>d, <3>2
  <2>3. ASSUME NEW p \in Pos, p > Frontier
        PROVE  file'[p] = file[p]
    <3>1. \A q \in Span(op) : q <= Frontier /\ q \in Pos
      BY <1>0, SpanFacts DEF PlaceInv
    <3>2. Frontier \in Int
      BY LenProperties DEF Frontier, TypeInv
    <3>3. p \in Int
      BY BatchAssumption DEF Pos
    <3>4. p \notin Span(op)
      BY ONLY <2>3, <3>1, <3>2, <3>3
    <3> QED
      BY <1>d, <3>4
  <2>4. \A o \in Pending' : \A p \in Span(o) : file'[p] \notin Pos /\ p <= Frontier
    BY <1>0, <2>2 DEF PlaceInv
  <2>5. pc # "closed" => \A p \in Pos : p > Frontier => file'[p] = Hole
    BY <2>3 DEF PlaceInv
  <2>6. sq' \cap inflight' = {} /\ \A x, y \in Pending' : x # y => Span(x) \cap Span(y) = {}
    BY <1>0 DEF PlaceInv
  <2> QED
    BY <2>1, <2>4, <2>5, <2>6 DEF PlaceInv, Span, Extent
<1>6. LogInv'
  BY BatchAssumption DEF LogInv, Pending, Errors, InBatch, InChunk, Span, Extent, TypeInv
<1>7. SafeInv'
  BY BatchAssumption DEF SafeInv, Pending, TypeInv
<1> QED
  BY <1>1, <1>2, <1>3, <1>4, <1>5, <1>6, <1>7

(* An operation fails: its result will be found by the drain loop.         *)
LEMMA CompleteErrorStep ==
  ASSUME IInv, NEW op \in inflight, CompleteError(op)
  PROVE  IInv'
<1> USE DEF IInv, CompleteError
<1>0. OpOK(op) /\ op \in Pending /\ Pending' \subseteq Pending
  BY DEF Pending, TypeInv
<1>a. /\ IsFiniteSet(inflight') /\ Cardinality(inflight) \in Nat
      /\ Cardinality(inflight') = Cardinality(inflight) - 1
  BY FS_RemoveElement, FS_CardinalityType DEF TypeInv
<1>b. /\ cq' \in Seq({"ok", "error"}) /\ Len(cq') = Len(cq) + 1 /\ Len(cq) \in Nat
      /\ \A i \in 1 .. Len(cq) : cq'[i] = cq[i]
      /\ cq'[Len(cq) + 1] = "error"
  BY AppendProperties DEF TypeInv
<1>c. harm \cap {"interrupt", "partial", "reuse"} = {} => pc = "wait" /\ op.gen = gen
  BY <1>0 DEF WaitInv, QueueInv, TypeInv
<1>d. file' \in [Pos -> Cell]
  BY DEF TypeInv
<1>1. TypeInv'
  <2>1. \A o \in Pending' : OpOK(o)'
    BY <1>0 DEF TypeInv, OpOK
  <2> QED
    BY <1>a, <1>b, <1>d, <2>1 DEF TypeInv, ChunkLen, SqEntries, Fixed, InBatch, InChunk
<1>2. StartInv'
  BY BatchAssumption DEF StartInv
<1>3. QueueInv'
  BY BatchAssumption DEF QueueInv
<1>4. WaitInv'
  <2> SUFFICES ASSUME harm \cap {"interrupt", "partial", "reuse"} = {}
               PROVE  WaitInv'
    BY DEF WaitInv
  <2>1. Cardinality(inflight) + Len(cq) = WaitFor(chunk)
    BY <1>c DEF WaitInv
  <2>2. Cardinality(inflight') + Len(cq') = WaitFor(chunk)
    BY ONLY <1>a, <1>b, <2>1
  <2>3. WaitFor(chunk)' = WaitFor(chunk)
    BY DEF WaitFor, Fixed
  <2> QED
    BY <1>0, <1>c, <2>2, <2>3 DEF WaitInv
<1>5. PlaceInv'
  BY BatchAssumption DEF PlaceInv, Frontier, Pending, InChunk, Span, Extent, TypeInv
<1>6. LogInv'
  <2> SUFFICES ASSUME harm = {}
               PROVE  LogInv'
    BY DEF LogInv
  <2>1. pc' = "wait"
    BY <1>c
  <2>2. Len(cq) + 1 \in Errors'
    BY <1>b DEF Errors
  <2> QED
    BY <1>0, <2>1, <2>2 DEF LogInv, InBatch, InChunk, Span, Extent
<1>7. SafeInv'
  BY BatchAssumption DEF SafeInv, Pending, TypeInv
<1> QED
  BY <1>1, <1>2, <1>3, <1>4, <1>5, <1>6, <1>7

(* A page is written back.                                                 *)
LEMMA WriteBackStep ==
  ASSUME IInv, NEW w \in Pos, WriteBack(w)
  PROVE  IInv'
<1> USE DEF IInv, WriteBack
<1>1. TypeInv'
  BY BatchAssumption DEF TypeInv, ChunkLen, SqEntries, Fixed, InBatch, InChunk, Pending, OpOK
<1>2. StartInv'
  BY BatchAssumption DEF StartInv
<1>3. QueueInv'
  BY BatchAssumption DEF QueueInv
<1>4. WaitInv'
  BY BatchAssumption DEF WaitInv, WaitFor, Fixed, Pending, TypeInv, QueueInv
<1>5. PlaceInv'
  BY BatchAssumption DEF PlaceInv, Frontier, Pending, InChunk, Span, Extent, TypeInv
<1>6. LogInv'
  <2> SUFFICES ASSUME harm = {}
               PROVE  LogInv'
    BY DEF LogInv
  <2>1. \A i \in 1 .. synced : i \in 1 .. Len(acked)
    BY DEF TypeInv
  <2>2. \A i \in 1 .. synced : disk'[i] = i
    BY <2>1 DEF LogInv, TypeInv
  <2> QED
    BY <2>2 DEF LogInv, Pending, Span, Extent, InBatch, InChunk, Errors
<1>7. SafeInv'
  BY BatchAssumption DEF SafeInv, Pending, TypeInv
<1> QED
  BY <1>1, <1>2, <1>3, <1>4, <1>5, <1>6, <1>7

(* Power is lost: the disk keeps what was synced.                          *)
LEMMA CrashStep ==
  ASSUME IInv, Crash
  PROVE  IInv'
<1> USE DEF IInv, Crash
<1>0. /\ synced \in Nat /\ safe \in Nat /\ Len(acked) \in Nat /\ synced <= Len(acked)
      /\ acked' \in Seq(Pos) /\ Len(acked') = synced /\ safe' <= synced /\ safe' \in Nat
      /\ \A i \in 1 .. synced : acked'[i] = acked[i]
  <2>1. synced \in Nat /\ safe \in Nat /\ Len(acked) \in Nat /\ synced <= Len(acked)
    BY DEF TypeInv
  <2>2. \A i \in 1 .. synced : acked[i] \in Pos
    BY <2>1, ElementOfSeq DEF TypeInv
  <2>3. /\ SubSeq(acked, 1, synced) \in Seq(Pos)
        /\ Len(SubSeq(acked, 1, synced)) = (IF 1 <= synced THEN synced - 1 + 1 ELSE 0)
        /\ \A i \in 1 .. synced - 1 + 1 : SubSeq(acked, 1, synced)[i] = acked[1 + i - 1]
    BY <2>1, <2>2, SubSeqProperties
  <2> QED
    BY <2>1, <2>3
<1>1. TypeInv'
  <2>1. SqEntries' = SqEntries /\ Pending' = {} /\ Cardinality({}) = 0 /\ IsFiniteSet({})
    BY FS_EmptySet DEF SqEntries, Fixed, Pending
  <2>2. synced' \in 0 .. Len(acked') /\ safe' \in 0 .. Len(acked')
    BY <1>0
  <2>3. IsFiniteSet(sq') /\ IsFiniteSet(inflight') /\ Cardinality(sq') <= SqEntries'
    BY <2>1, Sizes
  <2>4. /\ ~InBatch' /\ ~InChunk' /\ pc' = "closed" /\ acked' \in Seq(Pos)
        /\ cq' \in Seq({"ok", "error"}) /\ file' \in [Pos -> Cell]
    BY <1>0 DEF InBatch, InChunk, TypeInv
  <2>7. unsynced' \in BOOLEAN
    BY Zenon
  <2>5. UNCHANGED <<writer, disk, offset, rest, chunk, gen, call, next, opens, failed>>
    OBVIOUS
  <2>6. TypeInv
    OBVIOUS
  <2> QED
    BY ONLY <2>1, <2>2, <2>3, <2>4, <2>5, <2>6, <2>7 DEF TypeInv
<1>2. StartInv'
  <2> SUFFICES ASSUME opens = 0
               PROVE  StartInv'
    BY DEF StartInv
  <2>1. acked = <<>> /\ Len(acked) = 0
    BY DEF StartInv
  <2>2. acked' = <<>>
    BY <1>0, <2>1, EmptySeq
  <2> QED
    BY <2>2 DEF StartInv
<1>3. QueueInv'
  BY BatchAssumption DEF QueueInv
<1>4. WaitInv'
  BY BatchAssumption DEF WaitInv, WaitFor, Fixed, Pending, TypeInv, QueueInv
<1>5. PlaceInv'
  BY BatchAssumption DEF PlaceInv, Frontier, Pending, InChunk, Span, Extent, TypeInv
<1>6. LogInv'
  <2> SUFFICES ASSUME harm = {}
               PROVE  LogInv'
    BY DEF LogInv
  <2> QED
    BY <1>0 DEF LogInv, Pending, InBatch, InChunk
<1>7. SafeInv'
  <2>1. ~failed => safe' = synced
    BY <1>0 DEF SafeInv
  <2>2. \A i \in 1 .. safe' : i \in 1 .. synced /\ i <= safe
    BY <1>0
  <2> QED
    BY <1>0, <2>1, <2>2 DEF SafeInv, Pending
<1> QED
  BY <1>1, <1>2, <1>3, <1>4, <1>5, <1>6, <1>7

(* A new ring and an empty file satisfy the invariant.                     *)
LEMMA InitIInv == Init => IInv
<1> SUFFICES ASSUME Init
             PROVE  IInv
  OBVIOUS
<1> USE DEF Init
<1>1. TypeInv
  <2>1. Cardinality(sq) <= SqEntries /\ IsFiniteSet(sq) /\ IsFiniteSet(inflight)
    BY FS_EmptySet, Sizes
  <2>2. file \in [Pos -> Cell] /\ disk \in [Pos -> Cell]
    BY DEF Cell
  <2>3. rest \in Seq(Pos) /\ call \in Seq(Pos) /\ chunk \in Seq(Pos) /\ acked \in Seq(Pos)
        /\ cq \in Seq({"ok", "error"}) /\ Len(acked) = 0
    OBVIOUS
  <2>4. ~InBatch /\ ~InChunk /\ Pending = {}
    BY DEF InBatch, InChunk, Pending
  <2>5. next \in 1 .. MaxMsgs + 1 /\ synced \in 0 .. Len(acked) /\ safe \in 0 .. Len(acked)
    BY <2>3, BatchAssumption
  <2>6. gen \in Nat /\ opens \in Nat /\ offset \in Nat /\ offset <= next - 1
    OBVIOUS
  <2>7. writer \in Writers /\ pc = "closed" /\ failed \in BOOLEAN /\ unsynced \in BOOLEAN
    OBVIOUS
  <2> QED
    BY ONLY <2>1, <2>2, <2>3, <2>4, <2>5, <2>6, <2>7 DEF TypeInv
<1>2. StartInv /\ QueueInv
  BY DEF StartInv, QueueInv
<1>3. WaitInv /\ PlaceInv
  BY DEF WaitInv, PlaceInv, Pending
<1>4. LogInv /\ SafeInv
  BY DEF LogInv, SafeInv, Pending, InBatch, InChunk
<1> QED
  BY <1>1, <1>2, <1>3, <1>4 DEF IInv

(* So does every step of the writer, the caller and the kernel.            *)
LEMMA NextIInv == IInv /\ [Next]_vars => IInv'
<1> SUFFICES ASSUME IInv, [Next]_vars
             PROVE  IInv'
  OBVIOUS
<1>1. CASE Create \/ Sync \/ SyncFails \/ Reuse \/ DropWriter \/ Crash
  BY <1>1, CreateStep, SyncStep, SyncFailsStep, ReuseStep, DropStep, CrashStep
<1>2. ASSUME NEW n \in BatchSizes, CallWriteBatch(n)
      PROVE  IInv'
  BY <1>2, CallStep
<1>3. CASE WriterStep
  BY <1>3, BuildStep, FullStep, SubmitStep, SubmitPartStep, SubmitFailsStep, WaitStep, DrainOkStep, DrainErrStep,
     ReturnOkStep DEF WriterStep
<1>4. CASE Interrupted
  BY <1>4, InterruptedStep
<1>5. CASE KernelStep
  BY <1>5, CompleteStep, CompleteShortStep, CompleteErrorStep DEF KernelStep
<1>6. ASSUME NEW w \in Pos, WriteBack(w)
      PROVE  IInv'
  BY <1>6, WriteBackStep
<1>7. CASE UNCHANGED vars
  <2> USE <1>7 DEF IInv, vars
  <2>1. TypeInv' /\ StartInv' /\ QueueInv'
    BY DEF TypeInv, StartInv, QueueInv, ChunkLen, SqEntries, Fixed, InBatch, InChunk, Pending, OpOK
  <2>2. WaitInv' /\ PlaceInv'
    BY DEF WaitInv, WaitFor, Fixed, PlaceInv, Pending, Frontier, InChunk, Span, Extent
  <2>3. LogInv' /\ SafeInv'
    BY DEF LogInv, SafeInv, Pending, Errors, InBatch, InChunk, Span, Extent
  <2> QED
    BY <2>1, <2>2, <2>3
<1> QED
  BY <1>1, <1>2, <1>3, <1>4, <1>5, <1>6, <1>7 DEF Next

(* Every reachable state satisfies the invariant.                          *)
THEOREM Invariance == Spec => []IInv
<1> QED
  BY InitIInv, NextIInv, PTL DEF Spec

-----------------------------------------------------------------------------
(***************************************************************************)
(* What the invariant says about the code                                  *)
(***************************************************************************)

(* Every variable keeps its type: no chunk reaches beyond the messages     *)
(* that were passed, whatever the chunk length and the faults.             *)
THEOREM TypeCorrect == Spec => []TypeOK
<1>1. ASSUME IInv
      PROVE  TypeOK
  <2>1. TypeInv
    BY <1>1 DEF IInv
  <2>2. offset \in 0 .. MaxMsgs
    BY <2>1, BatchAssumption DEF TypeInv
  <2>3. ASSUME NEW op \in sq \cup inflight
        PROVE  op.pos \in Pos /\ op.pos + Len(op.msgs) - 1 \in Pos /\ op.gen <= gen
    <3>1. OpOK(op)
      BY <2>1 DEF TypeInv, Pending
    <3>2. op.pos \in Pos /\ Len(op.msgs) \in Nat \ {0}
      BY <3>1, SpanFacts DEF OpOK
    <3>3. op.pos + Len(op.msgs) - 1 <= MaxMsgs /\ op.gen <= gen
      BY <3>1 DEF OpOK
    <3> QED
      BY <3>2, <3>3, BatchAssumption DEF Pos
  <2> QED
    BY <2>1, <2>2, <2>3 DEF TypeInv, TypeOK
<1> QED
  BY <1>1, Invariance, PTL

(* What write_batch has acknowledged is in the file, in order and without  *)
(* a gap, whatever the order of the completions and whatever fails, as     *)
(* long as no write was short, no wait interrupted, no queue taken in      *)
(* part, no writer reused, no failed sync repeated and no log reopened.    *)
THEOREM AckedAreLogged == Spec => []AckedIsLogged
<1>1. IInv => AckedIsLogged
  BY DEF IInv, LogInv, AckedIsLogged, AckedAlwaysLogged
<1> QED
  BY <1>1, Invariance, PTL

(* A caller who goes on after an Err never loses what was acknowledged     *)
(* before the first one.                                                   *)
THEOREM ErrorsSpareOlder == Spec => []OlderAcksSafe
<1>1. IInv => OlderAcksSafe
  BY DEF IInv, SafeInv, OlderAcksSafe
<1> QED
  BY <1>1, Invariance, PTL

(* The SAFETY comments of both writers: as long as no wait is interrupted, *)
(* no queue taken in part and no writer used after an Err, the kernel      *)
(* never works on an operation whose buffer is gone, short writes and      *)
(* failed submissions included.                                            *)
THEOREM BuffersOutlive == Spec => []BuffersOutliveOps
<1>1. ASSUME IInv, harm \cap {"interrupt", "partial", "reuse"} = {}, NEW op \in inflight
      PROVE  BufferIntact(op)
  <2>1. op.gen = gen
    BY <1>1 DEF IInv, WaitInv, Pending
  <2>2. pc = "wait"
    BY <1>1 DEF IInv, WaitInv, QueueInv, TypeInv
  <2> QED
    BY <2>1, <2>2 DEF BufferIntact
<1>2. IInv => BuffersOutliveOps
  BY <1>1 DEF BuffersOutliveOps, BuffersAlwaysOutlive
<1> QED
  BY <1>2, Invariance, PTL

(* expect("ring submission full") never fires for a caller who gives up on *)
(* the first Err and a kernel that takes the whole queue: UringWriter has  *)
(* an entry for every message of a chunk, UringFixedWriter needs one entry *)
(* whatever cap_msgs is.                                                   *)
THEOREM PanicFree == Spec => []NeverPanics
<1>1. IInv => NeverPanics
  BY DEF IInv, QueueInv, NeverPanics
<1> QED
  BY <1>1, Invariance, PTL

(* One step of an appending writer changes no record that is in the file.  *)
LEMMA StepKeepsRecords ==
  ASSUME IInv, Next, harm \cap {"reuse", "reopen"} = {}
  PROVE  KeepsRecords
<1> SUFFICES ASSUME NEW p \in Pos, file[p] \in Pos, pc' # "closed"
             PROVE  file'[p] = file[p]
  BY DEF KeepsRecords, Pos
<1>1. CASE KernelStep
  <2>1. PICK op \in inflight : Complete(op) \/ CompleteShort(op) \/ CompleteError(op)
    BY <1>1 DEF KernelStep
  <2>2. op \in Pending /\ OpOK(op) /\ p \notin Span(op) /\ TypeInv
    BY DEF Pending, IInv, PlaceInv, TypeInv
  <2>3. CASE Complete(op)
    <3>1. Len(op.msgs) \in 0 .. Len(op.msgs)
      BY <2>2, SpanFacts
    <3> QED
      BY <2>2, <2>3, <3>1, WrittenFacts DEF Complete
  <2>4. CASE CompleteShort(op)
    <3>1. PICK n \in 0 .. Len(op.msgs) - 1 : file' = Written(op, n, TRUE)
      BY <2>4 DEF CompleteShort
    <3>2. n \in 0 .. Len(op.msgs) /\ n < Len(op.msgs)
      BY <2>2, SpanFacts
    <3> QED
      BY <2>2, <3>1, <3>2, WrittenFacts
  <2>5. CASE CompleteError(op)
    BY <2>5 DEF CompleteError
  <2> QED
    BY <2>1, <2>3, <2>4, <2>5
<1>2. CASE Create \/ Sync \/ SyncFails \/ Reuse \/ DropWriter \/ Crash
  BY <1>2 DEF Create, Sync, SyncFails, Reuse, DropWriter, Crash
<1>3. CASE \E n \in BatchSizes : CallWriteBatch(n)
  BY <1>3 DEF CallWriteBatch
<1>4. CASE WriterStep
  BY <1>4 DEF WriterStep, BuildChunk, SubmissionFull, Submit, SubmitPart, SubmitFails, Wait,
              DrainOk, DrainErr, ReturnOk
<1>5. CASE Interrupted \/ \E w \in Pos : WriteBack(w)
  BY <1>5 DEF Interrupted, WriteBack
<1> QED
  BY <1>1, <1>2, <1>3, <1>4, <1>5 DEF Next

(* "Append-only": in a log that is opened once, by a caller who gives up   *)
(* on the first Err, no call ever changes a record that is in the file,    *)
(* whatever fails and however the kernel orders the writes.                *)
THEOREM AppendsOnly == Spec => AppendOnly
<1> DEFINE A == harm \cap {"reuse", "reopen"} = {} => KeepsRecords
<1>1. IInv /\ [Next]_vars => [A]_vars
  BY StepKeepsRecords
<1> HIDE DEF A
<1>2. Spec => [][A]_vars
  BY <1>1, Invariance, PTL DEF Spec
<1> QED
  BY <1>2 DEF AppendOnly, A

-----------------------------------------------------------------------------
(*****************************************************************************)
(* The log that the writers implement                                        *)
(*****************************************************************************)

(* The records of a file up to the first hole.  Whole(f) is the set that   *)
(* LogOf chooses from: it has a greatest element, since a set of numbers   *)
(* that holds with a number all smaller ones is as long as its cardinality *)
(* says.                                                                   *)
Whole(f) == {n \in 0 .. MaxMsgs : \A p \in 1 .. n : f[p] \in 1 .. MaxMsgs}
Reach(f) == CHOOSE n \in Whole(f) : \A k \in Whole(f) : k <= n

(* There is a greatest whole prefix.                                       *)
LEMMA ReachExists ==
  ASSUME NEW f
  PROVE  Reach(f) \in Whole(f) /\ \A k \in Whole(f) : k <= Reach(f)
<1>1. /\ IsFiniteSet(Whole(f)) /\ Cardinality(Whole(f)) \in Nat /\ 0 \in Whole(f)
      /\ \A n \in Whole(f) : n \in 0 .. MaxMsgs
  <2>1. IsFiniteSet(0 .. MaxMsgs)
    BY BatchAssumption, FS_Interval
  <2>2. Whole(f) \subseteq 0 .. MaxMsgs /\ 0 \in Whole(f)
    BY BatchAssumption DEF Whole
  <2>3. IsFiniteSet(Whole(f))
    BY <2>1, <2>2, FS_Subset
  <2> QED
    BY <2>2, <2>3, FS_CardinalityType
<1>2. \A n \in Whole(f) : \A k \in 0 .. n : k \in Whole(f)
  BY BatchAssumption DEF Whole
<1>3. PICK c \in Nat : Cardinality(Whole(f)) = c
  BY <1>1
<1>4. c # 0
  BY <1>1, <1>3, FS_EmptySet
<1>5. CASE c - 1 \in Whole(f)
  <2>1. 0 .. c - 1 \subseteq Whole(f) /\ Cardinality(0 .. c - 1) = c
    <3>1. Cardinality(0 .. c - 1) = c
      BY <1>3, <1>4, FS_Interval
    <3> QED
      BY <1>2, <1>5, <3>1
  <2>2. 0 .. c - 1 = Whole(f)
    BY <1>1, <1>3, <2>1, FS_Subset
  <2>3. \A k \in Whole(f) : k <= c - 1
    BY <1>3, <2>2
  <2> QED
    BY <1>5, <2>3 DEF Reach
<1>6. CASE c - 1 \notin Whole(f)
  <2>1. \A n \in Whole(f) : n \in 0 .. c - 2
    <3> SUFFICES ASSUME NEW n \in Whole(f), n >= c - 1
                 PROVE  FALSE
      BY <1>1, <1>3, BatchAssumption
    <3>1. c - 1 \in 0 .. n
      BY <1>1, <1>3, <1>4, BatchAssumption
    <3> QED
      BY <1>2, <1>6, <3>1
  <2>2. IsFiniteSet(0 .. c - 2) /\ Cardinality(0 .. c - 2) = c - 1
    BY <1>3, <1>4, FS_Interval, SMTT(30)
  <2>3. Cardinality(Whole(f)) <= Cardinality(0 .. c - 2)
    <3>1. Whole(f) \in SUBSET (0 .. c - 2)
      BY <2>1
    <3> QED
      BY <2>2, <3>1, FS_Subset
  <2> QED
    BY <1>3, <2>2, <2>3
<1> QED
  BY <1>5, <1>6

(* The log of a file: its records up to the first hole.                    *)
LEMMA LogFacts ==
  ASSUME NEW f
  PROVE  /\ Reach(f) \in 0 .. MaxMsgs
         /\ LogOf(f) \in Seq(Nat) /\ Len(LogOf(f)) = Reach(f)
         /\ \A i \in 1 .. Reach(f) : LogOf(f)[i] = f[i] /\ f[i] \in Pos
         /\ \A n \in 0 .. MaxMsgs : (\A p \in 1 .. n : f[p] \in Pos) => n <= Reach(f)
<1>1. LogOf(f) = SubSeq(f, 1, Reach(f))
  BY DEF LogOf, Reach, Whole
<1>2. /\ Reach(f) \in 0 .. MaxMsgs /\ \A p \in 1 .. Reach(f) : f[p] \in Pos
      /\ \A n \in 0 .. MaxMsgs : (\A p \in 1 .. n : f[p] \in Pos) => n <= Reach(f)
  BY ReachExists DEF Whole, Pos
<1>3. Reach(f) \in Nat /\ \A p \in 1 .. Reach(f) : f[p] \in Nat
  BY <1>2, BatchAssumption DEF Pos
<1>4. /\ SubSeq(f, 1, Reach(f)) \in Seq(Nat)
      /\ Len(SubSeq(f, 1, Reach(f))) = IF 1 <= Reach(f) THEN Reach(f) - 1 + 1 ELSE 0
      /\ \A i \in 1 .. Reach(f) - 1 + 1 : SubSeq(f, 1, Reach(f))[i] = f[1 + i - 1]
  BY <1>3, SubSeqProperties
<1>5. Len(LogOf(f)) = Reach(f) /\ \A i \in 1 .. Reach(f) : LogOf(f)[i] = f[i]
  BY <1>1, <1>3, <1>4
<1> QED
  BY <1>1, <1>2, <1>4, <1>5

(* A file with more records has a longer log, with the same beginning.     *)
LEMMA LogGrows ==
  ASSUME NEW f, NEW g, \A p \in Pos : f[p] \in Pos => g[p] = f[p]
  PROVE  /\ Len(LogOf(f)) <= Len(LogOf(g))
         /\ LogOf(f) = SubSeq(LogOf(g), 1, Len(LogOf(f)))
<1>1. \A i \in 1 .. Reach(f) : i \in Pos /\ f[i] \in Pos /\ g[i] = f[i]
  BY LogFacts, BatchAssumption DEF Pos
<1>2. Reach(f) \in Nat /\ Reach(g) \in Nat /\ Reach(f) <= Reach(g)
  BY <1>1, LogFacts
<1>3. \A i \in 1 .. Reach(f) : i \in 1 .. Reach(g) /\ LogOf(g)[i] = LogOf(f)[i] /\ LogOf(g)[i] \in Nat
  <2>1. \A i \in 1 .. Reach(f) : i \in 1 .. Reach(g)
    BY <1>2
  <2> QED
    BY <1>1, <2>1, LogFacts, BatchAssumption DEF Pos
<1> DEFINE s == SubSeq(LogOf(g), 1, Reach(f))
<1>4. s \in Seq(Nat) /\ Len(s) = Reach(f) /\ \A i \in 1 .. Reach(f) : s[i] = LogOf(g)[i]
  <2>1. /\ s \in Seq(Nat) /\ Len(s) = (IF 1 <= Reach(f) THEN Reach(f) - 1 + 1 ELSE 0)
        /\ \A i \in 1 .. Reach(f) - 1 + 1 : s[i] = LogOf(g)[1 + i - 1]
    BY <1>2, <1>3, SubSeqProperties
  <2> HIDE DEF s
  <2> QED
    BY <1>2, <2>1
<1>5. LogOf(f) \in Seq(Nat) /\ Len(LogOf(f)) = Reach(f)
  BY LogFacts
<1> HIDE DEF s
<1>6. LogOf(f) = s
  BY <1>3, <1>4, <1>5, SeqEqual
<1> QED
  BY <1>2, <1>5, <1>6, LogFacts DEF s

(* Without any harm a record stands at its own position, on the disk only  *)
(* where it stands in the file.                                            *)
RecordInv ==
  harm = {} => \A p \in Pos : /\ file[p] \in {Hole, p} /\ disk[p] \in {Hole, p}
                              /\ disk[p] = p => file[p] = p

(* Nothing but a completion, a sync, a write-back and a power loss changes *)
(* a file or a disk that was not harmed.                                   *)
LEMMA UntouchedStep ==
  ASSUME IInv, harm = {},
         \/ Create \/ DropWriter \/ SyncFails \/ Reuse \/ (\E n \in BatchSizes : CallWriteBatch(n))
         \/ WriterStep \/ Interrupted \/ \E op \in inflight : CompleteError(op)
  PROVE  file' = file /\ disk' = disk /\ synced' = synced
<1>1. CASE DropWriter
  <2>1. inflight = {}
    BY <1>1 DEF DropWriter, IInv, WaitInv
  <2>2. file' = Executed({})
    BY <1>1, <2>1 DEF DropWriter
  <2>3. file \in [Pos -> Cell] /\ TypeInv
    BY DEF IInv, TypeInv
  <2>4. Executed({}) = file
    BY <2>3 DEF Executed
  <2> QED
    BY <1>1, <2>2, <2>4 DEF DropWriter
<1>2. CASE ~DropWriter
  BY <1>2 DEF Create, SyncFails, Reuse, CallWriteBatch, WriterStep, BuildChunk, SubmissionFull,
     Submit, SubmitPart, SubmitFails, Wait, DrainOk, DrainErr, ReturnOk, Interrupted, CompleteError
<1> QED
  BY <1>1, <1>2

(* Harm is never undone, and short writes do harm.                         *)
LEMMA HarmStays ==
  ASSUME [Next]_vars, harm' = {}
  PROVE  harm = {} /\ \A op \in inflight : ~CompleteShort(op)
BY DEF Next, vars, Create, Sync, SyncFails, Reuse, DropWriter, Crash, CallWriteBatch, WriterStep, BuildChunk,
   SubmissionFull, Submit, SubmitPart, SubmitFails, ReturnErr, Wait, DrainOk, DrainErr, ReturnOk, Interrupted,
   KernelStep, Complete, CompleteShort, CompleteError, WriteBack

(* RecordInv holds always.                                                 *)
LEMMA NextRecordInv == IInv /\ RecordInv /\ [Next]_vars => RecordInv'
<1> SUFFICES ASSUME IInv, RecordInv, [Next]_vars, harm' = {}
             PROVE  \A p \in Pos : /\ file'[p] \in {Hole, p} /\ disk'[p] \in {Hole, p}
                                   /\ disk'[p] = p => file'[p] = p
  BY DEF RecordInv
<1>1. harm = {} /\ \A op \in inflight : ~CompleteShort(op)
  BY HarmStays
<1>2. \A p \in Pos : /\ file[p] \in {Hole, p} /\ disk[p] \in {Hole, p}
                     /\ disk[p] = p => file[p] = p
  BY <1>1 DEF RecordInv
<1>3. ASSUME NEW op \in inflight, Complete(op)
      PROVE  \A p \in Pos : /\ file'[p] \in {Hole, p} /\ disk'[p] \in {Hole, p}
                            /\ disk'[p] = p => file'[p] = p
  <2>1. /\ \A p \in Span(op) : file'[p] = p
        /\ \A p \in Pos \ Span(op) : file'[p] = file[p]
    BY <1>1, <1>3, CompleteWrites
  <2>2. disk' = disk
    BY <1>3 DEF Complete
  <2> QED
    BY <1>2, <2>1, <2>2
<1>4. CASE Sync
  BY <1>2, <1>4 DEF Sync, Synced
<1>5. CASE Crash
  BY <1>2, <1>5 DEF Crash
<1>6. ASSUME NEW w \in Pos, WriteBack(w)
      PROVE  \A p \in Pos : /\ file'[p] \in {Hole, p} /\ disk'[p] \in {Hole, p}
                            /\ disk'[p] = p => file'[p] = p
  <2>1. disk \in [Pos -> Cell]
    BY DEF IInv, TypeInv
  <2> QED
    BY <1>2, <1>6, <2>1 DEF WriteBack
<1>7. CASE \/ Create \/ DropWriter \/ SyncFails \/ Reuse \/ (\E n \in BatchSizes : CallWriteBatch(n))
           \/ WriterStep \/ Interrupted \/ \E op \in inflight : CompleteError(op)
  <2>1. file' = file /\ disk' = disk
    BY <1>1, <1>7, UntouchedStep
  <2> QED
    BY <1>2, <2>1
<1>8. CASE UNCHANGED vars
  BY <1>2, <1>8 DEF vars
<1> QED
  BY <1>1, <1>3, <1>4, <1>5, <1>6, <1>7, <1>8 DEF Next, KernelStep

(* The invariant of the refinement.                                        *)
LEMMA LogInvariance == Spec => [](IInv /\ RecordInv)
<1>1. Init => RecordInv
  BY DEF Init, RecordInv
<1> QED
  BY <1>1, InitIInv, NextIInv, NextRecordInv, PTL DEF Spec

-----------------------------------------------------------------------------
(***************************************************************************)
(* The steps of the writers are steps of the abstract log                  *)
(***************************************************************************)

(* Records in their places are in the order of the calls.                  *)
LEMMA LogIncreases ==
  ASSUME NEW f, \A p \in Pos : f[p] \in Pos => f[p] = p
  PROVE  Log!Increasing(LogOf(f))
<1>1. \A i \in 1 .. Reach(f) : i \in Pos /\ LogOf(f)[i] = f[i] /\ f[i] \in Pos
  BY LogFacts, BatchAssumption DEF Pos
<1>2. \A i \in 1 .. Reach(f) : LogOf(f)[i] = i /\ i \in Nat
  BY <1>1, BatchAssumption DEF Pos
<1> QED
  BY <1>2, LogFacts DEF Log!Increasing

(* A completion adds records to the log, after all others, or leaves the   *)
(* log as it is while there is still a hole before them.                   *)
LEMMA CompleteWritesLog ==
  ASSUME IInv, RecordInv, RecordInv', harm = {}, harm' = {}, NEW op \in inflight, Complete(op)
  PROVE  Log!Write
<1>1. /\ \A p \in Span(op) : file[p] \notin Pos
      /\ \A p \in Pos \ Span(op) : file'[p] = file[p]
  BY CompleteWrites
<1>2. Log!IsPrefixOf(LogOf(file), LogOf(file'))
  BY <1>1, LogGrows DEF Log!IsPrefixOf
<1>3. Log!Increasing(LogOf(file'))
  <2>1. \A p \in Pos : file'[p] \in Pos => file'[p] = p
    BY DEF RecordInv, Hole, Pos
  <2> QED
    BY <2>1, LogIncreases
<1>4. LogOf(file') \in Seq(Nat)
  BY LogFacts
<1>5. disk' = disk /\ acked' = acked /\ synced' = synced
  BY DEF Complete
<1> QED
  BY <1>2, <1>3, <1>4, <1>5 DEF Log!Write

(* Ok acknowledges messages that are in the log.                           *)
LEMMA ReturnOkAcknowledges ==
  ASSUME IInv, harm = {}, ReturnOk
  PROVE  Log!Acknowledge
<1>1. IInv' /\ harm' = {} /\ pc' = "idle" /\ file' = file /\ disk' = disk /\ synced' = synced
  BY ReturnOkStep DEF ReturnOk
<1>2. /\ acked \in Seq(Pos) /\ acked' \in Seq(Pos) /\ Len(acked) \in Nat /\ Len(acked') \in Nat
      /\ \A i \in 1 .. Len(acked') : acked'[i] = i /\ file[i] = i
  <2>1. acked \in Seq(Pos) /\ acked' \in Seq(Pos)
    BY <1>1 DEF IInv, TypeInv
  <2>2. \A i \in 1 .. Len(acked') : acked'[i] = i /\ file'[i] = i
    BY <1>1 DEF IInv, LogInv
  <2> QED
    BY <1>1, <2>1, <2>2
<1>3. Len(acked) <= Len(acked') /\ acked = SubSeq(acked', 1, Len(acked))
  <2>1. Len(acked') = Len(acked) + Len(call) /\ Len(call) \in Nat
    BY ConcatProperties DEF ReturnOk, IInv, TypeInv
  <2>2. Len(acked) <= Len(acked')
    BY ONLY <1>2, <2>1
  <2>3. \A i \in 1 .. Len(acked) : acked'[i] = acked[i] /\ acked'[i] \in Pos
    <3>1. \A i \in 1 .. Len(acked) : acked[i] = i
      BY DEF IInv, LogInv
    <3>2. \A i \in 1 .. Len(acked) : i \in 1 .. Len(acked') /\ acked[i] \in Pos
      BY <1>2, <2>2, ElementOfSeq
    <3> QED
      BY <1>2, <3>1, <3>2
  <2> DEFINE s == SubSeq(acked', 1, Len(acked))
  <2>4. s \in Seq(Pos) /\ Len(s) = Len(acked) /\ \A i \in 1 .. Len(acked) : s[i] = acked'[i]
    <3>1. /\ s \in Seq(Pos) /\ Len(s) = (IF 1 <= Len(acked) THEN Len(acked) - 1 + 1 ELSE 0)
          /\ \A i \in 1 .. Len(acked) - 1 + 1 : s[i] = acked'[1 + i - 1]
      BY <1>2, <2>3, SubSeqProperties
    <3> HIDE DEF s
    <3> QED
      BY <1>2, <3>1
  <2> HIDE DEF s
  <2>5. acked = s
    BY <1>2, <2>3, <2>4, SeqEqual
  <2> QED
    BY <2>2, <2>5 DEF s
<1>4. Log!Increasing(acked')
  BY <1>2 DEF Log!Increasing
<1>5. Log!Elements(acked') \subseteq Log!Elements(LogOf(file))
  <2> SUFFICES ASSUME NEW i \in 1 .. Len(acked')
               PROVE  \E j \in 1 .. Len(LogOf(file)) : LogOf(file)[j] = acked'[i]
    BY DEF Log!Elements
  <2>1. \A p \in 1 .. Len(acked') : acked'[p] \in Pos /\ file[p] = acked'[p]
    BY <1>2, ElementOfSeq
  <2>2. Len(acked') \in 0 .. MaxMsgs
    <3>1. CASE Len(acked') = 0
      BY <3>1, BatchAssumption
    <3>2. CASE Len(acked') # 0
      <4>1. acked'[Len(acked')] = Len(acked') /\ acked'[Len(acked')] \in Pos
        BY <1>2, <2>1, <3>2
      <4> QED
        BY <4>1, BatchAssumption DEF Pos
    <3> QED
      BY <3>1, <3>2
  <2>3. Len(acked') <= Reach(file)
    BY <2>1, <2>2, LogFacts
  <2>4. i \in 1 .. Reach(file) /\ Reach(file) = Len(LogOf(file)) /\ LogOf(file)[i] = file[i]
    BY <1>2, <2>3, LogFacts
  <2> QED
    BY <2>1, <2>4
<1>6. acked' \in Seq(Nat)
  <2>1. Pos \subseteq Nat
    BY BatchAssumption DEF Pos
  <2> QED
    BY <1>2, <2>1, SeqMonotonic
<1> QED
  BY <1>1, <1>3, <1>4, <1>5, <1>6 DEF Log!Acknowledge, Log!IsPrefixOf

(* A page that is written back makes more of the log durable, or only      *)
(* something behind a hole.                                                *)
LEMMA WriteBackMakesDurable ==
  ASSUME IInv, RecordInv, RecordInv', harm = {}, harm' = {}, NEW w \in Pos, WriteBack(w)
  PROVE  Log!WriteBack \/ UNCHANGED Log!logVars
<1>1. disk \in [Pos -> Cell] /\ disk' = [disk EXCEPT ![w] = file[w]] /\ file' = file
      /\ acked' = acked /\ synced' = synced
  BY DEF IInv, TypeInv, WriteBack
<1>2. \A p \in Pos : disk[p] \in Pos => disk'[p] = disk[p]
  BY <1>1 DEF RecordInv, Hole, Pos
<1>3. \A p \in Pos : disk'[p] \in Pos => file[p] = disk'[p]
  BY <1>1 DEF RecordInv, Hole, Pos
<1>4. Len(LogOf(disk)) <= Len(LogOf(disk')) /\ Len(LogOf(disk')) <= Len(LogOf(file))
  BY <1>2, <1>3, LogGrows
<1>5. Len(LogOf(disk)) \in Nat /\ Len(LogOf(disk')) \in Nat /\ Len(LogOf(file)) \in Nat
  BY LogFacts
<1>6. CASE Len(LogOf(disk')) = Len(LogOf(disk))
  BY <1>1, <1>6 DEF Log!logVars
<1>7. CASE Len(LogOf(disk')) # Len(LogOf(disk))
  <2>1. Len(LogOf(disk')) \in Len(LogOf(disk)) + 1 .. Len(LogOf(file))
    BY ONLY <1>4, <1>5, <1>7
  <2> QED
    BY <1>1, <2>1 DEF Log!WriteBack
<1> QED
  BY <1>6, <1>7

(* The io_uring writers implement the log they promise, for every chunk    *)
(* length, every queue and every order of completions: until something of  *)
(* harm happens, every step adds to the log, acknowledges what is in it,   *)
(* makes it durable, loses its end that was not, or leaves it alone.       *)
THEOREM WritersImplementLog == Spec => ImplementsLog
<1>1. Init => Log!Init
  <2> SUFFICES ASSUME Init
               PROVE  Log!Init
    OBVIOUS
  <2>1. ASSUME NEW f, \A p \in Pos : f[p] = Hole
        PROVE  LogOf(f) = <<>> /\ Len(LogOf(f)) = 0
    <3>1. Reach(f) = 0
      <4> SUFFICES ASSUME Reach(f) # 0
                   PROVE  FALSE
        OBVIOUS
      <4>1. 1 \in 1 .. Reach(f) /\ 1 \in Pos
        BY LogFacts, BatchAssumption DEF Pos
      <4>2. f[1] \in Pos
        BY <4>1, LogFacts
      <4> QED
        BY <2>1, <4>1, <4>2 DEF Hole, Pos
    <3> QED
      BY <3>1, LogFacts, EmptySeq
  <2>2. (\A p \in Pos : file[p] = Hole) /\ (\A p \in Pos : disk[p] = Hole)
    BY DEF Init
  <2> QED
    BY <2>1, <2>2 DEF Init, Log!Init
<1>2. IInv /\ RecordInv /\ [Next]_vars => [harm' = {} => Log!Next \/ UNCHANGED Log!logVars]_vars
  <2> SUFFICES ASSUME IInv, RecordInv, Next, harm' = {}
               PROVE  Log!Next \/ UNCHANGED Log!logVars
    OBVIOUS
  <2>1. harm = {} /\ (\A op \in inflight : ~CompleteShort(op)) /\ RecordInv'
    BY HarmStays, NextRecordInv
  <2>2. ASSUME NEW op \in inflight, Complete(op)
        PROVE  Log!Next
    BY <2>1, <2>2, CompleteWritesLog DEF Log!Next
  <2>3. CASE ReturnOk
    BY <2>1, <2>3, ReturnOkAcknowledges DEF Log!Next
  <2>4. CASE Sync
    <3>1. disk' = file
      BY <2>1, <2>4 DEF Sync, Synced
    <3>2. Log!Sync
      BY <2>4, <3>1 DEF Sync, Log!Sync
    <3> QED
      BY <3>2 DEF Log!Next
  <2>5. CASE Crash
    <3>1. LogOf(disk) = SubSeq(LogOf(file), 1, Len(LogOf(disk)))
      <4>1. \A p \in Pos : disk[p] \in Pos => file[p] = disk[p]
        BY <2>1 DEF RecordInv, Hole, Pos
      <4> QED
        BY <4>1, LogGrows
    <3>2. /\ file' = disk /\ disk' = disk
          /\ acked' = SubSeq(acked, 1, synced) /\ synced' = synced
      BY <2>5 DEF Crash
    <3>3. LogOf(disk) \in Seq(Nat) /\ SubSeq(LogOf(disk), 1, Len(LogOf(disk))) = LogOf(disk)
      BY LogFacts, SubSeqFull
    <3>4. Log!IsPrefixOf(SubSeq(LogOf(file), 1, Len(LogOf(disk))), LogOf(disk))
      <4>1. Len(LogOf(disk)) <= Len(LogOf(disk))
        BY <3>3
      <4> QED
        BY <3>1, <3>3, <4>1 DEF Log!IsPrefixOf
    <3>5. Log!Increasing(LogOf(disk))
      <4>1. \A p \in Pos : disk[p] \in Pos => disk[p] = p
        BY <2>1 DEF RecordInv, Hole, Pos
      <4> QED
        BY <4>1, LogIncreases
    <3>6. Log!Elements(LogOf(disk)) \subseteq Log!Elements(LogOf(file))
      <4>1. \A p \in Pos : disk[p] \in Pos => file[p] = disk[p]
        BY <2>1 DEF RecordInv, Hole, Pos
      <4>2. Len(LogOf(disk)) <= Len(LogOf(file)) /\ Reach(disk) \in Nat /\ Reach(file) \in Nat
        BY <4>1, LogGrows, LogFacts
      <4>3. \A i \in 1 .. Len(LogOf(disk)) : i \in 1 .. Len(LogOf(file)) /\ i \in Pos
        BY <4>2, LogFacts, BatchAssumption DEF Pos
      <4>4. \A i \in 1 .. Len(LogOf(disk)) : LogOf(disk)[i] = LogOf(file)[i]
        BY <4>1, <4>3, LogFacts
      <4> QED
        BY <4>3, <4>4 DEF Log!Elements
    <3>7. Log!PowerLoss
      BY <3>2, <3>3, <3>4, <3>5, <3>6 DEF Log!PowerLoss
    <3> QED
      BY <3>7 DEF Log!Next
  <2>6. ASSUME NEW w \in Pos, WriteBack(w)
        PROVE  Log!Next \/ UNCHANGED Log!logVars
    BY <2>1, <2>6, WriteBackMakesDurable DEF Log!Next
  <2>7. CASE /\ ~ReturnOk
             /\ \/ Create \/ DropWriter \/ SyncFails \/ Reuse \/ (\E n \in BatchSizes : CallWriteBatch(n))
                \/ WriterStep \/ Interrupted \/ \E op \in inflight : CompleteError(op)
    <3>1. file' = file /\ disk' = disk /\ synced' = synced
      BY <2>1, <2>7, UntouchedStep
    <3>2. acked' = acked
      BY <2>7 DEF Create, DropWriter, SyncFails, Reuse, CallWriteBatch, WriterStep, BuildChunk,
         SubmissionFull, Submit, SubmitPart, SubmitFails, Wait, DrainOk, DrainErr, Interrupted, CompleteError
    <3> QED
      BY <3>1, <3>2 DEF Log!logVars
  <2> QED
    BY <2>1, <2>2, <2>3, <2>4, <2>5, <2>6, <2>7 DEF Next, KernelStep
<1>3. Spec => Log!Init
  BY <1>1 DEF Spec
<1> DEFINE A == harm' = {} => Log!Next \/ UNCHANGED Log!logVars
<1>4. IInv /\ RecordInv /\ [Next]_vars => [A]_vars
  BY <1>2
<1> HIDE DEF A
<1>5. Spec => [][A]_vars
  BY <1>4, LogInvariance, PTL DEF Spec
<1> QED
  BY <1>3, <1>5 DEF ImplementsLog, A
=============================================================================
