--------------------------- MODULE StdWriterProofs ---------------------------
(***************************************************************************)
(* Proofs about the std I/O log writer, for any buffer that holds a record *)
(* and any number of messages, batches and reopenings.                     *)
(*                                                                         *)
(* What is in the file and what is in the buffer are one stream of half    *)
(* records, which a write moves the border in, an error and a power loss   *)
(* cut short, and only the copy of a record makes longer.  A power loss    *)
(* may also blank any part of it that was not synced.                      *)
(***************************************************************************)
EXTENDS StdWriter, SequenceTheorems, FiniteSetTheorems, TLAPS

Msg == 1 .. MaxMsgs
Half == Msg \X {1, 2}
Cell == Half \cup {Lost}

Stream == file \o buf

(* The message that is copied next; next while there is no batch.          *)
Bound == next - (IF pc = "copy" THEN Len(rest) ELSE 0)

(* Cell record a comes before half record b in a log.                      *)
Before(a, b) == a[1] < b[1] \/ (a[1] = b[1] /\ a[2] < b[2])
Ascending(q) ==
  \A i, j \in 1 .. Len(q) : i < j /\ q[i] # Lost /\ q[j] # Lost => Before(q[i], q[j])

(* Message m is whole within the first n half records of q.                *)
Has(q, n, m) == \E k \in 1 .. n - 1 : q[k] = <<m, 1>> /\ q[k + 1] = <<m, 2>>

TypeInv ==
  /\ file \in Seq(Cell) /\ buf \in Seq(Cell) /\ buf \in Seq(Half) /\ Len(buf) <= BufCap
  /\ disk \in 0 .. Len(file)
  /\ pc \in {"closed", "idle", "copy"} /\ syncs \in {"good", "failed", "doubtful"}
  /\ rest \in Seq(Msg) /\ call \in Seq(Msg) /\ acked \in Seq(Msg)
  /\ next \in 1 .. MaxMsgs + 1 /\ opens \in Nat
  /\ synced \in 0 .. Len(acked)
  /\ pc = "closed" => buf = <<>>

(* The batch is a run of numbers, and what is not copied of it its end.    *)
BatchInv ==
  pc = "copy" =>
    /\ Len(rest) <= Len(call) /\ Len(call) <= next - 1
    /\ \A i \in 1 .. Len(rest) : rest[i] = next - Len(rest) + i - 1
    /\ \A i \in 1 .. Len(call) : call[i] = next - Len(call) + i - 1

(* The stream is in the order of the calls, and what was copied of the     *)
(* batch is in it.                                                         *)
StreamInv ==
  /\ Ascending(Stream)
  /\ \A i \in 1 .. Len(Stream) : Stream[i][1] < Bound
  /\ pc = "copy" => \A m \in next - Len(call) .. next - Len(rest) - 1 : Has(Stream, Len(Stream), m)

(* What was acknowledged is whole in the file, what was synced on disk, as *)
(* long as every Ok of a sync could be trusted.                            *)
AckInv ==
  /\ \A i \in 1 .. Len(acked) : acked[i] < next - (IF pc = "copy" THEN Len(call) ELSE 0)
  /\ \A i, j \in 1 .. Len(acked) : i < j => acked[i] < acked[j]
  /\ syncs # "doubtful" =>
       /\ \A i \in 1 .. Len(acked) : Has(file, Len(file), acked[i])
       /\ \A i \in 1 .. synced : Has(file, disk, acked[i])

(* In the first life of the writer the halves take turns, and there are no *)
(* odd ones while it is open.                                              *)
AlignInv ==
  opens <= 1 =>
    /\ opens = 0 => pc = "closed" /\ file = <<>>
    /\ \A i \in 1 .. Len(Stream) :
         Stream[i] # Lost => Stream[i][2] = (IF i % 2 = 1 THEN 1 ELSE 2)
    /\ pc # "closed" => Len(Stream) % 2 = 0

(* The inductive invariant: types, the batch being written, the bytes that *)
(* left the writer, the acknowledgements and the alignment of records.     *)
IInv == TypeInv /\ BatchInv /\ StreamInv /\ AckInv /\ AlignInv

-----------------------------------------------------------------------------
(***************************************************************************)
(* Sequences of half records                                               *)
(***************************************************************************)

(* The first n elements of a sequence, and those after them.               *)
LEMMA CutProperties ==
  ASSUME NEW S, NEW s \in Seq(S), NEW n \in 0 .. Len(s)
  PROVE  /\ SubSeq(s, 1, n) \in Seq(S) /\ Len(SubSeq(s, 1, n)) = n
         /\ \A i \in 1 .. n : SubSeq(s, 1, n)[i] = s[i]
         /\ SubSeq(s, n + 1, Len(s)) \in Seq(S) /\ Len(SubSeq(s, n + 1, Len(s))) = Len(s) - n
         /\ SubSeq(s, 1, n) \o SubSeq(s, n + 1, Len(s)) = s
<1>1. Len(s) \in Nat /\ n \in Nat /\ n <= Len(s)
  BY LenProperties
<1>2. \A i \in 1 .. Len(s) : s[i] \in S
  BY ElementOfSeq
<1>3. /\ SubSeq(s, 1, n) \in Seq(S) /\ Len(SubSeq(s, 1, n)) = (IF 1 <= n THEN n - 1 + 1 ELSE 0)
      /\ \A i \in 1 .. n - 1 + 1 : SubSeq(s, 1, n)[i] = s[1 + i - 1]
  <2>1. \A i \in 1 .. n : s[i] \in S
    BY <1>1, <1>2
  <2> QED
    BY <1>1, <2>1, SubSeqProperties
<1>4. /\ SubSeq(s, n + 1, Len(s)) \in Seq(S)
      /\ Len(SubSeq(s, n + 1, Len(s))) = (IF n + 1 <= Len(s) THEN Len(s) - (n + 1) + 1 ELSE 0)
  <2>1. \A i \in n + 1 .. Len(s) : s[i] \in S
    BY <1>1, <1>2
  <2> QED
    BY <1>1, <2>1, SubSeqProperties
<1>5. SubSeq(s, 1, n) \o SubSeq(s, n + 1, Len(s)) = SubSeq(s, 1, Len(s))
  <2>1. 1 \in 1 .. Len(s) + 1 /\ n \in 1 - 1 .. Len(s) /\ Len(s) \in n .. Len(s)
    BY <1>1
  <2> QED
    BY <2>1, ConcatAdjacentSubSeq
<1>6. SubSeq(s, 1, Len(s)) = s
  BY SubSeqFull
<1>7. Len(SubSeq(s, 1, n)) = n /\ \A i \in 1 .. n : SubSeq(s, 1, n)[i] = s[i]
  BY <1>1, <1>3
<1>8. Len(SubSeq(s, n + 1, Len(s))) = Len(s) - n
  BY <1>1, <1>4
<1> QED
  BY <1>3, <1>4, <1>5, <1>6, <1>7, <1>8

(* A message that is whole in a sequence is whole in what continues it.    *)
LEMMA HasMore ==
  ASSUME NEW q, NEW r, NEW n \in Nat, NEW k \in Nat, n <= k, \A i \in 1 .. n : r[i] = q[i],
         NEW m, Has(q, n, m)
  PROVE  Has(r, k, m)
<1>1. PICK i \in 1 .. n - 1 : q[i] = <<m, 1>> /\ q[i + 1] = <<m, 2>>
  BY DEF Has
<1>2. i \in 1 .. k - 1 /\ i \in 1 .. n /\ i + 1 \in 1 .. n
  OBVIOUS
<1> QED
  BY <1>1, <1>2 DEF Has

(* The stream: the file, then the buffer.                                  *)
LEMMA StreamFacts ==
  ASSUME TypeInv
  PROVE  /\ Stream \in Seq(Cell) /\ Len(Stream) = Len(file) + Len(buf) /\ Len(Stream) \in Nat
         /\ Len(file) \in Nat /\ Len(buf) \in Nat
         /\ \A i \in 1 .. Len(file) : Stream[i] = file[i]
         /\ \A i \in 1 .. Len(Stream) : Stream[i] \in Cell
<1>1. file \in Seq(Cell) /\ buf \in Seq(Cell) /\ Len(file) \in Nat /\ Len(buf) \in Nat
  BY DEF TypeInv
<1>2. /\ Stream \in Seq(Cell) /\ Len(Stream) = Len(file) + Len(buf)
      /\ \A i \in 1 .. Len(file) + Len(buf) :
           Stream[i] = IF i <= Len(file) THEN file[i] ELSE buf[i - Len(file)]
  BY <1>1, ConcatProperties DEF Stream
<1>3. \A i \in 1 .. Len(file) : Stream[i] = file[i]
  BY <1>1, <1>2
<1>4. \A i \in 1 .. Len(Stream) : Stream[i] \in Cell
  BY <1>2, ElementOfSeq
<1> QED
  BY <1>1, <1>2, <1>3, <1>4

(* The halves of a record follow each other.                               *)
LEMMA HalvesFacts ==
  ASSUME NEW m \in Msg
  PROVE  /\ Halves(m) \in Seq(Cell) /\ Halves(m) \in Seq(Half) /\ Len(Halves(m)) = 2
         /\ Halves(m)[1] = <<m, 1>> /\ Halves(m)[2] = <<m, 2>>
BY DEF Halves, Cell, Half

(* What a stream keeps of the invariant that is shortened, or parts of     *)
(* which are lost.                                                         *)
LEMMA CutStream ==
  ASSUME TypeInv, StreamInv, TypeInv', pc' # "copy", next' = next, pc = "copy" => BatchInv,
         Len(Stream') <= Len(Stream),
         \A i \in 1 .. Len(Stream') : Stream'[i] = Stream[i] \/ Stream'[i] = Lost
  PROVE  StreamInv'
<1>1. /\ Len(Stream) \in Nat /\ \A i \in 1 .. Len(Stream) : Stream[i] \in Cell
      /\ Len(Stream') \in Nat
  BY StreamFacts
<1>2. \A i \in 1 .. Len(Stream') : i \in 1 .. Len(Stream)
  BY <1>1
<1>3. Ascending(Stream')
  BY <1>2 DEF StreamInv, Ascending
<1>4. Bound <= next
  BY BatchAssumption DEF Bound, TypeInv
<1>5. ASSUME NEW i \in 1 .. Len(Stream')
      PROVE  Stream'[i][1] < next
  <2>0. Bound \in Int /\ next \in Int /\ 0 < next
    <3>1. Len(rest) \in Int /\ next \in Int /\ 0 < next
      BY BatchAssumption DEF TypeInv
    <3> QED
      BY <3>1 DEF Bound
  <2>1. CASE Stream'[i] = Lost
    <3>1. Lost[1] = 0
      BY DEF Lost
    <3> QED
      BY <2>0, <2>1, <3>1
  <2>2. CASE Stream'[i] = Stream[i]
    <3>1. Stream'[i][1] < Bound /\ Stream'[i] \in Cell
      BY <1>1, <1>2, <2>2 DEF StreamInv
    <3>2. Stream'[i][1] \in Int
      BY <3>1, BatchAssumption DEF Cell, Half, Msg, Lost
    <3> QED
      BY ONLY <1>4, <2>0, <3>1, <3>2
  <2> QED
    BY <2>1, <2>2
<1>6. Bound' = next
  BY BatchAssumption DEF Bound, TypeInv
<1> QED
  BY <1>3, <1>5, <1>6 DEF StreamInv

(* Odd and even follow each other.                                         *)
LEMMA Parity ==
  ASSUME NEW n \in Nat, n % 2 = 0
  PROVE  (n + 1) % 2 = 1 /\ (n + 2) % 2 = 0
OBVIOUS

(* A write(2) of n half records out of the buffer, its last or not.         *)
LEMMA Moved ==
  ASSUME TypeInv, NEW n \in 0 .. Len(buf), NEW f, f = file \o SubSeq(buf, 1, n),
         NEW r, r = SubSeq(buf, n + 1, Len(buf))
  PROVE  /\ f \in Seq(Cell) /\ Len(f) = Len(file) + n /\ \A i \in 1 .. Len(file) : f[i] = file[i]
         /\ r \in Seq(Cell) /\ Len(r) = Len(buf) - n
         /\ f \o r = Stream
<1> DEFINE w == SubSeq(buf, 1, n)
<1>1. file \in Seq(Cell) /\ buf \in Seq(Cell) /\ Len(file) \in Nat /\ Len(buf) \in Nat
  BY DEF TypeInv
<1>2. w \in Seq(Cell) /\ Len(w) = n
  BY <1>1, CutProperties
<1>3. r \in Seq(Cell) /\ Len(r) = Len(buf) - n /\ w \o r = buf
  BY <1>1, CutProperties
<1>4. f = file \o w
  OBVIOUS
<1> HIDE DEF w
<1>5. /\ f \in Seq(Cell) /\ Len(f) = Len(file) + Len(w)
      /\ \A i \in 1 .. Len(file) + Len(w) : f[i] = IF i <= Len(file) THEN file[i] ELSE w[i - Len(file)]
  BY <1>1, <1>2, <1>4, ConcatProperties
<1>6. \A i \in 1 .. Len(file) : i <= Len(file) /\ i \in 1 .. Len(file) + Len(w)
  BY <1>1, <1>2
<1>7. (file \o w) \o r = file \o (w \o r)
  <2>1. file \in Seq(Cell) /\ w \in Seq(Cell) /\ r \in Seq(Cell)
    BY <1>1, <1>2, <1>3
  <2> QED
    BY ONLY <2>1, ConcatAssociative, SMTT(30)
<1> QED
  BY <1>2, <1>3, <1>4, <1>5, <1>6, <1>7 DEF Stream

(* What was acknowledged stays whole in a file that grows.                 *)
LEMMA AckKept ==
  ASSUME TypeInv, AckInv, syncs # "doubtful", NEW f, Len(f) \in Nat, Len(file) <= Len(f),
         \A i \in 1 .. Len(file) : f[i] = file[i]
  PROVE  /\ \A i \in 1 .. Len(acked) : Has(f, Len(f), acked[i])
         /\ \A i \in 1 .. synced : Has(f, disk, acked[i])
<1>1. Len(file) \in Nat /\ disk \in Nat /\ disk <= disk /\ \A i \in 1 .. disk : f[i] = file[i]
  BY LenProperties DEF TypeInv
<1>2. ASSUME NEW i \in 1 .. Len(acked)
      PROVE  Has(f, Len(f), acked[i])
  <2>1. Has(file, Len(file), acked[i])
    BY DEF AckInv
  <2> QED
    BY <1>1, <2>1, HasMore
<1>3. ASSUME NEW i \in 1 .. synced
      PROVE  Has(f, disk, acked[i])
  <2>1. Has(file, disk, acked[i])
    BY DEF AckInv
  <2> QED
    BY <1>1, <2>1, HasMore
<1> QED
  BY <1>2, <1>3

(* create: an empty buffer behind whatever the file holds.                 *)
LEMMA CreateStep ==
  ASSUME IInv, Create
  PROVE  IInv'
<1> USE DEF IInv, Create
<1>1. TypeInv'
  <2>1. buf' \in Seq(Cell) /\ buf' \in Seq(Half) /\ Len(buf') <= BufCap
    BY BufAssumption
  <2> QED
    BY <2>1 DEF TypeInv
<1>2. BatchInv'
  BY DEF BatchInv
<1>3. StreamInv'
  BY DEF StreamInv, Stream, Bound, TypeInv
<1>4. AckInv'
  BY DEF AckInv
<1>5. AlignInv'
  <2>1. opens' <= 1 => opens = 0 /\ opens' # 0
    BY DEF TypeInv
  <2>2. opens = 0 => Stream' = <<>> /\ Len(Stream') = 0
    BY DEF AlignInv, Stream
  <2>3. Len(<<>>) % 2 = 0
    OBVIOUS
  <2> QED
    BY <2>1, <2>2, <2>3 DEF AlignInv
<1> QED
  BY <1>1, <1>2, <1>3, <1>4, <1>5

(* write_batch is called: the batch is the next n messages.                *)
LEMMA CallStep ==
  ASSUME IInv, NEW n \in BatchSizes, CallWriteBatch(n)
  PROVE  IInv'
<1> USE DEF IInv, CallWriteBatch
<1>0. /\ n \in Nat /\ next \in Nat /\ 1 <= next /\ next + n - 1 <= MaxMsgs
      /\ call' \in Seq(Msg) /\ Len(call') = n /\ rest' = call' /\ next' = next + n
      /\ \A i \in 1 .. n : call'[i] = next + i - 1
  <2>1. n \in Nat /\ next \in Nat /\ 1 <= next /\ next + n - 1 <= MaxMsgs
    BY BatchAssumption DEF TypeInv
  <2>2. \A i \in 1 .. n : next + i - 1 \in Msg
    BY <2>1, BatchAssumption DEF Msg
  <2>3. call' \in [1 .. n -> Msg]
    BY <2>2
  <2>4. call' \in Seq(Msg)
    BY <2>1, <2>3, SeqDef
  <2>5. DOMAIN call' = 1 .. n /\ DOMAIN call' = 1 .. Len(call') /\ Len(call') \in Nat
    BY <2>3, <2>4, LenProperties
  <2>6. Len(call') = n
    BY <2>1, <2>5
  <2> QED
    BY <2>1, <2>4, <2>6
<1>1. TypeInv'
  BY <1>0, BatchAssumption DEF TypeInv
<1>2. BatchInv'
  BY <1>0 DEF BatchInv
<1>3. StreamInv'
  <2>1. Bound' = next /\ Bound = next
    BY <1>0 DEF Bound
  <2>2. next' - Len(call') .. next' - Len(rest') - 1 = {}
    BY <1>0
  <2>3. Stream' = Stream
    BY DEF Stream
  <2> QED
    BY <2>1, <2>2, <2>3 DEF StreamInv, Ascending
<1>4. AckInv'
  <2>1. next' - Len(call') = next
    BY <1>0
  <2> QED
    BY <1>0, <2>1 DEF AckInv
<1>5. AlignInv'
  BY DEF AlignInv, Stream
<1> QED
  BY <1>1, <1>2, <1>3, <1>4, <1>5

(* A record is copied into the buffer: its halves follow the stream.       *)
LEMMA CopyStep ==
  ASSUME IInv, CopyRecord
  PROVE  IInv'
<1> USE DEF IInv, CopyRecord
<1> DEFINE m == Head(rest)
<1>0. /\ m \in Msg /\ m = rest[1] /\ rest' \in Seq(Msg) /\ Len(rest) \in Nat \ {0}
      /\ Len(rest') = Len(rest) - 1 /\ \A i \in 1 .. Len(rest') : rest'[i] = rest[i + 1]
  BY HeadTailProperties, EmptySeq DEF TypeInv
<1>h. /\ Halves(m) \in Seq(Cell) /\ Len(Halves(m)) = 2
      /\ Halves(m)[1] = <<m, 1>> /\ Halves(m)[2] = <<m, 2>>
  BY <1>0, HalvesFacts
<1> HIDE DEF m
<1>i. buf' = buf \o Halves(m)
  BY DEF m
<1>a. /\ buf' \in Seq(Cell) /\ buf' \in Seq(Half) /\ Len(buf') = Len(buf) + 2
  <2>0. buf \in Seq(Half) /\ Halves(m) \in Seq(Half)
    BY <1>0, HalvesFacts DEF TypeInv
  <2>1. buf \in Seq(Cell) /\ buf \o Halves(m) \in Seq(Half)
    BY <2>0, ConcatProperties DEF TypeInv
  <2>2. buf \o Halves(m) \in Seq(Cell) /\ Len(buf \o Halves(m)) = Len(buf) + Len(Halves(m))
    BY <1>h, <2>1, ConcatProperties
  <2> QED
    BY <1>h, <1>i, <2>1, <2>2
<1>b. /\ Len(Stream) \in Nat /\ Len(Stream') = Len(Stream) + 2
      /\ \A i \in 1 .. Len(Stream) : Stream'[i] = Stream[i]
      /\ Stream'[Len(Stream) + 1] = <<m, 1>> /\ Stream'[Len(Stream) + 2] = <<m, 2>>
  <2>1. Stream' = Stream \o Halves(m)
    <3>1. file \in Seq(Cell) /\ buf \in Seq(Cell)
      BY DEF TypeInv
    <3>2. (file \o buf) \o Halves(m) = file \o (buf \o Halves(m))
      BY <1>h, <3>1, ConcatAssociative, SMTT(30)
    <3> QED
      BY <1>i, <3>2 DEF Stream
  <2>2. /\ Len(Stream \o Halves(m)) = Len(Stream) + Len(Halves(m))
        /\ \A i \in 1 .. Len(Stream) + Len(Halves(m)) :
             (Stream \o Halves(m))[i] = IF i <= Len(Stream) THEN Stream[i] ELSE Halves(m)[i - Len(Stream)]
    <3>1. Stream \in Seq(Cell)
      BY StreamFacts
    <3> QED
      BY <1>h, <3>1, ConcatProperties
  <2>3. Len(Stream) \in Nat /\ Len(Halves(m)) = 2 /\ Halves(m)[1] = <<m, 1>> /\ Halves(m)[2] = <<m, 2>>
    BY <1>h, StreamFacts
  <2>4. \A i \in 1 .. Len(Stream) : Stream'[i] = Stream[i]
    BY <2>1, <2>2, <2>3
  <2>5. Stream'[Len(Stream) + 1] = <<m, 1>> /\ Stream'[Len(Stream) + 2] = <<m, 2>>
    <3>1. Len(Stream) + 1 - Len(Stream) = 1 /\ Len(Stream) + 2 - Len(Stream) = 2
      BY <2>3
    <3> QED
      BY <2>1, <2>2, <2>3, <3>1
  <2> QED
    BY <2>1, <2>2, <2>3, <2>4, <2>5
<1>c. m = Bound /\ Bound' = Bound + 1 /\ Bound \in Int
  BY <1>0, BatchAssumption DEF BatchInv, Bound, TypeInv, m
<1>1. TypeInv'
  BY <1>0, <1>a, BufAssumption DEF TypeInv, Fits
<1>2. BatchInv'
  <2>1. \A i \in 1 .. Len(rest') : rest'[i] = next - Len(rest') + i - 1
    <3> SUFFICES ASSUME NEW i \in 1 .. Len(rest')
                 PROVE  rest'[i] = next - Len(rest') + i - 1
      OBVIOUS
    <3>1. rest'[i] = rest[i + 1] /\ i + 1 \in 1 .. Len(rest)
      BY <1>0
    <3>2. rest'[i] = next - Len(rest) + (i + 1) - 1 /\ next \in Int
      BY <3>1, BatchAssumption DEF BatchInv, TypeInv
    <3> QED
      BY ONLY <1>0, <3>2
  <2>2. Len(rest') <= Len(call)
    BY <1>0 DEF BatchInv, TypeInv
  <2> QED
    BY <2>1, <2>2 DEF BatchInv
<1>3. StreamInv'
  <2>1. \A i \in 1 .. Len(Stream) : Stream[i] \in Cell /\ Stream[i][1] < Bound
    BY StreamFacts DEF StreamInv
  <2>2. \A i \in 1 .. Len(Stream') : i \in 1 .. Len(Stream) \/ i = Len(Stream) + 1 \/ i = Len(Stream) + 2
    BY <1>b
  <2>3. \A i \in 1 .. Len(Stream') : Stream'[i][1] < Bound + 1
    <3>1. ASSUME NEW i \in 1 .. Len(Stream)
          PROVE  Stream'[i][1] < Bound + 1
      <4>1. Stream'[i] = Stream[i] /\ Stream[i][1] \in Int
        BY <1>b, <2>1, BatchAssumption DEF Cell, Half, Msg, Lost
      <4> QED
        BY <1>c, <2>1, <4>1
    <3>2. <<m, 1>>[1] < Bound + 1 /\ <<m, 2>>[1] < Bound + 1
      BY <1>c
    <3> QED
      BY <1>b, <2>2, <3>1, <3>2
  <2>4. ASSUME NEW i \in 1 .. Len(Stream'), NEW j \in 1 .. Len(Stream'), i < j,
               Stream'[i] # Lost, Stream'[j] # Lost
        PROVE  Before(Stream'[i], Stream'[j])
    <3>1. CASE j \in 1 .. Len(Stream)
      <4>1. i \in 1 .. Len(Stream)
        BY <2>4, <3>1, <1>b
      <4> QED
        BY <1>b, <2>4, <3>1, <4>1 DEF StreamInv, Ascending
    <3>2. CASE i \in 1 .. Len(Stream) /\ j \notin 1 .. Len(Stream)
      <4>1. Stream'[i][1] < m
        <5>1. Stream'[i] = Stream[i] /\ Stream[i][1] < Bound
          BY <1>b, <2>1, <3>2
        <5> QED
          BY <1>c, <5>1
      <4>2. Stream'[j][1] = m
        <5>1. Stream'[j] = <<m, 1>> \/ Stream'[j] = <<m, 2>>
          BY <1>b, <2>2, <3>2
        <5> QED
          BY <5>1
      <4> QED
        BY <4>1, <4>2 DEF Before
    <3>3. CASE i \notin 1 .. Len(Stream) /\ j \notin 1 .. Len(Stream)
      <4>1. i = Len(Stream) + 1 /\ j = Len(Stream) + 2
        BY <1>b, <2>2, <2>4, <3>3
      <4> QED
        BY <1>b, <4>1 DEF Before
    <3> QED
      BY <3>1, <3>2, <3>3
  <2>5. ASSUME NEW x \in next - Len(call) .. next - Len(rest') - 1
        PROVE  Has(Stream', Len(Stream'), x)
    <3>1. CASE x = m
      <4>1. Len(Stream) + 1 \in 1 .. Len(Stream') - 1 /\ Len(Stream) + 1 + 1 = Len(Stream) + 2
        BY <1>b
      <4> QED
        BY <1>b, <3>1, <4>1 DEF Has
    <3>2. CASE x # m
      <4>1. x \in next - Len(call) .. next - Len(rest) - 1
        <5>1. m = next - Len(rest)
          BY <1>c DEF Bound
        <5>2. next \in Int /\ Len(call) \in Int
          BY BatchAssumption DEF TypeInv
        <5>3. Len(rest) \in Int /\ next - Len(rest') - 1 = next - Len(rest)
          BY <1>0, <5>2
        <5>4. x \in next - Len(call) .. next - Len(rest) /\ x # next - Len(rest)
          BY <2>5, <3>2, <5>1, <5>3
        <5> QED
          BY ONLY <5>2, <5>3, <5>4
      <4>2. Has(Stream, Len(Stream), x)
        BY <4>1 DEF StreamInv
      <4>3. Len(Stream) \in Nat /\ Len(Stream') \in Nat /\ Len(Stream) <= Len(Stream')
        BY <1>b
      <4> QED
        BY <1>b, <4>2, <4>3, HasMore
    <3> QED
      BY <3>1, <3>2
  <2> QED
    BY <1>c, <2>3, <2>4, <2>5 DEF StreamInv, Ascending
<1>4. AckInv'
  BY DEF AckInv
<1>5. AlignInv'
  <2>1. opens # 0
    BY DEF AlignInv
  <2> SUFFICES ASSUME opens <= 1
               PROVE  /\ \A i \in 1 .. Len(Stream') :
                           Stream'[i] # Lost => Stream'[i][2] = (IF i % 2 = 1 THEN 1 ELSE 2)
                      /\ Len(Stream') % 2 = 0
    BY <2>1 DEF AlignInv
  <2>2. /\ Len(Stream) % 2 = 0
        /\ \A i \in 1 .. Len(Stream) : Stream[i] # Lost => Stream[i][2] = (IF i % 2 = 1 THEN 1 ELSE 2)
    BY DEF AlignInv
  <2>3. (Len(Stream) + 1) % 2 = 1 /\ (Len(Stream) + 2) % 2 = 0
    BY <1>b, <2>2, Parity
  <2>4. \A i \in 1 .. Len(Stream') : i \in 1 .. Len(Stream) \/ i = Len(Stream) + 1 \/ i = Len(Stream) + 2
    BY <1>b
  <2>5. <<m, 1>>[2] = 1 /\ <<m, 2>>[2] = 2
    OBVIOUS
  <2> QED
    BY <1>b, <2>2, <2>3, <2>4, <2>5
<1> QED
  BY <1>1, <1>2, <1>3, <1>4, <1>5

(* A write(2) moves the border between file and buffer in the stream.      *)
LEMMA WriteOutStep ==
  ASSUME IInv, WriteOut
  PROVE  IInv'
<1> USE DEF IInv, WriteOut
<1>0. PICK n \in 1 .. Len(buf) : file' = file \o SubSeq(buf, 1, n) /\ buf' = SubSeq(buf, n + 1, Len(buf))
  BY DEF AfterWrite
<1>a. n \in 0 .. Len(buf) /\ Len(file) \in Nat /\ Len(buf) \in Nat
  BY DEF TypeInv
<1>b. /\ file' \in Seq(Cell) /\ Len(file') = Len(file) + n
      /\ \A i \in 1 .. Len(file) : file'[i] = file[i]
      /\ buf' \in Seq(Cell) /\ Len(buf') = Len(buf) - n
      /\ file' \o buf' = Stream
  BY <1>0, <1>a, Moved
<1>c. Len(file') \in Nat /\ Len(file) <= Len(file') /\ buf' \in Seq(Half)
  <2>1. buf \in Seq(Half)
    BY DEF TypeInv
  <2>2. SubSeq(buf, n + 1, Len(buf)) \in Seq(Half)
    BY <1>a, <2>1, CutProperties
  <2> QED
    BY <1>0, <1>a, <1>b, <2>2
<1>d. Stream' = Stream
  BY <1>b DEF Stream
<1>1. TypeInv'
  <2>1. Len(buf') <= BufCap /\ disk' \in 0 .. Len(file')
    BY <1>a, <1>b, <1>c, BufAssumption, SMTT(30) DEF TypeInv
  <2> QED
    BY <1>b, <1>c, <2>1 DEF TypeInv, MustDrain
<1>2. BatchInv'
  BY DEF BatchInv
<1>3. StreamInv'
  <2>1. Bound' = Bound
    BY DEF Bound
  <2> QED
    BY <1>d, <2>1 DEF StreamInv, Ascending
<1>4. AckInv'
  BY <1>b, <1>c, AckKept DEF AckInv
<1>5. AlignInv'
  BY <1>d DEF AlignInv, MustDrain
<1> QED
  BY <1>1, <1>2, <1>3, <1>4, <1>5

(* write_batch gives up; the stream stays as it is.                        *)
LEMMA WriteFailsStep ==
  ASSUME IInv, WriteFails
  PROVE  IInv'
<1> USE DEF IInv, WriteFails
<1>1. TypeInv'
  BY DEF TypeInv
<1>2. BatchInv'
  BY DEF BatchInv
<1>3. StreamInv'
  <2>1. TypeInv' /\ Stream' = Stream
    BY <1>1 DEF Stream
  <2> QED
    BY <1>1, <2>1, CutStream, StreamFacts
<1>4. AckInv'
  <2>1. next - Len(call) <= next
    BY BatchAssumption DEF TypeInv
  <2>2. \A i \in 1 .. Len(acked) : acked[i] < next
    <3> SUFFICES ASSUME NEW i \in 1 .. Len(acked)
                 PROVE  acked[i] < next
      OBVIOUS
    <3>1. acked[i] < next - Len(call)
      BY DEF AckInv, MustDrain
    <3>2. acked[i] \in Int /\ Len(call) \in Nat /\ next \in Int
      <4>1. acked[i] \in Msg
        BY ElementOfSeq DEF TypeInv
      <4> QED
        BY <4>1, BatchAssumption DEF TypeInv, Msg
    <3> QED
      BY ONLY <3>1, <3>2
  <2>3. next - 0 = next
    BY BatchAssumption DEF TypeInv
  <2> QED
    BY <2>2, <2>3 DEF AckInv
<1>5. AlignInv'
  BY DEF AlignInv, MustDrain, Stream
<1> QED
  BY <1>1, <1>2, <1>3, <1>4, <1>5

(* Ok: all of the batch has been copied and the buffer is empty.           *)
LEMMA ReturnOkStep ==
  ASSUME IInv, ReturnOk
  PROVE  IInv'
<1> USE DEF IInv, ReturnOk
<1>0. /\ acked \in Seq(Msg) /\ call \in Seq(Msg) /\ Len(acked) \in Nat /\ Len(call) \in Nat
      /\ next \in Nat /\ Len(rest) = 0 /\ synced \in Nat /\ synced <= Len(acked)
  BY BatchAssumption, EmptySeq DEF TypeInv
<1>a. /\ acked' \in Seq(Msg) /\ Len(acked') = Len(acked) + Len(call)
      /\ \A i \in 1 .. Len(acked) + Len(call) :
           acked'[i] = IF i <= Len(acked) THEN acked[i] ELSE call[i - Len(acked)]
  BY <1>0, ConcatProperties
<1>b. Stream = file
  BY ConcatEmptySeq DEF Stream, Flushed, TypeInv
<1>c. ASSUME NEW i \in 1 .. Len(acked')
      PROVE  \/ i \in 1 .. Len(acked) /\ acked'[i] = acked[i] /\ acked[i] < next - Len(call)
             \/ i \notin 1 .. Len(acked) /\ acked'[i] = next - Len(call) + (i - Len(acked)) - 1
                /\ i - Len(acked) \in 1 .. Len(call)
  <2>1. CASE i <= Len(acked)
    <3>1. i \in 1 .. Len(acked)
      BY <2>1
    <3> QED
      BY <1>0, <1>a, <2>1, <3>1 DEF AckInv
  <2>2. CASE ~(i <= Len(acked))
    <3>1. i - Len(acked) \in 1 .. Len(call) /\ i \notin 1 .. Len(acked)
      BY <1>0, <1>a, <2>2
    <3>2. acked'[i] = call[i - Len(acked)]
      BY <1>a, <2>2
    <3> QED
      BY <3>1, <3>2 DEF BatchInv
  <2> QED
    BY <2>1, <2>2
<1>d. \A i \in 1 .. Len(acked) : acked[i] \in Int
  <2>1. \A i \in 1 .. Len(acked) : acked[i] \in Msg
    BY ElementOfSeq DEF TypeInv
  <2> QED
    BY <2>1, BatchAssumption DEF Msg
<1>1. TypeInv'
  BY <1>0, <1>a DEF TypeInv
<1>2. BatchInv'
  BY DEF BatchInv
<1>3. StreamInv'
  <2>1. TypeInv' /\ Stream' = Stream
    BY <1>1 DEF Stream
  <2> QED
    BY <1>1, <2>1, CutStream, StreamFacts
<1>4. AckInv'
  <2>1. \A i \in 1 .. Len(acked') : acked'[i] < next
    <3> SUFFICES ASSUME NEW i \in 1 .. Len(acked')
                 PROVE  acked'[i] < next
      OBVIOUS
    <3>1. CASE i \in 1 .. Len(acked)
      <4>1. acked'[i] = acked[i] /\ acked[i] < next - Len(call) /\ acked[i] \in Int
        BY <1>c, <1>d, <3>1
      <4> QED
        BY <1>0, <4>1
    <3>2. CASE i \notin 1 .. Len(acked)
      <4>1. acked'[i] = next - Len(call) + (i - Len(acked)) - 1 /\ i - Len(acked) \in 1 .. Len(call)
        BY <1>c, <3>2
      <4> QED
        BY <1>0, <4>1
    <3> QED
      BY <3>1, <3>2
  <2>2. ASSUME NEW i \in 1 .. Len(acked'), NEW j \in 1 .. Len(acked'), i < j
        PROVE  acked'[i] < acked'[j]
    <3>1. CASE j \in 1 .. Len(acked)
      <4>1. i \in 1 .. Len(acked)
        BY <1>0, <2>2, <3>1
      <4>2. acked'[i] = acked[i] /\ acked'[j] = acked[j]
        BY <1>c, <3>1, <4>1
      <4> QED
        BY <2>2, <3>1, <4>1, <4>2 DEF AckInv
    <3>2. CASE i \in 1 .. Len(acked) /\ j \notin 1 .. Len(acked)
      <4>1. acked'[i] = acked[i] /\ acked[i] < next - Len(call) /\ acked[i] \in Int
        BY <1>c, <1>d, <3>2
      <4>2. acked'[j] = next - Len(call) + (j - Len(acked)) - 1 /\ j - Len(acked) \in 1 .. Len(call)
        BY <1>c, <3>2
      <4> QED
        BY <1>0, <4>1, <4>2
    <3>3. CASE i \notin 1 .. Len(acked) /\ j \notin 1 .. Len(acked)
      <4>1. acked'[i] = next - Len(call) + (i - Len(acked)) - 1
            /\ acked'[j] = next - Len(call) + (j - Len(acked)) - 1
        BY <1>c, <3>3
      <4> QED
        BY <1>0, <2>2, <4>1
    <3> QED
      BY <3>1, <3>2, <3>3
  <2>3. ASSUME syncs # "doubtful", NEW i \in 1 .. Len(acked')
        PROVE  Has(file, Len(file), acked'[i])
    <3>1. CASE i \in 1 .. Len(acked)
      BY <1>c, <2>3, <3>1 DEF AckInv
    <3>2. CASE i \notin 1 .. Len(acked)
      <4>1. acked'[i] = next - Len(call) + (i - Len(acked)) - 1 /\ i - Len(acked) \in 1 .. Len(call)
        BY <1>c, <3>2
      <4>2. acked'[i] \in next - Len(call) .. next - Len(rest) - 1
        BY <1>0, <4>1
      <4> QED
        BY <1>b, <4>2 DEF StreamInv
    <3> QED
      BY <3>1, <3>2
  <2>4. syncs # "doubtful" => \A i \in 1 .. synced : Has(file, disk, acked'[i])
    <3>1. \A i \in 1 .. synced : i \in 1 .. Len(acked') /\ i \in 1 .. Len(acked)
      BY <1>0, <1>a
    <3> QED
      BY <1>c, <3>1 DEF AckInv
  <2>5. next - 0 = next
    BY <1>0
  <2> QED
    BY <2>1, <2>2, <2>3, <2>4, <2>5 DEF AckInv
<1>5. AlignInv'
  BY DEF AlignInv, Stream
<1> QED
  BY <1>1, <1>2, <1>3, <1>4, <1>5

(* sync: the file is durable, or the Ok is doubtful.                       *)
LEMMA SyncStep ==
  ASSUME IInv, Sync
  PROVE  IInv'
<1> USE DEF IInv, Sync
<1>1. TypeInv'
  <2>1. disk' \in 0 .. Len(file) /\ synced' \in 0 .. Len(acked)
    BY LenProperties DEF TypeInv
  <2> QED
    BY <2>1 DEF TypeInv
<1>2. BatchInv'
  BY DEF BatchInv
<1>3. StreamInv'
  BY DEF StreamInv, Stream, Bound, Ascending
<1>4. AckInv'
  <2>1. syncs' # "doubtful" => syncs # "doubtful" /\ disk' = Len(file)
    OBVIOUS
  <2> QED
    BY <2>1 DEF AckInv
<1>5. AlignInv'
  BY DEF AlignInv, Stream
<1> QED
  BY <1>1, <1>2, <1>3, <1>4, <1>5

(* sync returns Err: nothing has changed but what the next Ok is worth.    *)
LEMMA SyncFailsStep ==
  ASSUME IInv, SyncFails
  PROVE  IInv'
<1> USE DEF IInv, SyncFails
<1>1. TypeInv'
  BY DEF TypeInv
<1>2. BatchInv'
  BY DEF BatchInv
<1>3. StreamInv'
  BY DEF StreamInv, Stream, Bound, Ascending
<1>4. AckInv'
  BY DEF AckInv
<1>5. AlignInv'
  BY DEF AlignInv, Stream
<1> QED
  BY <1>1, <1>2, <1>3, <1>4, <1>5

(* The writer is dropped: its buffer may get lost, or be written in part.  *)
LEMMA DropStep ==
  ASSUME IInv, DropWriter
  PROVE  IInv'
<1> USE DEF IInv, DropWriter
<1>0. PICK n \in 0 .. Len(buf) : file' = file \o SubSeq(buf, 1, n)
  OBVIOUS
<1> DEFINE r == SubSeq(buf, n + 1, Len(buf))
<1>a. Len(file) \in Nat /\ Len(buf) \in Nat
  BY DEF TypeInv
<1>b. /\ file' \in Seq(Cell) /\ Len(file') = Len(file) + n
      /\ \A i \in 1 .. Len(file) : file'[i] = file[i]
      /\ r \in Seq(Cell) /\ Len(r) = Len(buf) - n
      /\ file' \o r = Stream
  BY <1>0, Moved, ZenonT(40)
<1> HIDE DEF r
<1>d. Len(file') \in Nat /\ Len(file) <= Len(file')
  BY <1>a, <1>b
<1>c. /\ Stream' = file' /\ Len(Stream') <= Len(Stream)
      /\ \A i \in 1 .. Len(Stream') : Stream'[i] = Stream[i]
  <2>1. Stream' = file'
    BY <1>b, ConcatEmptySeq DEF Stream
  <2>2. /\ Len(Stream) = Len(file') + Len(r)
        /\ \A i \in 1 .. Len(file') + Len(r) : Stream[i] = IF i <= Len(file') THEN file'[i] ELSE r[i - Len(file')]
    <3>1. file' \in Seq(Cell) /\ r \in Seq(Cell)
      BY <1>b
    <3>2. /\ Len(file' \o r) = Len(file') + Len(r)
          /\ \A i \in 1 .. Len(file') + Len(r) : (file' \o r)[i] = IF i <= Len(file') THEN file'[i] ELSE r[i - Len(file')]
      BY <3>1, ConcatProperties
    <3>3. file' \o r = Stream
      BY <1>b
    <3> QED
      BY <3>2, <3>3
  <2>3. Len(r) \in Nat
    BY <1>b, LenProperties
  <2>4. \A i \in 1 .. Len(file') : i <= Len(file') /\ i \in 1 .. Len(file') + Len(r)
    BY <1>d, <2>3
  <2> QED
    BY <1>d, <2>1, <2>2, <2>3, <2>4
<1>1. TypeInv'
  <2>1. disk' \in 0 .. Len(file') /\ buf' \in Seq(Cell) /\ buf' \in Seq(Half) /\ Len(buf') <= BufCap
    BY <1>a, <1>b, BufAssumption DEF TypeInv
  <2> QED
    BY <1>b, <2>1 DEF TypeInv
<1>2. BatchInv'
  BY DEF BatchInv
<1>3. StreamInv'
  <2> QED
    BY <1>1, <1>c, CutStream
<1>4. AckInv'
  <2>1. syncs # "doubtful" =>
          /\ \A i \in 1 .. Len(acked) : Has(file', Len(file'), acked[i])
          /\ \A i \in 1 .. synced : Has(file', disk, acked[i])
    BY <1>b, <1>d, AckKept
  <2> QED
    BY <2>1 DEF AckInv
<1>5. AlignInv'
  <2>1. \A i \in 1 .. Len(Stream') : i \in 1 .. Len(Stream)
    BY <1>c, StreamFacts, <1>b
  <2> QED
    BY <1>c, <2>1 DEF AlignInv
<1> QED
  BY <1>1, <1>2, <1>3, <1>4, <1>5

(* What a power loss leaves: a file that is no longer, the same as far as  *)
(* the disk was sure of it, and after that the same or lost.               *)
LEMMA CrashFile ==
  ASSUME TypeInv, Crash
  PROVE  /\ file' \in Seq(Cell) /\ Len(file') \in Nat /\ Len(file) \in Nat /\ disk \in Nat
         /\ disk <= Len(file') /\ Len(file') <= Len(file) /\ disk' = Len(file')
         /\ \A i \in 1 .. disk : file'[i] = file[i]
         /\ \A i \in 1 .. Len(file') : file'[i] = file[i] \/ file'[i] = Lost
<1>1. file \in Seq(Cell) /\ Len(file) \in Nat /\ disk \in Nat /\ disk <= Len(file)
  BY LenProperties DEF TypeInv
<1>2. PICK n \in disk .. Len(file) : \E lost \in SUBSET (disk + 1 .. n) :
         file' = WithoutParts(n, lost) /\ disk' = n
  BY DEF Crash
<1>3. PICK lost \in SUBSET (disk + 1 .. n) : file' = WithoutParts(n, lost) /\ disk' = n
  BY <1>2
<1>4. n \in Nat /\ disk <= n /\ n <= Len(file)
  BY <1>1
<1>5. \A i \in 1 .. n : i \in 1 .. Len(file) /\ file[i] \in Cell
  BY <1>1, <1>4, ElementOfSeq
<1>6. file' \in [1 .. n -> Cell]
  BY <1>3, <1>5 DEF WithoutParts, Cell
<1>7. file' \in Seq(Cell)
  BY <1>4, <1>6, SeqDef
<1>8. Len(file') = n
  <2>1. DOMAIN file' = 1 .. n /\ DOMAIN file' = 1 .. Len(file') /\ Len(file') \in Nat
    BY <1>6, <1>7, LenProperties
  <2> QED
    BY <1>4, <2>1
<1>9. \A i \in 1 .. n : file'[i] = file[i] \/ file'[i] = Lost
  BY <1>3 DEF WithoutParts
<1>10. \A i \in 1 .. disk : i \in 1 .. n /\ i \notin lost
  BY <1>1, <1>4
<1>11. \A i \in 1 .. disk : file'[i] = file[i]
  BY <1>3, <1>10 DEF WithoutParts
<1> QED
  BY <1>1, <1>3, <1>4, <1>7, <1>8, <1>9, <1>11

(* Power is lost: the stream is shorter, and after the disk's part of it   *)
(* some is gone.                                                           *)
LEMMA CrashStep ==
  ASSUME IInv, Crash
  PROVE  IInv'
<1> USE DEF IInv
<1>0. /\ synced \in Nat /\ Len(acked) \in Nat /\ synced <= Len(acked) /\ synced' = synced
      /\ acked' \in Seq(Msg) /\ Len(acked') = synced /\ \A i \in 1 .. synced : acked'[i] = acked[i]
  BY CutProperties DEF TypeInv, Crash
<1>a. /\ file' \in Seq(Cell) /\ Len(file') \in Nat /\ Len(file) \in Nat /\ disk \in Nat
      /\ disk <= Len(file') /\ Len(file') <= Len(file) /\ disk' = Len(file')
      /\ \A i \in 1 .. disk : file'[i] = file[i]
      /\ \A i \in 1 .. Len(file') : file'[i] = file[i] \/ file'[i] = Lost
  BY CrashFile
<1>b. Stream' = file'
  BY <1>a, ConcatEmptySeq DEF Stream, Crash
<1>c. /\ Len(Stream') <= Len(Stream)
      /\ \A i \in 1 .. Len(Stream') : Stream'[i] = Stream[i] \/ Stream'[i] = Lost
  <2>1. \A i \in 1 .. Len(file') : i \in 1 .. Len(file)
    BY <1>a
  <2> QED
    BY <1>a, <1>b, <2>1, StreamFacts
<1>1. TypeInv'
  <2>1. /\ buf' \in Seq(Cell) /\ buf' \in Seq(Half) /\ Len(buf') <= BufCap
        /\ disk' \in 0 .. Len(file') /\ synced' \in 0 .. Len(acked')
    BY <1>0, <1>a, BufAssumption DEF Crash
  <2> QED
    BY <1>0, <1>a, <2>1 DEF TypeInv, Crash
<1>2. BatchInv'
  BY DEF BatchInv, Crash
<1>3. StreamInv'
  BY <1>1, <1>c, CutStream DEF Crash
<1>4. AckInv'
  <2>1. \A i \in 1 .. synced : i \in 1 .. Len(acked)
    BY <1>0
  <2>2. ASSUME syncs' # "doubtful", NEW i \in 1 .. synced
        PROVE  Has(file', disk', acked'[i])
    <3>1. Has(file, disk, acked[i]) /\ acked'[i] = acked[i]
      BY <1>0, <2>2 DEF AckInv, Crash
    <3> QED
      BY <1>a, <3>1, HasMore
  <2>3. \A i \in 1 .. Len(acked') : acked'[i] < next - 0
    <3> SUFFICES ASSUME NEW i \in 1 .. Len(acked')
                 PROVE  acked'[i] < next - 0
      OBVIOUS
    <3>1. /\ acked'[i] = acked[i] /\ acked[i] < next - (IF pc = "copy" THEN Len(call) ELSE 0)
          /\ acked[i] \in Msg
      BY <1>0, <2>1, ElementOfSeq DEF AckInv, TypeInv
    <3>2. acked[i] \in Int /\ Len(call) \in Nat /\ next \in Int
      BY <3>1, BatchAssumption DEF TypeInv, Msg
    <3> QED
      BY ONLY <3>1, <3>2
  <2>4. \A i, j \in 1 .. Len(acked') : i < j => acked'[i] < acked'[j]
    BY <1>0, <2>1 DEF AckInv
  <2>5. pc' # "copy" /\ next' = next
    BY DEF Crash
  <2> QED
    BY <1>0, <1>a, <2>2, <2>3, <2>4, <2>5 DEF AckInv
<1>5. AlignInv'
  <2>1. \A i \in 1 .. Len(Stream') : i \in 1 .. Len(Stream)
    BY <1>a, <1>b, <1>c, StreamFacts
  <2>2. opens' = opens /\ pc' = "closed"
    BY DEF Crash
  <2>3. opens = 0 => file' = <<>>
    BY <1>a, EmptySeq DEF AlignInv
  <2> QED
    BY <1>c, <2>1, <2>2, <2>3 DEF AlignInv
<1> QED
  BY <1>1, <1>2, <1>3, <1>4, <1>5

(* The log starts empty.                                                   *)
LEMMA InitIInv == Init => IInv
<1> SUFFICES ASSUME Init
             PROVE  IInv
  OBVIOUS
<1> USE DEF Init
<1>1. TypeInv
  <2>1. <<>> \in Seq(Cell) /\ <<>> \in Seq(Msg) /\ Len(<<>>) = 0
    OBVIOUS
  <2>2. 1 \in 1 .. MaxMsgs + 1 /\ 0 <= BufCap
    BY BatchAssumption, BufAssumption
  <2> QED
    BY <2>1, <2>2 DEF TypeInv
<1>2. BatchInv
  BY DEF BatchInv
<1>3. Stream = <<>> /\ Len(Stream) = 0 /\ Len(file) = 0 /\ Len(acked) = 0
  BY DEF Stream
<1>4. StreamInv /\ AckInv /\ AlignInv
  BY <1>3 DEF StreamInv, Ascending, AckInv, AlignInv
<1> QED
  BY <1>1, <1>2, <1>4 DEF IInv

(* Every step keeps the invariant.                                         *)
LEMMA NextIInv == IInv /\ [Next]_vars => IInv'
<1> SUFFICES ASSUME IInv, [Next]_vars
             PROVE  IInv'
  OBVIOUS
<1>1. CASE UNCHANGED vars
  BY <1>1 DEF vars, IInv, TypeInv, BatchInv, StreamInv, AckInv, AlignInv, Stream, Bound, Ascending
<1> QED
  BY <1>1, CreateStep, CallStep, CopyStep, WriteOutStep, WriteFailsStep, ReturnOkStep, SyncStep,
     SyncFailsStep, DropStep, CrashStep DEF Next

(* In every reachable state of the writer the invariant holds.             *)
THEOREM Invariance == Spec => []IInv
  BY InitIInv, NextIInv, PTL DEF Spec

(* Every variable keeps its type; the buffer never exceeds its capacity    *)
(* and the disk never holds more than the file.                            *)
THEOREM TypeCorrect == Spec => []TypeOK
<1>1. IInv => TypeOK
  BY DEF IInv, TypeInv, TypeOK, Cell, Half, Msg
<1> QED
  BY <1>1, Invariance, PTL

(* Within one life of the writer every record starts at a multiple of its  *)
(* size, whatever partial and failing writes happen on the way.            *)
THEOREM Aligned == Spec => []RecordsAligned
<1>1. IInv => RecordsAligned
  <2> SUFFICES ASSUME IInv, opens = 1, NEW i \in 1 .. Len(file), file[i] # Lost
               PROVE  file[i][2] = (IF i % 2 = 1 THEN 1 ELSE 2)
    BY DEF RecordsAligned
  <2>1. i \in 1 .. Len(Stream) /\ Stream[i] = file[i]
    BY StreamFacts DEF IInv
  <2> QED
    BY <2>1 DEF IInv, AlignInv
<1> QED
  BY <1>1, Invariance, PTL

-----------------------------------------------------------------------------
(***************************************************************************)
(* The records of a log                                                    *)
(*                                                                         *)
(* Records numbers the positions where a whole record starts by their      *)
(* rank among them.  Ranks are strictly monotonic, so by a pigeon-hole     *)
(* argument every rank is taken, once.                                     *)
(***************************************************************************)
Rank(F, i) == Cardinality({j \in F : j <= i})

Firsts(q) == {i \in 1 .. Len(q) : IsWhole(q, i)}
Nth(q, n) == CHOOSE i \in Firsts(q) : Rank(Firsts(q), i) = n

(* The numbers of a finite set of numbers are ranked without gaps.         *)
LEMMA Ranks ==
  ASSUME NEW n \in Nat, NEW F \in SUBSET (1 .. n)
  PROVE  /\ Cardinality(F) \in Nat
         /\ \A i \in F : Rank(F, i) \in 1 .. Cardinality(F)
         /\ \A i, j \in F : i < j => Rank(F, i) < Rank(F, j)
         /\ \A k \in 1 .. Cardinality(F) : \E i \in F : Rank(F, i) = k
<1> DEFINE Below(i) == {j \in F : j <= i}
<1>0. \A i \in F : i \in Int
  OBVIOUS
<1>1. IsFiniteSet(F) /\ Cardinality(F) \in Nat
  <2>1. IsFiniteSet(1 .. n)
    BY FS_Interval
  <2>2. IsFiniteSet(F)
    BY <2>1, FS_Subset
  <2> QED
    BY <2>2, FS_CardinalityType
<1>2. ASSUME NEW i \in F
      PROVE  /\ IsFiniteSet(Below(i)) /\ Rank(F, i) \in 1 .. Cardinality(F)
             /\ Cardinality(Below(i)) = Rank(F, i)
  <2>1. IsFiniteSet(Below(i)) /\ Cardinality(Below(i)) <= Cardinality(F)
    BY <1>1, FS_Subset
  <2>2. Cardinality(Below(i)) \in Nat
    BY <2>1, FS_CardinalityType
  <2>3. Below(i) # {}
    <3>1. i \in Below(i)
      OBVIOUS
    <3> QED
      BY <3>1
  <2>4. Cardinality(Below(i)) # 0
    BY <2>1, <2>3, FS_EmptySet
  <2>5. Cardinality(Below(i)) \in 1 .. Cardinality(F)
    BY <1>1, <2>1, <2>2, <2>4
  <2> QED
    BY <2>1, <2>5 DEF Rank
<1>3. ASSUME NEW i \in F, NEW j \in F, i < j
      PROVE  Rank(F, i) < Rank(F, j)
  <2>1. Below(i) \subseteq Below(j) /\ j \in Below(j) /\ j \notin Below(i)
    <3>1. j <= j /\ ~(j <= i) /\ \A k \in F : k <= i => k <= j
      <4>1. i \in Int /\ j \in Int
        BY <1>0
      <4> QED
        BY <1>0, <1>3, <4>1
    <3> QED
      BY <3>1
  <2>2. Cardinality(Below(i)) <= Cardinality(Below(j)) /\ Cardinality(Below(i)) # Cardinality(Below(j))
    BY <1>2, <2>1, FS_Subset
  <2>3. Rank(F, i) <= Rank(F, j) /\ Rank(F, i) # Rank(F, j)
    BY <2>2 DEF Rank
  <2>4. Rank(F, i) \in Int /\ Rank(F, j) \in Int
    <3>1. Rank(F, i) \in 1 .. Cardinality(F) /\ Rank(F, j) \in 1 .. Cardinality(F)
      BY <1>2
    <3> QED
      BY <1>1, <3>1
  <2> QED
    BY ONLY <2>3, <2>4
<1>4. ASSUME NEW k \in 1 .. Cardinality(F), \A i \in F : Rank(F, i) # k
      PROVE  FALSE
  <2> DEFINE T == (1 .. Cardinality(F)) \ {k}
             f == [i \in F |-> Rank(F, i)]
  <2>1. IsFiniteSet(1 .. Cardinality(F)) /\ Cardinality(1 .. Cardinality(F)) = Cardinality(F)
    BY <1>1, FS_Interval
  <2>2. IsFiniteSet(T) /\ Cardinality(T) = Cardinality(F) - 1
    BY <2>1, FS_RemoveElement
  <2>3. Cardinality(T) < Cardinality(F)
    BY <1>1, <2>2
  <2>4. f \in [F -> T]
    BY <1>2, <1>4
  <2> HIDE DEF T, f
  <2>5. PICK i, j \in F : i # j /\ f[i] = f[j]
    BY <1>1, <2>2, <2>3, <2>4, FS_PigeonHole
  <2>6. Rank(F, i) = Rank(F, j)
    BY <2>5 DEF f
  <2>7. i \in Int /\ j \in Int /\ Rank(F, i) \in Int
    <3>1. Rank(F, i) \in 1 .. Cardinality(F)
      BY <1>2
    <3> QED
      BY <1>0, <1>1, <3>1
  <2>8. i < j \/ j < i
    BY <2>5, <2>7
  <2>9. Rank(F, i) < Rank(F, i)
    BY <1>3, <2>6, <2>8
  <2> QED
    BY <2>7, <2>9
<1> QED
  BY <1>1, <1>2, <1>3, <1>4

(* The starts of the whole records of q in order, and the records there.   *)
LEMMA RecordsFacts ==
  ASSUME NEW q \in Seq(Cell)
  PROVE  /\ Cardinality(Firsts(q)) \in Nat
         /\ \A n \in 1 .. Cardinality(Firsts(q)) :
              Nth(q, n) \in Firsts(q) /\ Rank(Firsts(q), Nth(q, n)) = n
         /\ \A i, j \in Firsts(q) : Rank(Firsts(q), i) = Rank(Firsts(q), j) => i = j
         /\ \A i \in Firsts(q) : Rank(Firsts(q), i) \in 1 .. Cardinality(Firsts(q))
         /\ Records(q) = [n \in 1 .. Cardinality(Firsts(q)) |-> q[Nth(q, n)][1]]
         /\ Records(q) \in Seq(Nat) /\ Len(Records(q)) = Cardinality(Firsts(q))
<1> DEFINE F == Firsts(q)
<1>0. Len(q) \in Nat
  OBVIOUS
<1>1. F \in SUBSET (1 .. Len(q))
  BY DEF Firsts
<1>2. /\ Cardinality(F) \in Nat
      /\ \A i \in F : Rank(F, i) \in 1 .. Cardinality(F)
      /\ \A i, j \in F : i < j => Rank(F, i) < Rank(F, j)
      /\ \A k \in 1 .. Cardinality(F) : \E i \in F : Rank(F, i) = k
  <2> HIDE DEF F
  <2> QED
    BY <1>0, <1>1, Ranks
<1>3. \A n \in 1 .. Cardinality(F) : Nth(q, n) \in F /\ Rank(F, Nth(q, n)) = n
  BY <1>2 DEF Nth
<1>4. ASSUME NEW i \in F, NEW j \in F, Rank(F, i) = Rank(F, j)
      PROVE  i = j
  <2>1. i \in Int /\ j \in Int /\ Rank(F, i) \in Int /\ Rank(F, j) \in Int
    BY <1>0, <1>1, <1>2
  <2>2. ~(i < j) /\ ~(j < i)
    BY <1>2, <1>4, <2>1
  <2> QED
    BY ONLY <2>1, <2>2
<1>5. Records(q) = [n \in 1 .. Cardinality(F) |-> q[Nth(q, n)][1]]
  BY DEF Records, Nth, Firsts, Rank
<1>6. \A n \in 1 .. Cardinality(F) : q[Nth(q, n)][1] \in Nat
  <2>1. \A i \in 1 .. Len(q) : q[i] \in Cell
    BY ElementOfSeq
  <2>2. \A h \in Cell : h[1] \in Nat
    BY BatchAssumption DEF Cell, Half, Msg, Lost
  <2> QED
    BY <1>1, <1>3, <2>1, <2>2
<1>7. Records(q) \in [1 .. Cardinality(F) -> Nat]
  BY <1>5, <1>6
<1>8. Records(q) \in Seq(Nat)
  BY <1>2, <1>7, SeqDef
<1>9. Len(Records(q)) = Cardinality(F)
  <2>1. DOMAIN Records(q) = 1 .. Cardinality(F) /\ DOMAIN Records(q) = 1 .. Len(Records(q))
        /\ Len(Records(q)) \in Nat
    BY <1>7, <1>8, LenProperties
  <2> QED
    BY <1>2, <2>1
<1> QED
  BY <1>2, <1>3, <1>4, <1>5, <1>8, <1>9

(* Log!IsPrefixOf, read element by element.                                *)
PrefixOf(s, t) == Len(s) <= Len(t) /\ \A i \in 1 .. Len(s) : t[i] = s[i]

(* A prefix, element by element.                                           *)
LEMMA PrefixIs ==
  ASSUME NEW s \in Seq(Nat), NEW t \in Seq(Nat), PrefixOf(s, t)
  PROVE  Log!IsPrefixOf(s, t)
<1>1. Len(s) \in 0 .. Len(t)
  BY LenProperties DEF PrefixOf
<1>2. /\ SubSeq(t, 1, Len(s)) \in Seq(Nat) /\ Len(SubSeq(t, 1, Len(s))) = Len(s)
      /\ \A i \in 1 .. Len(s) : SubSeq(t, 1, Len(s))[i] = t[i]
  BY <1>1, CutProperties
<1>3. \A i \in 1 .. Len(s) : s[i] = SubSeq(t, 1, Len(s))[i]
  BY <1>2 DEF PrefixOf
<1>4. s = SubSeq(t, 1, Len(s))
  BY <1>2, <1>3, SeqEqual
<1> QED
  BY <1>4 DEF PrefixOf, Log!IsPrefixOf

(* A log that continues another one continues its records.                 *)
LEMMA RecordsContinue ==
  ASSUME NEW q \in Seq(Cell), NEW r \in Seq(Cell), Len(q) <= Len(r),
         \A i \in 1 .. Len(q) : r[i] = q[i]
  PROVE  Log!IsPrefixOf(Records(q), Records(r))
<1> DEFINE F == Firsts(q)
           G == Firsts(r)
<1>0. Len(q) \in Nat /\ Len(r) \in Nat
  OBVIOUS
<1>1. \A i \in 1 .. Len(q) : i < Len(q) => (i \in F <=> i \in G)
  BY <1>0 DEF Firsts, IsWhole
<1>2. \A i \in F : i \in 1 .. Len(q) /\ i < Len(q)
  BY DEF Firsts, IsWhole
<1>3. \A i \in G : i \in 1 .. Len(r)
  BY DEF Firsts
<1>4. F \subseteq G
  BY <1>1, <1>2
<1>5. ASSUME NEW i \in F
      PROVE  Rank(F, i) = Rank(G, i)
  <2>1. ASSUME NEW j \in G, j <= i
        PROVE  j \in F
    <3>1. j \in 1 .. Len(q) /\ j < Len(q)
      <4>1. i \in 1 .. Len(q) /\ i < Len(q) /\ j \in 1 .. Len(r)
        BY <1>2, <1>3
      <4> QED
        BY ONLY <1>0, <2>1, <4>1
    <3> QED
      BY <1>1, <3>1
  <2>2. {j \in F : j <= i} = {j \in G : j <= i}
    BY <1>4, <2>1
  <2> QED
    BY <2>2 DEF Rank
<1>6. /\ Cardinality(F) \in Nat /\ Cardinality(G) \in Nat
      /\ Records(q) \in Seq(Nat) /\ Len(Records(q)) = Cardinality(F)
      /\ Records(r) \in Seq(Nat) /\ Len(Records(r)) = Cardinality(G)
  BY RecordsFacts
<1>7. Cardinality(F) <= Cardinality(G)
  <2>1. IsFiniteSet(1 .. Len(r)) /\ G \in SUBSET (1 .. Len(r))
    BY <1>0, <1>3, FS_Interval
  <2>2. IsFiniteSet(G)
    BY <2>1, FS_Subset
  <2> QED
    BY <1>4, <2>2, FS_Subset
<1>8. ASSUME NEW n \in 1 .. Cardinality(F)
      PROVE  n \in 1 .. Cardinality(G) /\ Records(r)[n] = Records(q)[n]
  <2>1. n \in 1 .. Cardinality(G)
    BY <1>6, <1>7
  <2>2. Nth(q, n) \in F /\ Rank(F, Nth(q, n)) = n
    BY RecordsFacts
  <2>3. Nth(q, n) \in G /\ Rank(G, Nth(q, n)) = n
    BY <1>4, <1>5, <2>2
  <2>4. Nth(r, n) \in G /\ Rank(G, Nth(r, n)) = n
    BY <2>1, RecordsFacts
  <2>5. Nth(r, n) = Nth(q, n)
    BY <2>3, <2>4, RecordsFacts
  <2>6. r[Nth(q, n)] = q[Nth(q, n)]
    BY <1>2, <2>2
  <2>7. Records(q)[n] = q[Nth(q, n)][1]
    BY RecordsFacts
  <2>8. Records(r)[n] = r[Nth(r, n)][1]
    BY <2>1, RecordsFacts
  <2> QED
    BY <2>1, <2>5, <2>6, <2>7, <2>8
<1> HIDE DEF F, G
<1>9. PrefixOf(Records(q), Records(r))
  BY <1>6, <1>7, <1>8 DEF PrefixOf
<1> QED
  BY <1>6, <1>9, PrefixIs

(* The records of an ascending log ascend.                                 *)
LEMMA RecordsAscend ==
  ASSUME NEW q \in Seq(Cell), Ascending(q)
  PROVE  Log!Increasing(Records(q))
<1> DEFINE F == Firsts(q)
<1>1. ASSUME NEW n \in 1 .. Cardinality(F), NEW k \in 1 .. Cardinality(F), n < k
      PROVE  Records(q)[n] < Records(q)[k]
  <2>0. Cardinality(F) \in Nat /\ Len(q) \in Nat
    BY RecordsFacts
  <2>1. Nth(q, n) \in F /\ Rank(F, Nth(q, n)) = n /\ Nth(q, k) \in F /\ Rank(F, Nth(q, k)) = k
    BY RecordsFacts
  <2>2. /\ Nth(q, n) \in 1 .. Len(q) /\ Nth(q, k) \in 1 .. Len(q)
        /\ q[Nth(q, n)][2] = 1 /\ q[Nth(q, k)][2] = 1
    BY <2>1 DEF Firsts, IsWhole
  <2>3. Nth(q, n) < Nth(q, k)
    <3> SUFFICES ASSUME ~(Nth(q, n) < Nth(q, k))
                 PROVE  FALSE
      OBVIOUS
    <3>1. Nth(q, k) < Nth(q, n) \/ Nth(q, k) = Nth(q, n)
      BY <2>0, <2>2
    <3>2. Nth(q, k) # Nth(q, n)
      BY <1>1, <2>0, <2>1
    <3>3. \A i, j \in F : i < j => Rank(F, i) < Rank(F, j)
      <4>1. F \in SUBSET (1 .. Len(q))
        BY DEF Firsts
      <4> QED
        BY <2>0, <4>1, Ranks
    <3>4. k < n
      BY <2>1, <3>1, <3>2, <3>3
    <3> QED
      BY <1>1, <2>0, <3>4
  <2>a. q[Nth(q, n)] # Lost /\ q[Nth(q, k)] # Lost
    <3>1. Lost[2] # 1
      BY DEF Lost
    <3> QED
      BY <2>2, <3>1
  <2>4. Before(q[Nth(q, n)], q[Nth(q, k)])
    BY <2>2, <2>3, <2>a DEF Ascending
  <2>5. q[Nth(q, n)][1] < q[Nth(q, k)][1]
    BY <2>2, <2>4 DEF Before
  <2>6. Records(q)[n] = q[Nth(q, n)][1] /\ Records(q)[k] = q[Nth(q, k)][1]
    BY RecordsFacts
  <2> QED
    BY <2>5, <2>6
<1>2. Len(Records(q)) = Cardinality(F)
  BY RecordsFacts
<1> QED
  BY <1>1, <1>2 DEF Log!Increasing

(* A message that is whole in a log is one of its records.                 *)
LEMMA RecordsHave ==
  ASSUME NEW q \in Seq(Cell), NEW m, Has(q, Len(q), m)
  PROVE  m \in Log!Elements(Records(q))
<1>1. PICK i \in 1 .. Len(q) - 1 : q[i] = <<m, 1>> /\ q[i + 1] = <<m, 2>>
  BY DEF Has
<1>2. i \in 1 .. Len(q) /\ i < Len(q)
  BY LenProperties
<1>3. i \in Firsts(q)
  BY <1>1, <1>2 DEF Firsts, IsWhole
<1> DEFINE n == Rank(Firsts(q), i)
<1>4. n \in 1 .. Len(Records(q)) /\ Nth(q, n) = i /\ Records(q)[n] = q[Nth(q, n)][1]
  <2>1. n \in 1 .. Cardinality(Firsts(q))
    BY <1>3, RecordsFacts
  <2> HIDE DEF n
  <2>2. Nth(q, n) \in Firsts(q) /\ Rank(Firsts(q), Nth(q, n)) = n
    BY <2>1, RecordsFacts
  <2>3. Nth(q, n) = i
    BY <1>3, <2>2, RecordsFacts DEF n
  <2> QED
    BY <2>1, <2>3, RecordsFacts
<1>5. Records(q)[n] = m
  BY <1>1, <1>4
<1> QED
  BY <1>4, <1>5 DEF Log!Elements

(* A log that parts of were lost has no records that it did not have.      *)
LEMMA RecordsLost ==
  ASSUME NEW q \in Seq(Cell), NEW r \in Seq(Cell), Len(r) <= Len(q),
         \A i \in 1 .. Len(r) : r[i] = q[i] \/ r[i] = Lost
  PROVE  Log!Elements(Records(r)) \subseteq Log!Elements(Records(q))
<1> SUFFICES ASSUME NEW n \in 1 .. Len(Records(r))
             PROVE  Records(r)[n] \in Log!Elements(Records(q))
  BY DEF Log!Elements
<1> DEFINE i == Nth(r, n)
           m == r[i][1]
<1>1. i \in Firsts(r) /\ Records(r)[n] = m
  BY RecordsFacts
<1> HIDE DEF i
<1>2. Len(q) \in Nat /\ Len(r) \in Nat
  OBVIOUS
<1>3. i \in 1 .. Len(r) /\ i + 1 \in 1 .. Len(r) /\ r[i][2] = 1 /\ r[i + 1] = <<m, 2>>
  BY <1>1, <1>2 DEF Firsts, IsWhole
<1>4. r[i] # Lost /\ r[i + 1] # Lost
  <2>1. Lost[2] = 0 /\ <<m, 2>>[2] = 2
    BY DEF Lost
  <2> QED
    BY <1>3, <2>1
<1>5. q[i] = r[i] /\ q[i + 1] = r[i + 1]
  BY <1>3, <1>4
<1>6. r[i] = <<m, 1>>
  <2>1. r[i] \in Half
    BY <1>3, <1>4, ElementOfSeq DEF Cell
  <2> QED
    BY <1>3, <2>1 DEF Half
<1>7. i \in 1 .. Len(q) - 1
  BY <1>2, <1>3
<1>8. Has(q, Len(q), m)
  BY <1>3, <1>5, <1>6, <1>7 DEF Has
<1> QED
  BY <1>1, <1>8, RecordsHave

-----------------------------------------------------------------------------
(***************************************************************************)
(* The writer implements the log                                           *)
(***************************************************************************)
(* The part of a file that is on disk.                                     *)
Cut(f, d) == SubSeq(f, 1, d)

(* What is on disk is the beginning of the file, and its records that of   *)
(* the records.                                                            *)
LEMMA CutFacts ==
  ASSUME NEW f \in Seq(Cell), NEW d \in 0 .. Len(f)
  PROVE  /\ Cut(f, d) \in Seq(Cell) /\ Len(Cut(f, d)) = d /\ d \in Nat /\ Len(f) \in Nat /\ d <= Len(f)
         /\ \A i \in 1 .. d : Cut(f, d)[i] = f[i]
         /\ Len(Records(Cut(f, d))) \in Nat /\ Len(Records(f)) \in Nat
         /\ Len(Records(Cut(f, d))) <= Len(Records(f))
         /\ Records(Cut(f, d)) = SubSeq(Records(f), 1, Len(Records(Cut(f, d))))
<1>1. Len(f) \in Nat /\ d \in Nat /\ d <= Len(f)
  BY LenProperties
<1>2. Cut(f, d) \in Seq(Cell) /\ Len(Cut(f, d)) = d /\ \A i \in 1 .. d : Cut(f, d)[i] = f[i]
  BY <1>1, CutProperties DEF Cut
<1>3. Log!IsPrefixOf(Records(Cut(f, d)), Records(f))
  BY <1>1, <1>2, RecordsContinue
<1>4. Len(Records(Cut(f, d))) \in Nat /\ Len(Records(f)) \in Nat
  BY <1>2, RecordsFacts
<1> QED
  BY <1>1, <1>2, <1>3, <1>4 DEF Log!IsPrefixOf

(* The file is in the order of the calls if the stream is.                 *)
LEMMA FileAscends ==
  ASSUME NEW f \in Seq(Cell), NEW b \in Seq(Cell), Ascending(f \o b)
  PROVE  Ascending(f)
<1>1. /\ Len(f \o b) = Len(f) + Len(b)
      /\ \A i \in 1 .. Len(f) + Len(b) : (f \o b)[i] = IF i <= Len(f) THEN f[i] ELSE b[i - Len(f)]
  BY ConcatProperties
<1>2. \A i \in 1 .. Len(f) : i <= Len(f) /\ i \in 1 .. Len(f) + Len(b)
  BY LenProperties
<1> QED
  BY <1>1, <1>2 DEF Ascending

(* A file that has grown is a log that has.                                *)
LEMMA GrowthIsWrite ==
  ASSUME IInv, IInv', Len(file) <= Len(file'), \A i \in 1 .. Len(file) : file'[i] = file[i],
         UNCHANGED <<disk, acked, synced>>
  PROVE  Log!Write
<1>1. TypeInv /\ TypeInv'
  BY DEF IInv
<1>2. file \in Seq(Cell) /\ file' \in Seq(Cell)
  BY <1>1 DEF TypeInv
<1>3. Log!IsPrefixOf(Records(file), Records(file'))
  BY <1>2, RecordsContinue
<1>4. Records(file') \in Seq(Nat)
  BY <1>2, RecordsFacts
<1>5. Log!Increasing(Records(file'))
  <2>2. Ascending(file')
    BY FileAscends DEF IInv, TypeInv, StreamInv, Stream
  <2> QED
    BY <1>2, <2>2, RecordsAscend
<1>6. Cut(file', disk) = Cut(file, disk)
  <2>1. disk \in 0 .. Len(file) /\ disk \in 0 .. Len(file')
    BY <1>1, LenProperties DEF TypeInv
  <2>2. /\ Cut(file, disk) \in Seq(Cell) /\ Len(Cut(file, disk)) = disk /\ disk <= Len(file)
        /\ \A i \in 1 .. disk : Cut(file, disk)[i] = file[i]
    BY <1>2, <2>1, CutFacts
  <2>3. /\ Cut(file', disk) \in Seq(Cell) /\ Len(Cut(file', disk)) = disk
        /\ \A i \in 1 .. disk : Cut(file', disk)[i] = file'[i]
    BY <1>2, <2>1, CutFacts
  <2>4. \A i \in 1 .. Len(Cut(file, disk)) : Cut(file, disk)[i] = Cut(file', disk)[i]
    <3>1. \A i \in 1 .. disk : i \in 1 .. Len(file)
      BY <2>1, <2>2
    <3> QED
      BY <2>2, <2>3, <3>1
  <2> QED
    BY <2>2, <2>3, <2>4, SeqEqual
<1> QED
  BY <1>3, <1>4, <1>5, <1>6 DEF Log!Write, Cut

(* Ok: the batch is acknowledged, and it is in the log.                    *)
LEMMA OkIsAcknowledge ==
  ASSUME IInv, IInv', ReturnOk, syncs' # "doubtful"
  PROVE  Log!Acknowledge
<1>1. acked \in Seq(Msg) /\ call \in Seq(Msg) /\ acked' = acked \o call /\ file' = file /\ file \in Seq(Cell)
  BY DEF IInv, TypeInv, ReturnOk
<1>2. acked \in Seq(Nat) /\ call \in Seq(Nat)
  <2>1. Msg \subseteq Nat
    BY DEF Msg
  <2> QED
    BY <1>1, <2>1, SeqMonotonic
<1>3. /\ acked' \in Seq(Nat) /\ Len(acked') = Len(acked) + Len(call)
      /\ \A i \in 1 .. Len(acked) + Len(call) :
           acked'[i] = IF i <= Len(acked) THEN acked[i] ELSE call[i - Len(acked)]
  BY <1>1, <1>2, ConcatProperties
<1>4. Len(acked) \in Nat /\ Len(call) \in Nat
  BY <1>2, LenProperties
<1>5. PrefixOf(acked, acked')
  <2>1. \A i \in 1 .. Len(acked) : i <= Len(acked) /\ i \in 1 .. Len(acked) + Len(call)
    BY <1>4
  <2> QED
    BY <1>3, <1>4, <2>1 DEF PrefixOf
<1>6. Log!IsPrefixOf(acked, acked')
  BY <1>2, <1>3, <1>5, PrefixIs
<1>7. Log!Increasing(acked')
  BY DEF IInv, AckInv, Log!Increasing
<1>8. Log!Elements(acked') \subseteq Log!Elements(Records(file))
  <2> SUFFICES ASSUME NEW i \in 1 .. Len(acked')
               PROVE  acked'[i] \in Log!Elements(Records(file))
    BY DEF Log!Elements
  <2>1. Has(file, Len(file), acked'[i])
    BY <1>1 DEF IInv, AckInv
  <2> QED
    BY <1>1, <2>1, RecordsHave
<1> QED
  BY <1>1, <1>3, <1>6, <1>7, <1>8 DEF Log!Acknowledge, ReturnOk

(* sync makes the log durable as far as it is in the file.                 *)
LEMMA SyncIsSync ==
  ASSUME IInv, Sync, syncs' # "doubtful"
  PROVE  Log!Sync
<1>1. file \in Seq(Cell) /\ file' = file /\ disk' = Len(file)
  BY DEF IInv, TypeInv, Sync
<1>2. SubSeq(file', 1, disk') = file
  BY <1>1, SubSeqFull
<1> QED
  BY <1>2 DEF Sync, Log!Sync

(* A power loss takes records of the log that are not whole on disk, in    *)
(* any order.                                                              *)
LEMMA CrashIsPowerLoss ==
  ASSUME IInv, IInv', Crash
  PROVE  Log!PowerLoss
<1>1. /\ file \in Seq(Cell) /\ disk \in 0 .. Len(file)
      /\ file' \in Seq(Cell) /\ Len(file') \in Nat /\ Len(file) \in Nat /\ disk \in Nat
      /\ disk <= Len(file') /\ Len(file') <= Len(file) /\ disk' = Len(file')
      /\ \A i \in 1 .. disk : file'[i] = file[i]
      /\ \A i \in 1 .. Len(file') : file'[i] = file[i] \/ file'[i] = Lost
  BY CrashFile DEF IInv, TypeInv
<1> DEFINE q == Cut(file, disk)
<1>2. /\ q \in Seq(Cell) /\ Len(q) = disk /\ \A i \in 1 .. disk : q[i] = file[i]
      /\ Records(q) = SubSeq(Records(file), 1, Len(Records(q)))
  BY <1>1, CutFacts
<1> HIDE DEF q
<1>3. Log!IsPrefixOf(SubSeq(Records(file), 1, Len(Records(q))), Records(file'))
  <2>1. Log!IsPrefixOf(Records(q), Records(file'))
    BY <1>1, <1>2, RecordsContinue
  <2> QED
    BY <1>2, <2>1
<1>4. Records(file') \in Seq(Nat)
  BY <1>1, RecordsFacts
<1>5. Ascending(file')
  BY FileAscends DEF IInv, TypeInv, StreamInv, Stream
<1>6. Log!Increasing(Records(file'))
  BY <1>1, <1>5, RecordsAscend
<1>7. Log!Elements(Records(file')) \subseteq Log!Elements(Records(file))
  BY <1>1, RecordsLost
<1>8. SubSeq(file', 1, disk') = file'
  BY <1>1, SubSeqFull
<1>9. acked' = SubSeq(acked, 1, synced) /\ synced' = synced
  BY DEF Crash
<1> QED
  BY <1>3, <1>4, <1>6, <1>7, <1>8, <1>9 DEF Log!PowerLoss, q, Cut

(* The std writer implements the log it promises, for every buffer, every  *)
(* partial and failing write, crash and reopening: every step adds whole   *)
(* records at the end of the log, acknowledges what is in it, makes it     *)
(* durable, loses records that were not, or leaves it alone, until a sync  *)
(* returns Ok after one that failed.                                       *)
THEOREM StdWriterImplementsLog == Spec => ImplementsLog
<1>1. Init => Log!Init
  <2> SUFFICES ASSUME Init
               PROVE  Log!Init
    OBVIOUS
  <2>1. file = <<>> /\ Len(file) = 0 /\ file \in Seq(Cell) /\ disk = 0
    BY DEF Init
  <2>2. Firsts(file) = {}
    BY <2>1 DEF Firsts
  <2>3. Len(Records(file)) = 0 /\ Records(file) \in Seq(Nat)
    BY <2>1, <2>2, RecordsFacts, FS_EmptySet
  <2>4. Records(file) = <<>>
    BY <2>3, EmptySeq
  <2>5. SubSeq(file, 1, disk) = file
    BY <2>1, SubSeqFull
  <2> QED
    BY <2>3, <2>4, <2>5 DEF Init, Log!Init
<1>2. IInv /\ IInv' /\ [Next]_vars => [syncs' # "doubtful" => Log!Next \/ UNCHANGED Log!logVars]_vars
  <2> SUFFICES ASSUME IInv, IInv', Next, syncs' # "doubtful"
               PROVE  Log!Next \/ UNCHANGED Log!logVars
    OBVIOUS
  <2>0. TypeInv
    BY DEF IInv
  <2>1. CASE WriteOut \/ DropWriter
    <3>1. PICK n \in 0 .. Len(buf) : file' = file \o SubSeq(buf, 1, n)
      <4>1. Len(buf) \in Nat
        BY <2>0 DEF TypeInv
      <4> QED
        BY <2>1, <4>1, SMTT(30) DEF WriteOut, DropWriter
    <3>2. Len(file') = Len(file) + n /\ \A i \in 1 .. Len(file) : file'[i] = file[i]
      BY <2>0, <3>1, Moved
    <3>3. Len(file) <= Len(file')
      BY <2>0, <3>2 DEF TypeInv
    <3>4. UNCHANGED <<disk, acked, synced>>
      BY <2>1 DEF WriteOut, DropWriter
    <3> QED
      BY <3>2, <3>3, <3>4, GrowthIsWrite DEF Log!Next
  <2>2. CASE ReturnOk
    BY <2>2, OkIsAcknowledge DEF Log!Next
  <2>3. CASE Sync
    BY <2>3, SyncIsSync DEF Log!Next
  <2>4. CASE Crash
    BY <2>4, CrashIsPowerLoss DEF Log!Next
  <2>5. CASE \/ Create \/ CopyRecord \/ WriteFails \/ SyncFails
             \/ \E n \in BatchSizes : CallWriteBatch(n)
    BY <2>5 DEF Create, CopyRecord, WriteFails, SyncFails, CallWriteBatch, Log!logVars
  <2> QED
    BY <2>1, <2>2, <2>3, <2>4, <2>5 DEF Next
<1>3. Spec => Log!Init
  BY <1>1 DEF Spec
<1> DEFINE A == syncs' # "doubtful" => Log!Next \/ UNCHANGED Log!logVars
<1>4. IInv /\ IInv' /\ [Next]_vars => [A]_vars
  BY <1>2
<1> HIDE DEF A
<1>5. Spec => [][A]_vars
  BY <1>4, Invariance, PTL DEF Spec
<1> QED
  BY <1>3, <1>5 DEF ImplementsLog, A
====
