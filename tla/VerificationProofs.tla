-------------------------- MODULE VerificationProofs --------------------------
(***************************************************************************)
(* Proofs about the trial drivers, for any number of trials and messages,  *)
(* any results the trials report, any batch sizes and writer kinds.        *)
(***************************************************************************)
EXTENDS Verification, ModularArithmetic, SequenceTheorems, FiniteSetTheorems

-----------------------------------------------------------------------------
(***************************************************************************)
(* Sorting                                                                 *)
(*                                                                         *)
(* Place numbers the elements of a sequence without gaps or repetitions,   *)
(* by a pigeon-hole argument, and in the order of their values.            *)
(***************************************************************************)
NotAfter(s, i, j) == s[i] < s[j] \/ (s[i] = s[j] /\ i <= j)

(* What is not after an element is a finite set that contains it.          *)
LEMMA PlaceIs ==
  ASSUME NEW s \in Seq(Nat), NEW i \in 1 .. Len(s)
  PROVE  LET B == {j \in 1 .. Len(s) : NotAfter(s, j, i)}
         IN  IsFiniteSet(B) /\ Place(s, i) = Cardinality(B) /\ i \in B
<1> DEFINE B == {j \in 1 .. Len(s) : NotAfter(s, j, i)}
<1>1. IsFiniteSet(B)
  <2>1. IsFiniteSet(1 .. Len(s)) /\ B \in SUBSET (1 .. Len(s))
    BY LenProperties, FS_Interval
  <2> QED
    BY <2>1, FS_Subset
<1>2. Place(s, i) = Cardinality(B)
  <2>1. DOMAIN s = 1 .. Len(s)
    BY LenProperties
  <2> QED
    BY <2>1 DEF Place, NotAfter
<1>3. i \in B
  BY DEF NotAfter
<1> QED
  BY <1>1, <1>2, <1>3

(* The elements are placed one after the other, in the order of values.    *)
LEMMA PlaceFacts ==
  ASSUME NEW s \in Seq(Nat)
  PROVE  /\ \A i \in 1 .. Len(s) : Place(s, i) \in 1 .. Len(s)
         /\ \A i, j \in 1 .. Len(s) : Place(s, i) < Place(s, j) => s[i] <= s[j]
         /\ \A i, j \in 1 .. Len(s) : Place(s, i) = Place(s, j) => i = j
         /\ \A k \in 1 .. Len(s) : \E i \in 1 .. Len(s) : Place(s, i) = k
<1> DEFINE n == Len(s)
           B(i) == {j \in 1 .. n : NotAfter(s, j, i)}
<1>0. n \in Nat /\ \A i \in 1 .. n : s[i] \in Nat
  BY LenProperties, ElementOfSeq
<1>a. IsFiniteSet(1 .. n) /\ Cardinality(1 .. n) = n
  BY <1>0, FS_Interval
<1>1. ASSUME NEW i \in 1 .. n
      PROVE  IsFiniteSet(B(i)) /\ Place(s, i) = Cardinality(B(i)) /\ i \in B(i) /\ Place(s, i) \in 1 .. n
  <2>1. IsFiniteSet(B(i)) /\ Place(s, i) = Cardinality(B(i)) /\ i \in B(i)
    BY PlaceIs
  <2>2. Cardinality(B(i)) <= n
    BY <1>a, FS_Subset
  <2>3. Cardinality(B(i)) \in Nat /\ Cardinality(B(i)) # 0
    BY <2>1, FS_CardinalityType, FS_EmptySet
  <2> QED
    BY <1>0, <2>1, <2>2, <2>3
<1>2. ASSUME NEW i \in 1 .. n, NEW j \in 1 .. n, i # j, NotAfter(s, i, j)
      PROVE  Place(s, i) < Place(s, j)
  <2>0. i \in Int /\ j \in Int /\ s[i] \in Nat /\ s[j] \in Nat
    BY <1>0
  <2>1. ASSUME NEW k \in 1 .. n, NotAfter(s, k, i)
        PROVE  NotAfter(s, k, j)
    <3>1. k \in Int /\ s[k] \in Nat
      BY <1>0
    <3> QED
      BY <1>2, <2>0, <2>1, <3>1 DEF NotAfter
  <2>2. ~NotAfter(s, j, i)
    BY <1>2, <2>0 DEF NotAfter
  <2>3. B(i) \in SUBSET B(j) /\ j \in B(j) /\ j \notin B(i)
    BY <1>1, <2>1, <2>2
  <2>4. Cardinality(B(i)) <= Cardinality(B(j)) /\ Cardinality(B(i)) # Cardinality(B(j))
    BY <1>1, <2>3, FS_Subset
  <2>5. Place(s, i) \in Int /\ Place(s, j) \in Int
    <3>1. Place(s, i) \in 1 .. n /\ Place(s, j) \in 1 .. n
      BY <1>1
    <3> QED
      BY <1>0, <3>1
  <2>6. Place(s, i) <= Place(s, j) /\ Place(s, i) # Place(s, j)
    BY <1>1, <2>4
  <2> QED
    BY ONLY <2>5, <2>6
<1>3. ASSUME NEW i \in 1 .. n, NEW j \in 1 .. n
      PROVE  /\ Place(s, i) < Place(s, j) => s[i] <= s[j]
             /\ Place(s, i) = Place(s, j) => i = j
  <2>0. i \in Int /\ j \in Int /\ s[i] \in Nat /\ s[j] \in Nat /\ Place(s, i) \in Int /\ Place(s, j) \in Int
    <3>1. Place(s, i) \in 1 .. n /\ Place(s, j) \in 1 .. n
      BY <1>1
    <3> QED
      BY <1>0, <3>1
  <2>1. NotAfter(s, i, j) \/ NotAfter(s, j, i)
    BY <2>0 DEF NotAfter
  <2>2. i # j => Place(s, i) < Place(s, j) \/ Place(s, j) < Place(s, i)
    BY <1>2, <2>1
  <2>3. Place(s, i) = Place(s, j) => i = j
    BY <2>0, <2>2
  <2>4. Place(s, i) < Place(s, j) => NotAfter(s, i, j)
    BY <1>2, <2>0, <2>1
  <2> QED
    BY <2>0, <2>3, <2>4 DEF NotAfter
<1>4. ASSUME NEW k \in 1 .. n, \A i \in 1 .. n : Place(s, i) # k
      PROVE  FALSE
  <2> DEFINE T == (1 .. n) \ {k}
             f == [i \in 1 .. n |-> Place(s, i)]
  <2>1. IsFiniteSet(T) /\ Cardinality(T) = n - 1
    BY <1>a, FS_RemoveElement
  <2>2. Cardinality(T) < Cardinality(1 .. n)
    BY <1>0, <1>a, <2>1
  <2>3. f \in [1 .. n -> T]
    BY <1>1, <1>4
  <2>4. \A i \in 1 .. n : f[i] = Place(s, i)
    OBVIOUS
  <2> HIDE DEF T, f
  <2>5. PICK i, j \in 1 .. n : i # j /\ f[i] = f[j]
    BY <1>a, <2>1, <2>2, <2>3, FS_PigeonHole
  <2> QED
    BY <1>3, <2>4, <2>5
<1> QED
  BY <1>1, <1>3, <1>4

(* Sorted puts every element at its place.                                 *)
LEMMA SortedFacts ==
  ASSUME NEW S \in SUBSET Nat, NEW s \in Seq(S)
  PROVE  /\ Sorted(s) \in Seq(S) /\ Len(Sorted(s)) = Len(s)
         /\ \A i, j \in 1 .. Len(s) : i <= j => Sorted(s)[i] <= Sorted(s)[j]
         /\ \A i \in 1 .. Len(s) : Place(s, i) \in 1 .. Len(s) /\ Sorted(s)[Place(s, i)] = s[i]
         /\ \A i, j \in 1 .. Len(s) : Place(s, i) = Place(s, j) => i = j
<1> DEFINE n == Len(s)
           At(k) == CHOOSE i \in DOMAIN s : Place(s, i) = k
           v == Sorted(s)
<1>0. s \in Seq(Nat) /\ n \in Nat /\ DOMAIN s = 1 .. n /\ \A i \in 1 .. n : s[i] \in S
  BY SeqMonotonic, LenProperties, ElementOfSeq
<1>1. /\ \A i \in 1 .. n : Place(s, i) \in 1 .. n
      /\ \A i, j \in 1 .. n : Place(s, i) < Place(s, j) => s[i] <= s[j]
      /\ \A i, j \in 1 .. n : Place(s, i) = Place(s, j) => i = j
      /\ \A k \in 1 .. n : \E i \in 1 .. n : Place(s, i) = k
  BY <1>0, PlaceFacts
<1>2. \A k \in 1 .. n : At(k) \in 1 .. n /\ Place(s, At(k)) = k
  BY <1>0, <1>1
<1>3. v = [k \in 1 .. n |-> s[At(k)]]
  BY DEF Sorted
<1> HIDE DEF At, v
<1>4. v \in [1 .. n -> S]
  BY <1>0, <1>2, <1>3
<1>5. v \in Seq(S)
  BY <1>0, <1>4, SeqDef
<1>6. Len(v) = n
  <2>1. DOMAIN v = 1 .. n /\ DOMAIN v = 1 .. Len(v) /\ Len(v) \in Nat
    BY <1>4, <1>5, LenProperties
  <2> QED
    BY <1>0, <2>1
<1>7. ASSUME NEW i \in 1 .. n, NEW j \in 1 .. n, i <= j
      PROVE  v[i] <= v[j]
  <2>1. v[i] = s[At(i)] /\ v[j] = s[At(j)] /\ v[i] \in Nat
    BY <1>3, <1>4
  <2>2. CASE i = j
    BY <2>1, <2>2
  <2>3. CASE i # j
    <3>1. i < j
      BY <1>0, <1>7, <2>3
    <3>2. Place(s, At(i)) < Place(s, At(j))
      BY <1>2, <3>1
    <3> QED
      BY <1>1, <1>2, <2>1, <3>2
  <2> QED
    BY <2>2, <2>3
<1>8. ASSUME NEW i \in 1 .. n
      PROVE  v[Place(s, i)] = s[i]
  <2>1. At(Place(s, i)) = i
    BY <1>1, <1>2
  <2> QED
    BY <1>1, <1>3, <2>1
<1> QED
  BY <1>1, <1>5, <1>6, <1>7, <1>8 DEF v

-----------------------------------------------------------------------------
(***************************************************************************)
(* Medians                                                                 *)
(***************************************************************************)

(* Whatever lies between the two middle elements of the sorted sequence v  *)
(* (one and the same if its length is odd) is in the middle of every       *)
(* sequence s with these elements, in any order.                           *)
LEMMA MiddleOf ==
  ASSUME NEW s \in Seq(Nat), NEW v \in Seq(Nat), Len(v) = Len(s), s # <<>>,
         \A i, j \in 1 .. Len(v) : i <= j => v[i] <= v[j],
         NEW f, \A i \in 1 .. Len(s) : f[i] \in 1 .. Len(s) /\ v[f[i]] = s[i],
         \A i, j \in 1 .. Len(s) : f[i] = f[j] => i = j,
         \A k \in 1 .. Len(s) : \E i \in 1 .. Len(s) : f[i] = k,
         NEW t \in Int, 2 * v[(Len(s) + 1) \div 2] <= t, t <= 2 * v[Len(s) \div 2 + 1]
  PROVE  IsMiddle(t, s)
<1> DEFINE n == Len(s)
           lo == (n + 1) \div 2
           hi == n \div 2 + 1
<1>0. n \in Nat /\ n # 0 /\ DOMAIN s = 1 .. n
      /\ (\A i \in 1 .. n : s[i] \in Nat) /\ (\A i \in 1 .. n : v[i] \in Nat)
  BY LenProperties, ElementOfSeq, EmptySeq
<1>1. lo \in 1 .. n /\ hi \in 1 .. n /\ 2 * (hi - 1) <= n /\ 2 * (n - lo) <= n
  <2>1. n \in Nat /\ n # 0
    BY <1>0
  <2> HIDE DEF n
  <2> QED
    BY ONLY <2>1
<1>2. IsFiniteSet(1 .. n)
  BY <1>0, FS_Interval
<1>3. ASSUME NEW A \in SUBSET (1 .. n), NEW a \in Int, NEW b \in Int, a <= b + 1,
             \A i \in A : f[i] \in a .. b
      PROVE  Cardinality(A) \in Nat /\ Cardinality(A) <= b - a + 1
  <2> DEFINE g == [i \in A |-> f[i]]
             T == a .. b
  <2>1. IsFiniteSet(A) /\ Cardinality(A) \in Nat
    BY <1>2, FS_Subset, FS_CardinalityType
  <2>2. IsFiniteSet(a .. b) /\ Cardinality(a .. b) = b - a + 1
    <3>1. /\ IsFiniteSet(a .. b)
          /\ Cardinality(a .. b) = IF a > b THEN 0 ELSE b - a + 1
      BY FS_Interval
    <3>2. a <= b + 1
      BY <1>3
    <3> QED
      BY ONLY <3>1, <3>2, a \in Int, b \in Int
  <2>3. g \in [A -> T]
    BY <1>3
  <2>6. \A i \in A : g[i] = f[i]
    OBVIOUS
  <2>5. IsFiniteSet(T) /\ Cardinality(T) = b - a + 1
    BY <2>2
  <2> HIDE DEF g, T
  <2>4. ASSUME Cardinality(T) < Cardinality(A)
        PROVE  FALSE
    <3>0. IsFiniteSet(A) /\ IsFiniteSet(T) /\ Cardinality(T) < Cardinality(A) /\ g \in [A -> T]
      BY <2>1, <2>3, <2>4, <2>5
    <3>1. PICK i, j \in A : i # j /\ g[i] = g[j]
      BY ONLY <3>0, FS_PigeonHole
    <3> QED
      BY <2>6, <3>1
  <2> QED
    BY <2>1, <2>4, <2>5
<1>7. \A x, y \in Nat : /\ 2 * x < t /\ t <= 2 * y => ~(y <= x)
                        /\ 2 * x <= t /\ 2 * y > t => ~(y <= x)
  BY SMTT(30)
<1> HIDE DEF lo, hi
<1>4. 2 * CountOf(s, LAMBDA x : 2 * x < t) <= n
  <2> DEFINE A == {i \in 1 .. n : 2 * s[i] < t}
  <2>1. CountOf(s, LAMBDA x : 2 * x < t) = Cardinality(A)
    BY <1>0 DEF CountOf
  <2>2. ASSUME NEW i \in A
        PROVE  f[i] \in 1 .. hi - 1
    <3>1. i \in 1 .. n /\ f[i] \in 1 .. n /\ v[f[i]] = s[i] /\ 2 * s[i] < t
      OBVIOUS
    <3>2. v[f[i]] \in Nat /\ v[hi] \in Nat /\ t <= 2 * v[hi] /\ 2 * v[f[i]] < t
      BY <1>0, <1>1, <3>1 DEF hi
    <3>3. ~(v[hi] <= v[f[i]])
      BY <1>7, <3>2
    <3>4. ~(hi <= f[i])
      BY <1>1, <3>1, <3>3
    <3>5. n \in Nat /\ hi \in 1 .. n
      BY <1>0, <1>1
    <3> HIDE DEF n
    <3> QED
      BY ONLY <3>1, <3>4, <3>5
  <2>3. Cardinality(A) \in Nat /\ Cardinality(A) <= hi - 1 - 1 + 1
    <3>1. 1 \in Int /\ hi - 1 \in Int /\ 1 <= (hi - 1) + 1 /\ A \in SUBSET (1 .. n)
      BY <1>0, <1>1
    <3> HIDE DEF A
    <3> QED
      BY <1>3, <2>2, <3>1
  <2>4. n \in Nat /\ lo \in 1 .. n /\ hi \in 1 .. n /\ 2 * (hi - 1) <= n /\ 2 * (n - lo) <= n
    BY <1>0, <1>1
  <2>5. 2 * Cardinality(A) <= n
    <3> HIDE DEF A, n
    <3> QED
      BY ONLY <2>3, <2>4
  <2> QED
    BY <2>1, <2>5
<1>5. 2 * CountOf(s, LAMBDA x : 2 * x > t) <= n
  <2> DEFINE A == {i \in 1 .. n : 2 * s[i] > t}
  <2>1. CountOf(s, LAMBDA x : 2 * x > t) = Cardinality(A)
    BY <1>0 DEF CountOf
  <2>2. ASSUME NEW i \in A
        PROVE  f[i] \in lo + 1 .. n
    <3>1. i \in 1 .. n /\ f[i] \in 1 .. n /\ v[f[i]] = s[i] /\ 2 * s[i] > t
      OBVIOUS
    <3>2. v[f[i]] \in Nat /\ v[lo] \in Nat /\ 2 * v[lo] <= t /\ 2 * v[f[i]] > t
      BY <1>0, <1>1, <3>1 DEF lo
    <3>3. ~(v[f[i]] <= v[lo])
      BY <1>7, <3>2
    <3>4. ~(f[i] <= lo)
      BY <1>1, <3>1, <3>3
    <3>5. n \in Nat /\ lo \in 1 .. n
      BY <1>0, <1>1
    <3> HIDE DEF n
    <3> QED
      BY ONLY <3>1, <3>4, <3>5
  <2>3. Cardinality(A) \in Nat /\ Cardinality(A) <= n - (lo + 1) + 1
    <3>1. lo + 1 \in Int /\ n \in Int /\ lo + 1 <= n + 1 /\ A \in SUBSET (1 .. n)
      BY <1>0, <1>1
    <3> HIDE DEF A
    <3> QED
      BY <1>3, <2>2, <3>1
  <2>4. n \in Nat /\ lo \in 1 .. n /\ hi \in 1 .. n /\ 2 * (hi - 1) <= n /\ 2 * (n - lo) <= n
    BY <1>0, <1>1
  <2>5. 2 * Cardinality(A) <= n
    <3> HIDE DEF A, n
    <3> QED
      BY ONLY <2>3, <2>4
  <2> QED
    BY <2>1, <2>5
<1>6. \E i, j \in DOMAIN s : 2 * s[i] <= t /\ t <= 2 * s[j]
  <2>1. PICK i \in 1 .. n : f[i] = lo
    BY <1>1
  <2>2. PICK j \in 1 .. n : f[j] = hi
    BY <1>1
  <2>3. s[i] = v[lo] /\ s[j] = v[hi]
    BY <2>1, <2>2
  <2> QED
    BY <1>0, <2>3 DEF lo, hi
<1> QED
  BY <1>4, <1>5, <1>6 DEF IsMiddle

-----------------------------------------------------------------------------
(***************************************************************************)
(* The inductive invariant                                                 *)
(***************************************************************************)
DurSet == {"sync-end", "sync-per-batch"}

ResultSet ==
  [writer : STRING, batch : Nat, dur : DurSet, med : Nat,
   ratio : {None} \cup (Nat \X Nat), passes : {"none", "true", "false"}]

RateSet == [wait : {"busy-spin", "yield"}, p99s : Seq(P99s), med : Nat, iqr : Int, passes : BOOLEAN]

TypeInv ==
  /\ test \in {"tail", "disk", "both", "bench"}
  /\ stage \in {"tail", "disk", "bench", "done", "aborted"}
  /\ tailpc \in {"running", "exported", "panicked"}
  /\ p99s \in Seq(P99s) /\ tailResults \in Seq(RateSet)
  /\ trials \in Nat /\ msgs \in Nat /\ log \in Nat /\ durable \in Nat /\ total \in Nat
  /\ pc \in {"build", "write", "sync", "fill", "verdict", "exported", "panicked"}
  /\ mb \in Seq(Nat) /\ stdMed \in Nat /\ results \in Seq(ResultSet)
  /\ proven \in {"none", "true", "false"}

(* Which programs run, and how far the earlier ones have come.             *)
StageInv ==
  /\ stage = "tail" => test \in {"tail", "both"}
  /\ stage = "disk" => test \in {"disk", "both"}
  /\ stage = "bench" => test = "bench"
  /\ stage \in {"disk", "done"} /\ test \in {"tail", "both"} => tailpc = "exported"
  /\ stage = "done" /\ test \in {"disk", "both"} => pc = "exported"

(* A result of Test T keeps its trials in order, and is what they say.     *)
SoundRate(r) ==
  /\ \A i, j \in 1 .. Len(r.p99s) : i <= j => r.p99s[i] <= r.p99s[j]
  /\ r.med = Median(r.p99s) /\ r.iqr = Iqr(r.p99s)
  /\ r.passes => r.med < MicroSec /\ Stable(r.med, Iqr(r.p99s))

TailInv == \A i \in 1 .. Len(tailResults) : SoundRate(tailResults[i])

(* The first cell of the group of cell k, the cell of its std writer.      *)
First(k) == k - (k % GroupSize)

(* The results from this one on have not had their second pass.            *)
Open == IF pc = "fill" \/ Cell % GroupSize # 0 THEN First(Cell - 1) ELSE Cell

Base(i) == results[First(i - 1) + 1].med

Plain(r) == r.ratio = None /\ r.passes = "none"

(* Result i as its second pass, against base, has left it.                 *)
Compared(r, base) ==
  IF base = 0 THEN Plain(r)
  ELSE /\ r.ratio = <<r.med, base>>
       /\ r.passes = IF r.writer # "io_uring-WriteFixed" THEN "none"
                     ELSE IF Passes(r, r.ratio) THEN "true" ELSE "false"

(* Test D: where the driver is in its matrix.                              *)
CellInv ==
  test # "bench" =>
    /\ Cell <= CellCount
    /\ pc \in {"write", "sync"} => Cell < CellCount
    /\ pc = "fill" => Cell > 0 /\ Cell % GroupSize = 0 /\ mb = <<>>
    /\ pc = "verdict" \/ proven # "none" => Cell = CellCount /\ Cell % GroupSize = 0
    /\ pc = "exported" => proven # "none"
    /\ proven # "none" =>
         /\ pc \in {"exported", "panicked"}
         /\ (proven = "true") <=> \E i \in 1 .. Cell : results[i].passes = "true"

(* Test D: every result belongs to its cell and, up to the group that is   *)
(* open, has been compared with the std result of its own group.           *)
GroupInv ==
  test # "bench" =>
    /\ \A i \in 1 .. Cell :
         /\ results[i].writer = KindAt(i - 1)
         /\ results[i].batch = BatchAt(i - 1) /\ results[i].dur = DurAt(i - 1)
    /\ stdMed = IF Open < Cell THEN results[Open + 1].med ELSE 0
    /\ \A i \in 1 .. Cell : i - 1 < Open => Compared(results[i], Base(i))
    /\ \A i \in 1 .. Cell : i - 1 >= Open => Plain(results[i])

(* Test D: what a trial has written, synced and counted.                   *)
TimeInv ==
  test # "bench" =>
    /\ pc \in {"build", "fill", "verdict"} => durable = log
    /\ pc = "write" /\ DurAt(Cell) = "sync-per-batch" => durable = log
    /\ pc \in {"write", "sync"} => total <= log /\ total < msgs + BatchAt(Cell)
    /\ pc = "build" /\ mb # <<>> => Counted(BatchAt(Cell))

(* Phase 4b.                                                               *)
BenchInv ==
  test = "bench" =>
    /\ pc \in {"build", "write", "exported", "panicked"} /\ mb = <<>> /\ proven = "none"
    /\ \A i \in 1 .. Cell : results[i].ratio = None
    /\ pc = "build" => durable = log
    /\ pc = "write" => Cell < BenchCount /\ total <= log /\ total < msgs + BenchBatch
    /\ pc = "build" /\ results # <<>> => Counted(results[Cell].batch)

(* The inductive invariant: what each stage of the harness has established *)
(* so far, one part per stage or per table of results.                     *)
IInv == TypeInv /\ StageInv /\ TailInv /\ CellInv /\ GroupInv /\ TimeInv /\ BenchInv

-----------------------------------------------------------------------------
(***************************************************************************)
(* The matrix of cells                                                     *)
(***************************************************************************)

(* The sizes of the matrix.                                                *)
LEMMA Sizes ==
  /\ GroupSize \in Nat \ {0} /\ Len(Batches) \in Nat \ {0}
  /\ CellCount = 2 * Len(Batches) * GroupSize /\ CellCount \in Nat
  /\ \A i \in 1 .. Len(Batches) : Batches[i] \in Nat \ {0}
  /\ \A i, j \in 1 .. Len(Batches) : Batches[i] = Batches[j] => i = j
  /\ \A i \in 1 .. GroupSize : Kinds[i] \in STRING
  /\ \A i \in 1 .. GroupSize : (Kinds[i] = "std-BufWriter") <=> (i = 1)
<1>1. GroupSize \in Nat \ {0} /\ Len(Batches) \in Nat \ {0} /\ Kinds[1] = "std-BufWriter"
  BY KindsAssumption, BatchesAssumption, LenProperties DEF GroupSize
<1>2. DOMAIN Batches = 1 .. Len(Batches) /\ DOMAIN Kinds = 1 .. GroupSize
  BY KindsAssumption, BatchesAssumption, LenProperties DEF GroupSize
<1>3. \A i \in 1 .. Len(Batches) : Batches[i] \in Nat \ {0}
  BY BatchesAssumption, ElementOfSeq
<1>4. \A i, j \in 1 .. Len(Batches) : Batches[i] = Batches[j] => i = j
  BY <1>2, BatchesAssumption DEF Distinct
<1>5. \A i \in 1 .. GroupSize : (Kinds[i] = "std-BufWriter") <=> (i = 1)
  <2>1. 1 \in 1 .. GroupSize
    BY <1>1
  <2> QED
    BY <1>1, <1>2, <2>1, KindsAssumption DEF Distinct
<1>6. \A i \in 1 .. GroupSize : Kinds[i] \in STRING
  BY KindsAssumption, ElementOfSeq DEF GroupSize
<1>7. Len(Durabilities) = 2
  BY DEF Durabilities
<1>8. CellCount = 2 * Len(Batches) * GroupSize
  BY <1>7 DEF CellCount
<1>9. 2 * Len(Batches) * GroupSize \in Nat
  <2> DEFINE b == Len(Batches)
             g == GroupSize
  <2>1. b \in Nat /\ g \in Nat
    BY <1>1
  <2> HIDE DEF b, g
  <2>2. 2 * b \in Nat
    BY <2>1
  <2>3. \A x, y \in Nat : x * y \in Nat
    BY Z3
  <2>4. (2 * b) * g \in Nat
    BY <2>1, <2>2, <2>3
  <2> QED
    BY <2>4 DEF b, g
<1> QED
  BY <1>1, <1>3, <1>4, <1>5, <1>6, <1>8, <1>9

(* A quotient stays below the factor that its dividend does.               *)
LEMMA DivBelow ==
  ASSUME NEW c \in Nat \ {0}, NEW k \in Nat, NEW a \in Nat, a < c * k
  PROVE  a \div c \in 0 .. k - 1
<1> DEFINE q == a \div c
<1>1. a % c \in 0 .. c - 1 /\ q \in Int /\ a = c * q + (a % c)
  BY DivMod
<1> HIDE DEF q
<1>2. c * q \in Int /\ c * k \in Int /\ a % c \in Int
  BY <1>1, MulDistributes
<1>3. q < k
  <2> SUFFICES ASSUME ~(q < k)
               PROVE  FALSE
    OBVIOUS
  <2>1. k < q \/ k = q
    BY <1>1
  <2>2. k < q => c * k + c <= c * q
    BY <1>1, MulMonotonic
  <2>3. k = q => c * k = c * q
    OBVIOUS
  <2> QED
    BY <1>1, <1>2, <2>1, <2>2, <2>3
<1>4. 0 <= q
  <2> SUFFICES ASSUME q < 0
               PROVE  FALSE
    BY <1>1
  <2>1. c * q + c <= c * 0
    BY <1>1, MulMonotonic
  <2>2. c * 0 = 0
    OBVIOUS
  <2> QED
    BY <1>1, <1>2, <2>1, <2>2
<1>5. q \in 0 .. k - 1
  BY <1>1, <1>3, <1>4
<1> QED
  BY <1>5 DEF q

(* A group is a run of cells.                                              *)
LEMMA GroupFacts ==
  ASSUME NEW k \in Nat
  PROVE  /\ k % GroupSize \in 0 .. GroupSize - 1 /\ First(k) \in 0 .. k
         /\ First(k) % GroupSize = 0
         /\ \A j \in First(k) .. k : First(j) = First(k)
         /\ (k + 1) % GroupSize # 0 => First(k + 1) = First(k)
<1> DEFINE c == GroupSize
<1>0. c \in Nat \ {0}
  BY Sizes
<1>1. ASSUME NEW m \in Nat
      PROVE  /\ m % c \in 0 .. c - 1 /\ First(m) = c * (m \div c) /\ m \div c \in Nat
             /\ First(m) \in 0 .. m
    <2>1. m % c \in 0 .. c - 1 /\ m \div c \in Int /\ m = c * (m \div c) + (m % c)
      BY <1>0, DivMod
    <2>2. m \div c \in Nat
      BY <1>0
    <2>3. c * (m \div c) \in Nat
      <3>1. \A x, y \in Nat : x * y \in Nat
        BY Z3
      <3> QED
        BY <1>0, <2>2, <3>1
    <2>4. First(m) = m - (m % c)
      BY DEF First
    <2> QED
      BY <1>0, <2>1, <2>2, <2>3, <2>4
<1>2. ASSUME NEW m \in Nat, NEW j \in First(m) .. m
      PROVE  First(j) = First(m)
  <2>1. /\ m % c \in 0 .. c - 1 /\ First(m) = c * (m \div c) /\ m \div c \in Nat
        /\ First(m) \in 0 .. m /\ First(m) = m - (m % c)
    BY <1>1 DEF First
  <2>2. j - First(m) \in 0 .. c - 1 /\ j \in Nat
    BY <1>0, <2>1
  <2>3. j = c * (m \div c) + (j - First(m))
    BY <2>1, <2>2
  <2>4. (c * (m \div c) + (j - First(m))) % c = j - First(m)
    BY <1>0, <2>1, <2>2, ModUnique
  <2>5. j % c = j - First(m)
    BY <2>3, <2>4
  <2>6. First(j) = j - (j % c)
    BY DEF First
  <2> QED
    BY <2>1, <2>2, <2>5, <2>6
<1>3. First(k) % c = 0
  <2>1. First(k) = c * (k \div c) + 0 /\ k \div c \in Nat /\ 0 \in 0 .. c - 1
    BY <1>0, <1>1
  <2>2. (c * (k \div c) + 0) % c = 0
    BY <1>0, <2>1, ModUnique
  <2> QED
    BY <2>1, <2>2
<1>4. ASSUME (k + 1) % c # 0
      PROVE  First(k + 1) = First(k)
  <2>1. (k + 1) % c \in 0 .. c - 1 /\ First(k + 1) \in 0 .. k + 1 /\ First(k + 1) = (k + 1) - ((k + 1) % c)
    BY <1>1 DEF First
  <2>2. k \in First(k + 1) .. k + 1
    BY <1>0, <1>4, <2>1
  <2> QED
    BY <1>2, <2>2
<1> QED
  BY <1>1, <1>2, <1>3, <1>4

(* A cell has a writer, a batch size and a durability; the std writer is   *)
(* the first of its group.                                                 *)
LEMMA CellFacts ==
  ASSUME NEW k \in Nat
  PROVE  /\ KindAt(k) \in STRING /\ (KindAt(k) = "std-BufWriter" <=> k % GroupSize = 0)
         /\ BatchAt(k) \in Nat \ {0}
         /\ k < CellCount => DurAt(k) \in DurSet
<1>1. k % GroupSize \in 0 .. GroupSize - 1
  BY GroupFacts
<1>2. KindAt(k) \in STRING /\ (KindAt(k) = "std-BufWriter" <=> k % GroupSize = 0)
  <2>1. (k % GroupSize) + 1 \in 1 .. GroupSize /\ ((k % GroupSize) + 1 = 1 <=> k % GroupSize = 0)
    BY <1>1, Sizes
  <2> QED
    BY <2>1, Sizes DEF KindAt
<1>3. BatchAt(k) \in Nat \ {0}
  <2> DEFINE g == k \div GroupSize
             b == Len(Batches)
  <2>1. g \in Int /\ b \in Nat \ {0}
    BY Sizes, DivMod
  <2>2. g % b \in 0 .. b - 1
    BY <2>1, DivMod
  <2>3. (g % b) + 1 \in 1 .. b
    BY <2>1, <2>2
  <2> HIDE DEF g
  <2>4. Batches[(g % b) + 1] \in Nat \ {0}
    BY <2>3, Sizes
  <2> QED
    BY <2>4 DEF g, BatchAt
<1>4. ASSUME k < CellCount
      PROVE  DurAt(k) \in DurSet
  <2> DEFINE c == GroupSize * Len(Batches)
  <2>1. c \in Nat \ {0} /\ CellCount = c * 2
    <3>1. \A x, y \in Nat \ {0} : x * y \in Nat \ {0} /\ 2 * y * x = (x * y) * 2
      BY Z3
    <3> QED
      BY <3>1, Sizes
  <2> HIDE DEF c
  <2>2. k \div c \in 0 .. 2 - 1
    BY <1>4, <2>1, DivBelow
  <2>3. (k \div c) + 1 = 1 \/ (k \div c) + 1 = 2
    BY <2>2
  <2>4. Durabilities[1] \in DurSet /\ Durabilities[2] \in DurSet
    BY DEF Durabilities, DurSet
  <2>5. Durabilities[(k \div c) + 1] \in DurSet
    BY <2>3, <2>4
  <2> QED
    BY <2>5 DEF DurAt, c
<1> QED
  BY <1>2, <1>3, <1>4

(* Where a cell lies in the matrix.                                        *)
LEMMA CellIndex ==
  ASSUME NEW m \in Nat, m < CellCount
  PROVE  LET c == GroupSize
             b == Len(Batches)
             w == c * b
         IN  /\ m \div c \in Nat /\ First(m) = c * (m \div c)
             /\ m \div w = (m \div c) \div b /\ m \div w \in 0 .. 1
             /\ (m \div c) % b \in 0 .. b - 1
             /\ m \div c = b * ((m \div c) \div b) + ((m \div c) % b)
<1> DEFINE c == GroupSize
           b == Len(Batches)
           w == c * b
<1>0. c \in Nat \ {0} /\ b \in Nat \ {0}
  BY Sizes
<1>1. w \in Nat \ {0} /\ CellCount = w * 2
  <2>1. \A x, y \in Nat \ {0} : x * y \in Nat \ {0} /\ 2 * y * x = (x * y) * 2
    BY Z3
  <2> QED
    BY <2>1, Sizes
<1> HIDE DEF c, b, w
<1> DEFINE g == m \div c
           d == g \div b
           e == g % b
<1>2. m % c \in 0 .. c - 1 /\ m \div c \in Int /\ m = c * (m \div c) + (m % c)
  <2>1. m \in Int
    OBVIOUS
  <2> QED
    BY <1>0, <2>1, DivMod
<1>3. g \in Nat
  BY <1>0
<1>4. m % c \in 0 .. c - 1 /\ g \in Nat /\ m = c * g + (m % c)
  BY <1>2, <1>3
<1>5. First(m) = c * g
  <2>1. c * g \in Int /\ m % c \in Int
    BY <1>0, <1>4, MulDistributes
  <2> QED
    BY <1>4, <2>1 DEF First, c
<1> HIDE DEF g
<1>6. g \in Int
  BY <1>4
<1>7. e \in 0 .. b - 1 /\ d \in Int /\ g = b * d + e
  BY <1>0, <1>6, DivMod
<1> HIDE DEF d, e
<1>8. c * g = w * d + c * e /\ c * e \in Int /\ w * d \in Int
  <2>1. b * d \in Int /\ e \in Int
    BY <1>0, <1>7, MulDistributes
  <2>2. c * (b * d + e) = c * (b * d) + c * e
    BY <1>0, <2>1, MulDistributes
  <2>3. (c * b) * d = c * (b * d)
    BY <1>0, <1>7, MulAssociates
  <2>4. c * e \in Int /\ w * d \in Int
    BY <1>0, <1>1, <1>7, <2>1, MulDistributes
  <2> QED
    BY <1>7, <2>2, <2>3, <2>4 DEF w
<1>9. c * e + (m % c) \in 0 .. w - 1
  <2>1. e \in Int /\ b \in Int /\ 0 <= e /\ e < b
    BY <1>0, <1>7
  <2>2. c * e + c <= c * b
    BY <1>0, <2>1, MulMonotonic
  <2>3. 0 <= c * e
    <3>1. \A x, y \in Nat : x * y \in Nat
      BY Z3
    <3> QED
      BY <1>0, <2>1, <3>1
  <2>4. c * e \in Int /\ c * b \in Int
    BY <1>0, <1>1, <1>8 DEF w
  <2>5. w = c * b
    BY DEF w
  <2> QED
    BY <1>0, <1>4, <2>2, <2>3, <2>4, <2>5
<1>10. m = w * d + (c * e + (m % c))
  BY <1>0, <1>4, <1>8
<1>11. m % w \in 0 .. w - 1 /\ m \div w \in Int /\ m = w * (m \div w) + (m % w)
  BY <1>1, DivMod
<1>12. m \div w = d
  <2> DEFINE q == m \div w
             r == m % w
             t == c * e + (m % c)
  <2>1. q \in Int /\ d \in Int /\ r \in 0 .. w - 1 /\ t \in 0 .. w - 1 /\ w * q + r = w * d + t
    BY <1>7, <1>9, <1>10, <1>11
  <2> HIDE DEF q, r, t
  <2>2. q = d
    BY <1>1, <2>1, DivModUnique
  <2> QED
    BY <2>2 DEF q
<1>13. m \div w \in 0 .. 2 - 1
  BY <1>1, <1>4, DivBelow
<1> QED
  BY <1>4, <1>5, <1>7, <1>12, <1>13 DEF g, d, e, c, b, w

(* Batch size and durability identify the group.                           *)
LEMMA GroupOf ==
  ASSUME NEW k \in Nat, NEW j \in Nat, k < CellCount, j < CellCount
  PROVE  BatchAt(k) = BatchAt(j) /\ DurAt(k) = DurAt(j) <=> First(k) = First(j)
<1> DEFINE c == GroupSize
           b == Len(Batches)
           w == c * b
           x == (k \div c) % b
           y == (j \div c) % b
           u == k \div w
           v == j \div w
<1>0. c \in Nat \ {0} /\ b \in Nat \ {0}
  BY Sizes
<1>1. /\ k \div c \in Nat /\ First(k) = c * (k \div c)
      /\ u = (k \div c) \div b /\ u \in 0 .. 1
      /\ x \in 0 .. b - 1 /\ k \div c = b * u + x
  BY CellIndex
<1>2. /\ j \div c \in Nat /\ First(j) = c * (j \div c)
      /\ v = (j \div c) \div b /\ v \in 0 .. 1
      /\ y \in 0 .. b - 1 /\ j \div c = b * v + y
  BY CellIndex
<1>3. /\ BatchAt(k) = Batches[x + 1] /\ BatchAt(j) = Batches[y + 1]
      /\ DurAt(k) = Durabilities[u + 1] /\ DurAt(j) = Durabilities[v + 1]
  BY DEF BatchAt, DurAt
<1>4. ASSUME BatchAt(k) = BatchAt(j), DurAt(k) = DurAt(j)
      PROVE  First(k) = First(j)
  <2> HIDE DEF x, y, u, v
  <2>1. u = v
    <3>1. Durabilities[1] # Durabilities[2]
      BY DEF Durabilities
    <3>2. /\ u = 0 \/ u = 1
          /\ v = 0 \/ v = 1
      BY <1>1, <1>2
    <3>3. Durabilities[u + 1] = Durabilities[v + 1]
      BY <1>3, <1>4
    <3> QED
      BY <3>1, <3>2, <3>3
  <2>2. x = y
    <3>1. x + 1 \in 1 .. b /\ y + 1 \in 1 .. b
      BY <1>0, <1>1, <1>2
    <3>2. x + 1 = y + 1
      BY <1>3, <1>4, <3>1, Sizes
    <3> QED
      BY <1>0, <1>1, <1>2, <3>2
  <2> QED
    BY <1>1, <1>2, <2>1, <2>2
<1>5. ASSUME First(k) = First(j)
      PROVE  BatchAt(k) = BatchAt(j) /\ DurAt(k) = DurAt(j)
  <2> DEFINE p == k \div c
             q == j \div c
  <2>1. p \in Int /\ q \in Int /\ c * p = c * q
    BY <1>1, <1>2, <1>5
  <2> HIDE DEF p, q
  <2>2. 0 \in 0 .. c - 1 /\ c * p + 0 = c * q + 0
    BY <1>0, <2>1
  <2>3. p = q
    BY <1>0, <2>1, <2>2, DivModUnique
  <2>4. x = y /\ u = v
    BY <1>1, <1>2, <2>3 DEF p, q
  <2> HIDE DEF x, y, u, v
  <2> QED
    BY <1>3, <2>4
<1> QED
  BY <1>4, <1>5

-----------------------------------------------------------------------------
(***************************************************************************)
(* The steps                                                               *)
(***************************************************************************)

(* The statistics of numbers are numbers.                                  *)
LEMMA StatTypes ==
  ASSUME NEW v \in Seq(Nat)
  PROVE  Median(v) \in Nat /\ Iqr(v) \in Int /\ TwiceMedianF64(v) \in Nat
<1> DEFINE n == Len(v)
           u == Sorted(v)
<1>0. n \in Nat /\ u \in Seq(Nat) /\ Len(u) = n
  BY SortedFacts, LenProperties
<1>1. (\A i \in 1 .. n : v[i] \in Nat) /\ (\A i \in 1 .. n : u[i] \in Nat)
  BY <1>0, ElementOfSeq
<1>2. n # 0 => n \div 2 + 1 \in 1 .. n
  BY <1>0
<1>3. n # 0 /\ n % 2 # 1 => n \div 2 \in 1 .. n
  BY <1>0
<1>4. ~(n < 4) => (3 * n) \div 4 + 1 \in 1 .. n /\ n \div 4 + 1 \in 1 .. n
  BY <1>0
<1>5. Median(v) \in Nat
  <2>1. CASE n = 0
    BY <2>1 DEF Median
  <2>2. CASE n # 0 /\ n % 2 = 1
    BY <1>1, <1>2, <2>2 DEF Median
  <2>3. CASE n # 0 /\ n % 2 # 1
    <3> DEFINE x == v[n \div 2]
               y == v[n \div 2 + 1]
    <3>1. x \in Nat /\ y \in Nat
      BY <1>1, <1>2, <1>3, <2>3
    <3>2. Median(v) = (x + y) \div 2
      BY <2>3 DEF Median
    <3> HIDE DEF x, y
    <3> QED
      BY <3>1, <3>2
  <2> QED
    BY <2>1, <2>2, <2>3
<1>6. Iqr(v) \in Int
  <2>1. CASE n < 4
    BY <2>1 DEF Iqr
  <2>2. CASE ~(n < 4)
    <3> DEFINE x == v[n \div 4 + 1]
               y == v[(3 * n) \div 4 + 1]
    <3>1. x \in Nat /\ y \in Nat
      BY <1>1, <1>4, <2>2
    <3>2. Iqr(v) = y - x
      BY <2>2 DEF Iqr
    <3> HIDE DEF x, y
    <3> QED
      BY <3>1, <3>2
  <2> QED
    BY <2>1, <2>2
<1>7. TwiceMedianF64(v) \in Nat
  <2>0. Len(u) = n
    BY <1>0
  <2>1. CASE n = 0
    BY <2>0, <2>1 DEF TwiceMedianF64
  <2>2. CASE n # 0 /\ n % 2 = 1
    <3> DEFINE y == u[n \div 2 + 1]
    <3>1. y \in Nat
      BY <1>1, <1>2, <2>2
    <3>2. TwiceMedianF64(v) = 2 * y
      BY <2>0, <2>2 DEF TwiceMedianF64
    <3> HIDE DEF y
    <3> QED
      BY <3>1, <3>2
  <2>3. CASE n # 0 /\ n % 2 # 1
    <3> DEFINE x == u[n \div 2]
               y == u[n \div 2 + 1]
    <3>1. x \in Nat /\ y \in Nat
      BY <1>1, <1>2, <1>3, <2>3
    <3>2. TwiceMedianF64(v) = x + y
      BY <2>0, <2>3 DEF TwiceMedianF64
    <3> HIDE DEF x, y
    <3> QED
      BY <3>1, <3>2
  <2> QED
    BY <2>1, <2>2, <2>3
<1> QED
  BY <1>5, <1>6, <1>7

(* What run_rate returns is what its trials say.                           *)
LEMMA RateFacts ==
  ASSUME NEW s \in Seq(P99s)
  PROVE  RateResult(Sorted(s)) \in RateSet /\ SoundRate(RateResult(Sorted(s)))
<1> DEFINE v == Sorted(s)
<1>0. P99s \in SUBSET Nat
  BY TailAssumption
<1>1. v \in Seq(P99s) /\ \A i, j \in 1 .. Len(v) : i <= j => v[i] <= v[j]
  BY <1>0, SortedFacts
<1> HIDE DEF v
<1>2. v \in Seq(Nat)
  BY <1>0, <1>1, SeqMonotonic
<1>3. Median(v) \in Nat /\ Iqr(v) \in Int
  BY <1>2, StatTypes
<1>4. RateResult(v) = [wait |-> WaitLabel, p99s |-> v, med |-> Median(v), iqr |-> Iqr(v),
                       passes |-> Median(v) < MicroSec /\ Stable(Median(v), Iqr(v))]
  BY DEF RateResult
<1>5. WaitLabel \in {"busy-spin", "yield"}
  BY DEF WaitLabel
<1>6. (Median(v) < MicroSec /\ Stable(Median(v), Iqr(v))) \in BOOLEAN
  OBVIOUS
<1>7. RateResult(v) \in RateSet
  BY <1>1, <1>3, <1>4, <1>5, <1>6 DEF RateSet
<1>8. SoundRate(RateResult(v))
  <2> DEFINE r == RateResult(v)
             p == Median(v) < MicroSec /\ Stable(Median(v), Iqr(v))
  <2>1. r.p99s = v /\ r.med = Median(v) /\ r.iqr = Iqr(v) /\ r.passes = p
    BY <1>4
  <2>2. p => Median(v) < MicroSec /\ Stable(Median(v), Iqr(v))
    OBVIOUS
  <2> HIDE DEF p, r
  <2>3. r.passes => Median(v) < MicroSec /\ Stable(Median(v), Iqr(v))
    BY <2>1, <2>2
  <2>4. SoundRate(r)
    BY <1>1, <2>1, <2>3 DEF SoundRate
  <2> QED
    BY <2>4 DEF r
<1> QED
  BY <1>7, <1>8 DEF v

(* The results stay as they are, and no group ends or is compared.         *)
LEMMA SameResults ==
  ASSUME GroupInv, test' = test, results' = results, stdMed' = stdMed,
         pc # "fill", pc' # "fill"
  PROVE  GroupInv'
BY DEF GroupInv, Open, Base, Cell

(* A step of tail_bench.                                                   *)
LEMMA RunTailStep ==
  ASSUME IInv, RunTail
  PROVE  IInv'
<1> USE DEF IInv, RunTail
<1>0. UNCHANGED <<test, stage, trials, msgs, pc, log, durable, total, mb, stdMed, results, proven>>
  BY DEF diskVars, timing, outcome
<1>1. CellInv' /\ GroupInv' /\ TimeInv' /\ BenchInv'
  BY <1>0 DEF CellInv, GroupInv, TimeInv, BenchInv, Open, Base, Cell, Counted, BenchBatch, BenchCount
<1>2. StageInv'
  BY <1>0 DEF StageInv
<1>3. CASE \E p \in P99s : Trial(p)
  <2>1. PICK p \in P99s : Trial(p)
    BY <1>3
  <2>2. p99s' \in Seq(P99s)
    <3>1. p99s \in Seq(P99s)
      BY DEF TypeInv
    <3> QED
      BY <2>1, <3>1, AppendProperties DEF Trial
  <2>3. TypeInv' /\ TailInv'
    BY <1>0, <2>1, <2>2 DEF TypeInv, TailInv, Trial
  <2> QED
    BY <1>1, <1>2, <2>3
<1>4. CASE TailPanic \/ TailExport
  <2>1. TypeInv' /\ TailInv'
    BY <1>0, <1>4 DEF TypeInv, TailInv, TailPanic, TailExport
  <2> QED
    BY <1>1, <1>2, <2>1
<1>5. CASE FinishRate
  <2> DEFINE r == RateResult(Sorted(p99s))
  <2>1. p99s \in Seq(P99s) /\ tailResults \in Seq(RateSet)
    BY DEF TypeInv
  <2>2. r \in RateSet /\ SoundRate(r)
    BY <2>1, RateFacts
  <2>3. tailResults' = Append(tailResults, r) /\ p99s' = <<>> /\ tailpc' = tailpc
    BY <1>5 DEF FinishRate
  <2> HIDE DEF r
  <2>4. /\ tailResults' \in Seq(RateSet) /\ Len(tailResults') = Len(tailResults) + 1
        /\ \A i \in 1 .. Len(tailResults) : tailResults'[i] = tailResults[i]
        /\ tailResults'[Len(tailResults) + 1] = r
    BY <2>1, <2>2, <2>3, AppendProperties
  <2>5. \A i \in 1 .. Len(tailResults') : i \in 1 .. Len(tailResults) \/ i = Len(tailResults) + 1
    BY <2>1, <2>4, LenProperties
  <2>6. TailInv'
    BY <2>2, <2>4, <2>5 DEF TailInv
  <2>7. TypeInv'
    BY <1>0, <2>3, <2>4 DEF TypeInv
  <2> QED
    BY <1>1, <1>2, <2>6, <2>7
<1> QED
  BY <1>3, <1>4, <1>5 DEF TailNext

(* tail_bench ends.                                                        *)
LEMMA TailExitsStep ==
  ASSUME IInv, TailExits
  PROVE  IInv'
<1> USE DEF IInv, TailExits
<1>0. UNCHANGED <<test, trials, msgs, pc, log, durable, total, mb, stdMed, results, proven>>
  BY DEF diskVars, timing, outcome
<1>1. CellInv' /\ GroupInv' /\ TimeInv' /\ BenchInv'
  BY <1>0 DEF CellInv, GroupInv, TimeInv, BenchInv, Open, Base, Cell, Counted, BenchBatch, BenchCount
<1>2. TypeInv' /\ TailInv'
  <2>1. stage' \in {"done", "aborted", "disk"}
    BY DEF AfterTail
  <2> QED
    BY <1>0, <2>1 DEF TypeInv, TailInv
<1>3. StageInv'
  BY <1>0 DEF StageInv, AfterTail, TypeInv
<1> QED
  BY <1>1, <1>2, <1>3

(* The driver of Test D, or of Phase 4b, ends.                             *)
LEMMA DiskExitsStep ==
  ASSUME IInv, DiskExits
  PROVE  IInv'
<1> USE DEF IInv, DiskExits
<1>0. UNCHANGED <<test, trials, rates, tailpc, p99s, tailResults,
                  msgs, pc, log, durable, total, mb, stdMed, results, proven>>
  BY DEF tailVars, diskVars, timing, outcome
<1>1. CellInv' /\ GroupInv' /\ TimeInv' /\ BenchInv'
  BY <1>0 DEF CellInv, GroupInv, TimeInv, BenchInv, Open, Base, Cell, Counted, BenchBatch, BenchCount
<1>2. TypeInv' /\ TailInv'
  BY <1>0 DEF TypeInv, TailInv
<1>3. StageInv'
  BY <1>0 DEF StageInv
<1> QED
  BY <1>1, <1>2, <1>3

(* While Test D runs, nothing of Test T changes.                           *)
LEMMA RunDiskFrame ==
  ASSUME IInv, RunDisk
  PROVE  /\ test # "bench" /\ stage = "disk" /\ UNCHANGED <<test, stage, trials, tailpc, p99s, tailResults>>
         /\ StageInv' /\ TailInv' /\ BenchInv'
<1>1. test # "bench" /\ stage = "disk" /\ UNCHANGED <<test, stage, trials, tailpc, p99s, tailResults>>
  BY DEF IInv, StageInv, RunDisk, tailVars
<1> QED
  BY <1>1 DEF IInv, StageInv, TailInv, BenchInv

(* A fresh writer: the log is empty, or was left behind by an earlier one. *)
LEMMA BuildWriterStep ==
  ASSUME IInv, RunDisk, BuildWriter
  PROVE  IInv'
<1> USE DEF IInv, BuildWriter, OpenLog, outcome
<1>0. /\ test # "bench" /\ test' = test /\ stage' = stage /\ trials' = trials
      /\ tailpc' = tailpc /\ p99s' = p99s /\ tailResults' = tailResults
      /\ StageInv' /\ TailInv' /\ BenchInv'
  BY RunDiskFrame
<1>1. log' \in Nat /\ durable' \in Nat /\ log' = durable'
  BY <1>0 DEF TypeInv, TimeInv
<1>2. TypeInv'
  BY <1>0, <1>1 DEF TypeInv
<1>3. CellInv'
  BY <1>0 DEF CellInv, Cell
<1>4. GroupInv'
  BY <1>0, SameResults
<1>5. TimeInv'
  <2>1. Cell \in Nat
    BY LenProperties DEF TypeInv, Cell
  <2>2. BatchAt(Cell) \in Nat \ {0} /\ Cell' = Cell
    BY <2>1, CellFacts DEF Cell
  <2>3. total' <= log' /\ total' < msgs' + BatchAt(Cell)
    BY <1>1, <2>2 DEF TypeInv
  <2> QED
    BY <1>0, <1>1, <2>2, <2>3 DEF TimeInv
<1> QED
  BY <1>0, <1>2, <1>3, <1>4, <1>5

(* One batch is appended.                                                  *)
LEMMA WriteBatchStep ==
  ASSUME IInv, RunDisk, WriteBatch
  PROVE  IInv'
<1> USE DEF IInv, WriteBatch, AppendBatch, outcome
<1>0. /\ test # "bench" /\ test' = test /\ stage' = stage /\ trials' = trials
      /\ tailpc' = tailpc /\ p99s' = p99s /\ tailResults' = tailResults
      /\ StageInv' /\ TailInv' /\ BenchInv'
  BY RunDiskFrame
<1>a. BatchAt(Cell) \in Nat \ {0} /\ Cell' = Cell
  <2>1. Cell \in Nat
    BY LenProperties DEF TypeInv, Cell
  <2> QED
    BY <2>1, CellFacts DEF Cell
<1>b. pc' \in {"sync", "write"} /\ pc = "write"
  OBVIOUS
<1>c. /\ log \in Nat /\ total \in Nat /\ msgs \in Nat /\ total <= log /\ total < msgs
      /\ log' = log + BatchAt(Cell) /\ total' = total + BatchAt(Cell) /\ msgs' = msgs
  BY <1>0 DEF TypeInv, TimeInv
<1>d. log' \in Nat /\ total' \in Nat /\ total' <= log' /\ total' < msgs' + BatchAt(Cell)
  BY ONLY <1>a, <1>c
<1>2. TypeInv'
  BY <1>0, <1>b, <1>d DEF TypeInv
<1>3. CellInv'
  BY <1>0, <1>b DEF CellInv, Cell
<1>4. GroupInv'
  BY <1>0, <1>b, SameResults
<1>5. TimeInv'
  BY <1>0, <1>a, <1>b, <1>d DEF TimeInv
<1> QED
  BY <1>0, <1>2, <1>3, <1>4, <1>5

(* Mode B: the sync after a batch.                                         *)
LEMMA SyncBatchStep ==
  ASSUME IInv, RunDisk, SyncBatch
  PROVE  IInv'
<1> USE DEF IInv, SyncBatch, outcome, timing
<1>0. /\ test # "bench" /\ test' = test /\ stage' = stage /\ trials' = trials
      /\ tailpc' = tailpc /\ p99s' = p99s /\ tailResults' = tailResults
      /\ StageInv' /\ TailInv' /\ BenchInv'
  BY RunDiskFrame
<1>2. TypeInv'
  BY <1>0 DEF TypeInv
<1>3. CellInv'
  BY <1>0 DEF CellInv, Cell
<1>4. GroupInv'
  BY <1>0, SameResults
<1>5. TimeInv'
  BY <1>0 DEF TimeInv, Cell
<1> QED
  BY <1>0, <1>2, <1>3, <1>4, <1>5

(* The clock stops: everything is synced, and the trial has its result.    *)
LEMMA StopClockStep ==
  ASSUME IInv, RunDisk, StopClock
  PROVE  IInv'
<1> USE DEF IInv, StopClock, outcome, LastSync
<1>0. /\ test # "bench" /\ test' = test /\ stage' = stage /\ trials' = trials
      /\ tailpc' = tailpc /\ p99s' = p99s /\ tailResults' = tailResults
      /\ StageInv' /\ TailInv' /\ BenchInv'
  BY RunDiskFrame
<1>1. PICK s \in Throughputs : mb' = Append(mb, s)
  OBVIOUS
<1>2. TypeInv'
  <2>1. s \in Nat
    BY SpeedsAssumption DEF Throughputs
  <2>2. mb' \in Seq(Nat)
    <3>1. mb \in Seq(Nat)
      BY DEF TypeInv
    <3> QED
      BY <1>1, <2>1, <3>1, AppendProperties
  <2> QED
    BY <1>0, <2>2 DEF TypeInv
<1>3. CellInv'
  BY <1>0 DEF CellInv, Cell
<1>4. GroupInv'
  BY <1>0, SameResults
<1>5. TimeInv'
  <2>1. total <= log /\ total < msgs + BatchAt(Cell) /\ msgs <= total
    BY <1>0 DEF TimeInv, TypeInv
  <2> QED
    BY <1>0, <2>1 DEF TimeInv, Cell, Counted
<1> QED
  BY <1>0, <1>2, <1>3, <1>4, <1>5

(* The verdict line.                                                       *)
LEMMA VerdictStep ==
  ASSUME IInv, RunDisk, Verdict
  PROVE  IInv'
<1> USE DEF IInv, Verdict, timing
<1>0. /\ test # "bench" /\ test' = test /\ stage' = stage /\ trials' = trials
      /\ tailpc' = tailpc /\ p99s' = p99s /\ tailResults' = tailResults
      /\ StageInv' /\ TailInv' /\ BenchInv'
  BY RunDiskFrame
<1>1. pc' \in {"exported", "panicked"} /\ proven' \in {"true", "false"}
  OBVIOUS
<1>2. TypeInv'
  BY <1>0, <1>1 DEF TypeInv
<1>3. CellInv'
  <2>1. DOMAIN results = 1 .. Cell
    BY LenProperties DEF TypeInv, Cell
  <2> QED
    BY <1>0, <1>1, <2>1 DEF CellInv, Cell
<1>4. GroupInv'
  BY <1>0, <1>1, SameResults
<1>5. TimeInv'
  BY <1>0, <1>1 DEF TimeInv
<1> QED
  BY <1>0, <1>2, <1>3, <1>4, <1>5

(* An Err is unwrapped.                                                    *)
LEMMA PanicStep ==
  ASSUME IInv, RunDisk, Panic
  PROVE  IInv'
<1> USE DEF IInv, Panic, timing, outcome
<1>0. /\ test # "bench" /\ test' = test /\ stage' = stage /\ trials' = trials
      /\ tailpc' = tailpc /\ p99s' = p99s /\ tailResults' = tailResults
      /\ StageInv' /\ TailInv' /\ BenchInv'
  BY RunDiskFrame
<1>2. TypeInv'
  BY <1>0 DEF TypeInv
<1>3. CellInv'
  BY <1>0 DEF CellInv, Cell
<1>4. GroupInv'
  BY <1>0, SameResults
<1>5. TimeInv'
  BY <1>0 DEF TimeInv
<1> QED
  BY <1>0, <1>2, <1>3, <1>4, <1>5

(* The cell has its median; it belongs to the group that is open.          *)
LEMMA FinishCellStep ==
  ASSUME IInv, RunDisk, FinishCell
  PROVE  IInv'
<1> USE DEF IInv, FinishCell, RemoveLog
<1> DEFINE k == Cell
           med == TwiceMedianF64(mb)
           r == Result(KindAt(k), BatchAt(k), DurAt(k), med)
<1>0. /\ test # "bench" /\ test' = test /\ stage' = stage /\ trials' = trials
      /\ tailpc' = tailpc /\ p99s' = p99s /\ tailResults' = tailResults
      /\ StageInv' /\ TailInv' /\ BenchInv'
  BY RunDiskFrame
<1>a. /\ results \in Seq(ResultSet) /\ k \in Nat /\ k = Len(results) /\ k < CellCount /\ CellCount \in Nat
      /\ GroupSize \in Nat \ {0}
  BY LenProperties, Sizes DEF TypeInv, Cell
<1>b. med \in Nat
  BY StatTypes DEF TypeInv
<1> HIDE DEF k, med
<1>c. /\ KindAt(k) \in STRING /\ (KindAt(k) = "std-BufWriter" <=> k % GroupSize = 0)
      /\ BatchAt(k) \in Nat \ {0} /\ DurAt(k) \in DurSet
  BY <1>a, CellFacts
<1>d. /\ r \in ResultSet /\ Plain(r) /\ r.med = med
      /\ r.writer = KindAt(k) /\ r.batch = BatchAt(k) /\ r.dur = DurAt(k)
  BY <1>b, <1>c DEF Result, ResultSet, Plain
<1>e. results' = Append(results, r) /\ stdMed' = (IF KindAt(k) = "std-BufWriter" THEN med ELSE stdMed)
      /\ pc' = (IF (k + 1) % GroupSize = 0 THEN "fill" ELSE "build") /\ mb' = <<>> /\ proven' = proven
      /\ pc = "build"
  BY DEF k, med, Cell
<1> HIDE DEF r
<1>f. /\ results' \in Seq(ResultSet) /\ Cell' = k + 1
      /\ \A i \in 1 .. k : results'[i] = results[i]
      /\ results'[k + 1] = r
  BY <1>a, <1>d, <1>e, AppendProperties DEF Cell
<1>g. \A i \in 1 .. k + 1 : i \in 1 .. k \/ i = k + 1
  BY <1>a
<1>h. log' = durable' /\ log' \in Nat /\ durable' \in Nat
  BY <1>0 DEF TypeInv, TimeInv
<1>2. TypeInv'
  <2>1. stdMed' \in Nat /\ pc' \in {"fill", "build"}
    BY <1>b, <1>e DEF TypeInv
  <2>2. msgs' = msgs /\ total' = 0 /\ mb' \in Seq(Nat)
    OBVIOUS
  <2> QED
    BY <1>0, <1>e, <1>f, <1>h, <2>1, <2>2 DEF TypeInv
<1>3. CellInv'
  <2>1. proven = "none"
    BY <1>0, <1>e DEF CellInv
  <2>2. pc' \in {"fill", "build"} /\ (pc' = "fill" => (k + 1) % GroupSize = 0)
    BY <1>e
  <2>3. k + 1 <= CellCount /\ k + 1 > 0
    BY <1>a
  <2> QED
    BY <1>0, <1>e, <1>f, <2>1, <2>2, <2>3 DEF CellInv
<1>4. GroupInv'
  <2>1. First(k) \in 0 .. k /\ ((k + 1) - 1 = k) /\ k + 1 \in Nat
    BY <1>a, GroupFacts
  <2>2. Open = First(k)
    <3>1. CASE k % GroupSize = 0
      <4>1. Open = k
        BY <1>e, <3>1 DEF Open, k
      <4>2. First(k) = k
        BY <1>a, <3>1 DEF First
      <4> QED
        BY <4>1, <4>2
    <3>2. CASE k % GroupSize # 0
      <4>0. k # 0
        <5>1. 0 % GroupSize = 0
          BY <1>a
        <5> QED
          BY <3>2, <5>1
      <4>1. k - 1 \in Nat /\ (k - 1) + 1 = k
        BY <1>a, <4>0
      <4>2. First(k) = First(k - 1)
        BY <3>2, <4>1, GroupFacts
      <4>3. Open = First(k - 1)
        BY <3>2 DEF Open, k
      <4> QED
        BY <4>2, <4>3
    <3> QED
      BY <3>1, <3>2
  <2>3. Open' = First(k)
    BY <1>e, <1>f, <2>1 DEF Open
  <2>4. \A i \in 1 .. k : /\ results[i].writer = KindAt(i - 1)
                          /\ results[i].batch = BatchAt(i - 1) /\ results[i].dur = DurAt(i - 1)
    BY <1>0 DEF GroupInv, k
  <2>5. \A i \in 1 .. Cell' : /\ results'[i].writer = KindAt(i - 1)
                              /\ results'[i].batch = BatchAt(i - 1) /\ results'[i].dur = DurAt(i - 1)
    BY <1>d, <1>f, <1>g, <2>1, <2>4
  <2>6. stdMed' = IF Open' < Cell' THEN results'[Open' + 1].med ELSE 0
    <3>1. Open' < Cell' /\ Open' + 1 = First(k) + 1
      BY <1>a, <1>f, <2>1, <2>3
    <3>2. CASE k % GroupSize = 0
      <4>1. First(k) = k
        BY <1>a, <3>2 DEF First
      <4> QED
        BY <1>c, <1>d, <1>e, <1>f, <3>1, <3>2, <4>1
    <3>3. CASE k % GroupSize # 0
      <4>1. First(k) # k
        <5>1. k % GroupSize \in 0 .. GroupSize - 1
          BY <1>a, GroupFacts
        <5>2. k % GroupSize \in Int
          BY <1>a, <5>1
        <5> QED
          BY <1>a, <3>3, <5>2 DEF First
      <4>2. First(k) < k /\ First(k) + 1 \in 1 .. k
        BY <1>a, <2>1, <4>1
      <4>3. stdMed = results[First(k) + 1].med
        BY <1>0, <2>2, <4>2 DEF GroupInv, k
      <4> QED
        BY <1>c, <1>e, <1>f, <3>1, <3>3, <4>2, <4>3
    <3> QED
      BY <3>2, <3>3
  <2>7. ASSUME NEW i \in 1 .. Cell', i - 1 < Open'
        PROVE  Compared(results'[i], Base(i)')
    <3>1. i \in 1 .. k
      <4>1. i \in 1 .. k + 1 /\ i - 1 < First(k)
        BY <1>f, <2>3, <2>7
      <4> QED
        BY <1>a, <2>1, <4>1
    <3>2. Compared(results[i], Base(i))
      BY <1>0, <2>2, <2>3, <2>7, <3>1 DEF GroupInv, k
    <3>3. First(i - 1) + 1 \in 1 .. k
      <4>1. i - 1 \in Nat
        BY <1>a, <3>1
      <4>2. First(i - 1) \in 0 .. i - 1
        BY <4>1, GroupFacts
      <4> QED
        BY <1>a, <3>1, <4>1, <4>2
    <3>4. Base(i)' = Base(i)
      BY <1>f, <3>3 DEF Base
    <3> QED
      BY <1>f, <3>1, <3>2, <3>4
  <2>8. ASSUME NEW i \in 1 .. Cell', i - 1 >= Open'
        PROVE  Plain(results'[i])
    <3>1. CASE i \in 1 .. k
      <4>1. Plain(results[i])
        BY <1>0, <2>2, <2>3, <2>8, <3>1 DEF GroupInv, k
      <4> QED
        BY <1>f, <3>1, <4>1
    <3>2. CASE i = k + 1
      BY <1>d, <1>f, <3>2
    <3> QED
      BY <1>f, <1>g, <3>1, <3>2
  <2> QED
    BY <2>5, <2>6, <2>7, <2>8 DEF GroupInv
<1>5. TimeInv'
  <2>1. pc' \in {"fill", "build"}
    BY <1>e
  <2> QED
    BY <1>0, <1>e, <1>h, <2>1 DEF TimeInv
<1> QED
  BY <1>0, <1>2, <1>3, <1>4, <1>5

(* The second pass compares exactly the group that has ended.              *)
LEMMA FillRatiosStep ==
  ASSUME IInv, RunDisk, FillRatios
  PROVE  IInv'
<1> USE DEF IInv, FillRatios, timing
<1> DEFINE k == Cell
           last == results[k]
<1>0. /\ test # "bench" /\ test' = test /\ stage' = stage /\ trials' = trials
      /\ tailpc' = tailpc /\ p99s' = p99s /\ tailResults' = tailResults
      /\ StageInv' /\ TailInv' /\ BenchInv'
  BY RunDiskFrame
<1>a. /\ results \in Seq(ResultSet) /\ k \in Nat /\ k = Len(results) /\ k > 0 /\ k <= CellCount
      /\ k % GroupSize = 0 /\ DOMAIN results = 1 .. k /\ CellCount \in Nat
      /\ \A i \in 1 .. k : results[i] \in ResultSet
  BY <1>0, LenProperties, ElementOfSeq, Sizes DEF TypeInv, Cell, CellInv
<1>b. /\ pc = "fill" /\ stdMed' = 0 /\ pc' = (IF k = CellCount THEN "verdict" ELSE "build")
      /\ proven' = proven /\ mb' = mb /\ mb = <<>> /\ msgs' = msgs /\ log' = log /\ durable' = durable
      /\ total' = total /\ stdMed \in Nat
  BY <1>0 DEF CellInv, TypeInv
<1>c. results' = IF stdMed = 0 THEN results
                 ELSE [i \in 1 .. k |-> IF InGroup(results[i], last) THEN Filled(results[i], stdMed)
                                                                    ELSE results[i]]
  BY <1>a
<1> HIDE DEF k
<1>d. /\ First(k - 1) \in 0 .. k - 1 /\ Open = First(k - 1) /\ k - 1 \in Nat
      /\ \A j \in First(k - 1) .. k - 1 : First(j) = First(k - 1)
  <2>1. k - 1 \in Nat
    BY <1>a
  <2>2. Open = First(k - 1)
    BY <1>b DEF Open, k
  <2> QED
    BY <2>1, <2>2, GroupFacts
<1>e. /\ \A i \in 1 .. k : /\ results[i].writer = KindAt(i - 1)
                           /\ results[i].batch = BatchAt(i - 1) /\ results[i].dur = DurAt(i - 1)
      /\ stdMed = results[Open + 1].med
      /\ \A i \in 1 .. k : i - 1 < Open => Compared(results[i], Base(i))
      /\ \A i \in 1 .. k : i - 1 >= Open => Plain(results[i])
  <2>1. Open < k
    BY <1>a, <1>d
  <2> QED
    BY <1>0, <2>1 DEF GroupInv, k
<1>f. ASSUME NEW i \in 1 .. k
      PROVE  InGroup(results[i], last) <=> i - 1 >= Open
  <2>1. i - 1 \in Nat /\ k - 1 \in Nat /\ i - 1 < CellCount /\ k - 1 < CellCount /\ i - 1 <= k - 1 /\ k \in 1 .. k
    BY <1>a
  <2>2. InGroup(results[i], last) <=> First(i - 1) = First(k - 1)
    <3>1. BatchAt(i - 1) = BatchAt(k - 1) /\ DurAt(i - 1) = DurAt(k - 1) <=> First(i - 1) = First(k - 1)
      BY <2>1, GroupOf
    <3> QED
      BY <1>e, <2>1, <3>1 DEF InGroup
  <2>3. First(i - 1) \in 0 .. i - 1
    BY <2>1, GroupFacts
  <2>4. i - 1 >= First(k - 1) => First(i - 1) = First(k - 1)
    BY <1>d, <2>1
  <2>5. First(i - 1) = First(k - 1) => i - 1 >= First(k - 1)
    BY <1>d, <2>1, <2>3
  <2> QED
    BY <1>d, <2>2, <2>4, <2>5
<1>g. ASSUME NEW i \in 1 .. k
      PROVE  /\ results'[i] = IF stdMed # 0 /\ i - 1 >= Open THEN Filled(results[i], stdMed) ELSE results[i]
             /\ results'[i] \in ResultSet
             /\ results'[i].med = results[i].med /\ results'[i].writer = results[i].writer
             /\ results'[i].batch = results[i].batch /\ results'[i].dur = results[i].dur
  <2>1. results'[i] = IF stdMed # 0 /\ i - 1 >= Open THEN Filled(results[i], stdMed) ELSE results[i]
    BY <1>c, <1>f
  <2>2. results[i] \in ResultSet
    BY <1>a
  <2> DEFINE f == Filled(results[i], stdMed)
  <2>3. /\ f \in ResultSet /\ f.med = results[i].med /\ f.writer = results[i].writer
        /\ f.batch = results[i].batch /\ f.dur = results[i].dur
    <3> DEFINE p == IF results[i].writer # "io_uring-WriteFixed" THEN results[i].passes
                    ELSE IF Passes(results[i], <<results[i].med, stdMed>>) THEN "true" ELSE "false"
    <3>1. f = [results[i] EXCEPT !.ratio = <<results[i].med, stdMed>>, !.passes = p]
      BY DEF Filled
    <3>2. p \in {"none", "true", "false"}
      BY <2>2 DEF ResultSet
    <3>3. <<results[i].med, stdMed>> \in Nat \X Nat
      BY <1>b, <2>2 DEF ResultSet
    <3> HIDE DEF p, f
    <3> QED
      BY <2>2, <3>1, <3>2, <3>3 DEF ResultSet
  <2> HIDE DEF f
  <2> QED
    BY <2>1, <2>2, <2>3 DEF f
<1>h. results' \in Seq(ResultSet) /\ Len(results') = k /\ Cell' = k
  <2>1. CASE stdMed = 0
    BY <1>a, <1>c, <2>1 DEF Cell
  <2>2. CASE stdMed # 0
    <3>1. DOMAIN results' = 1 .. k /\ results' = [i \in 1 .. k |-> results'[i]]
      BY <1>c, <2>2
    <3>2. results' \in [1 .. k -> ResultSet]
      BY <1>g, <3>1
    <3>3. results' \in Seq(ResultSet)
      BY <1>a, <3>2, SeqDef
    <3>4. DOMAIN results' = 1 .. Len(results') /\ Len(results') \in Nat
      BY <3>3, LenProperties
    <3>5. Len(results') = k
      BY <1>a, <3>1, <3>4
    <3> QED
      BY <3>3, <3>5 DEF Cell
  <2> QED
    BY <2>1, <2>2
<1>2. TypeInv'
  BY <1>0, <1>b, <1>h DEF TypeInv
<1>3. CellInv'
  <2>1. proven = "none"
    BY <1>0, <1>b DEF CellInv
  <2>2. pc' \in {"verdict", "build"} /\ (pc' = "verdict" => k = CellCount)
    BY <1>b
  <2> QED
    BY <1>0, <1>a, <1>b, <1>h, <2>1, <2>2 DEF CellInv
<1>4. GroupInv'
  <2>1. Open' = k
    <3>1. pc' # "fill"
      BY <1>b
    <3> QED
      BY <1>a, <1>h, <3>1 DEF Open
  <2>2. \A i \in 1 .. k : /\ results'[i].writer = KindAt(i - 1)
                          /\ results'[i].batch = BatchAt(i - 1) /\ results'[i].dur = DurAt(i - 1)
    BY <1>e, <1>g
  <2>3. ~(k < k)
    BY <1>a
  <2>4. ASSUME NEW i \in 1 .. k
        PROVE  Compared(results'[i], Base(i)')
    <3>1. Base(i)' = Base(i) /\ First(i - 1) \in 0 .. i - 1 /\ i - 1 \in Nat
      <4>1. i - 1 \in Nat
        BY <1>a
      <4>2. First(i - 1) \in 0 .. i - 1
        BY <4>1, GroupFacts
      <4>3. First(i - 1) + 1 \in 1 .. k
        BY <1>a, <4>1, <4>2
      <4>4. results'[First(i - 1) + 1].med = results[First(i - 1) + 1].med
        BY <1>g, <4>3
      <4> QED
        BY <4>1, <4>2, <4>4 DEF Base
    <3>2. CASE i - 1 < Open
      <4>1. ~(i - 1 >= Open)
        BY <1>d, <3>1, <3>2
      <4>2. results'[i] = results[i]
        BY <1>g, <4>1
      <4> QED
        BY <1>e, <3>1, <3>2, <4>2
    <3>3. CASE ~(i - 1 < Open)
      <4>1. i - 1 >= Open /\ i - 1 \in First(k - 1) .. k - 1
        BY <1>a, <1>d, <3>1, <3>3
      <4>2. Base(i) = stdMed
        BY <1>d, <1>e, <4>1 DEF Base
      <4>3. Plain(results[i])
        BY <1>e, <4>1
      <4>4. CASE stdMed = 0
        <5>1. results'[i] = results[i]
          BY <1>g, <4>4
        <5> QED
          BY <3>1, <4>2, <4>3, <4>4, <5>1 DEF Compared
      <4>5. CASE stdMed # 0
        <5> DEFINE s == results[i]
                   f == Filled(s, stdMed)
                   p == IF s.writer # "io_uring-WriteFixed" THEN s.passes
                        ELSE IF Passes(s, <<s.med, stdMed>>) THEN "true" ELSE "false"
        <5>1. results'[i] = f
          BY <1>g, <4>1, <4>5
        <5>2. s \in ResultSet /\ s.passes = "none"
          BY <1>a, <4>3 DEF Plain
        <5>3. f = [s EXCEPT !.ratio = <<s.med, stdMed>>, !.passes = p]
          BY DEF Filled
        <5>4. f.ratio = <<s.med, stdMed>> /\ f.passes = p /\ f.med = s.med /\ f.writer = s.writer /\ f.batch = s.batch
          <6> HIDE DEF f, p, s
          <6> QED
            BY <5>2, <5>3 DEF ResultSet
        <5>5. Passes(f, f.ratio) = Passes(s, <<s.med, stdMed>>)
          BY <5>4 DEF Passes
        <5>6. Compared(f, stdMed)
          <6>1. p = IF f.writer # "io_uring-WriteFixed" THEN "none"
                    ELSE IF Passes(f, f.ratio) THEN "true" ELSE "false"
            BY <5>2, <5>4, <5>5
          <6> HIDE DEF f, p, s
          <6> QED
            BY <4>5, <5>4, <6>1 DEF Compared
        <5> HIDE DEF f, p, s
        <5> QED
          BY <3>1, <4>2, <5>1, <5>6
      <4> QED
        BY <4>4, <4>5
    <3> QED
      BY <3>2, <3>3
  <2>5. ASSUME NEW i \in 1 .. k
        PROVE  ~(i - 1 >= k)
    BY <1>a
  <2> QED
    BY <1>b, <1>h, <2>1, <2>2, <2>3, <2>4, <2>5 DEF GroupInv
<1>5. TimeInv'
  <2>1. pc' \in {"verdict", "build"}
    BY <1>b
  <2>2. durable = log
    BY <1>0, <1>b DEF TimeInv
  <2> QED
    BY <1>0, <1>b, <2>1, <2>2 DEF TimeInv
<1> QED
  BY <1>0, <1>2, <1>3, <1>4, <1>5

-----------------------------------------------------------------------------
(***************************************************************************)
(* Phase 4b                                                                *)
(***************************************************************************)

(* A cell of Phase 4b has a writer and a batch size.                       *)
LEMMA BenchFacts ==
  ASSUME NEW k \in Nat, k < BenchCount
  PROVE  BenchKinds[k \div Len(Batches) + 1] \in STRING /\ Batches[(k % Len(Batches)) + 1] \in Nat \ {0}
<1> DEFINE b == Len(Batches)
           u == BenchKinds
           n == IF Len(Kinds) > 1 THEN 2 ELSE 1
<1>1. b \in Nat \ {0} /\ Kinds \in Seq(STRING) /\ Len(Kinds) \in Nat /\ Len(Kinds) > 0
  BY Sizes, KindsAssumption, LenProperties
<1>2. u \in Seq(STRING) /\ Len(u) \in Nat
  <2>1. u = SubSeq(Kinds, 1, n) /\ 1 \in 1 .. Len(Kinds) + 1 /\ n \in 1 - 1 .. Len(Kinds)
    BY <1>1 DEF BenchKinds
  <2>2. \A i \in 1 .. n : Kinds[i] \in STRING
    BY <1>1, <2>1, ElementOfSeq
  <2>3. SubSeq(Kinds, 1, n) \in Seq(STRING)
    <3> HIDE DEF n
    <3> QED
      BY <1>1, <2>1, SubSeqProperties
  <2> QED
    BY <2>1, <2>3, LenProperties
<1>3. k \div b \in 0 .. Len(u) - 1
  <2>1. Len(u) * b = b * Len(u)
    <3>1. \A x, y \in Nat : x * y = y * x
      BY Z3
    <3> QED
      BY <1>1, <1>2, <3>1
  <2> HIDE DEF u, b
  <2>2. k < b * Len(u)
    BY <2>1 DEF BenchCount, u, b
  <2> QED
    BY <1>1, <1>2, <2>2, DivBelow
<1>4. u[k \div b + 1] \in STRING
  <2> HIDE DEF u, b
  <2>1. k \div b + 1 \in 1 .. Len(u)
    BY <1>2, <1>3
  <2> QED
    BY <1>2, <2>1, ElementOfSeq
<1>5. Batches[(k % b) + 1] \in Nat \ {0}
  <2>1. k % b \in 0 .. b - 1
    <3>1. k \in Int
      OBVIOUS
    <3> HIDE DEF b
    <3> QED
      BY <1>1, <3>1, DivMod
  <2>2. (k % b) + 1 \in 1 .. b
    BY <1>1, <2>1
  <2> QED
    BY <2>2, Sizes
<1> QED
  BY <1>4, <1>5

(* A step of persist_bench: what it counts is in the log, and the last     *)
(* sync of a cell makes it durable before the result is kept.              *)
LEMMA RunBenchStep ==
  ASSUME IInv, RunBench
  PROVE  IInv'
<1> USE DEF IInv, RunBench
<1>0. /\ test = "bench" /\ test' = test /\ stage' = stage /\ trials' = trials
      /\ tailpc' = tailpc /\ p99s' = p99s /\ tailResults' = tailResults
      /\ StageInv' /\ TailInv' /\ CellInv' /\ GroupInv' /\ TimeInv'
  <2>1. /\ test = "bench" /\ test' = test /\ stage' = stage /\ trials' = trials /\ stage = "bench"
        /\ tailpc' = tailpc /\ p99s' = p99s /\ tailResults' = tailResults
    BY DEF StageInv, tailVars
  <2> QED
    BY <2>1 DEF StageInv, TailInv, CellInv, GroupInv, TimeInv
<1>a. /\ pc \in {"build", "write", "exported", "panicked"} /\ mb = <<>> /\ proven = "none"
      /\ \A i \in 1 .. Cell : results[i].ratio = None
      /\ pc = "build" => durable = log
      /\ pc = "write" => Cell < BenchCount /\ total <= log /\ total < msgs + BenchBatch
      /\ pc = "build" /\ results # <<>> => Counted(results[Cell].batch)
  BY <1>0 DEF BenchInv
<1>b. Cell \in Nat /\ Cell = Len(results) /\ results \in Seq(ResultSet)
  BY LenProperties DEF TypeInv, Cell
<1>c. Cell < BenchCount => BenchKind \in STRING /\ BenchBatch \in Nat \ {0}
  BY <1>b, BenchFacts DEF BenchKind, BenchBatch
<1>1. CASE BenchOpen
  <2> USE <1>1 DEF BenchOpen, OpenLog, outcome
  <2>1. log' \in Nat /\ durable' \in Nat /\ log' = durable'
    BY <1>a DEF TypeInv
  <2>2. TypeInv'
    BY <1>0, <2>1 DEF TypeInv
  <2>3. Cell' = Cell /\ BenchBatch' = BenchBatch /\ BenchCount' = BenchCount
    BY DEF Cell, BenchBatch, BenchCount
  <2>4. total' <= log' /\ total' < msgs' + BenchBatch'
    BY <1>c, <2>1, <2>3 DEF TypeInv
  <2>5. BenchInv'
    BY <1>0, <1>a, <2>3, <2>4 DEF BenchInv
  <2> QED
    BY <1>0, <2>2, <2>5
<1>2. CASE BenchWrite
  <2> USE <1>2 DEF BenchWrite, AppendBatch, outcome
  <2>1. BenchBatch \in Nat \ {0}
    BY <1>a, <1>c
  <2>2. /\ log \in Nat /\ total \in Nat /\ msgs \in Nat /\ total <= log /\ total < msgs
        /\ log' = log + BenchBatch /\ total' = total + BenchBatch /\ msgs' = msgs
    BY <1>a DEF TypeInv
  <2>3. log' \in Nat /\ total' \in Nat /\ total' <= log' /\ total' < msgs' + BenchBatch
    BY ONLY <2>1, <2>2
  <2>4. TypeInv'
    BY <1>0, <2>3 DEF TypeInv
  <2>5. Cell' = Cell /\ BenchBatch' = BenchBatch /\ BenchCount' = BenchCount
    BY DEF Cell, BenchBatch, BenchCount
  <2>6. BenchInv'
    BY <1>0, <1>a, <2>3, <2>5 DEF BenchInv
  <2> QED
    BY <1>0, <2>4, <2>6
<1>3. CASE BenchStop
  <2> USE <1>3 DEF BenchStop, LastSync
  <2>1. PICK s \in Throughputs :
          results' = Append(results, Result(BenchKind, BenchBatch, "sync-end", s))
    OBVIOUS
  <2> DEFINE r == Result(BenchKind, BenchBatch, "sync-end", s)
  <2>2. s \in Nat
    BY SpeedsAssumption DEF Throughputs
  <2>3. r \in ResultSet /\ r.ratio = None /\ r.batch = BenchBatch
    BY <1>a, <1>c, <2>2 DEF Result, ResultSet, DurSet
  <2> HIDE DEF r
  <2>4. results' = Append(results, r)
    BY <2>1 DEF r
  <2>5. /\ results' \in Seq(ResultSet) /\ Cell' = Cell + 1
        /\ \A i \in 1 .. Cell : results'[i] = results[i]
        /\ results'[Cell + 1] = r
    BY <1>b, <2>3, <2>4, AppendProperties DEF Cell
  <2>6. \A i \in 1 .. Cell + 1 : i \in 1 .. Cell \/ i = Cell + 1
    BY <1>b
  <2>7. /\ pc' = "build" /\ log' = log /\ total' = total /\ mb' = mb /\ stdMed' = stdMed
        /\ proven' = proven /\ durable' = log /\ msgs' = msgs
    BY DEF timing
  <2>8. TypeInv'
    BY <1>0, <2>5, <2>7 DEF TypeInv
  <2>9. \A i \in 1 .. Cell' : results'[i].ratio = None
    BY <1>a, <2>3, <2>5, <2>6
  <2>10. Counted(results[Cell].batch)'
    <3>1. total <= log /\ total < msgs + BenchBatch /\ msgs <= total
      BY <1>a DEF TypeInv
    <3>2. results'[Cell'].batch = BenchBatch
      BY <2>3, <2>5
    <3> QED
      BY <2>7, <3>1, <3>2 DEF Counted
  <2>11. BenchInv'
    BY <1>0, <1>a, <2>7, <2>9, <2>10 DEF BenchInv
  <2> QED
    BY <1>0, <2>8, <2>11
<1>4. CASE BenchExport
  <2> USE <1>4 DEF BenchExport, RemoveLog, timing, outcome
  <2>1. log' \in Nat /\ durable' \in Nat /\ pc' \in {"exported", "panicked"}
    BY DEF TypeInv
  <2>2. TypeInv'
    BY <1>0, <2>1 DEF TypeInv
  <2>3. Cell' = Cell
    BY DEF Cell
  <2>4. BenchInv'
    BY <1>0, <1>a, <2>1, <2>3 DEF BenchInv
  <2> QED
    BY <1>0, <2>2, <2>4
<1>5. CASE BenchPanic
  <2> USE <1>5 DEF BenchPanic, timing, outcome
  <2>1. TypeInv'
    BY <1>0 DEF TypeInv
  <2>2. Cell' = Cell
    BY DEF Cell
  <2>3. BenchInv'
    BY <1>0, <1>a, <2>2 DEF BenchInv
  <2> QED
    BY <1>0, <2>1, <2>3
<1> QED
  BY <1>1, <1>2, <1>3, <1>4, <1>5 DEF BenchNext

-----------------------------------------------------------------------------
(***************************************************************************)
(* Invariance                                                              *)
(***************************************************************************)

(* The programs start with nothing measured.                               *)
LEMMA InitIInv == Init => IInv
<1> SUFFICES ASSUME Init
             PROVE  IInv
  OBVIOUS
<1> USE DEF Init, TailInit, DiskInit
<1>1. /\ test \in {"tail", "disk", "both", "bench"} /\ trials \in Nat
      /\ stage = IF test = "both" THEN "tail" ELSE test
  BY KnobsAssumption
<1>2. msgs \in Nat
  BY SpeedsAssumption
<1>3. Len(results) = 0 /\ results \in Seq(ResultSet) /\ mb \in Seq(Nat) /\ p99s \in Seq(P99s)
      /\ tailResults \in Seq(RateSet) /\ Len(tailResults) = 0
  BY EmptySeq
<1>4. Cell = 0
  BY <1>3 DEF Cell
<1>5. TypeInv
  BY <1>1, <1>2, <1>3 DEF TypeInv
<1>6. StageInv
  BY <1>1 DEF StageInv
<1>7. TailInv
  BY <1>3 DEF TailInv
<1>8. CellInv
  BY <1>4, Sizes DEF CellInv
<1>9. GroupInv
  <2>1. 0 % GroupSize = 0
    BY Sizes
  <2>2. Open = 0
    BY <1>4, <2>1 DEF Open
  <2> QED
    BY <1>4, <2>2 DEF GroupInv
<1>10. TimeInv /\ BenchInv
  BY <1>4 DEF TimeInv, BenchInv
<1> QED
  BY <1>5, <1>6, <1>7, <1>8, <1>9, <1>10 DEF IInv

(* Every step of every program keeps the invariant.                        *)
LEMMA NextIInv == IInv /\ [Next]_vars => IInv'
<1> SUFFICES ASSUME IInv, [Next]_vars
             PROVE  IInv'
  OBVIOUS
<1>1. CASE RunTail
  BY <1>1, RunTailStep
<1>2. CASE TailExits
  BY <1>2, TailExitsStep
<1>3. CASE RunDisk
  <2>1. DiskNext
    BY <1>3 DEF RunDisk
  <2> QED
    BY <1>3, <2>1, BuildWriterStep, WriteBatchStep, SyncBatchStep, StopClockStep, FinishCellStep,
       FillRatiosStep, VerdictStep, PanicStep DEF DiskNext
<1>4. CASE RunBench
  BY <1>4, RunBenchStep
<1>5. CASE DiskExits
  BY <1>5, DiskExitsStep
<1>6. CASE UNCHANGED vars
  <2>1. UNCHANGED <<test, stage, trials, tailpc, p99s, tailResults,
                    msgs, pc, log, durable, total, mb, stdMed, results, proven>>
    BY <1>6 DEF vars, tailVars, diskVars, timing, outcome
  <2>2. TypeInv' /\ StageInv' /\ TailInv'
    BY <2>1 DEF IInv, TypeInv, StageInv, TailInv
  <2>3. CellInv' /\ GroupInv' /\ TimeInv' /\ BenchInv'
    BY <2>1 DEF IInv, CellInv, GroupInv, TimeInv, BenchInv, Open, Base, Cell, Counted, BenchBatch, BenchCount
  <2> QED
    BY <2>2, <2>3 DEF IInv
<1> QED
  BY <1>1, <1>2, <1>3, <1>4, <1>5, <1>6 DEF Next

(* The inductive invariant of the drivers: in run_verification.sh, Test T, *)
(* Test D and Phase 4b, every reachable state satisfies IInv.              *)
THEOREM Invariance == Spec => []IInv
BY InitIInv, NextIInv, PTL DEF Spec

-----------------------------------------------------------------------------
(***************************************************************************)
(* What the runs check, for every matrix and every number of trials        *)
(***************************************************************************)

(* run_verification.sh: "Done" is only printed when every test that TEST   *)
(* names has run to its end and exported its results.                      *)
THEOREM ExportedWhenDone == Spec => []DoneMeansExported
<1>1. IInv => DoneMeansExported
  <2> SUFFICES ASSUME IInv
               PROVE  DoneMeansExported
    OBVIOUS
  <2>1. ASSUME stage = "done", test \in {"disk", "both"}
        PROVE  pc = "exported" /\ proven # "none" /\ Len(results) = CellCount
    <3>1. pc = "exported" /\ test # "bench"
      BY <2>1 DEF IInv, StageInv
    <3>2. proven # "none" /\ Cell = CellCount
      BY <3>1 DEF IInv, CellInv
    <3> QED
      BY <3>1, <3>2 DEF Cell
  <2> QED
    BY <2>1 DEF IInv, StageInv, DoneMeansExported
<1> QED
  BY <1>1, Invariance, PTL

(* time_writer and bench_writer: when the clock of a trial stops, all that *)
(* it counts is durable, whatever became of the old log; in Mode B no      *)
(* batch starts before the last one is durable.                            *)
THEOREM DurableWhenTimed == Spec => []TimedIsDurable
<1>1. IInv => TimedIsDurable
  BY DEF IInv, StageInv, TimeInv, BenchInv, TimedIsDurable
<1> QED
  BY <1>1, Invariance, PTL

(* The std result that a second pass compares a group with.                *)
LEMMA BaseOf ==
  ASSUME IInv, test # "bench", NEW i \in 1 .. Cell
  PROVE  LET j == First(i - 1) + 1 IN
         /\ j \in 1 .. Cell /\ Base(i) = results[j].med
         /\ results[j].writer = "std-BufWriter"
         /\ results[j].batch = results[i].batch /\ results[j].dur = results[i].dur
         /\ \A m \in 1 .. Cell :
              /\ results[m].writer = "std-BufWriter"
              /\ results[m].batch = results[i].batch /\ results[m].dur = results[i].dur
              => m = j
<1> DEFINE f == First(i - 1)
           j == f + 1
<1>0. Cell \in Nat /\ Cell <= CellCount /\ CellCount \in Nat
  BY LenProperties, Sizes DEF IInv, TypeInv, CellInv, Cell
<1>1. i - 1 \in Nat /\ f \in 0 .. i - 1 /\ f % GroupSize = 0 /\ First(f) = f
  <2>1. i - 1 \in Nat
    BY <1>0
  <2>2. f \in 0 .. i - 1 /\ f % GroupSize = 0 /\ \A m \in f .. i - 1 : First(m) = f
    BY <2>1, GroupFacts
  <2>3. f \in f .. i - 1
    BY <2>1, <2>2
  <2> QED
    BY <2>1, <2>2, <2>3
<1> HIDE DEF f
<1>2. f \in Nat /\ f < CellCount /\ i - 1 < CellCount /\ j \in 1 .. Cell /\ j - 1 = f
  BY <1>0, <1>1
<1>3. \A m \in 1 .. Cell : /\ results[m].writer = KindAt(m - 1)
                           /\ results[m].batch = BatchAt(m - 1) /\ results[m].dur = DurAt(m - 1)
  BY DEF IInv, GroupInv
<1>4. /\ results[j].writer = KindAt(f) /\ results[j].batch = BatchAt(f) /\ results[j].dur = DurAt(f)
      /\ results[i].batch = BatchAt(i - 1) /\ results[i].dur = DurAt(i - 1)
  BY <1>2, <1>3
<1>5. KindAt(f) = "std-BufWriter"
  BY <1>1, <1>2, CellFacts
<1>6. BatchAt(f) = BatchAt(i - 1) /\ DurAt(f) = DurAt(i - 1)
  <2>1. First(f) = First(i - 1)
    BY <1>1 DEF f
  <2> QED
    BY <1>1, <1>2, <2>1, GroupOf
<1>7. Base(i) = results[j].med
  BY DEF Base, f
<1>8. ASSUME NEW m \in 1 .. Cell, results[m].writer = "std-BufWriter",
             results[m].batch = results[i].batch, results[m].dur = results[i].dur
      PROVE  m = j
  <2>1. m - 1 \in Nat /\ m - 1 < CellCount
    BY <1>0
  <2>2. KindAt(m - 1) = "std-BufWriter" /\ BatchAt(m - 1) = BatchAt(i - 1) /\ DurAt(m - 1) = DurAt(i - 1)
    BY <1>3, <1>4, <1>8
  <2>3. First(m - 1) = First(i - 1)
    BY <1>1, <1>2, <2>1, <2>2, GroupOf
  <2>4. (m - 1) % GroupSize = 0
    BY <2>1, <2>2, CellFacts
  <2>5. First(m - 1) = m - 1
    BY <2>1, <2>4 DEF First
  <2> QED
    BY <1>2, <2>1, <2>3, <2>5 DEF f
<1> QED
  BY <1>2, <1>4, <1>5, <1>6, <1>7, <1>8 DEF f

(* main of persist_verify: ratio_vs_std compares a result with the std     *)
(* writer of its own batch size and durability mode.                       *)
THEOREM OwnBaseline == Spec => []RatioAgainstOwnBaseline
<1>1. IInv => RatioAgainstOwnBaseline
  <2> SUFFICES ASSUME IInv, NEW i \in DOMAIN results, results[i].ratio # None
               PROVE  \E j \in DOMAIN results :
                        /\ results[j].writer = "std-BufWriter"
                        /\ results[j].batch = results[i].batch /\ results[j].dur = results[i].dur
                        /\ results[i].ratio = <<results[i].med, results[j].med>>
    BY DEF RatioAgainstOwnBaseline
  <2>0. DOMAIN results = 1 .. Cell /\ Cell \in Nat /\ i \in 1 .. Cell
    BY LenProperties DEF IInv, TypeInv, Cell
  <2>1. test # "bench"
    BY <2>0 DEF IInv, BenchInv
  <2> DEFINE j == First(i - 1) + 1
  <2>2. /\ j \in 1 .. Cell /\ Base(i) = results[j].med
        /\ results[j].writer = "std-BufWriter"
        /\ results[j].batch = results[i].batch /\ results[j].dur = results[i].dur
    BY <2>0, <2>1, BaseOf
  <2>3. Compared(results[i], Base(i))
    <3>1. ~(i - 1 >= Open)
      BY <2>0, <2>1 DEF IInv, GroupInv, Plain
    <3>2. Open \in Int
      <4>1. CASE pc = "fill" \/ Cell % GroupSize # 0
        <5>1. Cell # 0
          <6>1. 0 % GroupSize = 0
            BY Sizes
          <6> QED
            BY <2>0, <2>1, <4>1, <6>1 DEF IInv, CellInv
        <5>2. Cell - 1 \in Nat
          BY <2>0, <5>1
        <5>3. First(Cell - 1) \in 0 .. Cell - 1
          BY <5>2, GroupFacts
        <5> QED
          BY <2>0, <4>1, <5>3 DEF Open
      <4>2. CASE ~(pc = "fill" \/ Cell % GroupSize # 0)
        BY <2>0, <4>2 DEF Open
      <4> QED
        BY <4>1, <4>2
    <3>3. i - 1 < Open
      BY <2>0, <3>1, <3>2
    <3> QED
      BY <2>0, <2>1, <3>3 DEF IInv, GroupInv
  <2>4. results[i].ratio = <<results[i].med, Base(i)>>
    BY <2>3 DEF Compared, Plain
  <2> HIDE DEF j
  <2> QED
    BY <2>0, <2>2, <2>4
<1> QED
  BY <1>1, Invariance, PTL

(* The verdict line of Test D comes after the whole matrix; a gain in Mode *)
(* B gives PASS, and no gain in either mode gives none.                    *)
THEOREM MatrixVerdict == Spec => []VerdictFollowsMatrix
<1> DEFINE Wins(i, j) ==
             /\ results[i].writer = "io_uring-WriteFixed" /\ results[j].writer = "std-BufWriter"
             /\ results[i].batch = results[j].batch /\ results[i].dur = results[j].dur
             /\ results[i].batch >= LargeBatch
             /\ results[j].med > 0 /\ 2 * results[i].med >= 3 * results[j].med
<1>1. IInv => VerdictFollowsMatrix
  <2> SUFFICES ASSUME IInv, proven # "none"
               PROVE  /\ Len(results) = CellCount
                      /\ Gain("sync-per-batch") => proven = "true"
                      /\ ~Gain("sync-per-batch") /\ ~Gain("sync-end") => proven = "false"
    BY DEF VerdictFollowsMatrix
  <2>0. DOMAIN results = 1 .. Cell /\ Cell \in Nat /\ \A i \in 1 .. Cell : results[i] \in ResultSet
    BY LenProperties, ElementOfSeq DEF IInv, TypeInv, Cell
  <2>1. test # "bench"
    BY DEF IInv, BenchInv
  <2>2. /\ Cell = CellCount /\ Cell % GroupSize = 0 /\ pc \in {"exported", "panicked"}
        /\ (proven = "true") <=> \E i \in 1 .. Cell : results[i].passes = "true"
    BY <2>1 DEF IInv, CellInv
  <2>3. Open = Cell
    BY <2>2 DEF Open
  <2>4. ASSUME NEW i \in 1 .. Cell
        PROVE  Compared(results[i], Base(i))
    <3>1. i - 1 < Open
      BY <2>0, <2>3
    <3> QED
      BY <2>1, <3>1 DEF IInv, GroupInv
  <2>5. ASSUME NEW i \in 1 .. Cell
        PROVE  results[i].passes = "true" <=> \E j \in 1 .. Cell : Wins(i, j)
    <3> DEFINE j == First(i - 1) + 1
    <3>1. /\ j \in 1 .. Cell /\ Base(i) = results[j].med
          /\ results[j].writer = "std-BufWriter"
          /\ results[j].batch = results[i].batch /\ results[j].dur = results[i].dur
          /\ \A m \in 1 .. Cell :
               /\ results[m].writer = "std-BufWriter"
               /\ results[m].batch = results[i].batch /\ results[m].dur = results[i].dur
               => m = j
      BY <2>1, BaseOf
    <3> HIDE DEF j
    <3>2. (\E m \in 1 .. Cell : Wins(i, m)) <=> Wins(i, j)
      BY <3>1
    <3>3. results[i] \in ResultSet /\ results[j] \in ResultSet
      BY <2>0, <3>1
    <3>4. Compared(results[i], results[j].med)
      BY <2>4, <3>1
    <3> DEFINE r == results[i]
               b == results[j].med
    <3>5. r.med \in Nat /\ b \in Nat /\ r.batch \in Nat
      BY <3>3 DEF ResultSet
    <3>6. r.passes = "true" <=>
            r.writer = "io_uring-WriteFixed" /\ r.batch >= LargeBatch /\ b > 0 /\ 2 * r.med >= 3 * b
      <4> HIDE DEF r, b
      <4>0. Compared(r, b)
        BY <3>4 DEF r, b
      <4>1. CASE b = 0
        <5>1. r.passes = "none"
          BY <4>0, <4>1 DEF Compared, Plain
        <5>2. ~(b > 0)
          BY <4>1
        <5> QED
          BY <5>1, <5>2
      <4>2. CASE b # 0
        <5>1. /\ r.ratio = <<r.med, b>>
              /\ r.passes = IF r.writer # "io_uring-WriteFixed" THEN "none"
                            ELSE IF Passes(r, r.ratio) THEN "true" ELSE "false"
          BY <4>0, <4>2 DEF Compared
        <5>2. Passes(r, r.ratio) <=> 2 * r.med >= 3 * b /\ r.batch >= LargeBatch
          BY <5>1 DEF Passes, AtLeastOneAndAHalf
        <5>3. b > 0
          BY <3>5, <4>2
        <5> QED
          BY <5>1, <5>2, <5>3
      <4> QED
        BY <4>1, <4>2
    <3>7. Wins(i, j) <=>
            r.writer = "io_uring-WriteFixed" /\ r.batch >= LargeBatch /\ b > 0 /\ 2 * r.med >= 3 * b
      BY <3>1
    <3> QED
      BY <3>2, <3>6, <3>7
  <2>6. (proven = "true") <=> \E i, j \in 1 .. Cell : Wins(i, j)
    <3> HIDE DEF Wins
    <3> QED
      BY <2>2, <2>5
  <2>7. ASSUME NEW i \in 1 .. Cell, NEW j \in 1 .. Cell, Wins(i, j)
        PROVE  Gain("sync-per-batch") \/ Gain("sync-end")
    <3>1. results[i].dur \in DurSet
      BY <2>0 DEF ResultSet
    <3>2. Gain(results[i].dur)
      BY <2>0, <2>7 DEF Gain
    <3> QED
      BY <3>1, <3>2 DEF DurSet
  <2>8. Gain("sync-per-batch") => \E i, j \in 1 .. Cell : Wins(i, j)
    BY <2>0 DEF Gain
  <2>9. proven \in {"none", "true", "false"}
    BY DEF IInv, TypeInv
  <2> HIDE DEF Wins
  <2> QED
    BY <2>2, <2>6, <2>7, <2>8, <2>9 DEF Cell
<1> QED
  BY <1>1, Invariance, PTL

(* The integer median of a sorted sequence lies between its two middle     *)
(* elements.                                                               *)
LEMMA MedianBetween ==
  ASSUME NEW v \in Seq(Nat), v # <<>>,
         \A i, j \in 1 .. Len(v) : i <= j => v[i] <= v[j]
  PROVE  LET lo == (Len(v) + 1) \div 2
             hi == Len(v) \div 2 + 1
         IN  /\ lo \in 1 .. Len(v) /\ hi \in 1 .. Len(v) /\ 2 * lo >= Len(v)
             /\ Median(v) \in Nat /\ v[lo] <= Median(v) /\ Median(v) <= v[hi]
<1> DEFINE n == Len(v)
           lo == (n + 1) \div 2
           hi == n \div 2 + 1
           x == v[lo]
           y == v[hi]
<1>1. n \in Nat /\ n # 0 /\ \A i \in 1 .. n : v[i] \in Nat
  BY LenProperties, ElementOfSeq, EmptySeq
<1>2. lo \in 1 .. n /\ hi \in 1 .. n /\ lo <= hi /\ 2 * lo >= n
  <2>1. n \in Nat /\ n # 0
    BY <1>1
  <2> HIDE DEF n
  <2> QED
    BY ONLY <2>1
<1>3. x \in Nat /\ y \in Nat /\ x <= y
  BY <1>1, <1>2
<1>4. (Median(v) = y /\ lo = hi) \/ Median(v) = (x + y) \div 2
  <2>1. CASE n % 2 = 1
    <3>1. lo = hi
      <4>1. n \in Nat /\ n % 2 = 1
        BY <1>1, <2>1
      <4> HIDE DEF n
      <4> QED
        BY ONLY <4>1
    <3>2. Median(v) = y
      BY <1>1, <2>1 DEF Median
    <3> QED
      BY <3>1, <3>2
  <2>2. CASE n % 2 # 1
    <3>1. lo = n \div 2
      <4>1. n \in Nat /\ n % 2 # 1
        BY <1>1, <2>2
      <4> HIDE DEF n
      <4> QED
        BY ONLY <4>1
    <3>2. Median(v) = (v[n \div 2] + y) \div 2
      BY <1>1, <2>2 DEF Median
    <3> HIDE DEF n, lo, hi, y
    <3>3. Median(v) = (x + y) \div 2
      BY <3>1, <3>2
    <3> QED
      BY <3>3
  <2> QED
    BY <2>1, <2>2
<1>5. lo = hi => x = y
  OBVIOUS
<1> HIDE DEF n, lo, hi, x, y
<1>6. (x + y) \div 2 \in Nat /\ x <= (x + y) \div 2 /\ (x + y) \div 2 <= y
  BY ONLY <1>3
<1>7. Median(v) \in Nat /\ x <= Median(v) /\ Median(v) <= y
  BY <1>3, <1>4, <1>5, <1>6
<1> QED
  BY <1>2, <1>7 DEF n, lo, hi, x, y

(* median of tail_bench is in the middle of a sorted sequence.             *)
LEMMA MedianMiddle ==
  ASSUME NEW v \in Seq(Nat),
         \A i, j \in 1 .. Len(v) : i <= j => v[i] <= v[j]
  PROVE  IsMiddle(2 * Median(v), v)
<1>1. CASE v = <<>>
  BY <1>1 DEF IsMiddle
<1>2. CASE v # <<>>
  <2> DEFINE lo == (Len(v) + 1) \div 2
             hi == Len(v) \div 2 + 1
             f == [i \in 1 .. Len(v) |-> i]
  <2>1. /\ lo \in 1 .. Len(v) /\ hi \in 1 .. Len(v)
        /\ Median(v) \in Nat /\ v[lo] <= Median(v) /\ Median(v) <= v[hi]
    BY <1>2, MedianBetween
  <2>2. v[lo] \in Nat /\ v[hi] \in Nat
    BY <2>1, ElementOfSeq
  <2> DEFINE x == v[lo]
             y == v[hi]
             t == 2 * Median(v)
  <2>3. t \in Int /\ 2 * x <= t /\ t <= 2 * y
    <3>1. x \in Nat /\ y \in Nat /\ Median(v) \in Nat /\ x <= Median(v) /\ Median(v) <= y
      BY <2>1, <2>2
    <3> HIDE DEF x, y
    <3> QED
      BY ONLY <3>1
  <2>4. /\ \A i \in 1 .. Len(v) : f[i] \in 1 .. Len(v) /\ v[f[i]] = v[i]
        /\ \A i, j \in 1 .. Len(v) : f[i] = f[j] => i = j
        /\ \A k \in 1 .. Len(v) : \E i \in 1 .. Len(v) : f[i] = k
    OBVIOUS
  <2> HIDE DEF f, t
  <2>5. IsMiddle(t, v)
    BY <1>2, <2>3, <2>4, MiddleOf
  <2> QED
    BY <2>5 DEF t
<1> QED
  BY <1>1, <1>2

(* median_f64 of persist_verify is in the middle of what it sorts.         *)
LEMMA MedianF64Middle ==
  ASSUME NEW s \in Seq(Nat)
  PROVE  IsMiddle(TwiceMedianF64(s), s)
<1>1. CASE s = <<>>
  BY <1>1 DEF IsMiddle
<1>2. CASE s # <<>>
  <2> DEFINE v == Sorted(s)
             n == Len(s)
             lo == (n + 1) \div 2
             hi == n \div 2 + 1
             f == [i \in 1 .. n |-> Place(s, i)]
             t == TwiceMedianF64(s)
             x == v[lo]
             y == v[hi]
  <2>1. n \in Nat /\ n # 0 /\ v \in Seq(Nat) /\ Len(v) = n
        /\ \A i, j \in 1 .. n : i <= j => v[i] <= v[j]
    BY <1>2, SortedFacts, LenProperties, EmptySeq
  <2>2. /\ \A i \in 1 .. n : f[i] \in 1 .. n /\ v[f[i]] = s[i]
        /\ \A i, j \in 1 .. n : f[i] = f[j] => i = j
        /\ \A k \in 1 .. n : \E i \in 1 .. n : f[i] = k
    BY SortedFacts, PlaceFacts, ZenonT(40)
  <2>3. lo \in 1 .. n /\ hi \in 1 .. n /\ lo <= hi
    <3>1. n \in Nat /\ n # 0
      BY <2>1
    <3> HIDE DEF n
    <3> QED
      BY ONLY <3>1
  <2>4. x \in Nat /\ y \in Nat /\ x <= y
    <3>1. \A i \in 1 .. n : v[i] \in Nat
      BY <2>1, ElementOfSeq
    <3> QED
      BY <2>1, <2>3, <3>1
  <2>5. (t = 2 * y /\ lo = hi) \/ t = x + y
    <3>1. CASE n % 2 = 1
      <4>1. lo = hi
        <5>1. n \in Nat /\ n % 2 = 1
          BY <2>1, <3>1
        <5> HIDE DEF n
        <5> QED
          BY ONLY <5>1
      <4>2. t = 2 * y
        BY <2>1, <3>1 DEF TwiceMedianF64
      <4> QED
        BY <4>1, <4>2
    <3>2. CASE n % 2 # 1
      <4>1. lo = n \div 2
        <5>1. n \in Nat /\ n % 2 # 1
          BY <2>1, <3>2
        <5> HIDE DEF n
        <5> QED
          BY ONLY <5>1
      <4>2. t = v[n \div 2] + y
        BY <2>1, <3>2 DEF TwiceMedianF64
      <4> HIDE DEF n, lo, hi, y, v, t
      <4> QED
        BY <4>1, <4>2
    <3> QED
      BY <3>1, <3>2
  <2>6. lo = hi => x = y
    OBVIOUS
  <2> HIDE DEF v, f, t
  <2>7. t \in Int /\ 2 * x <= t /\ t <= 2 * y
    <3> HIDE DEF x, y, lo, hi
    <3> QED
      BY ONLY <2>4, <2>5, <2>6
  <2>8. IsMiddle(t, s)
    BY <1>2, <2>1, <2>2, <2>7, MiddleOf
  <2> QED
    BY <2>8 DEF t
<1> QED
  BY <1>1, <1>2

(* median and median_f64: both binaries report a middle value of their     *)
(* trials, in whatever order these came.                                   *)
THEOREM MiddleReported == Spec => []MedianIsMiddle
<1>1. IInv => MedianIsMiddle
  <2> SUFFICES ASSUME IInv
               PROVE  MedianIsMiddle
    OBVIOUS
  <2>0. mb \in Seq(Nat) /\ tailResults \in Seq(RateSet)
    BY DEF IInv, TypeInv
  <2>1. IsMiddle(TwiceMedianF64(mb), mb)
    BY <2>0, MedianF64Middle
  <2>2. ASSUME NEW i \in DOMAIN tailResults
        PROVE  IsMiddle(2 * tailResults[i].med, tailResults[i].p99s)
    <3> DEFINE v == tailResults[i].p99s
    <3>1. i \in 1 .. Len(tailResults)
      BY <2>0, LenProperties
    <3>2. tailResults[i] \in RateSet /\ SoundRate(tailResults[i])
      BY <2>0, <3>1, ElementOfSeq DEF IInv, TailInv
    <3>3. v \in Seq(Nat)
      <4>1. v \in Seq(P99s) /\ P99s \in SUBSET Nat
        BY <3>2, TailAssumption DEF RateSet
      <4> QED
        BY <4>1, SeqMonotonic
    <3>4. tailResults[i].med = Median(v) /\ \A j, k \in 1 .. Len(v) : j <= k => v[j] <= v[k]
      BY <3>2 DEF SoundRate
    <3>5. IsMiddle(2 * Median(v), v)
      <4> HIDE DEF v
      <4> QED
        BY <3>3, <3>4, MedianMiddle
    <3> QED
      BY <3>4, <3>5
  <2> QED
    BY <2>1, <2>2 DEF MedianIsMiddle
<1> QED
  BY <1>1, Invariance, PTL

(* run_rate: behind every PASS after some trials stand half of the trials  *)
(* below the bound and, from four on and unless the IQR is exactly a       *)
(* quarter of the median, half of them within less than a quarter of it.   *)
THEOREM WitnessedPass == Spec => []PassIsWitnessed
<1>1. ASSUME NEW v \in Seq(P99s), v # <<>>,
             \A i, j \in 1 .. Len(v) : i <= j => v[i] <= v[j],
             Median(v) < MicroSec, Stable(Median(v), Iqr(v))
      PROVE  /\ 2 * Cardinality({j \in 1 .. Len(v) : v[j] < MicroSec}) >= Len(v)
             /\ Len(v) >= 4 /\ 4 * Iqr(v) # Median(v) =>
                  \E T \in SUBSET (1 .. Len(v)) :
                    /\ 2 * Cardinality(T) >= Len(v)
                    /\ \A j, k \in T : 4 * (v[j] - v[k]) < Median(v)
  <2> DEFINE n == Len(v)
             med == Median(v)
             lo == (n + 1) \div 2
  <2>0. /\ P99s \in SUBSET Nat /\ v \in Seq(Nat) /\ n \in Nat /\ n # 0 /\ MicroSec \in Nat
        /\ \A i \in 1 .. n : v[i] \in Nat /\ v[i] >= 1
    <3>1. P99s \in SUBSET Nat /\ v \in Seq(Nat)
      BY TailAssumption, SeqMonotonic
    <3>2. \A i \in 1 .. n : v[i] \in P99s
      BY ElementOfSeq
    <3>3. \A x \in P99s : x \in Nat /\ x >= 1
      BY TailAssumption
    <3> QED
      BY <1>1, <3>1, <3>2, <3>3, TailAssumption, LenProperties, EmptySeq
  <2>1. lo \in 1 .. n /\ 2 * lo >= n /\ med \in Nat /\ v[lo] <= med
    BY <1>1, <2>0, MedianBetween
  <2>2. lo \in Nat /\ v[lo] \in Nat /\ v[lo] >= 1
    BY <2>0, <2>1
  <2>3. 2 * Cardinality({j \in 1 .. n : v[j] < MicroSec}) >= n
    <3> DEFINE A == {j \in 1 .. n : v[j] < MicroSec}
    <3>1. ASSUME NEW j \in 1 .. lo
          PROVE  j \in A
      <4>1. j \in 1 .. n /\ j <= lo
        BY <2>0, <2>1, <2>2
      <4>2. v[j] \in Nat /\ v[j] <= v[lo]
        BY <1>1, <2>0, <2>1, <4>1
      <4>3. v[j] < MicroSec
        BY <1>1, <2>0, <2>1, <2>2, <4>2
      <4> QED
        BY <4>1, <4>3
    <3>2. IsFiniteSet(A)
      <4>1. IsFiniteSet(1 .. n) /\ A \in SUBSET (1 .. n)
        BY <2>0, FS_Interval
      <4> QED
        BY <4>1, FS_Subset
    <3>3. (1 .. lo) \in SUBSET A /\ Cardinality(1 .. lo) = lo
      <4>1. lo \in Nat /\ 1 <= lo /\ 1 \in Int /\ lo \in Int
        BY <2>0, <2>1, <2>2
      <4>2. (1 .. lo) \in SUBSET A
        BY <3>1
      <4> HIDE DEF lo, A
      <4>3. Cardinality(1 .. lo) = lo - 1 + 1
        BY <4>1, FS_Interval
      <4> QED
        BY <4>1, <4>2, <4>3
    <3> HIDE DEF A
    <3>4. Cardinality(A) \in Nat /\ lo <= Cardinality(A)
      BY <3>2, <3>3, FS_Subset, FS_CardinalityType
    <3>5. 2 * Cardinality(A) >= n
      BY <2>0, <2>1, <2>2, <3>4
    <3> QED
      BY <3>5 DEF A
  <2>4. ASSUME n >= 4, 4 * Iqr(v) # med
        PROVE  \E T \in SUBSET (1 .. n) :
                 /\ 2 * Cardinality(T) >= n
                 /\ \A j, k \in T : 4 * (v[j] - v[k]) < med
    <3> DEFINE p == n \div 4 + 1
               q == (3 * n) \div 4 + 1
               T == p .. q
    <3>1. p \in 1 .. n /\ q \in 1 .. n /\ p <= q /\ 2 * (q - p + 1) >= n /\ T \in SUBSET (1 .. n)
      <4>1. n \in Nat /\ n >= 4
        BY <2>0, <2>4
      <4> HIDE DEF n
      <4> QED
        BY ONLY <4>1
    <3>2. 2 * Cardinality(T) >= n
      <4>1. p \in Int /\ q \in Int /\ n \in Nat
        BY <2>0, <3>1
      <4>2. Cardinality(T) = q - p + 1
        BY <3>1, <4>1, FS_Interval
      <4> QED
        BY <3>1, <4>2
    <3>3. 4 * (v[q] - v[p]) < med
      <4>1. Iqr(v) = v[q] - v[p]
        <5>1. ~(n < 4)
          BY <2>0, <2>4
        <5> QED
          BY <5>1 DEF Iqr
      <4>2. med >= 1
        BY <2>1, <2>2
      <4>3. 4 * Iqr(v) <= IF med > 1 THEN med ELSE 1
        BY <1>1 DEF Stable
      <4>4. (IF med > 1 THEN med ELSE 1) = med
        <5> HIDE DEF med
        <5> QED
          BY <2>1, <4>2
      <4>5. v[q] \in Nat /\ v[p] \in Nat /\ 4 * Iqr(v) # med /\ med \in Nat
        BY <2>0, <2>1, <2>4, <3>1
      <4> HIDE DEF med, p, q
      <4> QED
        BY <4>1, <4>3, <4>4, <4>5
    <3>4. ASSUME NEW j \in T, NEW k \in T
          PROVE  4 * (v[j] - v[k]) < med
      <4>1. j \in 1 .. n /\ k \in 1 .. n /\ j <= q /\ p <= k
        BY <2>0, <3>1
      <4> HIDE DEF p, q, n
      <4>2. v[j] <= v[q] /\ v[p] <= v[k]
        BY <1>1, <3>1, <4>1 DEF n
      <4>3. v[j] \in Nat /\ v[q] \in Nat /\ v[p] \in Nat /\ v[k] \in Nat
        BY <2>0, <3>1, <4>1
      <4> DEFINE a == v[j]
                 b == v[q]
                 c == v[p]
                 d == v[k]
      <4>4. a \in Nat /\ b \in Nat /\ c \in Nat /\ d \in Nat /\ a <= b /\ c <= d
            /\ 4 * (b - c) < med /\ med \in Nat
        BY <2>1, <3>3, <4>2, <4>3
      <4> HIDE DEF a, b, c, d, med
      <4>5. 4 * (a - d) < med
        BY ONLY <4>4
      <4> QED
        BY <4>5 DEF a, d
    <3> HIDE DEF T, n, med
    <3> QED
      BY <3>1, <3>2, <3>4
  <2> QED
    BY <2>3, <2>4
<1>2. IInv => PassIsWitnessed
  <2> SUFFICES ASSUME IInv, NEW i \in DOMAIN tailResults, tailResults[i].passes,
                      Len(tailResults[i].p99s) > 0
               PROVE  LET r == tailResults[i]
                          n == Len(r.p99s)
                      IN  /\ 2 * Cardinality({j \in 1 .. n : r.p99s[j] < MicroSec}) >= n
                          /\ n >= 4 /\ 4 * r.iqr # r.med =>
                               \E T \in SUBSET (1 .. n) :
                                 /\ 2 * Cardinality(T) >= n
                                 /\ \A j, k \in T : 4 * (r.p99s[j] - r.p99s[k]) < r.med
    BY DEF PassIsWitnessed
  <2> DEFINE r == tailResults[i]
             v == r.p99s
             n == Len(v)
  <2>0. tailResults \in Seq(RateSet)
    BY DEF IInv, TypeInv
  <2>1. i \in 1 .. Len(tailResults)
    BY <2>0, LenProperties
  <2>2. r \in RateSet /\ SoundRate(r)
    BY <2>0, <2>1, ElementOfSeq DEF IInv, TailInv
  <2>3. v \in Seq(P99s) /\ r.med = Median(v) /\ r.iqr = Iqr(v)
        /\ Median(v) < MicroSec /\ Stable(Median(v), Iqr(v))
        /\ \A j, k \in 1 .. Len(v) : j <= k => v[j] <= v[k]
    BY <2>2 DEF SoundRate, RateSet
  <2>4. v # <<>>
    BY <2>3, EmptySeq
  <2> HIDE DEF r, v, n
  <2>5. /\ 2 * Cardinality({j \in 1 .. n : v[j] < MicroSec}) >= n
        /\ n >= 4 /\ 4 * Iqr(v) # Median(v) =>
             \E T \in SUBSET (1 .. n) :
               /\ 2 * Cardinality(T) >= n
               /\ \A j, k \in T : 4 * (v[j] - v[k]) < Median(v)
    BY <1>1, <2>3, <2>4 DEF n
  <2> QED
    BY <2>3, <2>5 DEF r, v, n
<1> QED
  BY <1>2, Invariance, PTL
=============================================================================
