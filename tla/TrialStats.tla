----------------------------- MODULE TrialStats -----------------------------
(***************************************************************************)
(* The statistics over trials of the two verification binaries:            *)
(* median and iqr of crates/bench/src/tail_bench.rs, in integer            *)
(* nanoseconds, and median_f64 of crates/bench/src/persist_verify.rs.      *)
(* Slices are indexed from 0 in the code, sequences from 1 here.           *)
(***************************************************************************)
EXTENDS Integers, Sequences, FiniteSets

VARIABLE trials   \* CADENCE_TRIALS, read by both binaries

(* sort_unstable, and sort_by(partial_cmp) on numbers that are not NaN:    *)
(* an element goes behind the smaller ones and, of the equal ones, those   *)
(* that come before it.                                                    *)
Place(s, i) == Cardinality({j \in DOMAIN s : s[j] < s[i] \/ (s[j] = s[i] /\ j <= i)})

Unsorted_Sorted(s) == s
Sorted(s) == [k \in 1 .. Len(s) |-> s[CHOOSE i \in DOMAIN s : Place(s, i) = k]]

(* median of a sorted slice of u64: the even case rounds down.             *)
Median(sorted) ==
  LET n == Len(sorted) IN
  IF n = 0 THEN 0
  ELSE IF n % 2 = 1 THEN sorted[n \div 2 + 1]
  ELSE (sorted[n \div 2] + sorted[n \div 2 + 1]) \div 2

(* iqr of a sorted slice by nearest rank; saturating_sub never saturates.  *)
Iqr(sorted) ==
  LET n == Len(sorted) IN
  IF n < 4 THEN 0 ELSE sorted[(3 * n) \div 4 + 1] - sorted[n \div 4 + 1]

(* Twice the value of median_f64, which sorts a copy first: doubling keeps *)
(* the midpoint of the even case exact.                                    *)
TwiceMedianF64(xs) ==
  LET v == Sorted(xs) n == Len(v) IN
  IF n = 0 THEN 0
  ELSE IF n % 2 = 1 THEN 2 * v[n \div 2 + 1]
  ELSE v[n \div 2] + v[n \div 2 + 1]

(***************************************************************************)
(* Reference definitions, on the values in the order they were measured.   *)
(***************************************************************************)
CountOf(s, P(_)) == Cardinality({i \in DOMAIN s : P(s[i])})

(* No more than half of the values lie strictly on either side of m, and m *)
(* lies between two of them.  The argument twice is 2 * m.                 *)
IsMiddle(twice, s) ==
  s # <<>> =>
    /\ 2 * CountOf(s, LAMBDA x : 2 * x < twice) <= Len(s)
    /\ 2 * CountOf(s, LAMBDA x : 2 * x > twice) <= Len(s)
    /\ \E i, j \in DOMAIN s : 2 * s[i] <= twice /\ twice <= 2 * s[j]
=============================================================================
