----------------------------- MODULE TailBench ------------------------------
(***************************************************************************)
(* Test T, crates/bench/src/tail_bench.rs: run_rate repeats a trial,       *)
(* collects one p99 per trial and decides whether the rate passes; main    *)
(* runs every rate with a busy-spin consumer and again with a yielding     *)
(* one.  A trial (SpscTrial has its threads) is one step here that may     *)
(* report any p99 of P99s.  The histogram over all trials is left out.     *)
(***************************************************************************)
EXTENDS TrialStats

CONSTANTS
  P99s,       \* the p99 latencies a trial can report
  MicroSec    \* the bound of the claim: 1_000 ns, scaled

ASSUME TailAssumption == P99s \subseteq Nat \ {0} /\ MicroSec \in Nat

VARIABLES
  rates,        \* CADENCE_RATES
  tailpc,       \* main: "running", "exported" or "panicked"
  p99s,         \* run_rate: the p99 of every trial so far
  tailResults   \* main: the results so far

tailVars == <<rates, tailpc, p99s, tailResults>>

TailInit == tailpc = "running" /\ p99s = <<>> /\ tailResults = <<>>

TailRunning == tailpc = "running" /\ Len(tailResults) < 2 * Len(rates)
Rate == rates[(Len(tailResults) % Len(rates)) + 1]
WaitLabel == IF Len(tailResults) < Len(rates) THEN "busy-spin" ELSE "yield"

(* iqr <= 0.25 * max(median, 1), as integers.                              *)
SpreadOfBound_Stable(med, iqr) == 4 * iqr <= MicroSec
Stable(med, iqr) == 4 * iqr <= (IF med > 1 THEN med ELSE 1)

Trial(p) ==
  /\ TailRunning /\ Len(p99s) < trials
  /\ Rate # 0
  /\ p99s' = Append(p99s, p)
  /\ UNCHANGED <<rates, tailpc, tailResults>>

(* A trial at rate 0: 1_000_000_000 / rate_hz divides by zero.             *)
TailPanic ==
  /\ TailRunning /\ Len(p99s) < trials
  /\ Rate = 0
  /\ tailpc' = "panicked"
  /\ UNCHANGED <<rates, p99s, tailResults>>

(* What run_rate returns: the trials in sorted order, median, IQR, verdict.*)
RateResult(sorted) ==
  LET med == Median(sorted) iqr == Iqr(sorted) IN
  [wait |-> WaitLabel, p99s |-> sorted, med |-> med, iqr |-> iqr,
   passes |-> med < MicroSec /\ Stable(med, iqr)]

FinishRate ==
  /\ TailRunning /\ Len(p99s) = trials
  /\ tailResults' = Append(tailResults, RateResult(Sorted(p99s)))
  /\ p99s' = <<>>
  /\ UNCHANGED <<rates, tailpc>>

(* Writing the results may fail, and is unwrapped.                         *)
TailExport ==
  /\ tailpc = "running" /\ ~TailRunning
  /\ tailpc' \in {"exported", "panicked"}
  /\ UNCHANGED <<rates, p99s, tailResults>>

TailNext == FinishRate \/ TailPanic \/ TailExport \/ \E p \in P99s : Trial(p)
=============================================================================
