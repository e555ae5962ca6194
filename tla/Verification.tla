---------------------------- MODULE Verification ----------------------------
(***************************************************************************)
(* The programs that drive the trials, in processes of their own.          *)
(* run_verification.sh runs Test T (tail_bench), Test D (persist_verify)   *)
(* or T and then D, as TEST says; both read the same CADENCE_TRIALS.  With *)
(* `set -e` the script ends at the first program that fails.               *)
(* persist_bench is started by hand.                                       *)
(***************************************************************************)
EXTENDS TailBench, PersistBench

CONSTANT Knobs   \* triples <<TEST or "bench", CADENCE_TRIALS, CADENCE_RATES>>

ASSUME KnobsAssumption ==
  \A k \in Knobs : k[1] \in {"tail", "disk", "both", "bench"} /\ k[2] \in Nat
                /\ k[3] \in Seq(Nat) /\ Len(k[3]) > 0

VARIABLES
  test,   \* TEST, or "bench" for persist_bench
  stage   \* the program that is running, or "done" or "aborted"

vars == <<test, stage, trials, tailVars, diskVars>>

Init ==
  /\ \E k \in Knobs : test = k[1] /\ trials = k[2] /\ rates = k[3]
  /\ stage = IF test = "both" THEN "tail" ELSE test
  /\ TailInit /\ DiskInit
  /\ test = "bench" => msgs > 0   \* MSG_COUNT is a constant

RunTail == stage = "tail" /\ TailNext /\ UNCHANGED <<test, stage, trials, diskVars>>

NoErrExit_AfterTail == IF test = "both" THEN "disk" ELSE "done"
AfterTail ==
  IF tailpc = "panicked" THEN "aborted" ELSE IF test = "both" THEN "disk" ELSE "done"

(* The results of tail_bench are of no use to Test D.                      *)
TailExits ==
  /\ stage = "tail" /\ tailpc # "running"
  /\ stage' = AfterTail
  /\ p99s' = <<>> /\ tailResults' = <<>>
  /\ UNCHANGED <<test, trials, rates, tailpc, diskVars>>

RunDisk == stage = "disk" /\ DiskNext /\ UNCHANGED <<test, stage, trials, tailVars>>
RunBench == stage = "bench" /\ BenchNext /\ UNCHANGED <<test, stage, trials, tailVars>>

DiskExits ==
  /\ stage \in {"disk", "bench"} /\ pc \in {"exported", "panicked"}
  /\ stage' = IF pc = "panicked" THEN "aborted" ELSE "done"
  /\ UNCHANGED <<test, trials, tailVars, diskVars>>

Next == RunTail \/ TailExits \/ RunDisk \/ RunBench \/ DiskExits

Spec == Init /\ [][Next]_vars

-----------------------------------------------------------------------------
(* Both binaries report a middle value of their trials, in whatever order  *)
(* these came: no more than half of the trials are better, no more than    *)
(* half are worse, and it lies between two of them, also where the integer *)
(* median of tail_bench rounds down.                                       *)
MedianIsMiddle ==
  /\ \A i \in DOMAIN tailResults : IsMiddle(2 * tailResults[i].med, tailResults[i].p99s)
  /\ IsMiddle(TwiceMedianF64(mb), mb)

(* A rate that run_rate marks PASS after some trials is one at which at    *)
(* least half of them had a p99 below the bound and, from four trials on,  *)
(* at least half of them lie within a spread under a quarter of the median *)
(* of each other.  Left to the next property: no trials, and an IQR of     *)
(* exactly a quarter.                                                      *)
PassIsWitnessed ==
  \A i \in DOMAIN tailResults :
    LET r == tailResults[i]  n == Len(r.p99s)
        Half(T) == 2 * Cardinality(T) >= n
    IN  r.passes /\ n > 0 =>
          /\ Half({j \in 1 .. n : r.p99s[j] < MicroSec})
          /\ n >= 4 /\ 4 * r.iqr # r.med =>
               \E T \in SUBSET (1 .. n) :
                 /\ Half(T)
                 /\ \A j, k \in T : 4 * (r.p99s[j] - r.p99s[k]) < r.med

(* "spread under 25%" (tail_bench.rs), "IQR >= 25%: Partial" (the plan):   *)
(* a rate that run_rate marks PASS has an IQR below a quarter of its       *)
(* median.  The code does not keep this: it compares with <=, so an IQR of *)
(* exactly a quarter passes, and so does a rate that was never tried.      *)
PassSpreadUnderQuarter ==
  \A i \in DOMAIN tailResults :
    LET r == tailResults[i]
    IN  r.passes => 4 * r.iqr < r.med

(* ratio_vs_std always compares a writer with the std writer at the same   *)
(* batch size and under the same durability contract, also after the       *)
(* second passes over the later groups.                                    *)
RatioAgainstOwnBaseline ==
  \A i \in DOMAIN results :
    results[i].ratio # None =>
      \E j \in DOMAIN results :
        /\ results[j].writer = "std-BufWriter"
        /\ results[j].batch = results[i].batch /\ results[j].dur = results[i].dur
        /\ results[i].ratio = <<results[i].med, results[j].med>>

(* Under dur and at a large batch size, the WriteFixed median is at least  *)
(* 1.5 times a std median that is not zero.                                *)
Gain(dur) ==
  \E i, j \in DOMAIN results :
    /\ results[i].writer = "io_uring-WriteFixed" /\ results[j].writer = "std-BufWriter"
    /\ results[i].batch = results[j].batch /\ results[i].dur = dur /\ results[j].dur = dur
    /\ results[i].batch >= LargeBatch
    /\ results[j].med > 0 /\ 2 * results[i].med >= 3 * results[j].med

(* The first and the last row of the plan's table for Test D: the verdict  *)
(* line comes after every cell of the matrix has been measured, says PASS  *)
(* if there is a gain in Mode B, and does not if there is none in either   *)
(* mode.  The row between them is left open: to the plan a gain in Mode A  *)
(* alone is no proof of claim D, to the code it is a PASS.                 *)
VerdictFollowsMatrix ==
  proven # "none" =>
    /\ Len(results) = CellCount
    /\ Gain("sync-per-batch") => proven = "true"
    /\ ~Gain("sync-per-batch") /\ ~Gain("sync-end") => proven = "false"

(* When the clock of a trial stops, every record it counts is durable in   *)
(* the log, in both durability modes and although the removal of the old   *)
(* log may have failed; the trial counts the records asked for and less    *)
(* than one batch more.  In Mode B no batch starts before the last one is  *)
(* durable.                                                                *)
Counted(batch) == durable = log /\ total <= log /\ msgs <= total /\ total < msgs + batch

TimedIsDurable ==
  /\ stage = "disk" /\ pc = "build" /\ mb # <<>> => Counted(BatchAt(Cell))
  /\ stage = "bench" /\ pc = "build" /\ results # <<>> => Counted(results[Cell].batch)
  /\ stage = "disk" /\ pc = "write" /\ DurAt(Cell) = "sync-per-batch" => durable = log

(* "Done. Commit the *_results.json files": the script gets there only     *)
(* when every test it was asked for has run to its end and exported its    *)
(* results, and Test D does not start after a Test T that failed.          *)
DoneMeansExported ==
  /\ stage \in {"disk", "done"} /\ test \in {"tail", "both"} => tailpc = "exported"
  /\ stage = "done" /\ test \in {"disk", "both"} =>
       pc = "exported" /\ proven # "none" /\ Len(results) = CellCount
=============================================================================
