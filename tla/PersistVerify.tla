--------------------------- MODULE PersistVerify ----------------------------
(***************************************************************************)
(* Test D, crates/bench/src/persist_verify.rs: for both durability modes,  *)
(* every batch size and every writer, run_cell times fresh writers over    *)
(* the same log file, and a second pass over the results compares each     *)
(* with the std writer.                                                    *)
(*                                                                         *)
(* The writer is external here (StdWriter and UringWriter are its models): *)
(* write_batch appends the batch and returns its length, sync makes the    *)
(* file durable, and either may return Err, which the driver unwraps.  The *)
(* clock is external too: a trial that wrote something may report any      *)
(* throughput of Speeds.                                                   *)
(***************************************************************************)
EXTENDS TrialStats

CONSTANTS
  Batches,     \* BATCH_SIZES
  LargeBatch,  \* 64
  Kinds,       \* writer_kinds()
  MsgCounts,   \* values of CADENCE_MSGS
  Speeds       \* throughputs a trial can report

Durabilities == <<"sync-end", "sync-per-batch">>

Distinct(s) == \A i, j \in DOMAIN s : s[i] = s[j] => i = j

ASSUME BatchesAssumption == 
  Batches \in Seq(Nat \ {0}) /\ Len(Batches) > 0 /\ Distinct(Batches) /\ LargeBatch \in Nat
ASSUME KindsAssumption ==
  /\ Kinds \in Seq(STRING) /\ Distinct(Kinds)
  /\ Len(Kinds) > 0 /\ Kinds[1] = "std-BufWriter"
ASSUME SpeedsAssumption == Speeds \subseteq Nat \ {0} /\ MsgCounts \subseteq Nat

VARIABLES
  msgs,        \* CADENCE_MSGS
  pc,          \* where the driver is
  log,         \* records in the file at LOG_PATH
  durable,     \* how many of them a crash cannot take
  total,       \* time_writer: records the writer acknowledged
  mb,          \* run_cell: the throughput of every trial so far
  stdMed,      \* main: std_med of this (batch, durability) group, 0 for None
  results,     \* main: the results so far, in order
  proven       \* main: the verdict line, "none" before it is printed

diskVars == <<msgs, pc, log, durable, total, mb, stdMed, results, proven>>
timing == <<total, mb>>
outcome == <<stdMed, results, proven>>

None == <<>>

DiskInit ==
  /\ msgs \in MsgCounts
  /\ pc = "build" /\ log = 0 /\ durable = 0 /\ total = 0 /\ mb = <<>>
  /\ stdMed = 0 /\ results = <<>> /\ proven = "none"

(* The three nested loops of main visit the cells in this order.           *)
GroupSize == Len(Kinds)
CellCount == Len(Durabilities) * Len(Batches) * GroupSize
KindAt(k) == Kinds[(k % GroupSize) + 1]
BatchAt(k) == Batches[((k \div GroupSize) % Len(Batches)) + 1]
DurAt(k) == Durabilities[(k \div (GroupSize * Len(Batches))) + 1]

Cell == Len(results)

(* A fresh writer: remove the log, ignoring failure, and open it.  The std *)
(* writer appends to what is left; for an io_uring writer it is truncated. *)
OpenLog(kind) ==
  /\ \E removed \in BOOLEAN :
       LET fresh == removed \/ kind # "std-BufWriter" IN
       /\ log' = IF fresh THEN 0 ELSE log
       /\ durable' = IF fresh THEN 0 ELSE durable
  /\ total' = 0
  /\ pc' = "write"

BuildWriter ==
  /\ pc = "build" /\ Cell < CellCount /\ Len(mb) < trials
  /\ OpenLog(KindAt(Cell))
  /\ UNCHANGED <<msgs, mb, outcome>>

(* One round of time_writer's loop up to the return of write_batch.        *)
AppendBatch(batch) ==
  /\ pc = "write" /\ total < msgs
  /\ log' = log + batch
  /\ total' = total + batch

WriteBatch ==
  /\ AppendBatch(BatchAt(Cell))
  /\ pc' = IF DurAt(Cell) = "sync-per-batch" THEN "sync" ELSE "write"
  /\ UNCHANGED <<msgs, durable, mb, outcome>>

SyncBatch ==
  /\ pc = "sync"
  /\ durable' = log
  /\ pc' = "write"
  /\ UNCHANGED <<msgs, log, timing, outcome>>

(* "durable end-state for both modes".                                     *)
Missing_LastSync == durable' = durable
LastSync == durable' = log

Throughputs == IF total = 0 THEN {0} ELSE Speeds

(* The last sync, then the clock is read and the trial's result kept.      *)
StopClock ==
  /\ pc = "write" /\ total >= msgs
  /\ LastSync
  /\ \E s \in Throughputs : mb' = Append(mb, s)
  /\ pc' = "build"
  /\ UNCHANGED <<msgs, log, total, outcome>>

(* A result before the second pass.                                        *)
Result(kind, batch, dur, med) ==
  [writer |-> kind, batch |-> batch, dur |-> dur, med |-> med, ratio |-> None, passes |-> "none"]

(* "let _ = std::fs::remove_file(LOG_PATH)"                                *)
RemoveLog ==
  \E removed \in BOOLEAN :
    /\ log' = IF removed THEN 0 ELSE log
    /\ durable' = IF removed THEN 0 ELSE durable

(* run_cell returns: remove the log, push the result; the std median is    *)
(* kept for the group, and forgotten at the start of the next one.         *)
FinishCell ==
  /\ pc = "build" /\ Cell < CellCount /\ Len(mb) = trials
  /\ RemoveLog
  /\ LET med == TwiceMedianF64(mb) IN
     /\ results' = Append(results, Result(KindAt(Cell), BatchAt(Cell), DurAt(Cell), med))
     /\ stdMed' = IF KindAt(Cell) = "std-BufWriter" THEN med ELSE stdMed
  /\ mb' = <<>> /\ total' = 0
  /\ pc' = IF (Cell + 1) % GroupSize = 0 THEN "fill" ELSE "build"
  /\ UNCHANGED <<msgs, proven>>

(* The second pass over the group that has just ended.  A ratio is kept as *)
(* <<median, base>>; ratio >= 1.5 is 2 * median >= 3 * base.               *)
AtLeastOneAndAHalf(r) == 2 * r[1] >= 3 * r[2]

AnyBatch_Passes(r, ratio) == AtLeastOneAndAHalf(ratio)
Passes(r, ratio) == AtLeastOneAndAHalf(ratio) /\ r.batch >= LargeBatch

Filled(r, base) ==
  LET ratio == <<r.med, base>> IN
  [r EXCEPT !.ratio = ratio,
            !.passes = IF r.writer # "io_uring-WriteFixed" THEN @
                       ELSE IF Passes(r, ratio) THEN "true" ELSE "false"]

BatchOnly_InGroup(r, last) == r.batch = last.batch
InGroup(r, last) == r.batch = last.batch /\ r.dur = last.dur

FillRatios ==
  /\ pc = "fill"
  /\ LET last == results[Cell] IN
     results' = IF stdMed = 0 THEN results
                ELSE [i \in DOMAIN results |->
                        IF InGroup(results[i], last) THEN Filled(results[i], stdMed)
                                                     ELSE results[i]]
  /\ stdMed' = 0
  /\ pc' = IF Cell = CellCount THEN "verdict" ELSE "build"
  /\ UNCHANGED <<msgs, log, durable, timing, proven>>

(* The verdict line, and the export of the results, which may fail.        *)
Verdict ==
  /\ pc = "verdict"
  /\ proven' = IF \E i \in DOMAIN results : results[i].passes = "true" THEN "true" ELSE "false"
  /\ pc' \in {"exported", "panicked"}
  /\ UNCHANGED <<msgs, log, durable, timing, stdMed, results>>

(* create, write_batch or sync returned Err and was unwrapped: the process *)
(* ends, nothing is exported and the log is left behind.                   *)
Panic ==
  /\ \/ pc \in {"write", "sync"}
     \/ pc = "build" /\ Cell < CellCount /\ Len(mb) < trials
  /\ pc' = "panicked"
  /\ UNCHANGED <<msgs, log, durable, timing, outcome>>

DiskNext ==
  \/ BuildWriter \/ WriteBatch \/ SyncBatch \/ StopClock
  \/ FinishCell \/ FillRatios \/ Verdict \/ Panic
=============================================================================
