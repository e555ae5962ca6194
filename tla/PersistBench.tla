---------------------------- MODULE PersistBench ----------------------------
(***************************************************************************)
(* Phase 4b, crates/bench/src/persist_bench.rs: the std writer and then    *)
(* UringWriter, each timed once at every batch size, with one sync at the  *)
(* end (bench_writer is the loop of time_writer in Mode A).  No medians,   *)
(* no ratios and no verdict.                                               *)
(***************************************************************************)
EXTENDS PersistVerify

BenchKinds == SubSeq(Kinds, 1, IF Len(Kinds) > 1 THEN 2 ELSE 1)   \* std only, off Linux
BenchCount == Len(BenchKinds) * Len(Batches)
BenchKind == BenchKinds[Cell \div Len(Batches) + 1]
BenchBatch == Batches[(Cell % Len(Batches)) + 1]

BenchOpen ==
  /\ pc = "build" /\ Cell < BenchCount
  /\ OpenLog(BenchKind)
  /\ UNCHANGED <<msgs, mb, outcome>>

BenchWrite ==
  /\ AppendBatch(BenchBatch)
  /\ UNCHANGED <<msgs, pc, durable, mb, outcome>>

BenchStop ==
  /\ pc = "write" /\ total >= msgs
  /\ LastSync
  /\ \E s \in Throughputs :
       results' = Append(results, Result(BenchKind, BenchBatch, "sync-end", s))
  /\ pc' = "build"
  /\ UNCHANGED <<msgs, log, timing, stdMed, proven>>

BenchExport ==
  /\ pc = "build" /\ Cell = BenchCount
  /\ RemoveLog
  /\ pc' \in {"exported", "panicked"}   \* writing the results may fail
  /\ UNCHANGED <<msgs, timing, outcome>>

(* create, write_batch or sync returned Err and was unwrapped.             *)
BenchPanic ==
  /\ pc = "write" \/ (pc = "build" /\ Cell < BenchCount)
  /\ pc' = "panicked"
  /\ UNCHANGED <<msgs, log, durable, timing, outcome>>

BenchNext == BenchOpen \/ BenchWrite \/ BenchStop \/ BenchExport \/ BenchPanic
=============================================================================
