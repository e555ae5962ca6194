# Cadence: a TLA+ verification project

Cadence is an in-process publish/subscribe bus with a lock-free SPSC ring
buffer, a fixed-size message, two families of log writers (std I/O and
`io_uring`) and a set of benchmarks. This directory models its core logic in
TLA+, checks the models with TLC on small instances, and proves with TLAPS, for
every value of the constants, every safety property that the passing runs
check: invariants, action properties and the refinements of the three abstract
specifications. Liveness is checked by TLC only.

Paths below are relative to `src/`.

## 1. Inventory

| Component | Source | State | Operations | Interaction |
|---|---|---|---|---|
| SPSC ring | `crates/bus/src/spsc.rs` | `head`, `tail` (atomics), slots | `spsc`, `try_send`, `send`, `try_recv`, `recv`, drop | one producer thread, one consumer thread, shared memory only |
| Message | `crates/message-core/src/lib.rs` | 64-byte value | `new`, `topic_str`, `payload_bytes`, `to_bytes`, `from_bytes` | built by publishers, routed by the bus, written by the writers |
| Filter | `crates/bus/src/lib.rs` | `Exact` or `Prefix` | `parse`, `matches` | used by `Bus::offer` |
| Bus | `crates/bus/src/lib.rs` | mutex-protected map of subscriptions, `drop_count` | `subscribe`, `unsubscribe`, `offer`, `publish`, `drop_count` | any number of publishers; crossbeam channels to the receivers |
| StdWriter | `crates/persist/src/lib.rs` | `BufWriter`, file | `create`, `write_batch`, `sync`, drop | write(2), fdatasync |
| UringWriter, UringFixedWriter | `crates/persist/src/lib.rs` | ring, `offset`, buffer | `create`, `write_batch`, `sync`, drop | kernel queues, completion in any order |
| Benchmark trials | `crates/bench/src/main.rs`, `tail_bench.rs` | histogram, `done` flag | `spsc_latency`, `spsc_throughput`, `spsc_trial`, crossbeam variants, reports | three threads per trial |
| Test T driver | `crates/bench/src/tail_bench.rs` | p99 per trial, results | `run_rate`, `median`, `iqr` | runs trials, decides PASS |
| Test D driver | `crates/bench/src/persist_verify.rs` | log file, throughput per trial, results | `build_writer`, `time_writer`, `run_cell`, second pass, verdict | drives all three writers |
| Phase 4b benchmark | `crates/bench/src/persist_bench.rs` | log file, results | `bench_writer`, loops of `main` | drives StdWriter and UringWriter |
| run script | `run_verification.sh` | `TEST`, knobs | `run_tail`, `run_disk` | runs both tests, in two processes; ends at the first failure |
| CLI | `crates/cli/src/main.rs` | none | demo | Bus |

What is hard about them, and what makes each correct:

* **Ring.** Cursors are read stale and wrap at the word size; the slots are
  plain memory, so correctness rests on two release/acquire pairs. Correct
  means: no data race on a slot, every value sent leaves the ring exactly once
  and in order (received, or destroyed by `Inner::drop`), the answers "full"
  and "empty" are honest, blocking calls return.
* **Message and filter.** Byte-level truncation against UTF-8, NUL padding,
  duplicated field offsets. Correct means: records round-trip, accessors return
  what was passed when it fits, routing agrees with the pattern's meaning.
* **Bus.** `offer` is not atomic: the stamp comes before the mutex, and
  receivers run and die between its `try_send`s. Correct means: truthful
  counts, nobody skipped silently, one order for all subscribers that respects
  real time, nothing after `unsubscribe`, and no publisher ever waits for a
  subscriber.
* **Writers.** Partial failure, stale queue entries, buffers the kernel still
  reads, power loss. Correct means: what was acknowledged is in the log, what
  was synced survives, records are never overwritten and stay on the 64-byte
  grid.
* **Benchmark trials.** A flag raised by one thread races the last poll of
  another; over the bus, offers are dropped as well. Correct means: a trial ends
  and what it reports accounts for what it sent.
* **Verification drivers.** Rank arithmetic at small and even trial counts, a
  second pass over results of several groups, knobs at zero, failing writers, one
  test failing in front of another. Correct means: the verdicts follow from the
  trials, like is compared with like, only durable work is timed, and the script
  does not claim results that were not written.

`PROJECT.json` lists every hazard at its line with the properties that cover it.

## 2. Modules

| Module | Role |
|---|---|
| `Spsc` | the ring, one action per memory access, release/acquire memory model |
| `BoundedFifo` | what the ring promises (abstract specification) |
| `MCSpsc` | TLC instance; also evaluates that `c & mask` is the remainder |
| `ModularArithmetic` | lemmas on `%` and `\div` |
| `SpscProofs` | the theorems about `Spsc` and `SpscTrial` |
| `SpscTrial` | composition: the benchmark threads around the ring |
| `SharedHandle` | the ring with several threads on one handle |
| `Message`, `Filter` | pure operators |
| `MessagePath`, `MCMessagePath` | the life of one message through both |
| `MessagePathProofs` | the theorems about `MessagePath`, `Message` and `Filter` |
| `Bus`, `MCBus` | the bus with concurrent publishers and receivers |
| `OrderedBroadcast` | what the bus promises about order (abstract specification) |
| `BusTrial`, `MCBusTrial` | composition: the benchmark threads around the bus |
| `BusProofs` | the theorems about `Bus` and `BusTrial` |
| `DurableLog` | what a `MessageWriter` promises (abstract specification) |
| `DurableLogProofs` | the theorem about `DurableLog` |
| `UringWriter` | both io_uring writers and the kernel |
| `StdWriter` | the std writer over `BufWriter` |
| `UringWriterProofs`, `StdWriterProofs` | the theorems about the writers |
| `TrialStats` | medians and IQR, with reference definitions |
| `TailBench`, `PersistVerify` | the drivers of Test T and Test D |
| `PersistBench` | the Phase 4b benchmark of the writers |
| `Verification`, `MCVerification` | composition: `run_verification.sh`, and `persist_bench` by itself |
| `VerificationProofs` | the theorems about the drivers and their statistics |

### Spsc

An atomic cursor is the log of all stores made to it (`headLog`, `tailLog`).
The owner of a cursor reads its own last store; the other thread may read any
entry not older than the newest one it has seen (`pseen`, `cseen`), so a load
may be stale for any length of time. Each thread counts its slot accesses; a
Release store carries that count, an Acquire load learns it (`pknows`,
`cknows`), and each slot remembers the counts of its last write and last read.
An access is ordered when the other thread's last conflicting access has been
learnt. A racing or uninitialised read returns anything.

| Code | Action |
|---|---|
| `try_send`: two loads and the full check | `SendLoad(k)` |
| slot write | `SendWrite` |
| `head.store(.., Release)`, `Ok` | `SendPublish` |
| `try_recv`: two loads and the empty check | `RecvLoad(k)` |
| slot read | `RecvRead` |
| `tail.store(.., Release)`, `Some` | `RecvPublish` |
| `send` / `recv` retry | `AfterRefusal` / `AfterEmpty` |
| dropping a handle; the second one runs `Inner::drop` | `DropProducer`, `DropConsumer` |

The Relaxed load of a thread's own cursor and the Acquire load that follows are
one step: the first reads a location only this thread stores. usize arithmetic
is modulo `Word`; the proofs need only that `Word` is a multiple of `Cap` and at
least twice as large, which every power-of-two capacity a usize can hold
satisfies.

### SpscTrial

`spsc_latency`, `spsc_throughput` and `spsc_trial` run the same protocol: the
publisher sends `MaxSends` messages and exits, main joins it and raises `done`,
the subscriber polls and looks at `done` only after an empty poll. The module
conjoins the driver's state with the actions of `Spsc`, so the stale `None` of
`try_recv` is included. Latency values, pacing and pinning are abstracted.

### SharedHandle

`Producer` and `Consumer` are not `Clone`, but they are `Sync` and their methods
take `&self`, so a program may call `try_send` from two threads on one
`&Producer`. The module has any number of threads on each handle and one step
per memory access. It uses a single order of accesses for all threads, which is
a subset of what release/acquire allows: a counterexample found there is one of
the code. With one thread on each handle the property holds.

### Message, Filter, MessagePath

Strings are sequences of bytes; a `&str` is one that is valid UTF-8
(`ValidUtf8`: characters of one to four bytes, without overlong forms and
surrogates). Field widths are constants. `MessagePath` takes
one message through `new`, the stamp and the routing test of `offer`,
`to_bytes` and `from_bytes`. The little-endian conversions of the stamp are
recursive functions: what is left of the number above its low bytes (`Above`),
and the value of the top bytes of a string (`TopBytes`).

### Bus

One action each for `subscribe` and `unsubscribe` (a single update under the
mutex). `offer` is `OfferStamp` (time stamp and topic, before the mutex),
`OfferLock`, one `OfferVisit` per matching subscription in any order (the map is
a HashMap), and `OfferReturn`. `Recv` and `DropReceiver` are the receivers' own
steps and need no mutex. Non-matching subscriptions are skipped without a step.
The channels are external: bounded FIFOs that report Full or Disconnected.
`DropBus` is the drop of the last clone, which takes the map and its senders.
`QuietAfterUnsubscribe` is about these two steps as well as about all later
ones: whenever a subscription is not in the map after a step, its stream (what
was received and what is queued) is what it was before, so that neither takes a
message that is queued and no offer adds one.
Mutex poisoning is unreachable (nothing panics under the lock) and left out.

### BusTrial

`crossbeam_latency` and `crossbeam_throughput`: main subscribes and spawns the
subscriber, `Publisher` (a thread that main joins, or main itself) offers
`MaxOffers` messages through the steps of `Bus`, main raises `done`, the
subscriber looks at it after a receive that found nothing, and main puts the
result together. `drop_count` is a field of the result of `crossbeam_latency`;
that of `crossbeam_throughput` has none, and there `reported` is what the counter
of the bus holds. The 200 ms of `recv_timeout` may elapse whenever the channel is
empty, so both ways of polling are the same step.

### DurableLog

A log that only grows (`Write`), acknowledgements of what is in it, `Sync`,
write-back at any time, and power loss, which takes any of the records that are
not durable and what was not synced of what the caller is owed. `StdWriter` maps the log to
the whole records of its file, `UringWriter` to the records up to the first
hole.

### UringWriter

One module for both writers: `create` opens one of `Writers`, which selects the
operations of a chunk (one `Write` per record, or one `WriteFixed` of the packed
chunk), the life of the buffer, the length of a chunk (`RingDepth` or `CapMsgs`)
and the entries of the submission queue (`RingEntries` or `FixedEntries`, which
may be fewer than the messages of a chunk). `write_batch` is `BuildChunk`, `Submit`,
`Wait`, `DrainOk` or `DrainErr` per chunk, then `ReturnOk`. The kernel completes
operations in any order. What may go wrong is switched on per run: an operation
fails, an operation is short, `io_uring_enter` fails, it takes only the older
part of the queue and returns that number, which the code ignores
(`SubmitPart`), a signal ends the wait, `sync_data` fails, the caller goes on
with a writer that returned Err. After a failed `sync_data` the kernel may take
the pages it could not write for clean, so a later Ok is worth nothing until a
power loss has shown what is on disk; such an Ok counts as harm. Write-back runs
page by page in any order, and power may be lost at any time, also after the
writer was dropped. The history variable `harm`
records which of these happened (and reopening), so that each property says
exactly which of them it survives. Positions count records.

### StdWriter

The file is a sequence of half records so that a write may stop inside one.
`BufWriter` is external: it collects records, writes out in as many write(2)
calls as it takes, and keeps what a failed one did not write. `disk` is how much
of the file a `sync_data` has made sure of. Power may be lost at any time, also
with the writer closed: the file then ends anywhere behind `disk`, and any half
records behind `disk` may have become `Lost` (zeros), which is what write-back in
any order can leave. `syncs` remembers whether `sync_data` has returned Err, and
whether it has returned Ok after that.

### TrialStats, TailBench, PersistVerify, PersistBench, Verification

`TailBench`: `Trial(p)` is one trial of `run_rate` and `FinishRate` everything
after its loop; `TailPanic` is the division by a rate of zero. `PersistVerify`: `BuildWriter`, `WriteBatch`, `SyncBatch` and
`StopClock` are a trial, `FinishCell` the return of `run_cell`, `FillRatios` the
second pass, `Verdict` the verdict line and the export, `Panic` an unwrapped
Err. The position in the three nested loops is the number of results.
`PersistBench` reuses the opening, the loop and the last sync. `Verification`
runs Test T and Test D one after the other as `TEST` says, ends at the first
failure (`set -e`), and lets `persist_bench` run by itself. The clock
is external: a p99 or a throughput is any member of a small set, 0 for a trial
that wrote nothing. The throughput median is kept doubled, which makes the
midpoint of an even number of trials exact, and a ratio as a pair of medians;
rounding of floats is left out.

## 3. Runs

| Run | Shows | Bounds |
|---|---|---|
| `spsc` | no race, exactly once in order, honest answers, refines `BoundedFifo`, `IInv`; `send` returns and everything is delivered | 2 slots, word 4, 5 sends: the cursors pass the wrap while the ring is full, empty and in between |
| `spsc_trial` | trials end, the publisher is never stranded, the histogram is a gapless run short of at most `Cap` messages | 2 slots, 6 messages, 2 of warm-up |
| `spsc_trial_drops` | finding: the last messages can be destroyed unmeasured | same |
| `message_path` | round trip, accessors, routing | fields of 3, 2 and 2 bytes; all topics up to 4 bytes over NUL, `a`, `*` and the bytes of characters of two, three and four bytes, so that cuts between and inside characters of every width happen |
| `bus` | counts, service, order, unsubscribe and the last drop without loss of what is queued; offers return although nobody need receive | 2 threads, 2 subscriptions, capacity 2, 3 offers: a queue fills, drains and fills again during a fan-out |
| `bus_trial` | trials over the bus end and account for every offer | capacity 2, 6 offers, 2 of warm-up: drops in the middle and messages left at the end both occur |
| `shared_producer` | finding: two threads on one `&Producer` lose a value that was accepted | 2 senders, 1 receiver, 2 slots, 4 sends |
| `uring` | what survives which fault: acknowledged is logged, older acknowledgements are safe, buffers outlive operations, no panic, append-only, refines `DurableLog`; `write_batch` returns | both writers, chunks of 2, a queue of 2 entries and one of 1 for the fixed writer, batches of 1 and 3 (a short chunk alone, and a full one before a short one), 3 messages, 2 lives, every fault |
| `uring_interrupt` | finding: buffers are freed under operations in flight | 6 messages, interrupted waits only |
| `std` | refines `DurableLog`, records aligned | buffer of one and a half records, so that it overflows with and without a kept half; batches of 0, 1 and 2, 3 messages, 2 lives of the writer |
| `verification` | medians are middle values, a PASS of Test T is witnessed by half of the trials, ratios compare within a batch size and durability, the verdict of Test D follows the whole matrix, what is timed is durable, Done means exported | up to 5 trials of 4 latencies on both sides of the bound and exactly at a spread of a quarter; rates with a zero in front and behind; 2 modes, 2 batch sizes, 3 writers, 3 trials, 0 or 3 messages (the large batch overshoots), 2 speeds exactly 1.5 apart |
| `tail_spread` | finding: PASS at a spread of exactly a quarter | Test T alone, 1 to 5 trials |

`CHECK_DEADLOCK FALSE` is set everywhere because every system modelled here may
stop: handles are dropped, calls end, bounds are used up.

**Bounds.** `MaxSends`, `MaxSubs`, `MaxOffers`, `MaxMsgs`, `MaxOpens` bound
calls, in the guard of the call that uses them up. No run uses symmetry, because
most check liveness.

**Fairness.** A thread inside a call keeps running (WF on its steps). A load
that is repeated forever returns the newest store in the end (SF on the fresh
load: the language asks for visibility in finite time, and a polling loop
leaves the load between calls). In `spsc` the consumer's owner keeps receiving
while it holds the handle. In `bus` nothing is assumed of receivers; a mutex
that stays free is granted. In `uring` the kernel completes what it has taken.
In `spsc_trial` and `bus_trial` all threads run, the wait of `recv_timeout`
elapses, and the `done` flag becomes visible in the end (SF, because the load is
repeated and each poll in between leaves the place where it happens).

## 4. Findings

1. `spsc_trial_drops`: the subscriber of a trial may leave with messages in the
   ring; they are destroyed, while the trial reports 0 drops
   (`crates/bench/src/tail_bench.rs:200`). `MeasuredRun` shows the harm is
   confined to at most `Cap` messages at the end.
2. `uring_interrupt`: a signal during the wait lets the buffers go while the
   kernel still reads them (SAFETY comment at `crates/persist/src/lib.rs:125`),
   because neither the number submitted nor the number of results reaped is
   compared with the number pushed. Two other events lead to the same place: the
   results that a failed call leaves behind satisfy the wait of the next one, which
   returns `Ok` for records that are not written (line 148), and a submission that
   the kernel takes in part ends the chunk early (line 142).
3. `shared_producer`: `unsafe impl Sync for Inner` makes the handles `Sync`, so
   two threads may be inside `try_send` of one `Producer`; both write one slot
   and both get `Ok` (SAFETY comment at `crates/bus/src/spsc.rs:59`,
   "Ownership-enforced SPSC" at line 13).
4. `tail_spread`: `run_rate` marks a rate PASS when the IQR is exactly a quarter
   of the median (`<=` at `crates/bench/src/tail_bench.rs:248`). The comment above
   it says "spread under 25%", `VERIFICATION_PLAN.md:162` and
   `VERIFICATION_RUNBOOK.md:72` call IQR >= 25% partial. The same comparison passes
   a rate that was never tried: with `CADENCE_TRIALS=0` median and IQR are 0, where
   `VERIFICATION_PLAN.md:42` asks for stability across at least 10 trials. The run
   starts at one trial to show the first case.

Limits that the passing properties state as conditions:

* `FieldsReadBack` promises the whole topic only when it fits: when the 32-byte
  cut falls inside a character, `topic_str` answers the empty string, where
  `crates/message-core/src/lib.rs:20` speaks of truncating.
* `AppendOnly` and `ImplementsLog` of `UringWriter` need a log that is opened
  once: `create` keeps an existing file and starts at offset 0, so the first
  batch of a second writer overwrites its first records
  (`crates/persist/src/lib.rs:90` says append-only). `StdWriter` has no such
  condition.
* `ImplementsLog` of all writers ends where a sync returns Ok after one that
  returned Err: the data of the failed one may be on disk or not.
* `Accounted` does not say that everything arrives: over the bus, offers that
  find the queue full are dropped, up to `Cap` messages may be left behind at
  the end and are in no count, and `crossbeam_throughput` divides all
  `THR_MSGS` offers, dropped ones included, by the time they took
  (`crates/bench/src/main.rs:231`).
* `DoneMeansExported` allows a panic: a 0 in `CADENCE_RATES` passes the filter of
  `tail_bench` and divides by zero when its turn comes
  (`crates/bench/src/tail_bench.rs:149`), after which nothing is exported.
* `RoutedAsWritten` needs the topic to fit: two topics with the same first 32
  bytes are one topic to the bus, so an exact subscriber of those 32 bytes also
  receives messages published to longer topics.
* `AckedIsLogged` of `UringWriter` needs whole writes and whole submissions: only
  negative results are errors, so a short write is counted as a record, and the
  number that `submit_and_wait` returns is not looked at, so a chunk may end with
  entries still queued (`crates/persist/src/lib.rs:142`). It also needs a writer
  that is not used after an Err, whose queues still hold results of the failed
  call (finding 2). `BuffersOutliveOps` needs whole submissions too.
* `NeverPanics` needs a caller that gives up after an Err: a failed submission
  leaves its entries in the queue, and `expect("ring submission full")` fires
  when the next ones do not fit.
* `RecordsAligned` holds within one life of a `StdWriter`: after a torn last
  record the next writer's records are off the 64-byte grid.
* `PassIsWitnessed` leaves out no trials and an IQR of exactly a quarter, which
  are finding 4, and asks for a spread only from four trials on, because
  `iqr` is 0 below that.
* `VerdictFollowsMatrix` says what the verdict is when there is a gain in Mode B
  and when there is none in either mode. A gain in Mode A (`sync-end`) alone is
  left open: the verdict line then says PASS
  (`crates/bench/src/persist_verify.rs:244` takes a cell of either mode), where
  `VERIFICATION_PLAN.md:254-255` and `VERIFICATION_RUNBOOK.md:101-102` report a
  buffered-throughput gain and no proof of D.

## 5. Proofs

`SpscProofs` proves, for every `Cap`, `Word`, `Values` and `MaxSends` that
satisfy the assumptions of `Spsc`:

| Theorem | Statement |
|---|---|
| `Invariance` | `Spec => []IInv` |
| `TypeCorrect` | `Spec => []TypeOK` |
| `DataRaceFreedom` | `Spec => []NoDataRace` |
| `Conservation` | `Spec => []ExactlyOnceInOrder` |
| `AnswersHonest` | `Spec => HonestAnswers` |
| `Refinement` | `Spec => ImplementsFifo` |

The assumptions are `Cap` positive, `Word` a multiple of `Cap` by at least 2,
`Uninit` not a value. `MaxSends` is an arbitrary natural number, so every finite
behaviour is covered.

**Argument.** The properties are not inductive by themselves: a cursor is only a
residue, and a slot does not say which message it holds. `IInv` numbers the
messages. With `H` published and `T` consumed, `LogInv` says that entry `k+1` of
a cursor's log holds `k` modulo `Word` and carries clock `k`. `ProducerInv` and
`ConsumerInv` say that what a thread knows is exactly the position of the newest
entry it has seen, and that this position bounds the number of messages in the
ring: `T <= cseen - 1 <= H` and `H - (pseen - 1) <= Cap`. `SlotInv` says that
message `n` is in slot `n % Cap` until it is consumed and that the last read of
a slot was of a message that belongs there. Data-race freedom follows: the last
message read from slot `H % Cap` is congruent to `H` modulo `Cap` and below it,
so it is at most `H - Cap`, which is below the tail the producer has acquired.
The arithmetic (a wrapping difference of two cursors is the number of messages
between them, because that number is below `Word`; the index of a cursor is the
index of the message, because `Cap` divides `Word`) is proved once in
`ModularArithmetic` and in the lemmas `IndexOfCursor`, `CursorDistance` and
`CursorEqual`. The refinement maps the contents of the slots between the two
cursors to the queue; a send takes effect at the store of `head`, a receive at
the store of `tail`.

### Trials over the ring

Also in `SpscProofs`, for every `Cap`, `MaxSends` and `Warmup \in 0 .. MaxSends`:

| Theorem | Statement |
|---|---|
| `TrialUsesRing` | `TrialSpec => Spec` |
| `TrialInvariance` | `TrialSpec => []TrialInv` |
| `NobodyStranded` | `TrialSpec => []NeverStranded` |
| `RunMeasured` | `TrialSpec => []MeasuredRun` |

Every step of a trial is a step of the ring (`TrialStepIsRingStep`), so `IInv`
comes for free; `TrialInv` adds where the subscriber is in its loop, the order
in which things end (the publisher goes after its last send, the flag goes up
after that, the subscriber leaves after that), that the messages carry their
numbers, and that the histogram is `received` without the warm-up. That at most
`Cap` messages are missing at the end is the ring's bound on what is in it.
`TrialAssumption` is cited in this section only.

### Messages

`MessagePathProofs`, for fields of every width, all topics, patterns and
payloads, and every stamp that fits its field:

| Theorem | Statement |
|---|---|
| `PathInvariance` | `Spec => []PathInv` |
| `RecordsRoundTrip` | `Spec => []RoundTrip` |
| `AccessorsReadBack` | `Spec => []FieldsReadBack` |
| `RoutesAsWritten` | `Spec => []RoutedAsWritten` |

The assumptions say that topics and patterns are byte strings that are valid
UTF-8, payloads are byte strings, and stamps have `StampLen` bytes (the field is
a `u64`). `PathInv` only says which operator produced what is there, so the work
is in lemmas about the operators: what the search for the first NUL and for the
last byte that is not zero find, that a field is its string cut and padded, that
a prefix rule accepts exactly what the pattern means. The round trip of the
stamp needs an induction over its bytes. It is done on sets of numbers
(`Induction`: a set with 0 and the successors of its elements is `Nat`, from
the well-foundedness of `<`), and `Recursion` gives the existence of the
recursive functions; with them, after `k` steps `from_le_bytes` has what
`to_le_bytes` had left above its `StampLen - k` low bytes.

### Bus

`BusProofs`, for any threads, patterns, topics and capacity, and any number of
subscriptions and offers:

| Theorem | Statement |
|---|---|
| `TypeCorrect` | `Spec => []TypeOK` |
| `Invariance` | `Spec => []IInv` |
| `OrderInRealTime` | `Spec => []RealTimeOrder` |
| `CountsTruthful` | `Spec => []TruthfulCounts` |
| `UnsubscribeIsQuiet` | `Spec => QuietAfterUnsubscribe` |
| `NoSilentLoss` | `Spec => EveryoneServed` |
| `Refinement` | `Spec => OneCommonOrder` |
| `TrialUsesBus` | `TrialSpec => Spec` |
| `TrialInvariance` | `TrialSpec => []TrialInv` |
| `EveryOfferAccounted` | `TrialSpec => []Accounted` |

The assumptions are `Cap` positive, `None` not a thread and topics and patterns
sequences of numbers. `CoreInv` has the types, the mutex (whoever is in the loop
holds it, nobody else has anything to visit or to count) and the calls (each in
progress has a message of its own). Because the mutex makes the fan-outs a
sequence, the last message of `order` is the one whose loop runs, and `StreamInv`
(only messages with a place in the order are delivered, none twice) is
preserved: nothing of the running message can have been delivered before its
loop. `ServeInv` says what the loop has done so far: a subscription still to be
visited has neither got nor lost the message, one that was visited has either.
`CountInv` says that the counters are cardinalities of those sets, which a visit
enlarges by one element it did not contain. A step either delivers to one
channel, loses for one channel, or leaves all streams alone (`StepEffect`), and
most parts of the invariant are preserved by these three cases, not by
the actions one by one. The refinement maps an `OfferLock` to the publication
in the common order and a delivery to handing out its last message.

A trial over the bus has one publisher, so its offers do not overlap:
`RealTimeOrder` and the absence of repetitions then put the messages of the
stream in the order of their numbers. The subscription lives until the last
offer has returned, so each one was delivered or lost (`ServeInv` with nothing
left to visit), and the counts in `Accounted` are those of a set split in three.
`TrialAssumption` (the publisher is a thread, "bench" a topic and a pattern, and
`Warmup` at most `MaxOffers`) is cited in this section only.

### Log

`DurableLogProofs` proves `ContractKept`: `DurableLog!Spec => []Contract`, with no
assumption. `Contract` is inductive: the log and the acknowledged sequence are
increasing, every acknowledged message is in the log, and every synced one is in
its durable part. The steps rest on two lemmas about prefixes: an element of a
prefix is an element of the whole, at the same place (`PrefixElements`), and
inclusion of elements is pointwise membership (`ElementsIncluded`). Only
`PowerLossContract` needs `SyncedDurable`: what is left of `acked` is exactly
what lies in the part of the log that is sure to be kept. With `StdWriterImplementsLog` and
`WritersImplementLog` below this is the contract of the writers: until a sync
returns Ok after one that failed for the std writer, and until something of
`harm` happens for the io_uring writers.

### UringWriter

`UringWriterProofs`, for both writers, any lengths of their chunks, any batch
sizes and bounds, and any set of `Faults`. The queue of `UringWriter` has an
entry for each message of a chunk (`io_uring` rounds `ring_depth` up), that of
`UringFixedWriter` at least one, whatever `cap_msgs` is:

| Theorem | Statement | Survives |
|---|---|---|
| `TypeCorrect` | `Spec => []TypeOK` | everything |
| `Invariance` | `Spec => []IInv` | everything |
| `BuffersOutlive` | `Spec => []BuffersOutliveOps` | errors, short writes, failed submissions, failed syncs, reopening |
| `PanicFree` | `Spec => []NeverPanics` | all but partial submissions and use after an Err |
| `ErrorsSpareOlder` | `Spec => []OlderAcksSafe` | use after an Err |
| `AckedAreLogged` | `Spec => []AckedIsLogged` | errors, failed submissions and a failed sync that is not repeated |
| `AppendsOnly` | `Spec => AppendOnly` | errors, short writes, interrupted waits, failed and partial submissions, failed syncs |
| `WritersImplementLog` | `Spec => ImplementsLog` | until the first harm |

Each property has its own condition on `harm`, and `IInv` one part for each of
these conditions: `QueueInv` (the queue is empty when a chunk is built) without
reuse; `WaitInv` (results and operations in flight add up to the chunk, and are
of its generation) without interrupts and reuse; `PlaceInv` (every position
belongs to one operation, which has not been there yet, and none lies beyond the
frontier of the chunk) without reuse and reopening; `LogInv` (record `i` is
message `i`, and every position of the chunk is written or still in flight)
without any harm; `SafeInv` (nothing reaches back to what was acknowledged
before the first Err) when reuse is the only harm. A partial submission breaks the first two, so they exclude it; `PlaceInv` counts
what is queued with what is in flight and survives it. The refinement needs that
the log, the records up to the first hole, is what `PlaceInv` and `LogInv` say is
written: a completion makes the run of written positions longer, or leaves it
alone when it is out of order.

### StdWriter

`StdWriterProofs`, for every `BufCap` that holds a record and any batches and
reopenings: `TypeCorrect` (`Spec => []TypeOK`), `Invariance` (`Spec => []IInv`),
`Aligned` (`Spec => []RecordsAligned`) and `StdWriterImplementsLog`
(`Spec => ImplementsLog`).

File and buffer are one stream of half records, `file \o buf`. A write(2) moves
the border inside it, a drop, an error or a power loss cuts it, a power loss may
also blank parts of it, and only the copy of a record makes it longer. `StreamInv` says that what is not lost of it is ascending and that
what was copied of the batch is whole in it, `AckInv` that what was acknowledged
is whole in the file and what was synced on disk while the Ok of every sync could
be trusted, `AlignInv` that first and
second halves take turns within one life. The log is the sequence of whole
records of the file, in a torn file not at fixed places: the record of rank `n`
among the places where a whole one starts. That ranks number these places
without gaps is a pigeon-hole argument, and an append keeps the ranks of what was
there. A power loss keeps the records in the part that is on disk with their
ranks (`RecordsContinue`), and behind it adds none and reorders none
(`RecordsLost`, `RecordsAscend`).

### Drivers

`VerificationProofs`, for any number of trials and messages, any rates, batch
sizes, writer kinds and measured values: `Invariance` (`Spec => []IInv`) and

| Theorem | Property |
|---|---|
| `MiddleReported` | `MedianIsMiddle` |
| `WitnessedPass` | `PassIsWitnessed` |
| `OwnBaseline` | `RatioAgainstOwnBaseline` |
| `MatrixVerdict` | `VerdictFollowsMatrix` |
| `DurableWhenTimed` | `TimedIsDurable` |
| `ExportedWhenDone` | `DoneMeansExported` |

The assumptions that matter are those on the matrix of Test D: batch sizes and
writer kinds without repetition, the std writer first, as the constants in
`persist_verify.rs` are. Sorting is defined by the place of each element
(`Place` counts what is not after it, ties by position); that places are a
bijection is the pigeon-hole argument again, and the median and quartile facts
follow from counting the places on either side. `IInv` says where each program is
(`StageInv`), that the results of Test T are sound (`TailInv`), that the number
of results is the position in the loops (`CellInv`), that every result has been
compared with the first of its own group, except those of the group that is
still open (`GroupInv`), and that what a trial counts is durable when its clock
stops (`TimeInv`, and `BenchInv` for Phase 4b). A group is a run of results with
equal quotients, which `ModularArithmetic` gives.

**Only model-checked.**

* Liveness (`SendReturns`, `AllDelivered`, `TrialEnds`, `OffersReturn`,
  `WriteBatchReturns`): it rests on fairness, which is out of the prover's reach.
* `SharedHandle` and the other runs that end in a violation.
* That `c & mask` is `c % Cap` for a power of two (`MaskIsRemainder` of
  `MCSpsc`): the bitwise operators are recursive.

## 6. Not modelled

* the histogram aggregated over the trials of a rate, and histogram buckets;
* SVG, base64 and JSON reports, the environment block, core pinning, the CLI
  demo: formatting and I/O without state;
* tuning, build and cache control in `run_verification.sh`;
* bus channels of capacity 0 (rendezvous): none of the programs creates one, and
  an offer would then depend on a receiver that is waiting inside crossbeam;
* clock readings: message numbers stand for the order of stamps;
* passing the same batch again after an Err (the caller's messages are
  distinct); two writers on one file at the same time.

## 7. Plan

Order of work, most important behaviour first.

1. *Done:* `Spsc`, `BoundedFifo`, `SpscProofs`; `Message`, `Filter`,
   `MessagePath`; `Bus`, `OrderedBroadcast`; `UringWriter`, `StdWriter`,
   `DurableLog`, `DurableLogProofs`; `SpscTrial`, `BusTrial`, `SharedHandle`;
   `TrialStats`, `TailBench`, `PersistVerify`, `PersistBench`, `Verification`.
2. *Done:* proofs of all invariants, action properties and refinements of the
   passing runs: `SpscProofs` with the trials, `MessagePathProofs`, `BusProofs`
   with the trials, `UringWriterProofs`, `StdWriterProofs`, `DurableLogProofs`,
   `VerificationProofs`.
3. Next: theorems that carry the contract of the log through to the writers as
   one statement (`Log!Contract` of each), the ring's data-race freedom and
   conservation restated for the trials, and stronger corollaries for callers
   (what `drop_count` and `OfferResult` say together over a whole run).
