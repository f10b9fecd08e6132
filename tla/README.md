# Verification of the trace-driven branch-prediction simulator

The repository is the CBP-2025 championship simulator: it reads a compressed
trace of ARM instructions, cracks each into micro-ops (uops), and computes when
each uop is fetched, decoded, executed and retired on an abstract out-of-order
processor, while a conditional-branch predictor under study is asked for
predictions and notified of the life of every uop. One thread runs everything.
There are no messages, locks or persistent state, so the hard behaviours are
those of a *discrete-event simulation written without an event loop*: time
jumps, several queues are advanced by nested catch-up loops, and state written
at prediction, decode, execution and commit of different uops interleaves in
orders that depend on latencies.

## 1. Inventory

| Component (source) | State | Operations | Used by / uses | Hard behaviours |
|---|---|---|---|---|
| Timing core (`lib/uarchsim.cc`: `step`, `eval_*`) | fetch cycles, `window`, `DQ`, `AQ`, `EQ`, bundle counters, wrong-path counter | `step(inst)` per uop | called by `main()`; calls everything below | catch-up over skipped cycles, I-cache misses inside a step, full window, mispredictions, bundle limits |
| Register / store-queue timestamps (`step`, 471-675) | `RF`, `SQ` | source readiness, forwarding, commit times | part of `step` | timestamps written in program order and compared across cycles in any order |
| Execution lanes (`lib/resource_schedule.cc`) | ring `sched`, `base_cycle`, `depth` | `schedule`, `try_schedule`, `advance_base_cycle`, `resize` | `step` | slot reuse, growth of the ring while it is booked |
| Cache hierarchy (`lib/cache.cc`) | per block tag, timestamp, LRU counter; statistics | `access` (recursive), `is_hit` | `step` (IC, L1), prefetches | accesses in non-monotonic cycles, fills in flight, copies at two first levels |
| Stride prefetcher (`lib/stride_prefetcher.h`) | table `rpt`, queue, statistics | `lookahead`, `train`, `generate`, `issue`, `put_back`, `get_oldest_pf_cycle` | `step` | entry state machine; queue drained into *past* lane slots, put back, dropped |
| Prediction interface (`lib/bp.cc`, `cond_branch_predictor_interface.cc`, `my_cond_branch_predictor.h`) | checkpoints per branch, `registers_in_flight`, `depGraph`, debug log | predict, spec_update, notify_decode / execute / commit | called by `step` | per-register facts about several loads in flight; checkpoint stored at predict, taken at resolve |
| Trace reader (`lib/trace_reader.h`) | instruction being cracked and six indices | `readInstr`, `populateNewInstr` | `main()` | two index sequences over outputs and lanes; base updates |
| TAGE-SC-L (`cbp2016_tage_sc_l.h`) | tagged tables, loop predictor, statistical corrector, histories (global ring and its folds, path, local, loop iterations) | predict, history_update, update | interface | loop state updated speculatively and rolled back; re-prediction at update with changed tables; folds kept incrementally; sums, weights and thresholds trained from each other |
| Epoch statistics (`bp.cc`, `uarchsim.cc:92-110`, 818-835) | counters of each epoch of instructions, and of the whole | end-of-epoch bookkeeping, reports on the last epochs | `step`, `bp_t`, `output` | counts kept at different places of a step; an epoch ends in the middle of a fetch bundle |
| Options, `main()` (`lib/cbp.cc`, `lib/parameters.*`) | parameters; the uop between reader and simulator | parse, run loop, output | all | the end of the trace |
| Result logs (`lib/log.h`), scripts, notebooks | files | I/O | - | - |
| Value predictor (`lib/my_value_predictor.*`), ITTAGE (`lib/ittage.h`), FIFO (`lib/fifo.h`) | - | unreachable: `VP_ENABLE` is false and has no option, `PERFECT_INDIRECT_PRED` is always true, the window is a `std::deque` | - | - |
| `lib/spdlog`, `lib/gzstream` | third-party | - | - | - |

What makes each component correct:

- *timing core*: no event is lost or handled late, events find their uop in the
  window, uops retire in order and complete, nothing is fetched on a wrong
  path, machine limits hold in every cycle, every trace ends;
- *timestamps*: dataflow order, and loads get the youngest older store's bytes;
- *lanes*: no cycle is overbooked and a request gets the first free cycle;
- *caches*: misses balance accesses, data are nowhere before memory delivers
  them, replacement is LRU;
- *prefetcher*: prefetches follow a stride that was seen, none is lost from the
  accounts, lanes never leave one behind, drains end;
- *interface*: a checkpoint for exactly the unresolved predictions; no stale
  flags or dependencies;
- *reader*: each output and each stored value has one piece;
- *epochs*: they partition the simulation, and reports cover its end;
- *predictor*: speculation leaves no trace in the loop table, loop counts are
  learnt before they are used, an update does not spoil the entry that
  predicted, allocation finds or frees entries, histories are those of the
  branches executed, training moves the corrector towards what was right.

## 2. Modules

| Module | What it models | Extends / uses |
|---|---|---|
| `Pipeline` | the timing core with predictions and checkpoints | |
| `MCPipeline` | the uops of its runs | `Pipeline` |
| `PipelineProofs` | proofs about `Pipeline` | `Pipeline` |
| `Dataflow`, `MCDataflow` | register file and store queue timestamps | |
| `Lanes` | abstract specification: a timeline with bounded bookings | |
| `ResourceSchedule` | the ring that implements it | instance of `Lanes` |
| `MCResourceSchedule` | the code's bit mask, for the runs | `ResourceSchedule` |
| `ResourceScheduleProofs` | proof that the ring implements the timeline | `ResourceSchedule` |
| `LRUSet` | abstract specification: a set replaced in order of use | |
| `Cache`, `MCCache` | IC, L1, L2, L3 and memory | an instance of `LRUSet` for each set |
| `MemoryProofs` | proofs about timestamps and caches | `Dataflow`, `Cache` |
| `StrideTable` | the reference prediction table | instance of `LRUSet` |
| `PrefetchQueue` | the queue and its drain loop over the lanes | |
| `PrefetcherProofs` | proofs about the prefetcher's table and queue | `StrideTable`, `PrefetchQueue` |
| `LoadDependence` | flags and dependency graph of loads in flight | |
| `TraceReader` | cracking an instruction into pieces | |
| `Epochs` | statistics per epoch and their reports | |
| `MainLoop`, `MCMainLoop` | `main()`: reader, step and statistics together | `TraceReader`, `Epochs` |
| `MainLoopProofs` | proofs about `TraceReader`, `Epochs` and `MainLoop` | `MainLoop` |
| `LoopTable` | the loop predictor's table: look-up and update as operators | |
| `LoopInOrder` | abstract specification: each branch updates the table before the next one looks | `LoopTable` |
| `LoopPredictor`, `MCLoopPredictor` | speculative update, checkpoints, second prediction and rollback | `LoopTable`, instance of `LoopInOrder` |
| `LoopPredictorProofs` | proofs about `LoopPredictor` | `LoopPredictor` |
| `Tage` | tagged tables: look-up, allocation, training | |
| `PredictorProofs` | proofs about `Tage` and `LoadDependence` | `Tage`, `LoadDependence` |
| `History` | the ring of directions and its folds, path, local and loop-iteration histories | |
| `Corrector`, `MCCorrector` | the statistical corrector: sum, weights, thresholds, chooser | `History` |
| `CorrectorProofs` | proofs about `History` and `Corrector` | `Corrector` |

The components meet in `step()`. The models meet by interface: what one
computes is a nondeterministic input of the other. `Pipeline` takes waiting
times and latencies from small sets where `step()` gets them from registers,
lanes and caches (`Dataflow`, `ResourceSchedule`, `Cache`); `PrefetchQueue`
takes generated lines where `StrideTable` computes them, and books lanes on the
timeline that `Lanes` specifies and `ResourceSchedule` implements. A
prediction is an arbitrary direction in `Pipeline` and `LoopPredictor`, and
what `Pipeline` proves (nothing is fetched behind a mispredicted branch) is a
guard of `LoopPredictor`; matching tags are inputs of `Tage`, and what TAGE
says is an input of `Corrector`. `MainLoop` composes reader and statistics
outright, with the timing of a step left open as in `Epochs`. A model
therefore has more behaviours than its part of the program, never fewer, within
its bounds. The exceptions are those named under *Environment* below.

### Correspondence with the code

**Pipeline.** A `step()` is several actions, told apart by `pc`:
`NextUop` (383-399), then `EvalCycle` once per iteration of the loop 400-407
(`eval_decode`, `eval_aq`, `eval_exec`, `eval_retire`, in this order),
`ICacheHit` or `ICacheMiss` (422-440, the second with its own loop of
`EvalCycle`s), and `IssueUop` (everything from the first timestamp to the end
of the step). `EndOfTrace` is `main()` leaving its loop. Splitting a step is
only for readability: nothing else runs between the actions. The window is
`head .. num_uop-1`, each uop with its decode, execute and retire cycle, and
the queues are functions from sequence numbers to cycles, since each is
searched for what is due and a uop is in each at most once. `pc = "abort"`
stands for a failed `assert` or a throwing `at()`. `bundle` is a ghost that
counts what was really fetched in a cycle, independently of `num_fetched`.

**Dataflow.** `Step` is the part of `step()` that reads `RF` and `SQ` for a
uop, computes its start, end and retire cycle and writes them back; `history`
is a ghost that keeps what uops did, so that properties can relate a uop to
the older ones it depends on; `fromL1` is the set of bytes that a load took
from L1. `LoadsSeeStores` is about each byte of a load by itself, whatever
else the load reads. When stores access L1 (at execution, while the README says
at commit) is not its subject.

**ResourceSchedule.** One action per method. The ring is indexed with the
code's mask `MOD_S`, a constant operator of which `RingAssumption` says only
that it is the remainder for the first depth, a power of two in the code;
`MCResourceSchedule` gives it as the bitwise *and* that it is. Under `resize`
the counters are copied slot by slot, as in the code.

**Cache.** One action per entry (`Fetch`, `LoadOrStore`, `Prefetch`); the
recursion over levels is unrolled by `HitDepth`: levels above it miss and are
filled with the time at which data arrive, the level at it hits.

**StrideTable, PrefetchQueue.** `Load` is a `lookahead` followed by a
`train`. `PrefetchQueue` goes through `step()` in the order of the code: fetch,
lanes and prefetcher for the uop (`OtherUop`, `MemoryUop`), the drain loop
(`Drop`, `Issue`, `PutBack`, `Drained`), and fetch and base cycle (`Advance`).
`std::sort` leaves equal elements in any order: `Sorted` is the set of sorted
arrangements.

**LoadDependence.** One action per notification: `DecodeLoad`, `DecodeBranch`,
`Resolve`, `Commit`. Uops decode and commit in order, branches resolve in any
order in between: more orders than the timing core produces.

**TraceReader.** `ReadInstr` and `PopulateNewInstr` are the two methods, called
in turns by `get_inst()`. A value is only whose lane it is, and whether an
upper half is zero.

**Epochs.** `EpochStep` is `step()` with its timing reduced to the cycles that
the statistics read: I-cache delay, execution, end of the bundle and
misprediction are inputs. The parallel vectors of `bp_t` and `uarchsim_t`,
which grow together, are one sequence of records, and `EpochOutput` is the end
of the last epoch in `output()`. `Report` is the backward loop of
`output_periodic_info()`.

**MainLoop.** `Read` is `readInstr()` and `StepPiece` is the rest of
`get_inst()` with the `step()` of the piece, so that `is_last_piece` is
computed by the reader and consumed by the statistics; `Finish` is the end of
the trace.

**LoopPredictor.** `Predict` is `predict()` and the `history_update()` that
follows it at once in `bp_t::predict`; `Resolve` is `update()` of any branch in
flight: a second prediction, the rollback if it is wrong, and the erasure of
the checkpoint. The direction that is predicted is an input of both, because
the tagged tables and the corrector have a part in it and change in between;
the ghost `agreed` says that both were the same. `MYRANDOM` is a choice.

**Tage.** One `update()` is one action, with the look-up it repeats:
`UpdateOnly`, or `UpdateAndAllocate` with the random choices of the table to
start at. Hashes (bank offset, tags) are inputs, and every bank has one row:
rows do not interact, except that `TICK` halves usefulness everywhere. The
loop of the allocation is a recursive function of the round, `AfterRounds`. The
ghost `last` names the entries that the update used.

**History.** `HistoryUpdate` is `history_update()` of one branch, and the ghost
`trace` is the sequence of branches so far. `NextIsBackward` is the test
`nextPC < PC`: the next pc is the actual one, so a branch that is not taken
never passes it, and the reset of the iteration number below it (1200) is dead
code, in `Iteration` as in the program. `HistoriesMatchTrace` says of each
history what it is, from the trace alone: which of the youngest branches of a
certain kind were taken (`Recent`); for each place of the folded history the
parity of those of the last `OLENGTH` directions that fall on it; and as the
iteration number how many loop branches were taken since the start, up to the
maximum. The comment at 1199 promises another number (section 5).

**Corrector.** One `Update` is `update()` of a branch from the repeated sum to
the training of tables, weights, thresholds and chooser. Cells are identified
by what their index hashes, so two histories share a cell exactly if the hash's
inputs are equal. An update takes any history, which is why the tables and the
histories are explored apart.

An operator placed just before another whose name it extends (`EvalRetire`,
`EvalRetireEarly`) is that operator with a plausible bug. No specification uses
it; `PROJECT.json` pairs it with the property that detects it.

## 3. Runs

| Run | Shows | Distinct states |
|---|---|---|
| `core` | the timing core is consistent and ends | 1,040,279 |
| `lanes` | a ring that does not grow implements `Lanes` | 3,222 |
| `lanes_resize` | a ring that grows overbooks cycles (finding) | |
| `cache` | accounting, timing and LRU of the hierarchy | 155,505 |
| `stride_table` | prefetches follow shown strides, LRU of moving entries | 596,173 |
| `prefetch` | order, accounts, timeliness and end of draining | 177,950 |
| `dataflow` | dataflow order, with an exception for the zero register, and memory order byte by byte | 238,463 |
| `load_dependence` | no stale flag or edge, no overcount | 1,407,961 |
| `main_loop` | pieces carry each output and stored value once, epochs partition the simulation, reports cover its end | 330,382 |
| `loop_predictor` | speculation is invisible, loop counts are learnt | 1,466,868 |
| `tage` | a match learns undisturbed, allocation is apart and makes progress | 465,733 |
| `corrector` | histories are functions of the trace, training goes the right way | 163,408 |

Bounds, and why the cases that matter occur within them:

- `core`: four uops, a window of three, two instructions and two branches per
  cycle, decode after 2 and execution after at least 3 cycles. Four uops fill
  the window and force a retirement; skips of 0-6 cycles come from I-cache
  misses, mispredictions, full windows and closed bundles, alone and combined.
- `lanes`: two lanes and a ring of four slots over ten cycles, so the ring
  wraps twice; `lanes_resize` has one lane and lets the ring double once.
- `cache`: two ways or two sets, three blocks and an L3 line twice as long as
  the others; five accesses at an early and a late cycle hit fills in flight,
  evict at every level and copy blocks to both first levels. TLC stops after
  the last access, so deadlock is not checked there.
- `stride_table`: two entries for three loads, three addresses, no bound on the
  number of loads.
- `prefetch`: one lane, four uops, three lines; prefetches get old enough to be
  dropped (2 cycles) and fetch advances by 1 or 3.
- `dataflow`: three uops over two registers, the zero register and two bytes:
  enough for a producer, an intervening writer or store, and a consumer; and
  for a slow uop that keeps an executed store from retiring while a load of its
  byte and of another one searches the queue.
- `load_dependence`: four uops in flight over three registers, no bound on the
  length of the trace: chains of three loads, older and younger loads to one
  register, a branch that resolves after younger decodes.
- `main_loop`: a first instruction of any shape with up to three outputs and
  every choice of zero upper halves, then branches and load pairs, four
  instructions in all. Epochs have two instructions, so two end and a third
  may be empty; bundles have one instruction, the largest for which an epoch
  is larger. An I-cache miss costs one cycle.
- `loop_predictor`: one entry for two branches, of which one goes both ways,
  two branches in flight and no bound on the trace. Counts wrap at 4 (1024 in
  the code), confidence and age end at 1 (15), the threshold is lowered
  accordingly: loops of three iterations are learnt and predicted, entries age
  and are replaced, counters wrap.
- `tage`: three tables in use of six, two sharing two banks and a third alone,
  two tags, five updates. Two allocations in one update need three pairs of
  tables; five updates make a counter strong, a match superfluous and `TICK`
  (limit 3, 1024 in the code) full. TLC stops after the last update, so
  deadlock is not checked there.
- `corrector`: traces of up to four branches out of a backward conditional, a
  forward conditional and an indirect one. The ring of eight entries wraps, a
  history of five folded into three bits loses its oldest direction, local
  histories of two branches interleave, and the iteration number reaches its
  maximum of 2 (255 in the code) and stays there, also when the backward branch
  is not taken. Then four updates of one table each of the bias, global-history and
  iteration groups, with counters of two bits: within them counters saturate,
  weights change their sign and updates both train and do not. Traces and
  updates are bounded, so deadlock is not checked.

**Fairness.** `core` and `prefetch` assume `WF_vars(Next)`: one thread executes
the simulator and always runs on to its next statement. `Terminates` then says
that no catch-up loop runs for ever, and `DrainEnds` that a drain loop always
ends. No fairness is put on single actions, and the other modules need none.

**Environment.** Assumptions on inputs: only branches are taken
(the reader asserts it); `core` has no conditional branch that is taken to
its own successor (see section 5); `cycles_on_wrong_path` starts at 0
(`UninitWrongPath` can be set to other values); `pf_accesses` and `pf_misses`
start at 0. `DQ_LATENCY <= PIPELINE_FILL_LATENCY` holds of the constants in
the code (2 and 10). `Epochs` assumes `EPOCH_SIZE_INSTS > FETCH_WIDTH`, which
holds unless the option `-E` asks for smaller epochs, and `MainLoop` a trace
that is not empty (see section 5).

## 4. Proofs

**Timing core.** `PipelineProofs` proves, for every window size, fetch width, branch limit,
set of uops, latency and trace length that the assumptions of `Pipeline` allow:

| Theorem | Property |
|---|---|
| `Inductive` | `IInv`, the strengthening below |
| `TypeCorrect` | `TypeOK` |
| `NeverOnWrongPath` | `NoWrongPathFetch` |
| `CheckpointsExact` | `CheckpointsMatchEQ`, unless prediction is perfect |
| `RetiresInOrder` | `RetiresComplete`, an action property |
| `WrongPathWithinTime` | `WrongPathBounded`, when the counter starts at 0 |
| `FetchBundleFinite` | `BundleLimits` |
| `AssertionsHold` | `NoAbort`, without `PERFECT_BRANCH_PRED` and without conditional branches taken to their successor |

None of the properties is inductive. `NoAbort`, for example, needs that every
queued event is due later than the last caught-up cycle, which depends on what
a catch-up loop has done when a step is in its middle. `IInv` is the
conjunction of

- `TimeInv`: cycles only grow, and a loop is between its start and its target;
- `WindowInv`: cycles of a uop come in the order decode, execute, retire, and
  decode and retire cycles are ordered between uops;
- `QueueInv`: a queued event carries the cycle recorded in the window;
- `PendingInv`: whatever is queued or unretired is due after `Done`, the last
  cycle that has been caught up at this `pc`;
- `CheckpointInv`: checkpoints are those of predicted branches in `EQ`;
- `CapacityInv`: a uop is issued only when the window has room, because fetch
  was moved to the retirement of its front;
- `ResolutionInv`: fetch is never earlier than the execution of a mispredicted
  uop of the window.

`BundleInv`, which relates the counters to the ghost `bundle`, is proved
inductive relative to `IInv` and kept apart. Each action preserves each
conjunct in a lemma of its own (`NextUopStep`, `EvalCycleStep`, `IssueStep`
...); `QuietKeeps` covers the actions that touch neither window nor queues.

**Loop predictor.** `LoopPredictorProofs` proves, for every table, set of
branches, counter width and number of branches in flight:

| Theorem | Property |
|---|---|
| `Invariance` | `IInv`, the strengthening below |
| `TypeCorrect` | `TypeOK`: documented widths |
| `LoopCounts` | `LoopCountsKnown` |
| `SpeculationInvisible` | `UpdatesInOrder`: the specification implements `LoopInOrder` |

The refinement maps the table to the active one or, while the youngest branch
is mispredicted, to the checkpoint of that branch: its update has happened but
does not count. `IInv` joins to the types that every table, the active one and
each checkpoint, has sensible counts, and that only the youngest branch in
flight may be mispredicted. Without the last part a rollback would take away
updates of branches that are still right. A step of `Predict` is then an
in-order `Branch` (`PredictInOrder`) or, if mispredicted, a stutter; `Resolve`
is a stutter for a branch predicted rightly and the in-order `Branch` for the
mispredicted one (`ResolveInOrder`). The statement is restricted to steps with
`agreed'`, see section 5. The proofs assume at most four ways, as in the code,
since the first way that hits is the least of a set.

**Epochs and main loop.** `MainLoopProofs` proves, for every epoch size greater
than the fetch width, every delay and latency:

| Theorem | Property |
|---|---|
| `EpochInvariance` | `EpochInv`, the strengthening below |
| `MainImplementsEpochs` | `MainSpec => EpochSpec` |
| `EpochsTakeTime` | the second half of `NeverAborts`: no epoch ends in the cycle in which it began |
| `EpochsAreFull` | `EpochsFull`, the first half of `EpochsPartition` |
| `MainEpochsPartition` | `EpochsPartition` |
| `MainReportCoversLast` | `ReportCoversLast` |

That an epoch takes time depends on the fetch bundle: `EpochTiming` says that
while fetch is still in the cycle that ended the last epoch, all instructions
counted since are in the current bundle, of which there are fewer than
`FETCH_WIDTH`, hence too few to fill an epoch; and that something completes
after the last epoch's end, which `output()` asserts. `MainImplementsEpochs`
needs that the reader counts pieces in order, so that a branch, which has one
piece, is counted with its instruction.

The sums over epochs are recursive functions. `AddUp` says what they come to
before the end: the total of instructions and wrong-path cycles is that of the
simulation, the total of cycles is the end of the last epoch, and the epoch that
is running has none yet. A step changes the last epoch or appends one, and
`TotalLast` and its neighbours say what that does to a total. A report is a loop
from the last epoch backwards: `ReportCovers` is about the state of this loop
after any number of rounds, and the number of rounds for which it could fail has
a least element, which is how an induction is done here.

**Trace reader.** The same module proves, for every set of instructions:

| Theorem | Property |
|---|---|
| `ReaderInvariance` | `ReaderInv`, the strengthening below |
| `MainImplementsReader` | `MainSpec => Spec` |
| `ReaderValuesMatch` | `ValuesMatch` |
| `ReaderWritesOutputs` | `OutputsWrittenUnlessNarrow` |
| `ReaderStoresEachValue` | `StoresEachValue`, for a trace of the format |
| `MainNeverAborts` | `NeverAborts`, for a trace of the format |

`ReaderInv` says that a piece is a function of the instruction and of the
piece's number (`CrackedAs`), and that the indices of registers and of values,
which `populateNewInstr()` advances by different rules, are in step: `PlaceOf`
gives the value index as the number of lanes of the registers that are done
(`Offset`) and the parity of the lane counter. The three properties are then
facts about an instruction and its pieces. An instruction writes no register
twice (`IsInstr`); `readInstr()` asserts as much of the base register, and
without it two pieces would write the same value. The two theorems for "a trace of the
format" have the hypothesis `TraceFormat`: every instruction meets the
assertions of `readInstr()`, and a store has an address register and a size.
All instructions of the run meet it (`FormatAssumption` in `MCMainLoop`). What
is proved is therefore that the assertions made while reading imply those made
while cracking, and those of the statistics.

**Statistical corrector.** `CorrectorProofs` proves, for every set of tables,
counter widths, thresholds and looked-up branch:

| Theorem | Property |
|---|---|
| `TypeCorrect` | `TypeOK`: declared widths (no run checks it: the theorem is cheaper) |
| `WeightsRight` | `WeightsLearnRightSide` |
| `ChooserTrained` | `ChooserTrainedWhereUsed` |
| `SumMoves` | `SumMovesRight` |

The tables' types are inductive by themselves; the other three are properties
of single steps from typed states. For `SumMoves` the argument is per group: a
group's vote is its sum times a weight of 1 or 2. Training moves the sum of a
group towards the direction, and its weight changes from 1 to 2 or back only if
the group tips the total, and then towards the side that was right, so the
product also moves towards it (`TippingSide` and the lemmas after it).

**Histories.** The same module proves, for every length of history, fold, ring
and register, every set of branches and every trace, `HistoryInvariance` (the
strengthening `HistoryInv`) and `HistoriesRight` (`HistoriesMatchTrace`).

- Every history is about the youngest members of some set of numbers: of the
  branches of a kind, or of the bits that branches bring in, two or three each.
  A branch adds its number to some of the sets (`SetsAppend`, `BitsAppend`), and
  `YoungestAdded` says that everything else thereby gets older by one, which is
  a shift of the register (`RecentMoves`).
- The fold needs more: `folded_history::update()` takes out the bit that is
  `OLENGTH` back, so the ring must still hold it. `HistoryInv` says that the
  ring holds the last `OLENGTH` bits. Since it is longer, writing a new one
  overwrites none of them (`EnterMoves`, by `NearRemainders`).
- `FoldMoves` is the fact about folding: the bits of a place, without the oldest,
  are those of the next place after a shift, and only the parity of their number
  counts. The oldest bit is at `OUTPOINT` afterwards.
- `TurnsAppend` and `CountAppend`: a loop branch that is taken counts the
  iteration number up, nothing counts it down, and the numbers that earlier
  branches found stay what they were.

**Tagged tables.** `PredictorProofs` proves, for every number of tables, banks,
tags and updates:

| Theorem | Property |
|---|---|
| `TageInvariance` | `TageInv`: types, with the usefulness that an entry can really have |
| `TageTypes` | `TypeOK` |
| `MatchLearns` | `HitLearns` |
| `AllocationApart` | `AllocatesApart` |
| `AllocationMakesProgress` | `AllocationProgress` |

All three action properties rest on `BanksDiffer`: the tables in use are found
in different banks. Banks are handed out in turn, modulo their number, so this
is true because there are banks enough for the tables that share them, which
`TageAssumption` states; in the code they are six of 10 and 15 of 20. Were it
not so, an allocation could take the entry that is trained in the same update.
The loop of the allocation is a recursion over its rounds. `StepsExist` gives it
a value (`RecursionExists`), and `RoundInv` says what it has made of the tables
seen so far: only these have changed (`Changes`); at most two entries are taken,
neither useful nor sure, and never in neighbouring pairs (`Takes`); and as long
as none is, each entry seen has become less sure or has cost a penalty
(`Attempts`). `Updates`, `Prepared` and `TrainedFrom` name what the whole
update, its allocation with ageing and its training do to the entries.

**Loads in flight.** The same module proves, for every finite set of registers,
number of uops in flight and trace:

| Theorem | Property |
|---|---|
| `Invariance` | `IInv`, the strengthening below |
| `FlagsRight` | `FlagsInFlight` |
| `DependenciesRight` | `DependenciesCurrent` |
| `CountBounded` | `NeverOvercounts` |

The two invariants, with the shape of window and graph, are inductive together:
a commit that takes away the edges of a register leaves those of registers that
nothing younger loads. For `CountBounded`, an edge leads from the last load of a
register to the last load of one that it reads, which is no younger. The
registers that can be reached in this way are closed under edges
(`VisitedReached`), and they are among those that the branch really depends on,
which `TrueSources` defines by recursion over the window (`SourcesRecursion`).

**Timestamps.** `MemoryProofs` proves, for every set of registers, bytes,
uops and latencies, `DataReady` (`DataReadyUnlessZero`) and `MemoryOrder`
(`LoadsSeeStores`). Both speak of the past, so the invariant (`Invariance`)
adds that the register file and the store queue hold the past's last values:
`RegisterInv` and `StoreInv`. `LoadsStep` then argues for one byte at a time: if
the queue has it, its entry is the youngest older store's and the load waits for
it; if not, that store has retired before the search. Readiness is a maximum over a set of cycles;
`MaxOfBounded` gets it from the well-foundedness of the naturals.

**Caches.** The same module proves, for every number of sets, ways and blocks,
every latency and every sequence of accesses:

| Theorem | Property |
|---|---|
| `CacheRanks` | `RankInv`: in each set the LRU counters are a permutation |
| `CacheCounts` | `MissesGoDown` |
| `CacheReplacement` | `ReplacesLRU`: every set implements `LRUSet` |
| `CacheWaits` | `NoDataBeforeMemory`, if blocks nest |

`RankInv` is what the assertions of `access()` come to: the scan for the largest
counter finds `assoc - 1`. `AccessEffect` reduces the unrolled recursion to what it
does at one level (hit, fill or nothing), and the theorems argue from that.
For `CacheWaits` the invariant `DataInv` adds that each line held at any level
belongs to a line of L3 that memory has delivered. It needs that an L3 block is
made of whole blocks of the other levels (`BlocksNest`), which holds by default,
since sizes of blocks are asserted to be powers of two and L3's default is the
largest (options may choose otherwise);
otherwise a line of L1 could lie in two lines of L3, of which one was never
delivered.

**Lanes.** `ResourceScheduleProofs` proves, for every number of lanes, depth and
range of cycles, `LanesNeverOverbooked` and `RingImplementsLanes`
(`ImplementsLanes`), assuming that the ring does not grow (`Fixed`) and that the
mask of its first depth is the remainder. The invariant says that the cycles
from `base_cycle` to `base_cycle + depth - 1` correspond to the slots one to
one, each with the bookings granted to it, and that no other cycle has any.

**Prefetcher.** `PrefetcherProofs` proves of the prediction table, for every
number of entries, set of loads and sequence of addresses:

| Theorem | Property |
|---|---|
| `StrideInvariance` | `TableInv`, the strengthening below |
| `StridesSeen` | `PrefetchesSeenStride` |
| `StrideReplacement` | `ReplacesLRU`: the table implements `LRUSet`, where entries move |

`TableInv` says that the counters are a permutation, that no load has two
entries, and for each state of an entry what it implies of the last four
addresses (`Learnt`). A steady entry that meets an irregular step goes back to
`Initial` with its stride, and it is the step *before* that one which keeps
the stride honest when the entry becomes steady again.

Of the queue it proves, for every number of lanes, fetch width, waiting time and
sequence of uops:

| Theorem | Property |
|---|---|
| `Invariance` | `IInv`: types, `QueueInv`, `NoAbort`, `StatsBalance` |
| `NeverBeforeBase` | `NoAbort` |
| `StatsAccount` | `StatsBalance` |
| `PerformsInTime` | `PerformedInTime` |

`NoAbort` is not inductive: a drain could put back a prefetch behind a younger
one, after which the head of the queue would not be the oldest. `QueueInv` says
that the queue is in order of generation, that nothing in it is older than the
lanes' base, and that the base is not ahead of fetch.

**Only model-checked.** Liveness (`Terminates`, `DrainEnds`), since the prover
does not handle fairness. Every invariant and every action property of the
passing runs is a theorem, under the hypotheses named above where it has any.
Also left to the runs are the definitions that no property is about, such as the
path histories.

## 5. What was found

One disagreement has a run of its own (`PROJECT.json`, "findings"):
`resource_schedule::resize()` moves bookings to other cycles.

Others are plain from the code, or were noticed while reading, and have no run:

- A load pair of two SIMD registers with zero upper halves never writes the
  second register: pieces are counted by halves that are not zero
  (`trace_reader.h:799`) and handed out over all halves (649-657), although
  178 promises one output per piece. `OutputsWrittenUnlessNarrow` makes an
  exception of such pairs.
- `-b` (perfect branch prediction, documented at `lib/cbp.cc:291`) aborts at
  the first conditional branch that resolves: `update()` looks up a checkpoint
  that was never stored (`my_cond_branch_predictor.h:69`). `Pipeline` has the
  constant `PERFECT_BRANCH_PRED`; with `TRUE`, `NoAbort` fails.
- With the zero register as first source, the other sources are not waited for:
  the test of operand A was copied to B and C (`uarchsim.cc:476`, 483, 490).
  `DataReadyUnlessZero` makes an exception of such uops.
- The loop predictor decides at update by a *second* prediction whether its
  speculative update was right (`cbp2016_tage_sc_l.h:1264`, 1280). Other tables
  have been trained since the first one, and misprediction reduction
  (`bp.cc:97-105`) replaces only the first. If the second is wrong and the
  first was right, updates of younger branches are rolled back; if it is right
  and the first was wrong, the wrong update stays. The comment at 493 says
  "running history always updated accurately"; `UpdatesInOrder` holds of the
  steps where both agree.
- The iteration number of a loop is never reset. The comment at
  `cbp2016_tage_sc_l.h:1199` ("exit of the "loop"") puts the reset on a loop
  branch that is not taken, but 1193 requires `nextPC < PC`, and `bp.cc:88` and
  115 pass the actual next pc, `PC + 4` for such a branch. `IMLIcount` counts
  taken backward branches of all loops up to 255 and stays there; from then on
  `IMHIST` is the history of all conditional branches. `HistoriesMatchTrace`
  states the number as it is; a reset would violate it.
- The usefulness counter is tested against the maximum of `UWIDTH` and then
  raised by 1 + `U_incrment` (1593-1597); halving it when `TICK` is full does
  not clear it. `TypeOK` of `Tage` states the range it really has.
- `cycles_on_wrong_path` (`uarchsim.h:172`) is never initialised. `Pipeline`
  has the constant `UninitWrongPath` for it.
- `step()` asserts (754) that a taken conditional branch does not go to
  `pc + 4`; the reader accepts such a branch. `Pipeline` has the operator
  `gap` for it and the proof of `AssertionsHold` excludes it by assumption.
- `cbp.h:74` says that every instruction is notified when it executes; those
  still queued when the trace ends are not.
- `README.md:105` gives store-load forwarding one cycle after the store's
  address generation; the code uses the cycle of address generation itself.
- `README.md:106` says that stores search L1 at commit; the code accesses it in
  the cycle of execution.
- `PF_QUEUE_SIZE` (`stride_prefetcher.h:58`) is not enforced.
- `trace_reader.h:177` says that inputs after the third are ignored; line 868
  asserts that there are none.
- The commit of a load takes away the flag, and the edges, of a younger load
  to the same register (`cond_branch_predictor_interface.cc:421-426`);
  `FlagsInFlight` is therefore an implication and not an equivalence.

- Epochs (`uarchsim.cc:92-110`) end at the fetch of their last instruction.
  Wrong-path cycles of that instruction belong to the epoch, but the cycles
  themselves to the next: wrong-path cycles of an epoch can exceed its cycles.
- An epoch size (`-E`) not larger than the fetch width can end two epochs in
  one cycle, and a trace without instructions ends one at cycle 0: both fail
  the assertion at `uarchsim.cc:96`.
- Counts of several epochs are added in `int` (`std::accumulate(.., 0)`,
  `bp.cc:214-226`), while each of them is 64 bits wide.
- With `-b`, `bp_t::predict()` is not called at all: no branch is counted or
  enters the histories.
- The first group of history tables is trained with the weight at
  `(PC << 1) + pred_inter` (`cbp2016_tage_sc_l.h:1069`, 1363), while the
  threshold looks at the weight at `PC` (1093); the iteration group's weight
  starts at 0 instead of 7 and does not raise the threshold. `Doubled` and
  `InitialWeight` say so.
- `T_slhist` and `IMHIST` are zero at the start only by static initialisation;
  `S_slhist` starts at 3 (786).
- `pf_accesses` and `pf_misses` of the caches are never initialised.

## 6. Not modelled, and why

- Details that no property depends on are left out of modelled parts.
  `PrefetchQueue` counts uops against the fetch width where the code counts
  instructions (`uarchsim.cc:722`). The registers of a branch in
  `LoadDependence` are a set; one named twice counts twice in
  `cond_branch_predictor_interface.cc:258-260`. `Tage` has one bimodal counter,
  without the bit of hysteresis that four entries share
  (`cbp2016_tage_sc_l.h:870-879`).
- TAGE-SC-L's hash functions of indexes and tags: what they select is an input
  of the models. The steps from tagged tables to loop predictor to corrector
  are modelled one by one and not as one prediction; each takes what the others
  say as an input.
- The debug log of the prediction interface (`histories_log`): it is filled, but
  the calls that would write it out are commented out
  (`cond_branch_predictor_interface.cc:493`). Its target predictors are replaced
  by perfect ones.
- Value prediction (`VP_ENABLE` is false), ITTAGE (`PERFECT_INDIRECT_PRED` is
  true) and the FIFO template (the window is a `std::deque`): unreachable code.
- Result files, printing, option parsing, decompression, scripts: I/O.
- `lib/spdlog` and `lib/gzstream`: third-party. They are the greater part of
  the repository's lines. Of the simulator's own some 8,000, the models cover
  what changes state; the rest is unreachable code, declarations, printing and
  the parsing of options.

## 7. Plan

1. *Done:* timing core, lanes, caches, prefetcher, timestamps, load dependence,
   reader, statistics and main loop; loop predictor, tagged tables, histories
   and corrector. Proofs of all their safety properties.
2. *Composition.* Tagged tables, loop predictor and corrector as one
   prediction, which would make the second prediction of `LoopPredictor` a
   function of tables that changed; `StrideTable` with `PrefetchQueue`, so that
   the generated lines are no longer an input.
3. *Proofs.* An abstract in-order machine implemented by `Pipeline`, and what
   the compositions of item 2 add.
