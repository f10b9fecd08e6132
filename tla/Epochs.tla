------------------------------- MODULE Epochs -------------------------------
(***************************************************************************)
(* The statistics of a simulation (lib/uarchsim.cc and lib/bp.cc): counts  *)
(* of instructions, cycles, conditional branches, mispredictions and cycles*)
(* on the wrong path, kept per epoch of EPOCH_SIZE_INSTS instructions, and *)
(* the reports that add up the last epochs.                                *)
(*                                                                         *)
(* A step is step() of one uop, with the timing left open: I-cache misses, *)
(* latencies and what else ends a fetch bundle are inputs (Pipeline has    *)
(* them).  The vectors of the code, which grow together, are one sequence. *)
(* Names begin with Epoch where a module that extends this one has its own.*)
(***************************************************************************)
EXTENDS Integers, Sequences

CONSTANTS
  EPOCH_SIZE_INSTS, FETCH_WIDTH,
  Delays,      \* cycles that an I-cache access takes
  Latencies    \* from fetch to the end of execution

(* With smaller epochs one could begin and end in one cycle.                *)
ASSUME EpochAssumption ==
  /\ FETCH_WIDTH \in Nat \ {0} /\ EPOCH_SIZE_INSTS \in Nat
  /\ EPOCH_SIZE_INSTS > FETCH_WIDTH
  /\ Delays \subseteq Nat /\ Latencies \subseteq Nat \ {0}

VARIABLES
  fetch_cycle, num_fetched,
  cycle, num_inst, cycles_on_wrong_path,   \* of the whole simulation
  epochs,                \* of [insts, cycles, conddir_n, conddir_m, wrong_path]
  last_epoch_end_cycle,
  finished,              \* output() has been called
  epoch_aborted          \* an assertion has failed

EpochVars == <<fetch_cycle, num_fetched, cycle, num_inst, cycles_on_wrong_path, epochs,
               last_epoch_end_cycle, finished, epoch_aborted>>

NewEpoch == [insts |-> 0, cycles |-> 0, conddir_n |-> 0, conddir_m |-> 0, wrong_path |-> 0]

EpochInit ==
  /\ fetch_cycle = 0 /\ num_fetched = 0
  /\ cycle = 0 /\ num_inst = 0 /\ cycles_on_wrong_path = 0
  /\ epochs = <<NewEpoch>> /\ last_epoch_end_cycle = 0
  /\ finished = FALSE /\ epoch_aborted = FALSE

Later(a, b) == IF a > b THEN a ELSE b
Tally(b) == IF b THEN 1 ELSE 0

(* end_current_begin_new_epoch(), of the epochs es.                         *)
Ended(es, end) == [es EXCEPT ![Len(es)].cycles = end - last_epoch_end_cycle]

(* The fetch of the next uop, before branch prediction: a full window waits *)
(* and counts nothing; otherwise the bundle ends when it has FETCH_WIDTH    *)
(* instructions or at some branch.                                          *)
Bundles == {"goes_on", "stops", "window_full"}
CountsUop(last) == 1
Counts(last) == Tally(last)
BundleEnds(last, bundle) ==
  bundle = "stops" \/ num_fetched + Counts(last) = FETCH_WIDTH
NextFetch(predict_cycle, last, bundle, wait) ==
  CASE bundle = "window_full" -> predict_cycle + wait
    [] bundle # "window_full" /\ BundleEnds(last, bundle) -> predict_cycle + 1
    [] OTHER -> predict_cycle
NextFetched(last, bundle) ==
  IF bundle = "window_full" \/ BundleEnds(last, bundle) THEN 0
  ELSE num_fetched + Counts(last)

(* The measurements of the uop, in the epoch that it belongs to.            *)
Measured(e, last, cond, misp, wrong) ==
  [e EXCEPT !.insts = @ + Counts(last),
            !.conddir_n = @ + Tally(cond), !.conddir_m = @ + Tally(cond /\ misp),
            !.wrong_path = @ + wrong]

(* step(): last is is_last_piece; any uop whose successor is not the next   *)
(* one may be mispredicted.                                                 *)
EpochStep(last, cond, misp, delay, latency, bundle, wait) ==
  LET predict_cycle == fetch_cycle + delay
      next == NextFetch(predict_cycle, last, bundle, wait)
      resolved == Later(next, predict_cycle + latency)
      wrong == IF misp THEN resolved - predict_cycle ELSE 0
      measured == [epochs EXCEPT ![Len(epochs)] = Measured(@, last, cond, misp, wrong)]
      full == measured[Len(epochs)].insts = EPOCH_SIZE_INSTS
  IN  /\ ~finished /\ ~epoch_aborted
      /\ cycle' = Later(cycle, predict_cycle + latency)
      /\ num_inst' = num_inst + Tally(last)
      /\ cycles_on_wrong_path' = cycles_on_wrong_path + wrong
      /\ fetch_cycle' = (IF misp THEN resolved ELSE next)
      /\ num_fetched' = (IF misp THEN 0 ELSE NextFetched(last, bundle))
      /\ epochs' = IF full THEN Append(Ended(measured, predict_cycle), NewEpoch)
                   ELSE measured
      /\ last_epoch_end_cycle' = (IF full THEN predict_cycle ELSE last_epoch_end_cycle)
      /\ epoch_aborted' = (full /\ ~(predict_cycle > last_epoch_end_cycle))
      /\ UNCHANGED finished

(* output() ends the last epoch, which may have no instruction.             *)
EpochOutput ==
  /\ ~finished /\ ~epoch_aborted
  /\ finished' = TRUE
  /\ epochs' = Ended(epochs, cycle) /\ last_epoch_end_cycle' = cycle
  /\ epoch_aborted' = ~(cycle > last_epoch_end_cycle)
  /\ UNCHANGED <<fetch_cycle, num_fetched, cycle, num_inst, cycles_on_wrong_path>>

(* A conditional branch is a uop of its own.                                *)
EpochNext ==
  \/ \E last, cond, misp \in BOOLEAN, delay \in Delays, latency, wait \in Latencies,
       bundle \in Bundles :
       (cond => last) /\ EpochStep(last, cond, misp, delay, latency, bundle, wait)
  \/ num_inst > 0 /\ EpochOutput

EpochSpec == EpochInit /\ [][EpochNext]_EpochVars

-----------------------------------------------------------------------------
(* output_periodic_info(): from the last epoch backwards, until more than   *)
(* target instructions have been counted.                                   *)

Nothing == [from |-> Len(epochs) + 1, stopped |-> FALSE, total |-> NewEpoch]

Plus(a, b) == [insts |-> a.insts + b.insts, cycles |-> a.cycles + b.cycles,
               conddir_n |-> a.conddir_n + b.conddir_n,
               conddir_m |-> a.conddir_m + b.conddir_m,
               wrong_path |-> a.wrong_path + b.wrong_path]

StopsAtTarget(insts, target) == insts >= target
Stops(insts, target) == insts > target
Counted(report, k, target) ==
  LET total == Plus(report.total, epochs[k])
  IN  IF report.stopped THEN report
      ELSE [from |-> k, stopped |-> Stops(total.insts, target), total |-> total]

(* What has been counted after the last d epochs.                           *)
ReportAfter(target) ==
  LET after[d \in 0 .. Len(epochs)] ==
        IF d = 0 THEN Nothing
        ELSE Counted(after[d - 1], Len(epochs) + 1 - d, target)
  IN  after
Report(target) == ReportAfter(target)[Len(epochs)]

-----------------------------------------------------------------------------
(* Properties.                                                              *)

(* Each epoch but the last has EPOCH_SIZE_INSTS instructions and took time; *)
(* a branch is counted in the epoch of its instruction.                     *)
EpochsFull ==
  /\ \A k \in DOMAIN epochs :
       /\ epochs[k].conddir_m <= epochs[k].conddir_n
       /\ epochs[k].conddir_n <= epochs[k].insts
       /\ k < Len(epochs) => /\ epochs[k].insts = EPOCH_SIZE_INSTS
                             /\ epochs[k].cycles > 0
  /\ epochs[Len(epochs)].insts < EPOCH_SIZE_INSTS

(* The sum of the first k epochs, and of all.                               *)
TotalUpTo(es) ==
  LET upTo[k \in 0 .. Len(es)] ==
        IF k = 0 THEN NewEpoch ELSE Plus(upTo[k - 1], es[k])
  IN  upTo
Total(es) == TotalUpTo(es)[Len(es)]

(* Epochs partition the simulation: they are full, and their cycles,        *)
(* instructions and wrong-path cycles add up to those of the whole, to the  *)
(* end of the last epoch or of the simulation.                              *)
EpochsPartition ==
  ~epoch_aborted =>
    /\ EpochsFull
    /\ LET total == Total(epochs)
       IN  /\ total.insts = num_inst
           /\ total.cycles = IF finished THEN cycle ELSE last_epoch_end_cycle
           /\ total.wrong_path = cycles_on_wrong_path
           /\ total.wrong_path <= fetch_cycle

(* A report on the last `target` instructions covers as few of the last     *)
(* epochs as have more than that, or all; the one on all instructions is    *)
(* the whole simulation.                                                    *)
ReportCoversLast ==
  finished /\ ~epoch_aborted =>
    /\ \A target \in 0 .. num_inst :
         LET report == Report(target)
             before(k) == TotalUpTo(epochs)[k]
         IN  /\ Plus(before(report.from - 1), report.total) = Total(epochs)
             /\ report.total.insts > target \/ report.from = 1
             /\ Total(epochs).insts - before(report.from).insts <= target
    /\ Report(num_inst).total.cycles = cycle
=============================================================================
