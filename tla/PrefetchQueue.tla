---------------------------- MODULE PrefetchQueue ----------------------------
(***************************************************************************)
(* The queue of generated prefetches (lib/stride_prefetcher.h) and the part*)
(* of uarchsim_t::step() that drains it (lib/uarchsim.cc:573-615 and       *)
(* 800-806).  Prefetches take the load/store slots of past cycles that no  *)
(* load or store has taken, in the order of their generation; one that     *)
(* finds none is put back, and is dropped when it gets too old.  The lanes'*)
(* base cycle, before which no slot can be booked, may therefore not pass  *)
(* the oldest queued prefetch.                                             *)
(*                                                                         *)
(* The load/store lanes are Lanes' timeline (ResourceSchedule implements   *)
(* it).  What StrideTable generates is an input, and so are the waits of   *)
(* uops and the cycles by which fetch advances.  An address is a line.     *)
(***************************************************************************)
EXTENDS Integers, Sequences, SequencesExt, FiniteSetsExt

CONSTANTS
  NUM_LDST_LANES, FETCH_WIDTH, PIPELINE_FILL_LATENCY,
  PF_MUST_ISSUE_BEFORE_CYCLES,
  Lines,      \* cache lines that are prefetched
  Waits,      \* extra cycles before a uop starts to execute
  Advances,   \* cycles by which fetch moves on
  MaxUops     \* bound: the longest trace considered

ASSUME QueueAssumption ==
  /\ {NUM_LDST_LANES, FETCH_WIDTH, PIPELINE_FILL_LATENCY, MaxUops} \subseteq Nat \ {0}
  /\ PF_MUST_ISSUE_BEFORE_CYCLES \in Nat
  /\ Lines \subseteq Nat /\ Waits \subseteq Nat /\ Advances \subseteq Nat \ {0}

VARIABLES
  pc,                                \* where step() is
  fetch_cycle, previous_fetch_cycle,
  num_uop, num_fetched,              \* in all, and in this fetch cycle
  booked, base_cycle,                \* the load/store lanes
  queue,                             \* of [line, cycle_generated]
  stats                              \* the prefetcher's counters

vars == <<pc, fetch_cycle, previous_fetch_cycle, num_uop, num_fetched, booked,
          base_cycle, queue, stats>>

MAX_CYCLE == MaxUops * (2 * Max(Advances) + 1) + PIPELINE_FILL_LATENCY
             + MaxUops * (1 + Max(Waits))   \* no booking is as late
Cycles == 0 .. MAX_CYCLE

Init ==
  /\ pc = "uop"
  /\ fetch_cycle = 0 /\ previous_fetch_cycle = 0
  /\ num_uop = 0 /\ num_fetched = 0
  /\ booked = [c \in Cycles |-> 0] /\ base_cycle = 0
  /\ queue = <<>>
  /\ stats = [generated |-> 0, issued |-> 0, dropped |-> 0, put_back |-> 0,
              issued_to_mem |-> 0]

Free(c) == booked[c] < NUM_LDST_LANES
FirstFree(from, to) ==
  {c \in from .. to : Free(c) /\ \A d \in from .. c - 1 : ~Free(d)}
Book(c) == booked' = [booked EXCEPT ![c] = @ + 1]

-----------------------------------------------------------------------------
(* A uop: an I-cache miss may move fetch_cycle first; a load or store books *)
(* a lane, and a load may have a prefetch generated.                        *)

Older(p, q) == p.cycle_generated < q.cycle_generated
               \/ (p.cycle_generated = q.cycle_generated /\ p.line < q.line)

(* std::sort(): oldest first.                                               *)
Sorted(pfs) ==
  {q \in {[k \in DOMAIN pfs |-> pfs[p[k]]] : p \in Bijection(DOMAIN pfs, DOMAIN pfs)} :
     \A j, k \in DOMAIN pfs : j < k => ~Older(q[k], q[j])}

Generate(line) ==
  LET pf == [line |-> line, cycle_generated |-> fetch_cycle']
  IN  IF \E k \in DOMAIN queue : queue[k].line = line
      THEN UNCHANGED <<queue, stats>>
      ELSE /\ queue' \in Sorted(Append(queue, pf))
           /\ stats' = [stats EXCEPT !.generated = @ + 1]

Begin ==
  /\ pc = "uop" /\ num_uop < MaxUops
  /\ num_uop' = num_uop + 1
  /\ fetch_cycle' \in {fetch_cycle} \cup {fetch_cycle + m : m \in Advances}
  /\ pc' = "drain"

OtherUop == Begin /\ UNCHANGED <<previous_fetch_cycle, num_fetched, booked,
                                 base_cycle, queue, stats>>
MemoryUop ==
  /\ Begin
  /\ \E wait \in Waits :
       LET start == fetch_cycle' + PIPELINE_FILL_LATENCY + wait
       IN  \E c \in FirstFree(start, MAX_CYCLE) : Book(c)
  /\ \/ \E line \in Lines : Generate(line)
     \/ UNCHANGED <<queue, stats>>
  /\ UNCHANGED <<previous_fetch_cycle, num_fetched, base_cycle>>

-----------------------------------------------------------------------------
(* The drain loop.  issue() first drops what is too old, then hands out the *)
(* front, unless it is to be generated in a later cycle.                    *)

TooOld(p) == p.cycle_generated + PF_MUST_ISSUE_BEFORE_CYCLES < fetch_cycle

Drop ==
  /\ pc = "drain" /\ queue # <<>> /\ TooOld(Head(queue))
  /\ queue' = Tail(queue)
  /\ stats' = [stats EXCEPT !.dropped = @ + 1]
  /\ UNCHANGED <<pc, fetch_cycle, previous_fetch_cycle, num_uop, num_fetched,
                 booked, base_cycle>>

Ready == pc = "drain" /\ queue # <<>> /\ ~TooOld(Head(queue))
         /\ Head(queue).cycle_generated <= fetch_cycle

(* The past cycles the front may use, beginning with tmp_previous_...       *)
FirstCycleAny(p) == previous_fetch_cycle
FirstCycle(p) == Max({previous_fetch_cycle, p.cycle_generated})
Slots == FirstFree(FirstCycle(Head(queue)), fetch_cycle)

(* schedule() asserts that it is not asked about a cycle before the base.   *)
UnlessBeforeBase(next) ==
  pc' = IF FirstCycle(Head(queue)) < base_cycle THEN "abort" ELSE next

IssueUnperformed ==
  /\ Ready /\ UnlessBeforeBase(pc)
  /\ \E c \in Slots : Book(c)
  /\ queue' = Tail(queue)
  /\ stats' = [stats EXCEPT !.issued = @ + 1]
  /\ UNCHANGED <<fetch_cycle, previous_fetch_cycle, num_uop, num_fetched,
                 base_cycle>>
Issue ==
  /\ Ready /\ UnlessBeforeBase(pc)
  /\ \E c \in Slots : Book(c)
  /\ queue' = Tail(queue)
  /\ stats' = [stats EXCEPT !.issued = @ + 1, !.issued_to_mem = @ + 1]
  /\ UNCHANGED <<fetch_cycle, previous_fetch_cycle, num_uop, num_fetched,
                 base_cycle>>

(* No slot: the front goes back to the queue, and the loop ends.            *)
PutBackAndGoOn ==
  /\ Ready /\ Slots = {}
  /\ UNCHANGED vars
PutBack ==
  /\ Ready /\ Slots = {} /\ UnlessBeforeBase("advance")
  /\ stats' = [stats EXCEPT !.issued = @ + 1, !.put_back = @ + 1]
  /\ UNCHANGED <<fetch_cycle, previous_fetch_cycle, num_uop, num_fetched, booked,
                 base_cycle, queue>>

Drained ==
  /\ pc = "drain"
  /\ queue # <<>> => Head(queue).cycle_generated > fetch_cycle
  /\ pc' = "advance"
  /\ UNCHANGED <<fetch_cycle, previous_fetch_cycle, num_uop, num_fetched, booked,
                 base_cycle, queue, stats>>

-----------------------------------------------------------------------------
(* The end of the step: fetch stays in its cycle or moves on -- it must     *)
(* when FETCH_WIDTH uops have been fetched -- and the lanes' base follows   *)
(* it, as far as the oldest prefetch allows.                                *)

NewBaseFetch == fetch_cycle'
NewBase == IF queue = <<>> THEN fetch_cycle'
           ELSE Min({fetch_cycle', Head(queue).cycle_generated})

Advance ==
  /\ pc = "advance"
  /\ previous_fetch_cycle' = fetch_cycle
  /\ \/ num_fetched + 1 < FETCH_WIDTH
        /\ fetch_cycle' = fetch_cycle /\ num_fetched' = num_fetched + 1
     \/ num_fetched' = 0 /\ \E m \in Advances : fetch_cycle' = fetch_cycle + m
  /\ base_cycle' = NewBase
  /\ booked' = [c \in Cycles |-> IF c < NewBase THEN 0 ELSE booked[c]]
  /\ pc' = IF NewBase < base_cycle THEN "abort" ELSE "uop"
  /\ UNCHANGED <<num_uop, queue, stats>>

Terminated == pc = "uop" /\ num_uop = MaxUops /\ UNCHANGED vars

Next == \/ OtherUop \/ MemoryUop
        \/ Drop \/ Issue \/ PutBack \/ Drained
        \/ Advance
        \/ Terminated

(* One thread runs the simulation.                                          *)
Spec == Init /\ [][Next]_vars /\ WF_vars(Next)

-----------------------------------------------------------------------------
(* Properties.                                                              *)

(* Prefetches and base cycle agree: no prefetch is asked a lane of a cycle  *)
(* that the lanes have left behind, and the base never moves back           *)
(* (resource_schedule.cc:67, 117).                                          *)
NoAbort == pc # "abort"

(* The printed statistics account for every generated prefetch.             *)
StatsBalance ==
  /\ stats.issued_to_mem = stats.issued - stats.put_back
  /\ stats.generated = stats.issued_to_mem + stats.dropped + Len(queue)

(* A prefetch is performed after it is generated, and in time.              *)
PerformedInTime ==
  [][ \A c \in Cycles :
        stats'.issued_to_mem > stats.issued_to_mem /\ booked'[c] > booked[c] =>
          /\ Head(queue).cycle_generated <= c
          /\ c <= Head(queue).cycle_generated + PF_MUST_ISSUE_BEFORE_CYCLES
    ]_vars

(* The drain loop of every step ends.                                       *)
DrainEnds == pc = "drain" ~> pc # "drain"
=============================================================================
