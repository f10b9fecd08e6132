----------------------------- MODULE StrideTable -----------------------------
(***************************************************************************)
(* The reference prediction table of StridePrefetcher                      *)
(* (lib/stride_prefetcher.h).  Each load first looks its pc up and, if the *)
(* entry is in its steady state, has a prefetch generated                  *)
(* PREFETCH_MULTIPLIER strides ahead; then it trains the entry with its    *)
(* address.  PrefetchQueue models what becomes of the prefetches.          *)
(*                                                                         *)
(* A pc is a model value.  The code marks unused entries with a tag that a *)
(* load's pc could in principle have (0xdeadbeef); here it cannot.         *)
(***************************************************************************)
EXTENDS Integers, Sequences, SequencesExt

CONSTANTS NUM_RPT_ENTRIES, PCs, Addresses, NoTag

ASSUME TableAssumption ==
  NUM_RPT_ENTRIES \in Nat \ {0} /\ Addresses \subseteq Nat /\ NoTag \notin PCs

PREFETCH_MULTIPLIER == 2
Indexes == 0 .. NUM_RPT_ENTRIES - 1
None == -99    \* no prefetch; no address minus two strides is as low

VARIABLES
  rpt,       \* index -> [state, tag, current_address, stride, lru]
  generated, \* the address that the last load had prefetched, or None
  seen       \* ghost: the last addresses an entry was trained with

TableVars == <<rpt, generated, seen>>

TableInit ==
  /\ rpt = [i \in Indexes |-> [state |-> "Invalid", tag |-> NoTag,
                               current_address |-> 0, stride |-> -1, lru |-> i]]
  /\ generated = None
  /\ seen = [i \in Indexes |-> <<>>]

Holding(pc) == {i \in Indexes : rpt[i].tag = pc}
VictimWayNewest == CHOOSE i \in Indexes : rpt[i].lru = NUM_RPT_ENTRIES - 1
VictimWay == CHOOSE i \in Indexes : rpt[i].lru = 0

(* update_lru(): index becomes the most recently used entry.                *)
UpdateLru(table, index) ==
  [i \in Indexes |->
     [table[i] EXCEPT !.lru = IF i = index THEN NUM_RPT_ENTRIES - 1
                              ELSE IF @ > table[index].lru THEN @ - 1 ELSE @]]

(* lookahead() and generate(): the address to prefetch, if any.             *)
Lookahead(pc) ==
  IF \E i \in Holding(pc) : rpt[i].state = "SteadyState" /\ rpt[i].stride # 0
  THEN LET e == rpt[CHOOSE i \in Holding(pc) : TRUE]
       IN  e.current_address + e.stride * PREFETCH_MULTIPLIER
  ELSE None

(* The state after one more address, and the strides that are kept when it  *)
(* does not follow the one learnt: only a steady entry keeps its own.       *)
NextStateSticky(state, same) ==
  CASE state = "Initial"      -> IF same THEN "SteadyState" ELSE "Transient"
    [] state = "Transient"    -> IF same THEN "SteadyState" ELSE "NoPrediction"
    [] state = "SteadyState"  -> "SteadyState"
    [] state = "NoPrediction" -> IF same THEN "Transient" ELSE "NoPrediction"
NextState(state, same) ==
  CASE state = "Initial"      -> IF same THEN "SteadyState" ELSE "Transient"
    [] state = "Transient"    -> IF same THEN "SteadyState" ELSE "NoPrediction"
    [] state = "SteadyState"  -> IF same THEN "SteadyState" ELSE "Initial"
    [] state = "NoPrediction" -> IF same THEN "Transient" ELSE "NoPrediction"

Trained(e, addr) ==
  LET stride == addr - e.current_address
  IN  [e EXCEPT !.state = NextState(e.state, stride = e.stride),
                !.stride = IF e.state = "SteadyState" THEN @ ELSE stride,
                !.current_address = addr]

LastOf(s, n) == IF Len(s) > n THEN SubSeq(s, Len(s) - n + 1, Len(s)) ELSE s

(* train(): an entry of stride 0 is not made the most recently used one, so *)
(* that it ages out; a new entry is.                                        *)
Touched(table, i) == IF table[i].stride # 0 THEN UpdateLru(table, i) ELSE table

TrainKnown(pc, addr) == \E i \in Holding(pc) :
  /\ rpt' = Touched([rpt EXCEPT ![i] = Trained(@, addr)], i)
  /\ seen' = [seen EXCEPT ![i] = LastOf(Append(@, addr), 4)]

Evicting(v, pc, addr) ==
  /\ rpt' = UpdateLru(
       [rpt EXCEPT ![v].state = "Initial", ![v].tag = pc,
                   ![v].current_address = addr, ![v].stride = 0], v)
  /\ seen' = [seen EXCEPT ![v] = <<addr>>]
TrainNew(pc, addr) == Holding(pc) = {} /\ Evicting(VictimWay, pc, addr)

Load == \E pc \in PCs, addr \in Addresses :
  /\ generated' = Lookahead(pc)
  /\ TrainKnown(pc, addr) \/ TrainNew(pc, addr)

TableNext == Load

TableSpec == TableInit /\ [][TableNext]_TableVars

-----------------------------------------------------------------------------
(* Properties.                                                              *)

(* A prefetch is generated for a stride that the load's last addresses      *)
(* show: its last step was one, and so was the step before that or, after a *)
(* single irregular step of a steady load, the one before.                  *)
Step(s, k) == s[Len(s) - k + 1] - s[Len(s) - k]
Shows(s, stride) ==
  /\ Len(s) >= 3 /\ Step(s, 1) = stride
  /\ Step(s, 2) = stride \/ (Len(s) = 4 /\ Step(s, 3) = stride)
PrefetchesSeenStride ==
  [][ generated' # None =>
        \E i \in Indexes :
          /\ Len(seen[i]) >= 3
          /\ generated' = Last(seen[i]) + 2 * Step(seen[i], 1)
          /\ Shows(seen[i], Step(seen[i], 1))
    ]_TableVars

(* Among the loads whose addresses move, the least recently trained one is  *)
(* replaced: training moves them to the front; a load that stays at one     *)
(* address counts as never used again.                                      *)
EntryAt(n) == CHOOSE i \in Indexes : rpt[i].lru = n
Recency == [k \in 1 .. NUM_RPT_ENTRIES |-> rpt[EntryAt(NUM_RPT_ENTRIES - k)].tag]
LRU == INSTANCE LRUSet WITH
  recent <- Recency, Size <- NUM_RPT_ENTRIES, Empty <- NoTag, Blocks <- PCs
ReplacesLRU ==
  /\ LRU!Spec
  /\ [][ \A i \in Indexes : seen'[i] # seen[i] /\ rpt'[i].stride # 0
            => LRU!Use(rpt'[i].tag) ]_TableVars
=============================================================================
