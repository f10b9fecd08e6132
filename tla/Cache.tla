-------------------------------- MODULE Cache --------------------------------
(***************************************************************************)
(* cache_t (lib/cache.cc) as uarchsim_t wires it: L1 and IC miss to L2, L2 *)
(* to L3, L3 to memory.  access() is recursive; here one action stands for *)
(* the whole chain of calls.  A block carries the cycle at which its data  *)
(* arrive (timestamp), so that later accesses wait for a fill in flight.   *)
(*                                                                         *)
(* Addresses are block numbers.  A level may have longer blocks            *)
(* (Span, in units of the shortest block), and a tag together with its     *)
(* index is the line number.  Contents and write-backs are not simulated.  *)
(***************************************************************************)
EXTENDS Integers, Sequences, FiniteSetsExt

CONSTANTS
  Span, Sets, Assoc, Latency,   \* of each level
  MAIN_MEMORY_LATENCY,
  Blocks, AccessCycles,         \* the accesses that are considered
  MaxAccesses                   \* bound: accesses by the processor

Levels == {"IC", "L1", "L2", "L3"}
Chain(level) == <<level, "L2", "L3">>   \* of IC and of L1

ASSUME CacheAssumption ==
  /\ \A f \in {Span, Sets, Assoc} : f \in [Levels -> Nat \ {0}]
  /\ Latency \in [Levels -> Nat] /\ MAIN_MEMORY_LATENCY \in Nat
  /\ Blocks \subseteq Nat /\ AccessCycles \subseteq Nat

VARIABLES
  C,                     \* level -> set -> way -> [line, timestamp, lru]
  accesses, misses,      \* level -> how many, prefetches excluded
  pf_accesses, pf_misses, \* level -> how many prefetches
  delivered,             \* ghost: when memory first delivered each L3 line
  last                   \* ghost: the block accessed last

CacheVars == <<C, accesses, misses, pf_accesses, pf_misses, delivered, last>>

NoCycle == -1
NoLine == -1
Ways(level) == 0 .. Assoc[level] - 1
Line(level, b) == b \div Span[level]
Index(level, b) == Line(level, b) % Sets[level]

Zeros == [level \in Levels |-> 0]

(* The constructor leaves pf_accesses and pf_misses uninitialised; they are *)
(* counted from zero here.                                                  *)
CacheInit ==
  /\ C = [level \in Levels |-> [i \in 0 .. Sets[level] - 1 |->
            [w \in Ways(level) |-> [line |-> NoLine, timestamp |-> 0, lru |-> w]]]]
  /\ accesses = Zeros /\ misses = Zeros
  /\ pf_accesses = Zeros /\ pf_misses = Zeros
  /\ delivered = [line \in {Line("L3", b) : b \in Blocks} |-> NoCycle]
  /\ last = NoLine

SetOf(level, b) == C[level][Index(level, b)]
WaysHolding(level, b) == {w \in Ways(level) : SetOf(level, b)[w].line = Line(level, b)}
Hits(level, b) == WaysHolding(level, b) # {}

(* On a miss the ways are scanned for the largest counter; the last of      *)
(* equals is taken.                                                         *)
Victim(set) == CHOOSE w \in DOMAIN set : \A x \in DOMAIN set :
                 set[x].lru < set[w].lru \/ (set[x].lru = set[w].lru /\ x <= w)

(* update_lru(): w becomes the most recently used way.                      *)
Touch(set, w) ==
  [x \in DOMAIN set |->
     [set[x] EXCEPT !.lru = IF x = w THEN 0
                            ELSE IF @ < set[w].lru THEN @ + 1 ELSE @]]

(* How far down its chain an access hits; one more than its length if it    *)
(* goes to memory.                                                          *)
HitDepth(chain, b) ==
  Min({k \in DOMAIN chain : Hits(chain[k], b)} \cup {Len(chain) + 1})

(* The cycle in which the first k levels have been searched.                *)
SearchedBy(chain, cycle, k) ==
  LET spent(j) == IF j <= k THEN Latency[chain[j]] ELSE 0
  IN  cycle + spent(1) + spent(2) + spent(3)

Later(a, b) == IF a > b THEN a ELSE b

(* When the data arrive: not before the fill that brings the block in.      *)
AvailUnmerged(chain, cycle, b) ==
  LET k == HitDepth(chain, b)
  IN  IF k > Len(chain)
      THEN SearchedBy(chain, cycle, Len(chain)) + MAIN_MEMORY_LATENCY
      ELSE SearchedBy(chain, cycle, k)
Avail(chain, cycle, b) ==
  LET k == HitDepth(chain, b)
  IN  IF k > Len(chain)
      THEN SearchedBy(chain, cycle, Len(chain)) + MAIN_MEMORY_LATENCY
      ELSE LET hit == CHOOSE w \in WaysHolding(chain[k], b) : TRUE
           IN  Later(SetOf(chain[k], b)[hit].timestamp, SearchedBy(chain, cycle, k))

(* What becomes of the set of b at a level that hits, or that is filled.    *)
AfterHitFIFO(level, b) == SetOf(level, b)
AfterHit(level, b) ==
  Touch(SetOf(level, b), CHOOSE w \in WaysHolding(level, b) : TRUE)
AfterFill(level, b, avail) ==
  LET v == Victim(SetOf(level, b))
  IN  Touch([SetOf(level, b) EXCEPT ![v].line = Line(level, b),
                                    ![v].timestamp = avail], v)

(* The levels of the chain that are searched, and those that miss.          *)
Prefix(chain, k) == {chain[j] : j \in {i \in DOMAIN chain : i <= k}}
Count(f, S) == [level \in Levels |-> f[level] + IF level \in S THEN 1 ELSE 0]

(* Whether an access that entered at one level counts as a prefetch at l.   *)
AsPrefetchAtEntry(l, entry, pf) == pf /\ l = entry
AsPrefetch(l, entry, pf) == pf

AccessFrom(level, cycle, b, pf) ==
  LET chain == Chain(level)
      depth == HitDepth(chain, b)
      found == Prefix(chain, depth)
      filled == Prefix(chain, depth - 1)
  IN  /\ C' = [l \in Levels |->
                 IF l \in filled
                 THEN [C[l] EXCEPT ![Index(l, b)] =
                         AfterFill(l, b, Avail(chain, cycle, b))]
                 ELSE IF l \in found
                 THEN [C[l] EXCEPT ![Index(l, b)] = AfterHit(l, b)]
                 ELSE C[l]]
      /\ accesses' = Count(accesses, {l \in found : ~AsPrefetch(l, level, pf)})
      /\ misses' = Count(misses, {l \in filled : ~AsPrefetch(l, level, pf)})
      /\ pf_accesses' = Count(pf_accesses, {l \in found : AsPrefetch(l, level, pf)})
      /\ pf_misses' = Count(pf_misses, {l \in filled : AsPrefetch(l, level, pf)})
      /\ delivered' =
           IF depth <= Len(chain) THEN delivered
           ELSE [delivered EXCEPT ![Line("L3", b)] =
                   IF @ = NoCycle \/ Avail(chain, cycle, b) < @
                   THEN Avail(chain, cycle, b) ELSE @]
      /\ last' = b

Room == accesses["IC"] + accesses["L1"] + pf_accesses["L1"] < MaxAccesses

(* Fetch, loads and stores access IC and L1 in cycles of their own, which   *)
(* need not come in order; prefetches access L1.                            *)
Fetch == Room /\ \E c \in AccessCycles, b \in Blocks :
  AccessFrom("IC", c, b, FALSE)
LoadOrStore == Room /\ \E c \in AccessCycles, b \in Blocks :
  AccessFrom("L1", c, b, FALSE)
Prefetch == Room /\ \E c \in AccessCycles, b \in Blocks :
  AccessFrom("L1", c, b, TRUE)

CacheNext == Fetch \/ LoadOrStore \/ Prefetch

CacheSpec == CacheInit /\ [][CacheNext]_CacheVars

-----------------------------------------------------------------------------
(* Properties.                                                              *)

(* Every miss of a level is an access of the next, for demand accesses and  *)
(* for prefetches: a prefetch stays one all the way down.                   *)
MissesGoDown ==
  /\ accesses["L2"] = misses["IC"] + misses["L1"]
  /\ accesses["L3"] = misses["L2"]
  /\ pf_accesses["L2"] = pf_misses["L1"]
  /\ pf_accesses["L3"] = pf_misses["L2"]

(* Nobody has the data before memory has delivered them, not even by way of *)
(* a copy made at another level while the fill is in flight.                *)
NoDataBeforeMemory ==
  \A level \in Levels : \A i \in DOMAIN C[level] : \A w \in Ways(level) :
    LET way == C[level][i][w]
    IN  way.line # NoLine =>
          way.timestamp >= delivered[(way.line * Span[level]) \div Span["L3"]]

(* Each set of each level keeps its blocks in the order of their last use:  *)
(* an access moves its block to the front, a miss replaces the block at the *)
(* end, and no other set changes.                                           *)
WayAt(set, n) == CHOOSE w \in DOMAIN set : set[w].lru = n
Recency(level, i) ==
  [k \in 1 .. Assoc[level] |-> C[level][i][WayAt(C[level][i], k - 1)].line]
LRU(level, i) == INSTANCE LRUSet WITH
  recent <- Recency(level, i), Size <- Assoc[level], Empty <- NoLine,
  Blocks <- {Line(level, b) : b \in Blocks}
Searched(level) ==
  \/ accesses'[level] # accesses[level]
  \/ pf_accesses'[level] # pf_accesses[level]
ReplacesLRU ==
  /\ \A level \in Levels : \A i \in 0 .. Sets[level] - 1 : LRU(level, i)!Init
  /\ [][ \A level \in Levels : \A i \in 0 .. Sets[level] - 1 :
            IF Searched(level) /\ i = Index(level, last')
            THEN LRU(level, i)!Use(Line(level, last'))
            ELSE UNCHANGED Recency(level, i) ]_CacheVars
=============================================================================
