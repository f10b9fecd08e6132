-------------------------- MODULE ResourceSchedule --------------------------
(***************************************************************************)
(* resource_schedule (lib/resource_schedule.cc): the bookings of a pool of *)
(* execution lanes, kept as a ring of counters that is indexed by          *)
(* MOD_S(cycle, depth) and grows when a request lies "depth" or more       *)
(* cycles after base_cycle.                                                *)
(*                                                                         *)
(* resize() copies the counters slot by slot: they are not moved to the    *)
(* slots their cycles have in the larger ring, and MOD_S masks with        *)
(* depth - 1 also when depth is not a power of two.  MaxDepth bounds the   *)
(* growth: with MaxDepth = SCHED_DEPTH_INCREMENT the ring never grows and  *)
(* implements Lanes; with more it does not (see the run lanes_resize).     *)
(***************************************************************************)
EXTENDS Integers

CONSTANTS
  SCHED_DEPTH_INCREMENT,
  width,
  MaxCycle,   \* bound: the last cycle considered
  MaxDepth,   \* bound: the largest ring considered
  MOD_S(_, _) \* the mask, MOD_S(x, y) = x & (y - 1)

(* The initial depth is a power of two, for which the mask is the remainder.*)
ASSUME RingAssumption ==
  /\ {SCHED_DEPTH_INCREMENT, width, MaxCycle, MaxDepth} \subseteq Nat \ {0}
  /\ SCHED_DEPTH_INCREMENT <= MaxDepth
  /\ \A c \in 0 .. MaxCycle :
       MOD_S(c, SCHED_DEPTH_INCREMENT) = c % SCHED_DEPTH_INCREMENT

VARIABLES
  base_cycle, depth, sched,
  answer,     \* what the last request returned
  granted     \* ghost: how many requests were given each cycle from base_cycle

vars == <<base_cycle, depth, sched, answer, granted>>

Cycles == 0 .. MaxCycle
MAX_CYCLE == MaxCycle + 1

Init ==
  /\ base_cycle = 0
  /\ depth = SCHED_DEPTH_INCREMENT
  /\ sched = [i \in 0 .. SCHED_DEPTH_INCREMENT - 1 |-> 0]
  /\ answer = MAX_CYCLE
  /\ granted = [c \in Cycles |-> 0]

(* The ring as the search finds it when it has come to cycle c: each cycle  *)
(* that lies outside the ring makes it grow, and nothing else changes.      *)
DepthAt(c) ==
  LET need == c - base_cycle + 1
      increments == (need + SCHED_DEPTH_INCREMENT - 1) \div SCHED_DEPTH_INCREMENT
  IN  IF need > depth THEN increments * SCHED_DEPTH_INCREMENT ELSE depth
RingAt(c) ==
  [i \in 0 .. DepthAt(c) - 1 |-> IF i < depth THEN sched[i] ELSE 0]
SlotAt(c) == MOD_S(c, DepthAt(c))
FreeAt(c) == RingAt(c)[SlotAt(c)] < width

(* The first cycle from start on whose slot has room.                       *)
FirstFree(start, c) ==
  c \in start .. MaxCycle /\ FreeAt(c) /\ \A d \in start .. c - 1 : ~FreeAt(d)

Grow(c) == depth' = DepthAt(c) /\ DepthAt(c) <= MaxDepth

Book(c) ==
  /\ Grow(c)
  /\ sched' = [RingAt(c) EXCEPT ![SlotAt(c)] = @ + 1]
  /\ granted' = [granted EXCEPT ![c] = @ + 1]
  /\ answer' = c
  /\ UNCHANGED base_cycle

(* schedule(start): a demand request takes the first free cycle.            *)
Schedule == \E start \in base_cycle .. MaxCycle, c \in Cycles :
  FirstFree(start, c) /\ Book(c)

(* schedule(start, 0): a prefetch takes the cycle start or none.            *)
SchedulePrefetch == \E start \in base_cycle .. MaxCycle :
  \/ FreeAt(start) /\ Book(start)
  \/ /\ ~FreeAt(start)
     /\ Grow(start) /\ sched' = RingAt(start)
     /\ answer' = MAX_CYCLE
     /\ UNCHANGED <<base_cycle, granted>>

(* try_schedule(): asks without booking, but may grow the ring.             *)
TrySchedule == \E start \in base_cycle .. MaxCycle, c \in Cycles :
  /\ FirstFree(start, c)
  /\ Grow(c) /\ sched' = RingAt(c)
  /\ answer' = c
  /\ UNCHANGED <<base_cycle, granted>>

(* advance_base_cycle(): clears the slots of the cycles it leaves behind.   *)
ClearedLate(b) == {MOD_S(c, depth) : c \in base_cycle + 1 .. b}
Cleared(b) == {MOD_S(c, depth) : c \in base_cycle .. b - 1}

AdvanceBaseCycle == \E b \in base_cycle .. MaxCycle :
  /\ base_cycle' = b
  /\ sched' = [i \in 0 .. depth - 1 |-> IF i \in Cleared(b) THEN 0 ELSE sched[i]]
  /\ granted' = [c \in Cycles |-> IF c < b THEN 0 ELSE granted[c]]
  /\ UNCHANGED <<depth, answer>>

Next == Schedule \/ SchedulePrefetch \/ TrySchedule \/ AdvanceBaseCycle

Spec == Init /\ [][Next]_vars

-----------------------------------------------------------------------------
(* Properties.                                                              *)

(* No more uops start in a cycle than there are lanes (uarchsim.h:118:      *)
(* "finite execution lanes").                                               *)
LanesFinite == \A c \in Cycles : granted[c] <= width

(* As long as it does not grow, the ring is a faithful timeline: every      *)
(* request is answered as Lanes answers it.                                 *)
Timeline == INSTANCE Lanes WITH
  booked <- [c \in Cycles |->
               IF base_cycle <= c /\ c < base_cycle + depth
               THEN sched[MOD_S(c, depth)] ELSE 0]
ImplementsLanes == Timeline!Spec
=============================================================================
