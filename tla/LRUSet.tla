------------------------------- MODULE LRUSet -------------------------------
(***************************************************************************)
(* What least-recently-used replacement promises: Size places for blocks,  *)
(* most recently used first, empty ones last.  A use moves its block to the*)
(* front; a new block takes the last place, and what was there is gone.    *)
(* The cache's sets and the prefetcher's table implement it with per-way   *)
(* counters.                                                               *)
(***************************************************************************)
EXTENDS Integers

CONSTANTS Blocks, Size, Empty

VARIABLE recent

Init == recent = [k \in 1 .. Size |-> Empty]

(* b goes from place p to the front, and what was before it one place back. *)
ToFront(b, p) ==
  [k \in 1 .. Size |-> IF k = 1 THEN b
                       ELSE IF k <= p THEN recent[k - 1] ELSE recent[k]]

Use(b) ==
  \E p \in 1 .. Size :
    /\ recent[p] = b \/ (p = Size /\ \A k \in 1 .. Size : recent[k] # b)
    /\ recent' = ToFront(b, p)

Next == \E b \in Blocks : Use(b)

Spec == Init /\ [][Next]_recent
=============================================================================
