-------------------------- MODULE MCLoopPredictor --------------------------
(* Two branches that compete for one entry: one that goes both ways, with   *)
(* loops of any count, and one that is always taken.                        *)
EXTENDS LoopPredictor

MCIndex == [pc \in PCs |-> [w \in Ways |-> w]]
MCTag == [pc \in PCs |-> pc]
MCOutcomes == [pc \in PCs |-> IF pc = 1 THEN BOOLEAN ELSE {TRUE}]
=============================================================================
