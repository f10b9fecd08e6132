----------------------------- MODULE MCPipeline -----------------------------
(* Instances of Pipeline for TLC.                                           *)
EXTENDS Pipeline

Op(class, taken, last) ==
  [class |-> class, is_taken |-> taken, last |-> last, gap |-> taken]

(* One uop of each class, an instruction of two pieces, and both outcomes   *)
(* of a conditional branch.                                                 *)
AllOps == {Op("alu", FALSE, TRUE), Op("alu", FALSE, FALSE),
           Op("load", FALSE, TRUE), Op("store", FALSE, TRUE),
           Op("cond", TRUE, TRUE), Op("cond", FALSE, TRUE),
           Op("direct", TRUE, TRUE), Op("indirect", TRUE, TRUE)}
=============================================================================
