----------------------------- MODULE MCCorrector -----------------------------
(* A backward conditional branch among an indirect and a direct one; two    *)
(* bias tables and a table of the global history.                           *)
EXTENDS Corrector

MCStatics == {[pc |-> 0, kind |-> "cond", backward |-> TRUE],
              [pc |-> 1, kind |-> "cond", backward |-> FALSE],
              [pc |-> 6, kind |-> "indirect", backward |-> FALSE]}
MCNBR == [g \in GroupNames |-> IF g \in {"B", "G", "IM"} THEN 1 ELSE 0]
MCLengths == [g \in GroupNames |-> [i \in 1 .. 3 |-> IF g = "G" THEN 1 ELSE 0]]
MCLookups == [conf : {"medium", "high"}, differ : {FALSE}, bank : {0},
              pred_inter : BOOLEAN]
=============================================================================
