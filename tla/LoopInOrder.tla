---------------------------- MODULE LoopInOrder ----------------------------
(***************************************************************************)
(* The loop predictor as CBP2016 had it (comment in cbp2016_tage_sc_l.h:   *)
(* "The CBP Tage predicted and updated the predictor right away"): each    *)
(* branch updates the table with its direction before the next one looks.  *)
(***************************************************************************)
EXTENDS LoopTable

VARIABLES ltable, WITHLOOP

vars == <<ltable, WITHLOOP>>

Init == ltable = EmptyTable /\ WITHLOOP = -1

Branch(pc, taken, pred, choice) ==
  LET look == getloop(ltable, pc)
  IN  /\ ltable' = loopupdate(ltable, look, pc, taken, pred # taken, choice)
      /\ WITHLOOP' = Trust(WITHLOOP, look, pred, look.predloop = taken)

Next == \E pc \in PCs, taken, pred \in BOOLEAN, choice \in Choices :
          Branch(pc, taken, pred, choice)

Spec == Init /\ [][Next]_vars
=============================================================================
