------------------------------- MODULE MCCache -------------------------------
(* A small hierarchy: evictions at every level, an I-cache of two sets, and *)
(* L3 blocks twice as long as the others.                                   *)
EXTENDS Cache

Each(ic, l1, l2, l3) ==
  [level \in Levels |-> CASE level = "IC" -> ic [] level = "L1" -> l1
                          [] level = "L2" -> l2 [] level = "L3" -> l3]
MCSpan == Each(1, 1, 1, 2)
MCSets == Each(2, 1, 1, 1)
MCAssoc == Each(1, 2, 2, 1)
MCLatency == Each(0, 1, 2, 3)
=============================================================================
