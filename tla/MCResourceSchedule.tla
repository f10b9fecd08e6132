------------------------- MODULE MCResourceSchedule -------------------------
(* The mask of resource_schedule.h, for instances of ResourceSchedule.      *)
EXTENDS ResourceSchedule, Bitwise

MCMOD_S(x, y) == x & (y - 1)
=============================================================================
