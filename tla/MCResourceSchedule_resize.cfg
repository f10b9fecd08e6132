SPECIFICATION Spec
CONSTANTS
  MOD_S <- MCMOD_S
  SCHED_DEPTH_INCREMENT = 4
  width = 1
  MaxCycle = 9
  MaxDepth = 8
INVARIANT LanesFinite
