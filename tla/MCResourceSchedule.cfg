SPECIFICATION Spec
CONSTANTS
  MOD_S <- MCMOD_S
  SCHED_DEPTH_INCREMENT = 4
  width = 2
  MaxCycle = 9
  MaxDepth = 4
PROPERTY ImplementsLanes
