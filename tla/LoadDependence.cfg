SPECIFICATION Spec
CONSTANTS
  Regs = {r1, r2, r3}
  RFFLAGS = flags
  LoadSources = {{r1}, {r2}, {r3}, {r1, r2}}
  BranchSources = {{}, {flags}, {r1}, {r2, r3}}
  WINDOW_SIZE = 4
  LOAD_DEPENDENT_BRANCHES = TRUE
  None = None
INVARIANTS FlagsInFlight DependenciesCurrent
PROPERTY NeverOvercounts
