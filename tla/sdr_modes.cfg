SPECIFICATION ModesSpec
CONSTANTS
  t1 = t1  t2 = t2  a1 = a1  a2 = a2  v0 = v0  v1 = v1
  none = none  garbage = garbage
  Task = {t1, t2}
  Addr = {a1}
  Val = {v0, v1}
  InitVal = v0
  NoTask = none
  Garbage = garbage
  InFile = TRUE
  InDram = TRUE
  Reversible = TRUE
  LogInFile = TRUE
  LogSize = 2
  Faults = {"writeError", "recoveryFails"}
  CrashKinds = {"power", "kill"}
  BootTools = {"ionInitialize", "sdrmend"}
  MaxDepth = 1
  MaxCrashes = 2
INVARIANTS ModesAtomicAtRest MemLogEndReportsFailure RestartExclusive
PROPERTIES RestartRecoveryCompletes
CHECK_DEADLOCK FALSE
