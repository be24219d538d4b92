SPECIFICATION Spec
CONSTANTS
  t1 = t1  t2 = t2  a1 = a1  a2 = a2  v0 = v0  v1 = v1
  none = none  garbage = garbage
  Task = {t1, t2}
  Addr = {a1, a2}
  Val = {v0, v1}
  InitVal = v0
  NoTask = none
  Garbage = garbage
  InFile = TRUE
  InDram = TRUE
  Reversible = TRUE
  LogInFile = TRUE
  LogSize = 4
  Faults = {"logFails", "noWorkingMemory", "shortWrite", "reversalFails"}
  CrashKinds = {"power"}
  BootTools = {"ionInitialize"}
  MaxDepth = 2
  MaxCrashes = 1
SYMMETRY TaskSymmetry
VIEW NoVerdict
INVARIANTS TypeOK Exclusive AtomicAtRest
CHECK_DEADLOCK FALSE
