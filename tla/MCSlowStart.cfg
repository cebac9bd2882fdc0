CONSTANTS
  Packages = {p}
  BuiltIn = {}
  Apps = {a}
  SlowStart = {a}
  Tasks = {t1, t2}
  Shipped = Shipped
  Base = Base
  NoDir = NoDir
  None = None
  Faults = {"unpack", "mkdir", "report", "rename"}
  MaxCrashes = 0
  Owner <- MCOwner
SYMMETRY TaskSymmetry
SPECIFICATION Spec
INVARIANTS
  StoppedWhileFilesChange
CHECK_DEADLOCK FALSE
