CONSTANTS
  Packages = {p, b}
  BuiltIn = {b}
  Apps = {a}
  SlowStart = {a}
  Tasks = {t1, t2}
  Shipped = Shipped
  Base = Base
  NoDir = NoDir
  None = None
  Faults = {"unpack", "mkdir", "report", "rename", "remove"}
  MaxCrashes = 2
  Owner <- MCOwner
SYMMETRY TaskSymmetry
SPECIFICATION Spec
INVARIANTS
  ApplicationDirIsWhole
  DatabaseMatchesDisk
PROPERTIES
  ImplementsPackageStore
CHECK_DEADLOCK FALSE
