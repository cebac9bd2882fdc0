CONSTANTS
  Packages = {p}
  BuiltIn = {}
  Apps = {a}
  SlowStart = {}
  Tasks = {t1, t2}
  Shipped = Shipped
  Base = Base
  NoDir = NoDir
  None = None
  Faults = {"unpack", "mkdir", "report", "rename"}
  MaxCrashes = 1
  Owner <- MCOwner
SYMMETRY TaskSymmetry
SPECIFICATION Spec
INVARIANTS
  KeptDocumentsStay
CHECK_DEADLOCK FALSE
