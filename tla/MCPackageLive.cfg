CONSTANTS
  Packages = {p, q}
  BuiltIn = {}
  Apps = {a}
  SlowStart = {}
  Tasks = {t1, t2}
  Shipped = Shipped
  Base = Base
  NoDir = NoDir
  None = None
  Faults = {"rename", "remove", "undo"}
  MaxCrashes = 0
  Owner <- MCOwner
SPECIFICATION FairSpec
INVARIANTS
  InstalledPackagesHaveDocuments
PROPERTIES
  TasksEnd
CHECK_DEADLOCK FALSE
