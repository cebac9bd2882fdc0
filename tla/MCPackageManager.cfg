CONSTANTS
  Packages = {p}
  BuiltIn = {}
  Apps = {a}
  SlowStart = {}
  Tasks = {t1, t2, t3}
  Shipped = Shipped
  Base = Base
  NoDir = NoDir
  None = None
  Faults = {"unpack", "mkdir", "report", "rename", "remove", "undo"}
  MaxCrashes = 0
  Owner <- MCOwner
SYMMETRY TaskSymmetry
SPECIFICATION Spec
INVARIANTS
  TypeOK
  BlockedByItsTask
  ApplicationDirIsWhole
  UnpackDirHasOneOwner
  StoppedWhileFilesChange
  DatabaseMatchesDisk
  FailedInstallationLeavesNothing
  LiveTasksAreListedOnce
CHECK_DEADLOCK FALSE
