------------------------- MODULE PackageTaskProofs -------------------------
(***************************************************************************)
(* What becomes of an installation, of the documents of a package and of   *)
(* its running applications: three more invariants on top of Inv,          *)
(* UnpackInv and DatabaseInv.  VersionInv: what is installed or listed has *)
(* been brought there by a task that succeeded.  DocumentInv: an installed *)
(* package has its documents, also if what a task has renamed is renamed   *)
(* back.  StopInv: an application that runs while its package is in the    *)
(* hands of a task is one the package still waits for.                     *)
(***************************************************************************)
EXTENDS PackageDiskProofs

(* a task that got past the point of no return *)
Succeeded(t) == task[t].state \in {"CleaningUp", "Finished", "Lost"}

StateFits(t) ==
    /\ Succeeded(t) => task[t].pc \in {"removeBackup", "askFinish", "end", "finished", "gone"}
    /\ Install(t) /\ task[t].pc \in {"removeBackup", "askFinish"} => Succeeded(t)

DirVersionFits(dir) == Exists(dir) /\ dir.ver \in Tasks => Succeeded(dir.ver)

ListedVersionFits(p) ==
    pkg[p].ver \in Tasks =>
        Succeeded(pkg[p].ver) \/ (Holds(pkg[p].ver, p) /\ pkg[p].state = "BeingInstalled")

VersionInv ==
    /\ \A t \in Tasks : StateFits(t)
    /\ \A p \in Packages :
          DirVersionFits(disk[p].app) /\ DirVersionFits(disk[p].minus) /\ ListedVersionFits(p)

-----------------------------------------------------------------------------
(* VersionInv *)

LEMMA WorkerState ==
    ASSUME Inv, VersionInv, NEW t \in Tasks, WorkerStep(t)
    PROVE  StateFits(t)' /\ (Succeeded(t) => Succeeded(t)')
<1>1. StateFits(t) /\ task'[t].kind = task[t].kind BY DEF VersionInv, WorkerStep, WorkerFrame
<1> USE <1>1 DEF StateFits, Succeeded, Install, Goes, KeepsState
<1>2. CASE Refused(t) BY <1>2 DEF Refused
<1>3. CASE Aborted(t) BY <1>3 DEF Aborted
<1>4. CASE GoesOn(t) BY <1>4 DEF GoesOn
<1>5. CASE StartsUnpacking(t) \/ EndsUnpacking(t) \/ WritesReport(t)
  BY <1>5 DEF StartsUnpacking, EndsUnpacking, WritesReport
<1>6. CASE CreatesDocuments(t) \/ BacksUp(t) \/ RenamesNewVersion(t) \/ RemovesBackup(t)
  BY <1>6 DEF CreatesDocuments, BacksUp, RenamesNewVersion, RemovesBackup
<1>7. CASE RenamesDocuments(t) \/ RenamesApplication(t) \/ RemovesOldVersion(t)
  BY <1>7 DEF RenamesDocuments, RenamesApplication, RemovesOldVersion
<1> QED BY <1>2, <1>3, <1>4, <1>5, <1>6, <1>7 DEF WorkerStep, Transition

LEMMA SlotState ==
    ASSUME Inv, VersionInv, NEW t \in Tasks, SlotStep(t)
    PROVE  StateFits(t)' /\ (Succeeded(t) => Succeeded(t)')
<1>1. StateFits(t) /\ task'[t].kind = task[t].kind BY DEF VersionInv, SlotStep, SlotFrame
<1> USE <1>1 DEF StateFits, Succeeded, Install, Goes, KeepsState
<1>2. CASE Begins(t) \/ Leaves(t) \/ Ends(t) \/ Answers(t)
  BY <1>2 DEF Begins, Leaves, Ends, Answers
<1>3. CASE Installs(t) \/ Updates(t) \/ Removes(t)
  BY <1>3 DEF Installs, Updates, Removes, Approves
<1>4. CASE Completes(t) \/ Withdraws(t)
  BY <1>4 DEF Completes, Withdraws
<1> QED BY <1>2, <1>3, <1>4 DEF SlotStep

(* a directory that is there after the step is one that was there before, as <id> or as
   <id>-, or what is left of it, or it has just been renamed from <id>+ by a task that
   thereby succeeds *)
FromBefore(t, dir) ==
    Exists(dir) =>
        \/ \E old \in {Dirs(t).app, Dirs(t).minus} : Exists(old) /\ dir.ver = old.ver
        \/ dir.ver = t /\ Succeeded(t)'

LEMMA WorkerFromBefore ==
    ASSUME Inv, UnpackInv, NEW t \in Tasks, WorkerStep(t)
    PROVE  FromBefore(t, disk'[PkgOf(t)].app) /\ FromBefore(t, disk'[PkgOf(t)].minus)
<1>1. Dirs(t) \in PackageDirs /\ TypeOK BY DirsOf DEF Inv
<1>16. /\ Dirs(t).minus \in Dir
       /\ \A dir : dir = NoDir \/ IsLeftOf(dir, Dirs(t).minus) => FromBefore(t, dir)
       /\ \A dir \in {Dirs(t).app, Dirs(t).minus} : FromBefore(t, dir)
  BY <1>1 DEF FromBefore, Exists, IsLeftOf, PackageDirs
<1> USE <1>1, <1>16
<1>2. CASE OnlyPlus(t) BY <1>2 DEF OnlyPlus
<1>3. CASE KeepsDirs(t) BY <1>3 DEF KeepsDirs
<1>4. CASE \E plus : disk'[PkgOf(t)] = [Dirs(t) EXCEPT !.plus = plus]
  <2>1. PICK plus : disk'[PkgOf(t)] = [Dirs(t) EXCEPT !.plus = plus] BY <1>4
  <2> QED BY <2>1, PlusFields
<1>5. CASE Aborted(t)
  <2>1. ASSUME NEW undone \in Undone(t), disk'[PkgOf(t)] = RolledBack(t, undone)
        PROVE  FromBefore(t, disk'[PkgOf(t)].app) /\ FromBefore(t, disk'[PkgOf(t)].minus)
    BY <2>1, RolledBackFields
  <2>2. ASSUME NEW left \in TargetOfFailedRename(Dirs(t).app, Dirs(t).minus)
        PROVE  FromBefore(t, left)
    BY FailedTarget
  <2>3. ASSUME NEW left \in TargetOfFailedRename(Dirs(t).app, Dirs(t).minus),
               disk'[PkgOf(t)] = [Dirs(t) EXCEPT !.minus = left]
        PROVE  FromBefore(t, disk'[PkgOf(t)].app) /\ FromBefore(t, disk'[PkgOf(t)].minus)
    BY <2>2, <2>3, MinusFields
  <2>4. ASSUME NEW left \in TargetOfFailedRename(Dirs(t).app, Dirs(t).minus), NEW undone \in Undone(t),
               disk'[PkgOf(t)] = [RolledBack(t, undone) EXCEPT !.minus = left]
        PROVE  FromBefore(t, disk'[PkgOf(t)].app) /\ FromBefore(t, disk'[PkgOf(t)].minus)
    <3>1. /\ RolledBack(t, undone) \in PackageDirs
          /\ RolledBack(t, undone).app \in {Dirs(t).app, Dirs(t).minus}
      BY RolledBackFields
    <3>2. disk'[PkgOf(t)].app = RolledBack(t, undone).app /\ disk'[PkgOf(t)].minus = left
      BY <2>4, <3>1, MinusFields
    <3> QED BY <2>2, <3>1, <3>2
  <2>5. CASE disk'[PkgOf(t)] = [Dirs(t) EXCEPT !.docMinus = FALSE]
    BY <2>5 DEF PackageDirs
  <2> QED BY <1>3, <1>5, <2>1, <2>3, <2>4, <2>5 DEF Aborted
<1>6. CASE CreatesDocuments(t) BY <1>6, DirsFields DEF CreatesDocuments
<1>7. CASE BacksUp(t) \/ RenamesApplication(t) BY <1>7, DirsFields DEF BacksUp, RenamesApplication
<1>8. CASE RenamesNewVersion(t)
  <2>1. task[t].pc = "rename" BY <1>8 DEF RenamesNewVersion, Goes
  <2>2. "unpackDir" \in task[t].scoped BY <2>1 DEF UnpackInv, ScopedFits, Unpacking, Unpacked, Reported
  <2>3. Dirs(t).plus.ver = t BY <2>2 DEF UnpackInv, UnpackFits, Dirs
  <2> QED BY <1>8, <2>3, DirsFields DEF RenamesNewVersion, Succeeded, FromBefore
<1>9. CASE RemovesBackup(t)
  <2>1. PICK left \in Removed(Dirs(t).minus) : disk'[PkgOf(t)] = [Dirs(t) EXCEPT !.minus = left]
    BY <1>9 DEF RemovesBackup
  <2>2. FromBefore(t, left) BY RemovedFields
  <2> QED BY <2>1, <2>2, MinusFields
<1>10. CASE RenamesDocuments(t) BY <1>10, DirsFields DEF RenamesDocuments
<1>11. CASE RemovesOldVersion(t)
  <2>1. PICK left \in Removed(Dirs(t).minus), stay \in BOOLEAN :
           disk'[PkgOf(t)] = [Dirs(t) EXCEPT !.minus = left, !.docMinus = @ /\ stay]
    BY <1>11 DEF RemovesOldVersion
  <2>2. FromBefore(t, left) BY RemovedFields
  <2>3. disk'[PkgOf(t)].app = Dirs(t).app /\ disk'[PkgOf(t)].minus = left BY <2>1 DEF PackageDirs
  <2> QED BY <2>2, <2>3
<1>12. CASE Refused(t) \/ GoesOn(t) BY <1>3, <1>4, <1>12 DEF Refused, GoesOn
<1>13. CASE StartsUnpacking(t) BY <1>4, <1>13 DEF StartsUnpacking
<1>14. CASE EndsUnpacking(t)
  <2>1. OnlyPlus(t) BY <1>14, PlusFields DEF EndsUnpacking, OnlyPlus
  <2> QED BY <1>2, <2>1
<1>15. CASE WritesReport(t) BY <1>4, <1>15 DEF WritesReport
<1> QED BY <1>5, <1>6, <1>7, <1>8, <1>9, <1>10, <1>11, <1>12, <1>13, <1>14, <1>15
        DEF WorkerStep, Transition

(* a step of one task keeps VersionInv if it keeps what the list says *)
LEMMA VersionKept ==
    ASSUME Inv, VersionInv, NEW t \in Tasks, TaskFrame(t), StateFits(t)', Succeeded(t) => Succeeded(t)',
           FromBefore(t, disk'[PkgOf(t)].app), FromBefore(t, disk'[PkgOf(t)].minus),
           \A q \in Packages : ListedVersionFits(q)'
    PROVE  VersionInv'
<1>1. \A u \in Tasks : StateFits(u)' /\ (Succeeded(u) => Succeeded(u)')
  BY DEF VersionInv, TaskFrame, StateFits, Succeeded, Install
<1>2. ASSUME NEW q \in Packages PROVE DirVersionFits(disk[q].app)' /\ DirVersionFits(disk[q].minus)'
  <2>1. CASE q # PkgOf(t) BY <1>1, <2>1 DEF VersionInv, TaskFrame, DirVersionFits
  <2>2. CASE q = PkgOf(t)
    <3>1. DirVersionFits(Dirs(t).app) /\ DirVersionFits(Dirs(t).minus)
      BY <2>2 DEF VersionInv, Dirs
    <3> QED BY <1>1, <2>2, <3>1 DEF FromBefore, DirVersionFits, Exists
  <2> QED BY <2>1, <2>2
<1> QED BY <1>1, <1>2 DEF VersionInv

(* the list of a package whose entry does not change, and which no task takes or returns *)
LEMMA ListedKept ==
    ASSUME Inv, VersionInv, NEW t \in Tasks, TaskFrame(t), Succeeded(t) => Succeeded(t)',
           NEW q \in Packages, pkg'[q] = pkg[q],
           q = PkgOf(t) => (task[t].pc \in Holding <=> task'[t].pc \in Holding)
    PROVE  ListedVersionFits(q)'
<1> DEFINE v == pkg[q].ver
<1>1. v \in Tasks => Succeeded(v) \/ (Holds(v, q) /\ pkg[q].state = "BeingInstalled")
  BY DEF VersionInv, ListedVersionFits
<1>2. v \in Tasks => Succeeded(v)' \/ (Holds(v, q)' /\ pkg[q].state = "BeingInstalled")
  <2>1. CASE v = t
    BY <1>1, <2>1 DEF Succeeded, Holds, PkgOf, TaskFrame
  <2>2. CASE v \in Tasks \ {t}
    <3>1. task'[v] = task[v] BY <2>2 DEF TaskFrame
    <3> QED BY <1>1, <3>1 DEF Succeeded, Holds, PkgOf
  <2> QED BY <2>1, <2>2
<1> QED BY <1>2 DEF ListedVersionFits, Succeeded, Holds

LEMMA WorkerVersion ==
    ASSUME Inv, UnpackInv, VersionInv, NEW t \in Tasks, WorkerStep(t)
    PROVE  VersionInv'
<1>1. UNCHANGED pkg BY DEF WorkerStep, WorkerFrame
<1>2. TaskFrame(t) /\ StateFits(t)' /\ (Succeeded(t) => Succeeded(t)')
  BY StepsKeepFrame, WorkerState
<1>3. \A q \in Packages : ListedVersionFits(q)' BY <1>1, <1>2, WorkerHolding, ListedKept
<1> QED BY <1>2, <1>3, WorkerFromBefore, VersionKept

LEMMA SlotOnlyPlus ==
    ASSUME Inv, NEW t \in Tasks, SlotStep(t)
    PROVE  OnlyPlus(t)
<1>1. ASSUME KeepsDirs(t) PROVE OnlyPlus(t) BY <1>1 DEF OnlyPlus, KeepsDirs
<1>2. ASSUME NEW left, disk'[PkgOf(t)] = [Dirs(t) EXCEPT !.plus = left] PROVE OnlyPlus(t)
  BY <1>2, DirsOf, PlusFields DEF OnlyPlus, Inv
<1> QED BY <1>1, <1>2 DEF SlotStep, Begins, Leaves, Ends, Answers, Installs, Updates, Removes, Approves,
        Completes, Withdraws

LEMMA SlotListed ==
    ASSUME Inv, DatabaseInv, VersionInv, NEW t \in Tasks, SlotStep(t)
    PROVE  ListedVersionFits(PkgOf(t))'
<1> DEFINE p == PkgOf(t)
<1>1. TaskFrame(t) /\ StateFits(t)' /\ (Succeeded(t) => Succeeded(t)')
  BY StepsKeepFrame, SlotState
<1>2. p \in Packages /\ p' = p BY <1>1, TypedFields DEF Inv, PkgOf, TaskFrame
<1>3. StateFits(t) /\ ListedVersionFits(p) BY <1>2 DEF VersionInv
<1>4. Base \notin Tasks /\ None \notin Tasks /\ Absent.ver = None
  BY ConstantsAssumption DEF Absent
<1>5. CASE Begins(t) \/ Leaves(t) \/ Ends(t) \/ Answers(t)
  <2>1. task[t].pc \notin Holding /\ task'[t].pc \notin Holding /\ UNCHANGED pkg
    BY <1>5 DEF Begins, Leaves, Ends, Answers, Goes, KeepsList, Holding, Finishing
  <2> QED BY <1>1, <1>2, <2>1, ListedKept
<1>6. CASE Installs(t)
  BY <1>2, <1>6 DEF Installs, Approves, Goes, ListedVersionFits, Holds, Holding, PkgOf
<1>7. ASSUME pkg'[p].ver \in Tasks => Succeeded(pkg[p].ver), pkg'[p].ver = pkg[p].ver
      PROVE  ListedVersionFits(p)'
  <2>1. pkg[p].ver \in Tasks => Succeeded(pkg[p].ver)' BY <1>1, <1>2, <1>7 DEF TaskFrame, Succeeded
  <2> QED BY <1>2, <1>7, <2>1 DEF ListedVersionFits, Succeeded
<1>8. CASE Updates(t) \/ Removes(t)
  <2>1. ~InHand(p) /\ pkg'[p].ver = pkg[p].ver BY <1>8 DEF Updates, Removes, Approves, Stopping
  <2> QED BY <1>3, <1>7, <2>1 DEF ListedVersionFits, InHand
<1>9. CASE Completes(t)
  <2>1. task[t].pc = "askFinish" /\ task'[t].state = task[t].state
    BY <1>9 DEF Completes, Goes, KeepsState
  <2>2. ListFits(t) BY <2>1 DEF DatabaseInv, HolderFits, Holding
  <2>3. Install(t) => Succeeded(t)' BY <1>3, <2>1 DEF StateFits, Succeeded
  <2>4. pkg'[p].ver \in {None, Base} \/ (Install(t) /\ pkg'[p].ver = t)
    BY <1>4, <1>9, <2>2 DEF Completes, ListFits
  <2>5. pkg'[p].ver \in Tasks => Install(t) /\ pkg'[p].ver = t BY <1>4, <2>4
  <2> QED BY <1>2, <2>3, <2>5 DEF ListedVersionFits, Succeeded
<1>10. CASE Withdraws(t)
  <2>1. CASE pkg[p].state = "BeingInstalled"
    <3>1. pkg'[p].ver \notin Tasks BY <1>4, <1>10, <2>1 DEF Withdraws
    <3> QED BY <1>2, <3>1 DEF ListedVersionFits
  <2>2. CASE pkg[p].state # "BeingInstalled"
    <3>1. pkg'[p].ver = pkg[p].ver BY <1>10, <2>2 DEF Withdraws
    <3> QED BY <1>3, <1>7, <2>2, <3>1 DEF ListedVersionFits
  <2> QED BY <2>1, <2>2
<1> QED BY <1>5, <1>6, <1>8, <1>9, <1>10 DEF SlotStep

LEMMA SlotVersion ==
    ASSUME Inv, DatabaseInv, VersionInv, NEW t \in Tasks, SlotStep(t)
    PROVE  VersionInv'
<1>1. TaskFrame(t) /\ StateFits(t)' /\ (Succeeded(t) => Succeeded(t)')
  BY StepsKeepFrame, SlotState
<1>2. FromBefore(t, disk'[PkgOf(t)].app) /\ FromBefore(t, disk'[PkgOf(t)].minus)
  <2>1. OnlyPlus(t) BY SlotOnlyPlus
  <2>2. \A dir \in {Dirs(t).app, Dirs(t).minus} : FromBefore(t, dir) BY DEF FromBefore
  <2> QED BY <2>1, <2>2 DEF OnlyPlus
<1>3. ASSUME NEW q \in Packages PROVE ListedVersionFits(q)'
  <2>1. CASE q = PkgOf(t)
    <3>1. q = PkgOf(t)' BY <1>1, <2>1 DEF PkgOf, TaskFrame
    <3> QED BY <2>1, <3>1, SlotListed DEF ListedVersionFits
  <2>2. CASE q # PkgOf(t)
    <3>1. pkg'[q] = pkg[q] BY <2>2 DEF SlotStep, SlotFrame
    <3> QED BY <1>1, <2>2, <3>1, ListedKept
  <2> QED BY <2>1, <2>2
<1> QED BY <1>1, <1>2, <1>3, VersionKept

(* a step that changes no directory, and neither the state nor the label of a task *)
LEMMA SameVersion ==
    ASSUME VersionInv, UNCHANGED disk,
           \A u \in Tasks : StateFits(u)' /\ (Succeeded(u) => Succeeded(u)'),
           \A u \in Tasks, q \in Packages : Holds(u, q) => Holds(u, q)',
           \A q \in Packages : pkg'[q].ver = pkg[q].ver /\ pkg'[q].state = pkg[q].state
    PROVE  VersionInv'
<1>1. \A q \in Packages : DirVersionFits(disk[q].app)' /\ DirVersionFits(disk[q].minus)'
  BY DEF VersionInv, DirVersionFits
<1>2. ASSUME NEW q \in Packages PROVE ListedVersionFits(q)'
  <2> DEFINE v == pkg[q].ver
  <2>1. pkg'[q].ver = v /\ pkg'[q].state = pkg[q].state OBVIOUS
  <2>2. v \in Tasks => Succeeded(v) \/ (Holds(v, q) /\ pkg[q].state = "BeingInstalled")
    BY DEF VersionInv, ListedVersionFits
  <2>3. v \in Tasks => Succeeded(v)' \/ (Holds(v, q)' /\ pkg[q].state = "BeingInstalled")
    BY <2>2
  <2> QED BY <2>1, <2>3 DEF ListedVersionFits, Succeeded, Holds
<1> QED BY <1>1, <1>2 DEF VersionInv

LEMMA EnqueuesVersion ==
    ASSUME Inv, VersionInv, NEW t \in Tasks, Enqueues(t)
    PROVE  VersionInv'
<1>1. UNCHANGED <<pkg, disk>> /\ task'[t].pc = "queued" /\ task'[t].state = "Queued"
      /\ task[t].pc = "unused" /\ \A u \in Tasks \ {t} : task'[u] = task[u]
  BY DEF Enqueues, Goes
<1>2. ~Succeeded(t) /\ StateFits(t)' BY <1>1 DEF VersionInv, StateFits, Succeeded
<1>3. \A u \in Tasks : StateFits(u)' /\ (Succeeded(u) => Succeeded(u)')
  BY <1>1, <1>2 DEF VersionInv, StateFits, Succeeded, Install
<1>4. \A u \in Tasks, q \in Packages : Holds(u, q) => Holds(u, q)'
  BY <1>1 DEF Holds, PkgOf, Holding, Finishing
<1> QED BY <1>1, <1>3, <1>4, SameVersion

LEMMA SameTasksVersion ==
    ASSUME VersionInv, SameTasks
    PROVE  /\ \A u \in Tasks : StateFits(u)' /\ (Succeeded(u) => Succeeded(u)')
           /\ \A u \in Tasks, q \in Packages : Holds(u, q) => Holds(u, q)'
BY DEF VersionInv, SameTasks, StateFits, Succeeded, Install, Holds, PkgOf

LEMMA RegisterVersion ==
    ASSUME Inv, UnpackInv, VersionInv, RegisterPackages, SameTasks
    PROVE  VersionInv'
<1>1. \A u \in Tasks : StateFits(u)' /\ (Succeeded(u) => Succeeded(u)') BY SameTasksVersion
<1>2. ASSUME NEW q \in Packages
      PROVE  DirVersionFits(disk[q].app)' /\ DirVersionFits(disk[q].minus)' /\ ListedVersionFits(q)'
  <2>1. disk[q] \in PackageDirs /\ disk'[q] = CleanedUp(disk[q])
    BY DEF RegisterPackages, Inv, TypeOK
  <2>2. /\ disk'[q].app = IF Loadable(disk[q]) THEN disk[q].app ELSE NoDir
        /\ disk'[q].minus = NoDir
    BY <2>1, CleanedUpFields
  <2>3. DirVersionFits(disk[q].app) BY DEF VersionInv
  <2>4. pkg'[q].ver = (IF Loadable(disk[q]) THEN disk[q].app.ver
                       ELSE IF q \in BuiltIn THEN Base ELSE None)
    BY DEF RegisterPackages, Registered, Absent
  <2>5. pkg'[q].ver \in Tasks => Loadable(disk[q]) /\ pkg'[q].ver = disk[q].app.ver
    BY <2>4, ConstantsAssumption
  <2>6. pkg'[q].ver \in Tasks => Succeeded(pkg[q].ver)'
    BY <1>1, <2>3, <2>5 DEF DirVersionFits, Loadable, Succeeded
  <2> QED BY <1>1, <2>2, <2>3, <2>6 DEF DirVersionFits, ListedVersionFits, Exists, Succeeded
<1> QED BY <1>1, <1>2 DEF VersionInv

LEMMA CrashVersion ==
    ASSUME Inv, VersionInv, Crash
    PROVE  VersionInv'
<1>1. \A u \in Tasks : StateFits(u)' /\ (Succeeded(u) => Succeeded(u)')
  BY CrashedTask DEF VersionInv, StateFits, Succeeded, Ended, Install
<1>2. ASSUME NEW q \in Packages
      PROVE  /\ disk'[q].app \in {disk[q].app, NoDir} /\ disk'[q].minus \in {disk[q].minus, NoDir}
             /\ pkg'[q].ver \notin Tasks
  BY CrashedDirs, ConstantsAssumption DEF Crash, Absent
<1>3. ~Exists(NoDir) BY DEF Exists
<1> QED BY <1>3,  <1>1, <1>2 DEF VersionInv, DirVersionFits, ListedVersionFits, Succeeded

LEMMA VersionPreserved ==
    ASSUME "readback" \notin Faults, Inv, Inv', UnpackInv, DatabaseInv, VersionInv, [Next]_vars
    PROVE  VersionInv'
<1>1. CASE Silent
  BY <1>1, SameTasksVersion, SameVersion DEF Silent
<1>2. CASE AppStep /\ AppOnly /\ SameTasks
  <2>1. UNCHANGED disk BY <1>2 DEF AppOnly
  <2> QED BY <1>2, <2>1, SameTasksVersion, AppFields, SameVersion
<1> QED BY <1>1, <1>2, Steps, WorkerVersion, SlotVersion, EnqueuesVersion, RegisterVersion, CrashVersion

LEMMA InitVersion == Init => VersionInv
<1> SUFFICES ASSUME Init PROVE VersionInv OBVIOUS
<1>1. \A t \in Tasks : StateFits(t) BY InitialTask DEF StateFits, Succeeded
<1>2. ASSUME NEW p \in Packages
      PROVE  DirVersionFits(disk[p].app) /\ DirVersionFits(disk[p].minus) /\ ListedVersionFits(p)
  <2>1. pkg[p].ver = None BY DEF Init, Absent
  <2>2. Whole(Shipped).ver \notin Tasks BY ConstantsAssumption DEF Whole
  <2> QED BY <2>1, <2>2, InitialDisk, ConstantsAssumption DEF DirVersionFits, ListedVersionFits, Exists
<1> QED BY <1>1, <1>2 DEF VersionInv

LEMMA VersionInvariance ==
    ASSUME "readback" \notin Faults
    PROVE  Spec => []VersionInv
<1>1. Init => VersionInv BY InitVersion
<1>2. Inv /\ Inv' /\ UnpackInv /\ DatabaseInv /\ VersionInv /\ [Next]_vars => VersionInv'
  BY VersionPreserved
<1> QED BY <1>1, <1>2, Invariance, UnpackInvariance, DatabaseInvariance, PTL DEF Spec

(* An installation that failed, for whatever reason and after whatever was or could not be
   undone, is neither in the package list nor at <id> or <id>- on the disk, and at <id>+
   only as what could not be deleted of it. *)
THEOREM FailedInstallationsLeaveNothing ==
    ASSUME "readback" \notin Faults
    PROVE  Spec => []FailedInstallationLeavesNothing
<1>1. Inv /\ UnpackInv /\ DatabaseInv /\ VersionInv => FailedInstallationLeavesNothing
  <2> SUFFICES ASSUME Inv, UnpackInv, DatabaseInv, VersionInv, NEW t \in Tasks, ready,
                      task[t].state = "Failed", task[t].pc = "gone", NEW p \in Packages
               PROVE  /\ pkg[p].ver # t /\ pkg[p].pending # t
                      /\ \A dir \in {disk[p].app, disk[p].minus} : Exists(dir) => dir.ver # t
                      /\ Exists(disk[p].plus) /\ disk[p].plus.ver = t =>
                            MayFail("remove") /\ disk[p].plus.stage = "leftover"
    BY DEF FailedInstallationLeavesNothing, At
  <2>1. ~Succeeded(t) /\ task[t].pc \notin Holding BY DEF Succeeded, Holding, Finishing
  <2>2. pkg[p].ver # t BY <2>1 DEF VersionInv, ListedVersionFits, Holds
  <2>3. pkg[p].pending # t
    <3>1. CASE InHand(p)
      <4>1. PICK u \in Tasks : task[u].pc \in Holding /\ PkgOf(u) = p BY <3>1 DEF InHand, Holds
      <4>2. ListFits(u) BY <4>1 DEF DatabaseInv, HolderFits
      <4>3. pkg[p].pending \in {u, None} BY <4>1, <4>2 DEF ListFits
      <4> QED BY <2>1, <4>1, <4>3, ConstantsAssumption
    <3>2. CASE ~InHand(p) BY <3>2, ConstantsAssumption DEF DatabaseInv, QuietFits
    <3> QED BY <3>1, <3>2
  <2>4. Exists(disk[p].app) => disk[p].app.ver # t BY <2>1 DEF VersionInv, DirVersionFits
  <2>5. Exists(disk[p].minus) => disk[p].minus.ver # t BY <2>1 DEF VersionInv, DirVersionFits
  <2>6. Exists(disk[p].plus) /\ disk[p].plus.ver = t =>
            MayFail("remove") /\ disk[p].plus.stage = "leftover"
    <3>1. ASSUME NEW u \in Tasks, PkgOf(u) = p, "unpackDir" \in task[u].scoped
          PROVE  disk[p].plus.ver # t
      <4>1. disk[p].plus.ver = u BY <3>1 DEF UnpackInv, UnpackFits
      <4>2. u # t BY <3>1, OwnerIsStarted DEF Started
      <4> QED BY <4>1, <4>2
    <3> QED BY <3>1 DEF UnpackInv
  <2> QED BY <2>2, <2>3, <2>4, <2>5, <2>6
<1> QED BY <1>1, Invariance, UnpackInvariance, DatabaseInvariance, VersionInvariance, PTL

-----------------------------------------------------------------------------
(* DocumentInv *)

(* they are in <id>, or in <id>- because their rename could not be undone *)
HasDocuments(d) == d.doc \/ (MayFail("undo") /\ d.docMinus)

(* the documents are there, or will be once the renames of the task are undone *)
DocumentsFit(t) ==
    LET d == disk[PkgOf(t)]
        scoped == task[t].scoped
        pc == task[t].pc
    IN  /\ pc \notin Done /\ Exists(Restored(t).app) =>
               (HasDocuments(d) /\ "docDir" \notin scoped) \/ "docBackup" \in scoped
        /\ pc = "createDocs" \/ "docDir" \in scoped => ~Exists(d.app)
        /\ pc = "rename" \/ (Install(t) /\ pc \in Done) => HasDocuments(d)
        /\ "docBackup" \in scoped => d.docMinus

QuietDocuments(p) == Exists(disk[p].app) => HasDocuments(disk[p])

(* a crash may come between the renames: nothing is said after one *)
DocumentInv ==
    crashes = 0 =>
        /\ \A t \in Tasks : task[t].pc \in Holding => DocumentsFit(t)
        /\ \A p \in Packages : ~InHand(p) => QuietDocuments(p)
        /\ \A p \in Packages : ready \/ ~disk[p].docMinus

LEMMA OtherDocuments ==
    ASSUME Inv, Inv', NEW t \in Tasks, TaskFrame(t), NEW u \in Tasks \ {t},
           DocumentsFit(u), PkgOf(u) = PkgOf(t) => OnlyPlus(t)
    PROVE  DocumentsFit(u)'
<1>1. task'[u] = task[u] BY DEF TaskFrame
<1>2. PkgOf(u) \in Packages /\ PkgOf(u)' = PkgOf(u) BY <1>1, TypedFields DEF Inv, PkgOf
<1>3. LET d == disk[PkgOf(u)]
          e == disk'[PkgOf(u)]
      IN  e.app = d.app /\ e.minus = d.minus /\ e.doc = d.doc /\ e.docMinus = d.docMinus
  BY <1>1, <1>2 DEF TaskFrame, OnlyPlus, Dirs
<1>4. Restored(u)'.app = Restored(u).app
  BY <1>1, <1>3, RestoredFields, RestoredNext DEF Inv, Dirs
<1> QED BY <1>1, <1>2, <1>3, <1>4 DEF DocumentsFit, HasDocuments, Install

(* a step of one task keeps DocumentInv if it does so for this task and its package *)
LEMMA DocumentsNext ==
    ASSUME Inv, Inv', DocumentInv, crashes = 0, NEW t \in Tasks, TaskFrame(t),
           task[t].pc \notin Holding => OnlyPlus(t),
           task'[t].pc \in Holding => DocumentsFit(t)',
           ~InHand(PkgOf(t))' => QuietDocuments(PkgOf(t))'
    PROVE  DocumentInv'
<1>1. ASSUME NEW u \in Tasks \ {t}, task'[u].pc \in Holding PROVE DocumentsFit(u)'
  <2>1. task[u].pc \in Holding BY <1>1 DEF TaskFrame
  <2>2. DocumentsFit(u) BY <2>1 DEF DocumentInv
  <2>3. PkgOf(u) = PkgOf(t) => task[t].pc \notin Holding
    BY <2>1, HeldByOne
  <2> QED BY <2>2, <2>3, OtherDocuments
<1>2. ASSUME NEW q \in Packages, ~InHand(q)' PROVE QuietDocuments(q)'
  <2>1. CASE q = PkgOf(t)
    <3>1. q = PkgOf(t)' BY <2>1 DEF PkgOf, TaskFrame
    <3>2. ~InHand(PkgOf(t))' BY <1>2, <3>1
    <3> QED BY <3>1, <3>2 DEF QuietDocuments
  <2>2. CASE q # PkgOf(t)
    <3>1. QuietDocuments(q) BY <1>2, <2>2, HoldsNext DEF DocumentInv
    <3> QED BY <2>2, <3>1 DEF QuietDocuments, TaskFrame
  <2> QED BY <2>1, <2>2
<1>3. \A u \in Tasks : task'[u].pc \in Holding => DocumentsFit(u)' BY <1>1
<1>4. ASSUME NEW q \in Packages, ~ready' PROVE ~disk'[q].docMinus
  <2>1. ~ready /\ ~disk[q].docMinus BY <1>4 DEF TaskFrame, DocumentInv
  <2>2. task[t].pc \notin Holding BY <2>1, StartedIsReady DEF Started, Holding, Finishing
  <2> QED BY <2>1, <2>2 DEF TaskFrame, OnlyPlus, Dirs
<1> QED BY <1>2, <1>3, <1>4 DEF DocumentInv

LEMMA WorkerDocumentsFit ==
    ASSUME Inv, Inv', UnpackInv, UnpackInv', DatabaseInv, NEW t \in Tasks, WorkerStep(t),
           task[t].pc \in Holding, DocumentsFit(t)
    PROVE  DocumentsFit(t)'
<1> DEFINE p == PkgOf(t)
           e == disk'[p]
           d == Dirs(t)
           r == Restored(t)
           s == Restored(t)'
<1>1. DirsFit(t) /\ ScopedFits(t) /\ ScopedFits(t)' BY DEF DatabaseInv, HolderFits, UnpackInv
<1>2. /\ task'[t].kind = task[t].kind /\ task'[t].pkg = task[t].pkg
      /\ d \in PackageDirs /\ TypeOK
  BY DirsOf DEF WorkerStep, WorkerFrame, Inv
<1>3. PkgOf(t)' = PkgOf(t) /\ Install(t)' = Install(t) BY <1>2 DEF PkgOf, Install
<1>4. /\ IF "backup" \in task[t].scoped THEN r.app = d.minus ELSE r.app = d.app
      /\ IF "backup" \in task'[t].scoped THEN s.app = e.minus ELSE s.app = e.app
  BY <1>2, RestoredFields, RestoredNext DEF Inv
<1> HIDE DEF r, s
<1>5. /\ task[t].pc \notin Done /\ Exists(r.app) =>
             (HasDocuments(d) /\ "docDir" \notin task[t].scoped) \/ "docBackup" \in task[t].scoped
      /\ task[t].pc = "createDocs" \/ "docDir" \in task[t].scoped => ~Exists(d.app)
      /\ task[t].pc = "rename" \/ (Install(t) /\ task[t].pc \in Done) => HasDocuments(d)
      /\ "docBackup" \in task[t].scoped => d.docMinus
      /\ task[t].pc = "backup" => Exists(d.app)
      /\ "backup" \in task[t].scoped => ~Exists(d.app)
  BY <1>1 DEF DocumentsFit, DirsFit, Dirs, r
<1>6. SUFFICES
      /\ task'[t].pc \notin Done /\ Exists(s.app) =>
             (HasDocuments(e) /\ "docDir" \notin task'[t].scoped) \/ "docBackup" \in task'[t].scoped
      /\ task'[t].pc = "createDocs" \/ "docDir" \in task'[t].scoped => ~Exists(e.app)
      /\ task'[t].pc = "rename" \/ (Install(t) /\ task'[t].pc \in Done) => HasDocuments(e)
      /\ "docBackup" \in task'[t].scoped => e.docMinus
  BY <1>2, <1>3 DEF DocumentsFit, s
<1>7. ~Exists(NoDir) BY DEF Exists
<1>8. /\ task[t].pc # "rename" => "backup" \notin task[t].scoped /\ "docDir" \notin task[t].scoped
      /\ task[t].pc # "renameApp" => "docBackup" \notin task[t].scoped
      /\ ~("backup" \in task[t].scoped /\ "docDir" \in task[t].scoped)
  BY <1>1, UndoneByLabel DEF ScopedFits, Unpacking, Unpacked, Reported
<1> USE <1>2, <1>4, <1>5, <1>7, <1>8 DEF Done, Goes, KeepsScoped, HasDocuments
<1>9. CASE Refused(t) BY <1>9, ApprovedAt DEF Refused
<1>10. CASE Aborted(t)
  <2>1. /\ task'[t].pc = "askCancel" /\ task[t].pc \notin Done
        /\ "backup" \notin task'[t].scoped /\ "docDir" \notin task'[t].scoped
    BY <1>10 DEF Aborted
  <2>2. CASE KeepsDirs(t) /\ task[t].pc \notin {"rename", "renameApp"}
    BY <1>10, <2>1, <2>2 DEF KeepsDirs, Aborted
  <2>3. CASE task[t].pc = "rename" /\ \E undone \in Undone(t) : e = RolledBack(t, undone)
    <3>1. PICK undone \in Undone(t) : e = RolledBack(t, undone) BY <2>3
    <3>2. /\ IF "backup" \in undone THEN e.app = d.minus ELSE e.app = d.app
          /\ e.doc <=> (d.doc /\ "docDir" \notin undone) \/ "docBackup" \in undone
          /\ e.docMinus <=> d.docMinus /\ "docBackup" \notin undone
          /\ undone \subseteq task[t].scoped
      BY <3>1, RolledBackFields
    <3>3. "docBackup" \notin task'[t].scoped /\ "docBackup" \notin task[t].scoped
      BY <1>10, <2>3 DEF Aborted
    <3>4. s.app = e.app BY <2>1
    <3>5. Exists(e.app) => HasDocuments(d) /\ "docDir" \notin undone
      <4>1. CASE "backup" \in undone
        <5>1. "backup" \in task[t].scoped /\ e.app = r.app BY <3>2, <4>1
        <5> QED BY <2>3, <3>2, <5>1
      <4>2. CASE "backup" \notin undone
        <5>1. e.app = d.app BY <3>2, <4>2
        <5> QED BY <2>3, <3>2, <5>1
      <4> QED BY <4>1, <4>2
    <3> QED BY <2>1, <3>2, <3>3, <3>4, <3>5
  <2>4. CASE /\ task[t].pc = "renameApp"
             /\ \E left \in TargetOfFailedRename(d.app, d.minus), undone \in Undone(t) :
                   e = [RolledBack(t, undone) EXCEPT !.minus = left]
    <3>1. PICK left \in TargetOfFailedRename(d.app, d.minus), undone \in Undone(t) :
             e = [RolledBack(t, undone) EXCEPT !.minus = left]
      BY <2>4
    <3>2. "backup" \notin task[t].scoped /\ "docDir" \notin task[t].scoped BY <2>4
    <3>3. LET b == RolledBack(t, undone)
          IN  /\ b \in PackageDirs /\ b.app = d.app
              /\ b.doc <=> d.doc \/ "docBackup" \in undone
              /\ b.docMinus <=> d.docMinus /\ "docBackup" \notin undone
              /\ undone \subseteq task[t].scoped
              /\ "docBackup" \in task[t].scoped => MayFail("undo") \/ "docBackup" \in undone
      BY <3>2, RolledBackFields
    <3>4. /\ e.app = RolledBack(t, undone).app /\ e.doc = RolledBack(t, undone).doc
          /\ e.docMinus = RolledBack(t, undone).docMinus
      BY <3>1, <3>3, MinusFields
    <3>5. s.app = e.app /\ r.app = d.app BY <2>1, <3>2
    <3>6. "docBackup" \notin task'[t].scoped BY <1>10 DEF Aborted
    <3> QED BY <2>1, <2>4, <3>2, <3>3, <3>4, <3>5, <3>6
  <2>5. CASE /\ task[t].pc = "backup"
             /\ \E left \in TargetOfFailedRename(d.app, d.minus) : e = [d EXCEPT !.minus = left]
    <3>1. PICK left : e = [d EXCEPT !.minus = left] BY <2>5
    <3>2. e.app = d.app /\ e.doc = d.doc /\ e.docMinus = d.docMinus BY <3>1, MinusFields
    <3> QED BY <1>10, <2>1, <2>5, <3>2 DEF Aborted
  <2>6. CASE task[t].pc = "renameDoc" /\ d.doc /\ e = [d EXCEPT !.docMinus = FALSE]
    <3>1. e.app = d.app /\ e.doc BY <2>6 DEF PackageDirs
    <3> QED BY <1>10, <2>1, <2>6, <3>1 DEF Aborted
  <2> QED BY <1>10, <2>2, <2>3, <2>4, <2>5, <2>6 DEF Aborted
<1>11. CASE GoesOn(t) BY <1>11 DEF GoesOn, KeepsDirs, Holding, Finishing
<1>12. CASE StartsUnpacking(t) BY <1>12 DEF StartsUnpacking, Holding, Finishing
<1>13. CASE EndsUnpacking(t)
  <2>1. OnlyPlus(t) BY <1>13, PlusFields DEF EndsUnpacking, OnlyPlus
  <2> QED BY <1>13, <2>1 DEF EndsUnpacking, OnlyPlus
<1>14. CASE WritesReport(t)
  <2>1. OnlyPlus(t) BY <1>14, PlusFields DEF WritesReport, OnlyPlus
  <2> QED BY <1>14, <2>1 DEF WritesReport, OnlyPlus
<1>15. CASE CreatesDocuments(t) BY <1>15, DirsFields DEF CreatesDocuments
<1>16. CASE BacksUp(t) BY <1>16, DirsFields DEF BacksUp
<1>17. CASE RenamesNewVersion(t) BY <1>17, DirsFields DEF RenamesNewVersion
<1>18. CASE RemovesBackup(t)
  <2>1. PICK left : e = [d EXCEPT !.minus = left] BY <1>18 DEF RemovesBackup
  <2>2. e.app = d.app /\ e.doc = d.doc /\ e.docMinus = d.docMinus BY <2>1, MinusFields
  <2> QED BY <1>18, <2>2 DEF RemovesBackup
<1>19. CASE RenamesDocuments(t) BY <1>19, DirsFields DEF RenamesDocuments
<1>20. CASE RenamesApplication(t) BY <1>20, DirsFields DEF RenamesApplication
<1>21. CASE RemovesOldVersion(t) BY <1>21 DEF RemovesOldVersion, PackageDirs
<1> QED BY <1>9, <1>10, <1>11, <1>12, <1>13, <1>14, <1>15, <1>16, <1>17, <1>18, <1>19, <1>20, <1>21
        DEF WorkerStep, Transition

LEMMA WorkerDocuments ==
    ASSUME Inv, Inv', UnpackInv, UnpackInv', DatabaseInv, DocumentInv, crashes = 0,
           NEW t \in Tasks, WorkerStep(t)
    PROVE  DocumentInv'
<1>1. /\ TaskFrame(t)
      /\ task[t].pc \in Holding <=> task'[t].pc \in Holding
      /\ task[t].pc \notin Holding => OnlyPlus(t)
  BY StepsKeepFrame, WorkerHolding
<1>2. task'[t].pc \in Holding => DocumentsFit(t)' BY <1>1, WorkerDocumentsFit DEF DocumentInv
<1>3. ASSUME ~InHand(PkgOf(t))' PROVE QuietDocuments(PkgOf(t))'
  <2>1. PkgOf(t) \in Packages /\ PkgOf(t)' = PkgOf(t) BY <1>1, TypedFields DEF Inv, PkgOf, TaskFrame
  <2>2. ~InHand(PkgOf(t))
    <3>1. InHand(PkgOf(t)) => \E u \in Tasks : Holds(u, PkgOf(t))' BY <1>1, <2>1, HoldsNext DEF InHand
    <3> QED BY <1>3, <2>1, <3>1 DEF InHand, Holds
  <2>3. QuietDocuments(PkgOf(t)) /\ OnlyPlus(t) BY <1>1, <2>1, <2>2 DEF DocumentInv, InHand, Holds
  <2> QED BY <2>1, <2>3 DEF QuietDocuments, HasDocuments, OnlyPlus, Dirs
<1> QED BY <1>1, <1>2, <1>3, DocumentsNext

LEMMA SlotDocuments ==
    ASSUME Inv, Inv', UnpackInv, UnpackInv', DatabaseInv, DocumentInv, crashes = 0,
           NEW t \in Tasks, SlotStep(t)
    PROVE  DocumentInv'
<1> DEFINE p == PkgOf(t)
<1>1. TaskFrame(t) /\ p \in Packages /\ p' = p /\ task'[t].kind = task[t].kind
  BY StepsKeepFrame, TypedFields DEF Inv, PkgOf, TaskFrame, SlotStep, SlotFrame
<1>2. OnlyPlus(t)
  BY SlotOnlyPlus
<1>3. QuietDocuments(p) => QuietDocuments(p)'
  BY <1>1, <1>2 DEF QuietDocuments, HasDocuments, OnlyPlus, Dirs
<1>4. CASE Begins(t) \/ Leaves(t) \/ Ends(t) \/ Answers(t)
  <2>1. task[t].pc \notin Holding /\ task'[t].pc \notin Holding
    BY <1>4 DEF Begins, Leaves, Ends, Answers, Goes, Holding, Finishing
  <2>2. InHand(p)' <=> InHand(p) BY <1>1, <2>1, HoldsNext
  <2>3. ~InHand(p)' => QuietDocuments(p)' BY <1>1, <1>3, <2>2 DEF DocumentInv
  <2> QED BY <1>1, <1>2, <2>1, <2>3, DocumentsNext
<1>5. CASE Installs(t) \/ Updates(t) \/ Removes(t)
  <2>1. /\ task[t].pc \notin Holding /\ task'[t].pc = "waitStop" /\ ~InHand(p)
        /\ KeepsDirs(t)
    BY <1>5 DEF Installs, Updates, Removes, Approves, Goes, Holding, Finishing
  <2>2. task'[t].scoped \cap {"backup", "docDir", "docBackup"} = {}
    <3>1. ScopedFits(t)' BY DEF UnpackInv
    <3> QED BY <2>1, <3>1 DEF ScopedFits, Unpacking, Unpacked, Reported
  <2>3. QuietDocuments(p)' BY <1>1, <1>3, <2>1 DEF DocumentInv
  <2>4. DocumentsFit(t)'
    BY <1>1, <2>1, <2>2, <2>3 DEF DocumentsFit, QuietDocuments, HasDocuments, Restored, Done
  <2> QED BY <1>1, <1>2, <2>3, <2>4, DocumentsNext
<1>6. CASE Completes(t) \/ Withdraws(t)
  <2>1. /\ task[t].pc \in {"askFinish", "askCancel"} /\ task'[t].pc \notin Holding
        /\ Completes(t) => task[t].pc = "askFinish"
        /\ Withdraws(t) => task[t].pc = "askCancel"
    BY <1>6 DEF Completes, Withdraws, Goes, Holding, Finishing
  <2>2. DocumentsFit(t) /\ DirsFit(t) BY <2>1 DEF DocumentInv, DatabaseInv, HolderFits, Holding
  <2>3. "backup" \notin task[t].scoped /\ "docBackup" \notin task[t].scoped BY <2>1, UndoneByLabel
  <2>4. Restored(t) = disk[p] BY <2>3 DEF Restored
  <2>5. QuietDocuments(p)
    BY <1>6, <2>1, <2>2, <2>3, <2>4 DEF QuietDocuments, DocumentsFit, DirsFit, Done
  <2> QED BY <1>1, <1>2, <1>3, <2>1, <2>5, DocumentsNext
<1> QED BY <1>4, <1>5, <1>6 DEF SlotStep

(* a step that changes no directory and takes or returns no package *)
LEMMA SameDocuments ==
    ASSUME Inv, DocumentInv, UNCHANGED <<disk, crashes, ready>>,
           \A u \in Tasks : task'[u].pc \in Holding =>
               /\ task'[u].pc = task[u].pc /\ task'[u].scoped = task[u].scoped
               /\ task'[u].pkg = task[u].pkg /\ task'[u].kind = task[u].kind,
           \A q \in Packages : InHand(q)' <=> InHand(q)
    PROVE  DocumentInv'
<1>1. ASSUME crashes = 0, NEW u \in Tasks, task'[u].pc \in Holding PROVE DocumentsFit(u)'
  <2>1. DocumentsFit(u) BY <1>1 DEF DocumentInv
  <2>2. PkgOf(u)' = PkgOf(u) /\ Restored(u)' = Restored(u) BY <1>1 DEF PkgOf, Restored
  <2> QED BY <1>1, <2>1, <2>2 DEF DocumentsFit, Install
<1>2. \A q \in Packages : QuietDocuments(q)' <=> QuietDocuments(q)
  BY DEF QuietDocuments, HasDocuments
<1> QED BY <1>1, <1>2 DEF DocumentInv

LEMMA RegisterDocuments ==
    ASSUME Inv, UnpackInv, DocumentInv, RegisterPackages, SameTasks
    PROVE  DocumentInv'
<1>1. ~ready /\ UNCHANGED crashes
      /\ \A p \in Packages : disk[p] \in PackageDirs /\ disk'[p] = CleanedUp(disk[p])
  BY DEF RegisterPackages, Inv, TypeOK
<1>2. \A t \in Tasks : task[t].pc \notin Holding /\ task'[t].pc \notin Holding
  BY <1>1, NobodyOwns DEF SameTasks, Started, Holding, Finishing
<1>3. \A p \in Packages : ~InHand(p) BY <1>2 DEF InHand, Holds
<1>4. ASSUME crashes = 0, NEW p \in Packages PROVE QuietDocuments(p)'
  <2>1. QuietDocuments(p) /\ ~disk[p].docMinus BY <1>1, <1>3, <1>4 DEF DocumentInv
  <2>2. /\ disk'[p].app = IF Loadable(disk[p]) THEN disk[p].app ELSE NoDir
        /\ disk'[p].doc <=> disk[p].doc /\ Loadable(disk[p])
    BY <1>1, CleanedUpFields
  <2> QED BY <2>1, <2>2 DEF QuietDocuments, HasDocuments, Loadable, Exists
<1>5. ready' BY DEF RegisterPackages
<1> QED BY <1>1, <1>2, <1>4, <1>5 DEF DocumentInv

LEMMA DocumentsPreserved ==
    ASSUME "readback" \notin Faults, Inv, Inv', UnpackInv, UnpackInv', DatabaseInv, DocumentInv,
           [Next]_vars
    PROVE  DocumentInv'
<1>1. ASSUME NEW t \in Tasks, WorkerStep(t) PROVE DocumentInv'
  <2>1. UNCHANGED crashes BY <1>1 DEF WorkerStep, WorkerFrame
  <2> QED BY <1>1, <2>1, WorkerDocuments DEF DocumentInv
<1>2. ASSUME NEW t \in Tasks, SlotStep(t) PROVE DocumentInv'
  <2>1. UNCHANGED crashes BY <1>2 DEF SlotStep, SlotFrame
  <2> QED BY <1>2, <2>1, SlotDocuments DEF DocumentInv
<1>3. ASSUME NEW t \in Tasks, Enqueues(t) PROVE DocumentInv'
  <2>1. UNCHANGED <<disk, crashes, ready>> BY <1>3 DEF Enqueues
  <2> QED BY <1>3, <2>1, EnqueuesHold, SameDocuments
<1>4. CASE Silent
  <2>1. UNCHANGED <<disk, crashes, ready>> BY <1>4 DEF Silent
  <2> QED BY <1>4, <2>1, SameTasksHold, SameDocuments DEF Silent, SameTasks
<1>5. CASE AppStep /\ AppOnly /\ SameTasks
  <2>1. UNCHANGED <<disk, crashes, ready>> BY <1>5 DEF AppOnly
  <2> QED BY <1>5, <2>1, SameTasksHold, SameDocuments DEF SameTasks
<1>6. CASE Crash
  <2>1. crashes \in Nat BY ConstantsAssumption DEF Inv, TypeOK
  <2>2. crashes' = crashes + 1 BY <1>6 DEF Crash
  <2>3. crashes' # 0 BY <2>1, <2>2
  <2> QED BY <2>3 DEF DocumentInv
<1> QED BY <1>1, <1>2, <1>3, <1>4, <1>5, <1>6, Steps, RegisterDocuments

LEMMA DocumentInvariance ==
    ASSUME "readback" \notin Faults
    PROVE  Spec => []DocumentInv
<1>1. Init => DocumentInv
  <2> SUFFICES ASSUME Init PROVE DocumentInv OBVIOUS
  <2>1. \A t \in Tasks : task[t].pc \notin Holding BY InitialTask DEF Holding, Finishing
  <2>2. \A p \in Packages : QuietDocuments(p) /\ ~disk[p].docMinus
    BY InitialDisk DEF QuietDocuments, HasDocuments
  <2> QED BY <2>1, <2>2 DEF DocumentInv
<1>2. Inv /\ Inv' /\ UnpackInv /\ UnpackInv' /\ DatabaseInv /\ DocumentInv /\ [Next]_vars
        => DocumentInv'
  BY DocumentsPreserved
<1> QED BY <1>1, <1>2, Invariance, UnpackInvariance, DatabaseInvariance, PTL DEF Spec

(* As long as the process does not die, no sequence of installations, updates and
   removals, failed or not, leaves an installed package without its documents; if their
   rename could not be undone, they are still in <id>- (scopeutilities.cpp:130-161). *)
THEOREM InstalledPackagesKeepDocuments ==
    ASSUME "readback" \notin Faults
    PROVE  Spec => [](crashes = 0 => InstalledPackagesHaveDocuments)
<1>1. DocumentInv => (crashes = 0 => InstalledPackagesHaveDocuments)
  BY DEF DocumentInv, QuietDocuments, HasDocuments, InstalledPackagesHaveDocuments
<1> QED BY <1>1, DocumentInvariance, PTL

-----------------------------------------------------------------------------
(* StopInv *)

(* where a task may change the files of its package *)
Changing == Holding \ {"waitStop", "askCancel"}

Runs(a) == app[a] \in {"Running", "ShuttingDown"}

(* a package without applications to run has none that runs, a package in hand waits
   for the ones that still run, and waits no more where its files are changed *)
AppFits(a) ==
    LET p == Owner[a]
    IN  /\ app[a] # "Pending"
        /\ ~pkg[p].known \/ pkg[p].state = "BeingInstalled" => ~Runs(a)
        /\ InHand(p) /\ Runs(a) => a \in pkg[p].waiting
        /\ \A t \in Tasks : task[t].pc \in Changing /\ PkgOf(t) = p => ~Runs(a)

StopInv == \A a \in Apps : AppFits(a)

(* an application is not disturbed by a step that changes neither it nor what its
   package waits for, if no task begins to change files *)
LEMMA AppKept ==
    ASSUME NEW a \in Apps, AppFits(a), app'[a] = app[a], pkg'[Owner[a]] = pkg[Owner[a]],
           InHand(Owner[a])' => InHand(Owner[a]),
           \A t \in Tasks : task'[t].pc \in Changing /\ task'[t].pkg = Owner[a] =>
               \/ task[t].pc \in Changing /\ task[t].pkg = Owner[a]
               \/ ~Runs(a)
    PROVE  AppFits(a)'
BY DEF AppFits, Runs, PkgOf

LEMMA WorkerChanging ==
    ASSUME Inv, NEW t \in Tasks, WorkerStep(t), task'[t].pc \in Changing
    PROVE  task[t].pc \in Changing \/ (task[t].pc \in Holding /\ AllApplicationsStopped(PkgOf(t)))
<1> USE DEF Changing, Goes, Holding, Finishing
<1>1. CASE Refused(t) \/ Aborted(t) BY <1>1 DEF Refused, Aborted
<1>2. CASE GoesOn(t) BY <1>2 DEF GoesOn
<1>3. CASE StartsUnpacking(t) \/ EndsUnpacking(t) \/ WritesReport(t)
  BY <1>3 DEF StartsUnpacking, EndsUnpacking, WritesReport
<1>4. CASE CreatesDocuments(t) \/ BacksUp(t) \/ RenamesNewVersion(t) \/ RemovesBackup(t)
  BY <1>4 DEF CreatesDocuments, BacksUp, RenamesNewVersion, RemovesBackup
<1>5. CASE RenamesDocuments(t) \/ RenamesApplication(t) \/ RemovesOldVersion(t)
  BY <1>5 DEF RenamesDocuments, RenamesApplication, RemovesOldVersion
<1> QED BY <1>1, <1>2, <1>3, <1>4, <1>5 DEF WorkerStep, Transition

LEMMA WorkerStops ==
    ASSUME Inv, StopInv, NEW t \in Tasks, WorkerStep(t)
    PROVE  StopInv'
<1>1. UNCHANGED <<app, pkg>> /\ TaskFrame(t) BY StepsKeepFrame DEF WorkerStep, WorkerFrame
<1>2. \A q \in Packages : InHand(q)' <=> InHand(q) BY <1>1, WorkerHolding, HoldsNext
<1>3. ASSUME NEW a \in Apps PROVE AppFits(a)'
  <2>1. Owner[a] \in Packages /\ AppFits(a) BY ConstantsAssumption DEF StopInv
  <2>2. task'[t].pc \in Changing /\ task'[t].pkg = Owner[a] =>
            (task[t].pc \in Changing /\ task[t].pkg = Owner[a]) \/ ~Runs(a)
    <3> SUFFICES ASSUME task'[t].pc \in Changing, task[t].pkg = Owner[a], task[t].pc \notin Changing
                 PROVE  ~Runs(a)
      BY <1>1 DEF TaskFrame
    <3>1. task[t].pc \in Holding /\ AllApplicationsStopped(Owner[a]) BY WorkerChanging DEF PkgOf
    <3>2. InHand(Owner[a]) BY <3>1 DEF InHand, Holds, PkgOf
    <3> QED BY <2>1, <3>1, <3>2 DEF AppFits, AllApplicationsStopped
  <2>3. \A u \in Tasks : task'[u].pc \in Changing /\ task'[u].pkg = Owner[a] =>
            (task[u].pc \in Changing /\ task[u].pkg = Owner[a]) \/ ~Runs(a)
    BY <1>1, <2>2 DEF TaskFrame
  <2> QED BY <1>1, <1>2, <2>1, <2>3, AppKept
<1> QED BY <1>3 DEF StopInv

(* in a step that takes or returns a package the applications of the others stay *)
LEMMA SlotStops ==
    ASSUME Inv, Inv', DatabaseInv, StopInv, NEW t \in Tasks, SlotStep(t)
    PROVE  StopInv'
<1> DEFINE p == PkgOf(t)
<1>1. TaskFrame(t) /\ p \in Packages /\ p' = p /\ task'[t].pkg = p
  BY StepsKeepFrame, TypedFields DEF Inv, PkgOf, TaskFrame
<1>2. task'[t].pc \notin Changing
  BY DEF SlotStep, Begins, Leaves, Ends, Answers, Installs, Updates, Removes, Approves, Completes,
         Withdraws, Goes, Changing, Holding, Finishing
<1>3. ASSUME NEW a \in Apps, Owner[a] # p, app'[a] = app[a] PROVE AppFits(a)'
  <2>1. Owner[a] \in Packages /\ AppFits(a) BY ConstantsAssumption DEF StopInv
  <2>2. pkg'[Owner[a]] = pkg[Owner[a]] BY <1>3, <2>1 DEF SlotStep, SlotFrame
  <2>3. InHand(Owner[a])' <=> InHand(Owner[a]) BY <1>1, <1>3, <2>1, HoldsNext
  <2>4. \A u \in Tasks : task'[u].pc \in Changing => task'[u] = task[u] BY <1>1, <1>2 DEF TaskFrame
  <2> QED BY <1>3, <2>1, <2>2, <2>3, <2>4, AppKept
<1>4. CASE Begins(t) \/ Leaves(t) \/ Ends(t) \/ Answers(t)
  <2>1. task[t].pc \notin Holding /\ task'[t].pc \notin Holding /\ UNCHANGED <<app, pkg>>
    BY <1>4 DEF Begins, Leaves, Ends, Answers, Goes, KeepsList, Holding, Finishing
  <2>2. ASSUME NEW a \in Apps PROVE AppFits(a)'
    <3>1. Owner[a] \in Packages /\ AppFits(a) BY ConstantsAssumption DEF StopInv
    <3>2. InHand(Owner[a])' <=> InHand(Owner[a]) BY <1>1, <2>1, <3>1, HoldsNext
    <3>3. \A u \in Tasks : task'[u].pc \in Changing => task'[u] = task[u] BY <1>1, <1>2 DEF TaskFrame
    <3> QED BY <2>1, <3>1, <3>2, <3>3, AppKept
  <2> QED BY <2>2 DEF StopInv
<1>5. \A a \in Apps : AppFits(a) BY DEF StopInv
<1>6. CASE Installs(t) \/ Updates(t) \/ Removes(t)
  <2>1. ~InHand(p) /\ pkg'[p].known BY <1>6 DEF Installs, Updates, Removes, Approves
  <2>2. \A u \in Tasks : task'[u].pc \in Changing => PkgOf(u)' # p
    BY <1>1, <1>2, <2>1 DEF TaskFrame, InHand, Holds, Changing, PkgOf
  <2>3. CASE Installs(t)
    <3>1. UNCHANGED app /\ ~pkg[p].known BY <2>3 DEF Installs
    <3>2. ASSUME NEW a \in Apps, Owner[a] = p PROVE AppFits(a)'
      <4>1. AppFits(a) /\ app'[a] = app[a] BY <1>5, <3>1
      <4> QED BY <3>1, <3>2, <4>1 DEF AppFits, Runs
    <3> QED BY <1>3, <3>1, <3>2 DEF StopInv
  <2>4. CASE Updates(t) \/ Removes(t)
    <3>1. /\ StopApps(p) /\ pkg'[p].state # "BeingInstalled"
          /\ pkg'[p].waiting = {a \in AppsOf(p) : app[a] \in {"Running", "ShuttingDown"}}
      BY <2>4 DEF Updates, Removes, Stopping
    <3>2. \A a \in Apps : /\ Runs(a)' => Runs(a)
                          /\ app'[a] # app[a] => Owner[a] = p /\ app'[a] # "Pending"
      BY <3>1 DEF StopApps, AppsOf, Runs
    <3>3. ASSUME NEW a \in Apps, Owner[a] = p PROVE AppFits(a)'
      <4>1. Runs(a)' => a \in pkg'[p].waiting BY <3>1, <3>2, <3>3 DEF Runs, AppsOf
      <4>2. app'[a] # "Pending" BY <1>5, <3>2 DEF AppFits
      <4> QED BY <2>1, <2>2, <3>1, <3>3, <4>1, <4>2 DEF AppFits
    <3> QED BY <1>3, <3>2, <3>3 DEF StopInv
  <2> QED BY <1>6, <2>3, <2>4
<1>7. CASE Completes(t) \/ Withdraws(t)
  <2>1. task[t].pc \in Holding /\ task'[t].pc \notin Holding
    BY <1>7 DEF Completes, Withdraws, Goes, Holding, Finishing
  <2>2. ListFits(t) BY <2>1 DEF DatabaseInv, HolderFits
  <2>3. \A u \in Tasks : task'[u].pc \in Holding => PkgOf(u)' # p
    BY <1>1, <2>1, HeldByOne DEF TaskFrame, PkgOf
  <2>4. ~InHand(p)' BY <1>1, <2>3 DEF InHand, Holds
  <2>5. \A a \in Apps : /\ Owner[a] # p => app'[a] = app[a]
                        /\ app'[a] \in {app[a], "NotRunning"}
    BY <1>7 DEF Completes, Withdraws, Unregister, AppsOf
  <2>6. ASSUME NEW a \in Apps, Owner[a] = p PROVE AppFits(a)'
    <3>1. ~pkg'[p].known \/ pkg'[p].state = "BeingInstalled" => ~Runs(a)'
      <4>1. CASE Completes(t)
        <5>1. CASE pkg[p].state = "BeingRemoved"
          <6>1. app'[a] = "NotRunning" BY <2>6, <4>1, <5>1 DEF Completes, Unregister, AppsOf
          <6> QED BY <6>1 DEF Runs
        <5>2. CASE pkg[p].state # "BeingRemoved"
          BY <2>2, <4>1, <5>2 DEF Completes, ListFits
        <5> QED BY <5>1, <5>2
      <4>2. CASE Withdraws(t)
        <5>1. app' = app BY <4>2 DEF Withdraws
        <5>2. CASE pkg[p].state = "BeingInstalled" BY <1>5, <2>6, <5>1, <5>2 DEF AppFits, Runs
        <5>3. CASE pkg[p].state # "BeingInstalled" BY <2>2, <4>2, <5>3 DEF Withdraws, ListFits
        <5> QED BY <5>2, <5>3
      <4> QED BY <1>7, <4>1, <4>2
    <3>2. app'[a] # "Pending" BY <1>5, <2>5 DEF AppFits
    <3>3. ~InHand(Owner[a])' BY <1>1, <2>4, <2>6
    <3> QED BY <2>3, <2>6, <3>1, <3>2, <3>3 DEF AppFits, Changing
  <2> QED BY <1>3, <2>5, <2>6 DEF StopInv
<1> QED BY <1>4, <1>6, <1>7 DEF SlotStep

(* a step that changes neither packages nor applications, and no label of a task that
   changes files *)
LEMMA SameStops ==
    ASSUME Inv, StopInv, UNCHANGED <<pkg, app>>,
           \A q \in Packages : InHand(q)' <=> InHand(q),
           \A u \in Tasks : task'[u].pc \in Holding =>
               task'[u].pc = task[u].pc /\ task'[u].pkg = task[u].pkg
    PROVE  StopInv'
<1>1. ASSUME NEW a \in Apps PROVE AppFits(a)'
  <2>1. Owner[a] \in Packages /\ AppFits(a) BY ConstantsAssumption DEF StopInv
  <2>2. \A u \in Tasks : task'[u].pc \in Changing =>
            task[u].pc \in Changing /\ task'[u].pkg = task[u].pkg
    BY DEF Changing
  <2> QED BY <2>1, <2>2, AppKept
<1> QED BY <1>1 DEF StopInv

LEMMA AppStops ==
    ASSUME SlowStart = {}, Inv, Inv', StopInv, AppStep, AppOnly, SameTasks
    PROVE  StopInv'
<1>1. \A a \in Apps : Owner[a] \in Packages /\ AppFits(a) BY ConstantsAssumption DEF StopInv
<1>2. /\ \A q \in Packages : InHand(q)' <=> InHand(q)
      /\ app \in [Apps -> RunStates]
  BY SameTasksHold DEF Inv, TypeOK
<1>3. \A u \in Tasks : task'[u].pc = task[u].pc /\ task'[u].pkg = task[u].pkg BY DEF SameTasks
<1>4. ASSUME NEW b \in Apps, StartApplication(b) PROVE StopInv'
  <2>1. /\ pkg' = pkg /\ app' = [app EXCEPT ![b] = "Running"]
        /\ pkg[Owner[b]].known /\ pkg[Owner[b]].state # "BeingInstalled" /\ ~IsBlocked(Owner[b])
    BY <1>4 DEF StartApplication, Startable
  <2>2. ~InHand(Owner[b]) BY <1>1, <2>1 DEF Inv, BlockedByItsTask, IsBlocked
  <2>3. \A u \in Tasks : task[u].pc \in Changing => PkgOf(u) # Owner[b]
    BY <2>2 DEF InHand, Holds, Changing
  <2>4. ASSUME NEW a \in Apps PROVE AppFits(a)'
    <3>1. CASE a = b
      <4>1. app'[b] = "Running" BY <1>2, <2>1
      <4>2. ~InHand(Owner[b])' BY <1>1, <1>2, <2>2
      <4> QED BY <1>3, <2>1, <2>3, <3>1, <4>1, <4>2 DEF AppFits, PkgOf
    <3>2. CASE a # b
      <4>1. app'[a] = app[a] BY <1>2, <2>1, <3>2
      <4> QED BY <1>1, <1>2, <1>3, <2>1, <4>1, AppKept
    <3> QED BY <3>1, <3>2
  <2> QED BY <2>4 DEF StopInv
<1>5. ASSUME NEW b \in Apps, ContainerReady(b) PROVE FALSE BY <1>1, <1>5 DEF AppFits, ContainerReady
<1>6. ASSUME NEW b \in Apps, ApplicationFinished(b) PROVE StopInv'
  <2>1. app' = [app EXCEPT ![b] = "NotRunning"] /\ pkg' = [pkg EXCEPT ![Owner[b]].waiting = @ \ {b}]
    BY <1>6 DEF ApplicationFinished
  <2>2. pkg \in [Packages -> Package] BY DEF Inv, TypeOK
  <2>3. \A q \in Packages : pkg[q].waiting \ {b} \subseteq pkg'[q].waiting BY <2>1, <2>2 DEF Package
  <2>4. \A q \in Packages : pkg'[q].known = pkg[q].known /\ pkg'[q].state = pkg[q].state
    BY AppFields
  <2>5. ASSUME NEW a \in Apps PROVE AppFits(a)'
    <3>1. CASE a = b
      <4>1. app'[a] = "NotRunning" BY <1>2, <2>1, <3>1
      <4> QED BY <4>1 DEF AppFits, Runs
    <3>2. CASE a # b
      <4>1. app'[a] = app[a] BY <1>2, <2>1, <3>2
      <4> QED BY <1>1, <1>2, <1>3, <2>3, <2>4, <3>2, <4>1 DEF AppFits, Runs, PkgOf
    <3> QED BY <3>1, <3>2
  <2> QED BY <2>5 DEF StopInv
<1> QED BY <1>4, <1>5, <1>6 DEF AppStep

LEMMA RegisterStops ==
    ASSUME Inv, DatabaseInv, UnpackInv, StopInv, RegisterPackages, SameTasks
    PROVE  StopInv'
<1>1. ~ready /\ app' = app /\ \A q \in Packages : pkg[q] = Absent
  BY DEF RegisterPackages, DatabaseInv
<1>2. ASSUME NEW a \in Apps PROVE AppFits(a)'
  <2>1. Owner[a] \in Packages /\ AppFits(a) BY ConstantsAssumption DEF StopInv
  <2>2. ~Runs(a) /\ app[a] # "Pending" BY <1>1, <2>1 DEF AppFits, Absent
  <2> QED BY <1>1, <2>2 DEF AppFits, Runs
<1> QED BY <1>2 DEF StopInv

LEMMA StopsPreserved ==
    ASSUME "readback" \notin Faults, SlowStart = {},
           Inv, Inv', UnpackInv, DatabaseInv, StopInv, [Next]_vars
    PROVE  StopInv'
<1>1. ASSUME NEW t \in Tasks, Enqueues(t) PROVE StopInv'
  <2>1. UNCHANGED <<pkg, app>> BY <1>1 DEF Enqueues
  <2> QED BY <1>1, <2>1, EnqueuesHold, SameStops
<1>2. CASE Silent
  <2>1. UNCHANGED <<pkg, app>> BY <1>2 DEF Silent
  <2> QED BY <1>2, <2>1, SameTasksHold, SameStops DEF Silent, SameTasks
<1>3. CASE Crash
  <2>1. app' = [a \in Apps |-> "NotRunning"] BY <1>3 DEF Crash
  <2> QED BY <2>1 DEF StopInv, AppFits, Runs
<1> QED BY <1>1, <1>2, <1>3, Steps, WorkerStops, SlotStops, AppStops, RegisterStops

(* While a task changes the files of a package, none of its applications is running, if
   all containers are ready at once: an application of SlowStart becomes Running without
   a look at the block, which the run MCSlowStart shows. *)
THEOREM FilesChangeWhileStopped ==
    ASSUME "readback" \notin Faults, SlowStart = {}
    PROVE  Spec => []StoppedWhileFilesChange
<1>1. Init => StopInv
  <2> SUFFICES ASSUME Init PROVE StopInv OBVIOUS
  <2>1. app = [a \in Apps |-> "NotRunning"] BY DEF Init
  <2> QED BY <2>1 DEF StopInv, AppFits, Runs
<1>2. Inv /\ Inv' /\ UnpackInv /\ DatabaseInv /\ StopInv /\ [Next]_vars => StopInv'
  BY StopsPreserved
<1>3. StopInv => StoppedWhileFilesChange
  BY DEF StopInv, AppFits, Runs, Changing, StoppedWhileFilesChange, AppsOf
<1> QED BY <1>1, <1>2, <1>3, Invariance, UnpackInvariance, DatabaseInvariance, PTL DEF Spec

============================================================================
