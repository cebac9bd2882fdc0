------------------------- MODULE PackageDiskProofs -------------------------
(***************************************************************************)
(* The directories of the packages: who owns what is being unpacked, what  *)
(* is complete, and what the package list says of it.  Two invariants on   *)
(* top of Inv, one above the other: UnpackInv (a task owns at most what it *)
(* still has to undo, and <id>+ belongs to the one task that has unpacked  *)
(* it as far as its label says) and DatabaseInv (what the list says fits   *)
(* the directories, as they would be if the renames were undone).          *)
(***************************************************************************)
EXTENDS PackageStepProofs

(* labels at which an installation owns its unpack directory, by what is in there *)
Unpacking == {"askApproval", "waitStop", "unpack"}
Unpacked == {"awaitAck", "lockFinish", "writeReport"}
Reported == {"createDocs", "backup", "rename"}

StageAt(label) ==
    IF label \in Unpacking THEN "unpacking" ELSE IF label \in Unpacked THEN "unpacked" ELSE "reported"

OnlyInstallation ==
    {"download", "askActive", "startInstallation", "askApproval", "unpack", "removeBackup"}
        \cup Unpacked \cup Reported
OnlyRemoval == {"askRemoval", "renameDoc", "renameApp", "removeOld", "setError"}

(* what a task may still have to undo at its label *)
ScopedFits(t) ==
    LET pc == task[t].pc
        scoped == task[t].scoped
    IN  /\ pc \in OnlyInstallation => Install(t)
        /\ pc \in OnlyRemoval => ~Install(t)
        /\ CASE Install(t) /\ pc \in (Unpacking \cup Unpacked \cup Reported \cup {"askCancel"}) \ {"rename"}
                  -> scoped = {"unpackDir"}
             [] pc = "rename"
                  -> scoped \in {{"unpackDir"}, {"unpackDir", "docDir"}, {"unpackDir", "backup"}}
             [] Install(t) /\ pc \in {"declined", "end", "finished"} -> scoped \subseteq {"unpackDir"}
             [] pc = "renameApp" -> scoped \subseteq {"docBackup"}
             [] OTHER -> scoped = {}

UnpackFits(t) ==
    LET plus == disk[PkgOf(t)].plus
    IN  /\ "unpackDir" \in task[t].scoped => Exists(plus) /\ plus.ver = t
        /\ Install(t) /\ task[t].pc \in Unpacking \cup Unpacked \cup Reported =>
               plus.stage = StageAt(task[t].pc)

IsWhole(dir) == Exists(dir) => dir.stage = "reported"

(* only a whole backup is going to be renamed back *)
BackupFits(t) == "backup" \in task[t].scoped => IsWhole(disk[PkgOf(t)].minus)

IsBackup(dir) == Exists(dir) => dir.stage \in {"reported", "leftover"}

UnpackInv ==
    /\ \A t \in Tasks : ScopedFits(t) /\ UnpackFits(t) /\ BackupFits(t)
    /\ \A p \in Packages :
          /\ ready /\ Exists(disk[p].plus) =>
                 \/ MayFail("remove") /\ disk[p].plus.stage = "leftover"
                 \/ \E t \in Tasks : PkgOf(t) = p /\ "unpackDir" \in task[t].scoped
          /\ IsWhole(disk[p].app) /\ IsBackup(disk[p].minus)

-----------------------------------------------------------------------------
(* Operations on the directories, field by field. *)

LEMMA DirsFields ==
    ASSUME NEW d \in PackageDirs
    PROVE  /\ LET e == NameToNameMinus(d)
              IN  /\ e.app = NoDir /\ e.minus = d.app /\ e.plus = d.plus
                  /\ e.doc = d.doc /\ e.docMinus = d.docMinus
           /\ LET e == NamePlusToName(d)
              IN  /\ e.app = d.plus /\ e.plus = NoDir /\ e.minus = d.minus
                  /\ e.doc = d.doc /\ e.docMinus = d.docMinus
           /\ LET e == UndoNameToNameMinus(d)
              IN  /\ e.app = d.minus /\ e.minus = NoDir /\ e.plus = d.plus
                  /\ e.doc = d.doc /\ e.docMinus = d.docMinus
           /\ LET e == DocToDocMinus(d)
              IN  /\ e.app = d.app /\ e.plus = d.plus /\ e.minus = d.minus
                  /\ ~e.doc /\ e.docMinus
           /\ LET e == [d EXCEPT !.doc = TRUE]
              IN  /\ e.app = d.app /\ e.plus = d.plus /\ e.minus = d.minus
                  /\ e.doc /\ e.docMinus = d.docMinus
BY DEF PackageDirs, NameToNameMinus, NamePlusToName, UndoNameToNameMinus, DocToDocMinus

LEMMA PlusFields ==
    ASSUME NEW d \in PackageDirs, NEW plus, NEW e, e = [d EXCEPT !.plus = plus]
    PROVE  /\ e.app = d.app /\ e.plus = plus /\ e.minus = d.minus
           /\ e.doc = d.doc /\ e.docMinus = d.docMinus
BY DEF PackageDirs

LEMMA MinusFields ==
    ASSUME NEW d \in PackageDirs, NEW minus, NEW e, e = [d EXCEPT !.minus = minus]
    PROVE  /\ e.app = d.app /\ e.plus = d.plus /\ e.minus = minus
           /\ e.doc = d.doc /\ e.docMinus = d.docMinus
BY DEF PackageDirs

(* what is left of a directory that could not be deleted *)
IsLeftOf(left, dir) ==
    /\ MayFail("remove") /\ Exists(dir) /\ Exists(left)
    /\ left.ver = dir.ver /\ left.stage = "leftover"

LEMMA LeftoverFields ==
    ASSUME NEW dir \in Dir, MayFail("remove"), Exists(dir)
    PROVE  IsLeftOf(Leftover(dir), dir)
<1>1. dir \in Content BY DEF Dir, Exists
<1>2. Leftover(dir) \in Content BY <1>1 DEF Leftover, Content, Stage
<1> QED BY <1>1, <1>2, NoDirAssumption DEF IsLeftOf, Exists, Leftover, Content

LEMMA RemovedFields ==
    ASSUME NEW dir \in Dir, NEW left \in Removed(dir)
    PROVE  left = NoDir \/ IsLeftOf(left, dir)
BY LeftoverFields DEF Removed

LEMMA FailedTarget ==
    ASSUME NEW from, NEW target \in Dir, NEW left \in TargetOfFailedRename(from, target)
    PROVE  IF Exists(from) THEN left = NoDir \/ IsLeftOf(left, target) ELSE left = target
BY LeftoverFields DEF TargetOfFailedRename

LEMMA RolledBackFields ==
    ASSUME TypeOK, NEW t \in Tasks, NEW undone \in Undone(t)
    PROVE  LET d == Dirs(t)
               e == RolledBack(t, undone)
           IN  /\ e \in PackageDirs
               /\ IF "backup" \in undone
                  THEN e.app = d.minus /\ e.minus = NoDir ELSE e.app = d.app /\ e.minus = d.minus
               /\ e.plus = d.plus
               /\ e.doc <=> (d.doc /\ "docDir" \notin undone) \/ "docBackup" \in undone
               /\ e.docMinus <=> d.docMinus /\ "docBackup" \notin undone
               /\ undone \subseteq task[t].scoped
               /\ "backup" \in task[t].scoped => MayFail("undo") \/ "backup" \in undone
               /\ "docBackup" \in task[t].scoped => MayFail("undo") \/ "docBackup" \in undone
<1>1. Dirs(t) \in PackageDirs BY DirsOf
<1>2. /\ undone \subseteq task[t].scoped
      /\ "backup" \in task[t].scoped => MayFail("undo") \/ "backup" \in undone
      /\ "docBackup" \in task[t].scoped => MayFail("undo") \/ "docBackup" \in undone
  BY DEF Undone
<1>3. CASE "backup" \in undone
  <2>1. UndoNameToNameMinus(Dirs(t)) \in PackageDirs BY <1>1 DEF UndoNameToNameMinus, PackageDirs, Dir
  <2> QED BY <1>1, <1>2, <1>3, <2>1, DirsFields DEF RolledBack, Dirs, PackageDirs
<1>4. CASE "backup" \notin undone
  BY <1>1, <1>2, <1>4 DEF RolledBack, Dirs, PackageDirs
<1> QED BY <1>3, <1>4

(* what does not touch what stands at <id> and <id>- and the documents *)
OnlyPlus(t) ==
    LET d == Dirs(t)
        e == disk'[PkgOf(t)]
    IN  /\ e.app = d.app /\ e.minus = d.minus
        /\ e.doc = d.doc /\ e.docMinus = d.docMinus

LEMMA HeldByOne ==
    ASSUME Inv, NEW t \in Tasks, NEW u \in Tasks, PkgOf(t) = PkgOf(u),
           task[t].pc \in Holding, task[u].pc \in Holding
    PROVE  t = u
BY TypedFields DEF Inv, BlockedByItsTask, Holds, PkgOf

(* only a task that holds its package touches more than <id>+, and no step of its
   thread takes or returns the package *)
LEMMA WorkerHolding ==
    ASSUME Inv, NEW t \in Tasks, WorkerStep(t)
    PROVE  /\ task[t].pc \in Holding <=> task'[t].pc \in Holding
           /\ task[t].pc \notin Holding => OnlyPlus(t)
<1>1. Dirs(t) \in PackageDirs BY DirsOf DEF Inv
<1>2. ApprovalMatchesLabel BY DEF Inv
<1> USE DEF Holding, Finishing, Goes
<1>3. CASE Refused(t)
  <2>1. ASSUME disk'[PkgOf(t)] = Dirs(t) PROVE OnlyPlus(t) BY <2>1 DEF OnlyPlus
  <2>3. ASSUME NEW left, disk'[PkgOf(t)] = [Dirs(t) EXCEPT !.plus = left] PROVE OnlyPlus(t)
    BY <1>1, <2>3, PlusFields DEF OnlyPlus
  <2>2. OnlyPlus(t) BY <1>3, <2>1, <2>3 DEF Refused, KeepsDirs
  <2> QED BY <1>3, <2>2 DEF Refused
<1>4. CASE Aborted(t) BY <1>4 DEF Aborted
<1>5. CASE GoesOn(t) BY <1>5 DEF GoesOn, OnlyPlus, KeepsDirs
<1>6. CASE StartsUnpacking(t)
  <2>1. OnlyPlus(t) BY <1>1, <1>6, PlusFields DEF StartsUnpacking, OnlyPlus
  <2> QED BY <1>6, <2>1 DEF StartsUnpacking
<1>7. CASE EndsUnpacking(t) \/ WritesReport(t) \/ CreatesDocuments(t) \/ BacksUp(t)
  BY <1>7 DEF EndsUnpacking, WritesReport, CreatesDocuments, BacksUp
<1>8. CASE RenamesNewVersion(t) \/ RemovesBackup(t) \/ RenamesDocuments(t) \/ RenamesApplication(t)
           \/ RemovesOldVersion(t)
  BY <1>8 DEF RenamesNewVersion, RemovesBackup, RenamesDocuments, RenamesApplication, RemovesOldVersion
<1> QED BY <1>3, <1>4, <1>5, <1>6, <1>7, <1>8 DEF WorkerStep, Transition

-----------------------------------------------------------------------------
(* UnpackInv *)

LEMMA OneOwner ==
    ASSUME UnpackInv, NEW t \in Tasks, NEW u \in Tasks, PkgOf(t) = PkgOf(u),
           "unpackDir" \in task[t].scoped, "unpackDir" \in task[u].scoped
    PROVE  t = u
BY DEF UnpackInv, UnpackFits

LEMMA OwnerIsStarted ==
    ASSUME UnpackInv, NEW t \in Tasks, "unpackDir" \in task[t].scoped
    PROVE  Started(t) /\ Install(t)
<1>1. ScopedFits(t) BY DEF UnpackInv
<1> QED BY <1>1 DEF ScopedFits, OnlyInstallation, OnlyRemoval, Unpacking, Unpacked, Reported, Started

(* what a transition does to <id>+ *)
PlusStays(t) ==
    /\ disk'[PkgOf(t)].plus = Dirs(t).plus
    /\ "unpackDir" \in task[t].scoped => "unpackDir" \in task'[t].scoped
PlusIsMine(t) ==
    \/ "unpackDir" \in task[t].scoped
    \/ task[t].pc = "startInstallation" /\ Install(t)
PlusIsOwned(t) ==
    Exists(disk'[PkgOf(t)].plus) =>
        \/ MayFail("remove") /\ disk'[PkgOf(t)].plus.stage = "leftover"
        \/ "unpackDir" \in task'[t].scoped

LEMMA WorkerScoped ==
    ASSUME Inv, UnpackInv, NEW t \in Tasks, WorkerStep(t)
    PROVE  ScopedFits(t)'
<1>1. ScopedFits(t) BY DEF UnpackInv
<1>2. task'[t].kind = task[t].kind /\ task[t].pc \in Labels BY TypedFields DEF WorkerStep, WorkerFrame, Inv
<1>3. ApprovalMatchesLabel BY DEF Inv
<1> USE <1>1, <1>2 DEF ScopedFits, OnlyInstallation, OnlyRemoval, Unpacking, Unpacked, Reported, Install,
         Goes, KeepsScoped
<1>4. CASE Refused(t) BY <1>3, <1>4 DEF Refused, ApprovalMatchesLabel, Holding, Finishing
<1>5. CASE Aborted(t) BY <1>5 DEF Aborted
<1>6. CASE GoesOn(t) BY <1>6 DEF GoesOn
<1>7. CASE StartsUnpacking(t) BY <1>7 DEF StartsUnpacking
<1>8. CASE EndsUnpacking(t) BY <1>8 DEF EndsUnpacking
<1>9. CASE WritesReport(t) BY <1>9 DEF WritesReport
<1>10. CASE CreatesDocuments(t) BY <1>10 DEF CreatesDocuments
<1>11. CASE BacksUp(t) BY <1>11 DEF BacksUp
<1>12. CASE RenamesNewVersion(t) BY <1>12 DEF RenamesNewVersion
<1>13. CASE RemovesBackup(t) BY <1>13 DEF RemovesBackup
<1>14. CASE RenamesDocuments(t) BY <1>14 DEF RenamesDocuments
<1>15. CASE RenamesApplication(t) BY <1>15 DEF RenamesApplication
<1>16. CASE RemovesOldVersion(t) BY <1>16 DEF RemovesOldVersion
<1> QED BY <1>4, <1>5, <1>6, <1>7, <1>8, <1>9, <1>10, <1>11, <1>12, <1>13, <1>14, <1>15, <1>16
        DEF WorkerStep, Transition

LEMMA WorkerPlus ==
    ASSUME Inv, UnpackInv, NEW t \in Tasks, WorkerStep(t)
    PROVE  /\ PlusStays(t) \/ (PlusIsMine(t) /\ PlusIsOwned(t))
           /\ UnpackFits(t)' /\ BackupFits(t)'
           /\ IsWhole(disk'[PkgOf(t)].app) /\ IsBackup(disk'[PkgOf(t)].minus)
<1>1. /\ ScopedFits(t) /\ ScopedFits(t)' /\ UnpackFits(t) /\ BackupFits(t)
      /\ IsWhole(Dirs(t).app) /\ IsBackup(Dirs(t).minus)
  BY WorkerScoped, DirsOf DEF UnpackInv, Inv, Dirs
<1>2. /\ task'[t].kind = task[t].kind /\ task'[t].pkg = task[t].pkg
      /\ Dirs(t) \in PackageDirs /\ TypeOK
  BY DirsOf DEF WorkerStep, WorkerFrame, Inv
<1>3. /\ IsWhole(NoDir) /\ IsBackup(NoDir)
      /\ Dirs(t).plus \in Dir /\ Dirs(t).minus \in Dir /\ Dirs(t).plus \in Content \cup {NoDir}
      /\ \A dir : IsWhole(dir) => IsBackup(dir)
      /\ \A left, dir : IsLeftOf(left, dir) => IsBackup(left)
  BY <1>2 DEF IsWhole, IsBackup, IsLeftOf, PackageDirs, Dir, Exists
<1> USE <1>1, <1>2, <1>3 DEF UnpackFits, BackupFits, PlusStays, PlusIsMine, PlusIsOwned, PkgOf, Install, Goes,
         KeepsDirs, KeepsScoped, Dirs
<1>4. CASE Refused(t)
  <2>1. CASE KeepsDirs(t) BY <1>4, <2>1 DEF Refused, Unpacking, Unpacked, Reported
  <2>2. CASE /\ task[t].pc = "startInstallation"
             /\ \E left \in Removed(Dirs(t).plus) : disk'[PkgOf(t)] = [Dirs(t) EXCEPT !.plus = left]
    <3>0. PICK left \in Removed(Dirs(t).plus) : disk'[PkgOf(t)] = [Dirs(t) EXCEPT !.plus = left]
      BY <2>2
    <3>1. /\ disk'[PkgOf(t)].app = Dirs(t).app /\ disk'[PkgOf(t)].minus = Dirs(t).minus
          /\ Exists(disk'[PkgOf(t)].plus) =>
                 MayFail("remove") /\ disk'[PkgOf(t)].plus.stage = "leftover"
      BY <3>0, PlusFields, RemovedFields DEF Exists, IsLeftOf
    <3>2. "unpackDir" \notin task[t].scoped /\ Install(t)
      BY <2>2 DEF ScopedFits, OnlyInstallation, Unpacking, Unpacked, Reported
    <3> QED BY <1>4, <2>2, <3>1, <3>2 DEF Refused, Unpacking, Unpacked, Reported
  <2> QED BY <1>4, <2>1, <2>2 DEF Refused
<1>5. CASE Aborted(t)
  <2>0. "backup" \notin task'[t].scoped /\ task'[t].pc = "askCancel" BY <1>5 DEF Aborted
  <2>1. CASE KeepsDirs(t) \/ (task[t].pc = "renameDoc" /\ disk'[PkgOf(t)] = [Dirs(t) EXCEPT !.docMinus = FALSE])
    <3>1. /\ disk'[PkgOf(t)].app = Dirs(t).app /\ disk'[PkgOf(t)].minus = Dirs(t).minus
          /\ disk'[PkgOf(t)].plus = Dirs(t).plus
      BY <2>1 DEF PackageDirs
    <3> QED BY <1>5, <2>0, <3>1 DEF Aborted, Unpacking, Unpacked, Reported
  <2>2. CASE /\ task[t].pc = "backup"
             /\ \E left \in TargetOfFailedRename(Dirs(t).app, Dirs(t).minus) :
                   disk'[PkgOf(t)] = [Dirs(t) EXCEPT !.minus = left]
    <3>1. PICK left \in TargetOfFailedRename(Dirs(t).app, Dirs(t).minus) :
             disk'[PkgOf(t)] = [Dirs(t) EXCEPT !.minus = left]
      BY <2>2
    <3>2. IsBackup(left) BY FailedTarget
    <3> QED BY <1>5, <2>0, <3>1, <3>2, MinusFields DEF Aborted, Unpacking, Unpacked, Reported
  <2>3. CASE task[t].pc = "rename" /\ \E undone \in Undone(t) : disk'[PkgOf(t)] = RolledBack(t, undone)
    <3>1. PICK undone \in Undone(t) : disk'[PkgOf(t)] = RolledBack(t, undone) BY <2>3
    <3>2. "backup" \in undone => IsWhole(Dirs(t).minus)
      BY <3>1, RolledBackFields DEF IsWhole
    <3> QED BY <1>5, <2>0, <3>1, <3>2, RolledBackFields DEF Aborted, Unpacking, Unpacked, Reported
  <2>4. CASE /\ task[t].pc = "renameApp"
             /\ \E left \in TargetOfFailedRename(Dirs(t).app, Dirs(t).minus), undone \in Undone(t) :
                   disk'[PkgOf(t)] = [RolledBack(t, undone) EXCEPT !.minus = left]
    <3>1. PICK left \in TargetOfFailedRename(Dirs(t).app, Dirs(t).minus), undone \in Undone(t) :
             disk'[PkgOf(t)] = [RolledBack(t, undone) EXCEPT !.minus = left]
      BY <2>4
    <3>2. IsBackup(left) BY FailedTarget
    <3>3. "backup" \notin task[t].scoped BY <2>4 DEF ScopedFits, Unpacking, Unpacked, Reported
    <3>4. LET b == RolledBack(t, undone)
          IN  b \in PackageDirs /\ b.app = Dirs(t).app /\ b.plus = Dirs(t).plus
      BY <3>3, RolledBackFields
    <3>5. /\ disk'[PkgOf(t)].app = Dirs(t).app /\ disk'[PkgOf(t)].plus = Dirs(t).plus
          /\ disk'[PkgOf(t)].minus = left
      BY <3>1, <3>4, MinusFields
    <3> QED BY <1>5, <2>0, <2>4, <3>2, <3>5 DEF Aborted, Unpacking, Unpacked, Reported
  <2> QED BY <1>5, <2>1, <2>2, <2>3, <2>4 DEF Aborted
<1>6. CASE GoesOn(t)
  BY <1>6 DEF GoesOn, Unpacking, Unpacked, Reported, StageAt
<1>7. CASE StartsUnpacking(t)
  <2> DEFINE plus == [ver |-> t, stage |-> "unpacking"]
  <2>1. plus \in Content /\ plus.ver = t /\ plus.stage = "unpacking" BY DEF Content, Version, Stage
  <2>2. Exists(plus) BY <2>1, NoDirAssumption DEF Exists
  <2>3. disk'[PkgOf(t)] = [Dirs(t) EXCEPT !.plus = plus] BY <1>7 DEF StartsUnpacking
  <2> HIDE DEF plus
  <2>7. /\ disk'[PkgOf(t)].app = Dirs(t).app /\ disk'[PkgOf(t)].minus = Dirs(t).minus
        /\ disk'[PkgOf(t)].plus = plus
    BY <2>3, PlusFields
  <2> QED BY <1>7, <2>1, <2>2, <2>7
          DEF StartsUnpacking, Unpacking, Unpacked, Reported, StageAt
<1>8. CASE EndsUnpacking(t)
  <2> DEFINE plus == [Dirs(t).plus EXCEPT !.stage = "unpacked"]
  <2>1. "unpackDir" \in task[t].scoped BY <1>8 DEF EndsUnpacking, ScopedFits, Unpacking, Unpacked, Reported
  <2>2. Exists(Dirs(t).plus) /\ Dirs(t).plus.ver = t BY <2>1
  <2>3. Dirs(t).plus \in Content BY <2>2 DEF Exists
  <2>4. plus \in Content /\ plus.ver = t /\ plus.stage = "unpacked" BY <2>2, <2>3 DEF Content, Stage
  <2>5. Exists(plus) BY <2>4, NoDirAssumption DEF Exists
  <2>6. disk'[PkgOf(t)] = [Dirs(t) EXCEPT !.plus = plus] BY <1>8, <2>2 DEF EndsUnpacking
  <2> HIDE DEF plus
  <2>7. /\ disk'[PkgOf(t)].app = Dirs(t).app /\ disk'[PkgOf(t)].minus = Dirs(t).minus
        /\ disk'[PkgOf(t)].plus = plus
    BY <2>6, PlusFields
  <2> QED BY <1>8, <2>1, <2>4, <2>5, <2>7
          DEF EndsUnpacking, Unpacking, Unpacked, Reported, StageAt
<1>9. CASE WritesReport(t)
  <2> DEFINE plus == WithReport(Dirs(t).plus)
  <2>1. "unpackDir" \in task[t].scoped BY <1>9 DEF WritesReport, ScopedFits, Unpacking, Unpacked, Reported
  <2>2. Exists(Dirs(t).plus) /\ Dirs(t).plus.ver = t /\ Dirs(t).plus.stage = "unpacked"
    BY <1>9, <2>1 DEF WritesReport, Unpacking, Unpacked, Reported, StageAt
  <2>3. Dirs(t).plus \in Content BY <2>2 DEF Exists
  <2>4. plus \in Content /\ plus.ver = t /\ plus.stage = "reported"
    BY <2>2, <2>3 DEF Content, Stage, WithReport
  <2>5. Exists(plus) BY <2>4, NoDirAssumption DEF Exists
  <2>6. disk'[PkgOf(t)] = [Dirs(t) EXCEPT !.plus = plus] BY <1>9 DEF WritesReport
  <2> HIDE DEF plus
  <2>7. /\ disk'[PkgOf(t)].app = Dirs(t).app /\ disk'[PkgOf(t)].minus = Dirs(t).minus
        /\ disk'[PkgOf(t)].plus = plus
    BY <2>6, PlusFields
  <2> QED BY <1>9, <2>1, <2>4, <2>5, <2>7
          DEF WritesReport, Unpacking, Unpacked, Reported, StageAt
<1>10. CASE CreatesDocuments(t)
  BY <1>10, DirsFields DEF CreatesDocuments, Unpacking, Unpacked, Reported, StageAt
<1>11. CASE BacksUp(t)
  <2>1. IsWhole(Dirs(t).app) /\ disk'[PkgOf(t)].minus = Dirs(t).app BY <1>11, DirsFields DEF BacksUp
  <2>2. BackupFits(t)' BY <1>11, <2>1 DEF IsWhole
  <2> QED BY <1>11, DirsFields DEF BacksUp, Unpacking, Unpacked, Reported, StageAt
<1>12. CASE RenamesNewVersion(t)
  <2>1. "unpackDir" \in task[t].scoped BY <1>12 DEF RenamesNewVersion, ScopedFits, Unpacking, Unpacked, Reported
  <2>2. IsWhole(Dirs(t).plus)
    BY <1>12 DEF RenamesNewVersion, Unpacking, Unpacked, Reported, StageAt, IsWhole
  <2> QED BY <1>12, <2>1, <2>2, DirsFields DEF RenamesNewVersion, Unpacking, Unpacked, Reported, Exists
<1>13. CASE RemovesBackup(t)
  <2>1. PICK left \in Removed(Dirs(t).minus) : disk'[PkgOf(t)] = [Dirs(t) EXCEPT !.minus = left]
    BY <1>13 DEF RemovesBackup
  <2>2. IsBackup(left) BY RemovedFields
  <2>3. /\ disk'[PkgOf(t)].app = Dirs(t).app /\ disk'[PkgOf(t)].plus = Dirs(t).plus
        /\ disk'[PkgOf(t)].minus = left
    BY <2>1, MinusFields
  <2> QED BY <1>13, <2>2, <2>3 DEF RemovesBackup, ScopedFits, Unpacking, Unpacked, Reported
<1>14. CASE RenamesDocuments(t)
  BY <1>14, DirsFields DEF RenamesDocuments, Unpacking, Unpacked, Reported, ScopedFits
<1>15. CASE RenamesApplication(t)
  BY <1>15, DirsFields DEF RenamesApplication, Unpacking, Unpacked, Reported, ScopedFits
<1>16. CASE RemovesOldVersion(t)
  <2>1. PICK left \in Removed(Dirs(t).minus), stay \in BOOLEAN :
           disk'[PkgOf(t)] = [Dirs(t) EXCEPT !.minus = left, !.docMinus = @ /\ stay]
    BY <1>16 DEF RemovesOldVersion
  <2>2. IsBackup(left) BY RemovedFields
  <2>3. /\ disk'[PkgOf(t)].app = Dirs(t).app /\ disk'[PkgOf(t)].plus = Dirs(t).plus
        /\ disk'[PkgOf(t)].minus = left
    BY <2>1 DEF PackageDirs
  <2> QED BY <1>16, <2>2, <2>3 DEF RemovesOldVersion, ScopedFits, Unpacking, Unpacked, Reported
<1> QED BY <1>4, <1>5, <1>6, <1>7, <1>8, <1>9, <1>10, <1>11, <1>12, <1>13, <1>14, <1>15, <1>16
        DEF WorkerStep, Transition

(* what a step of one task, on its thread or on the main thread, leaves alone *)
TaskFrame(t) ==
    /\ \A u \in Tasks \ {t} : task'[u] = task[u]
    /\ \A q \in Packages \ {PkgOf(t)} : disk'[q] = disk[q]
    /\ task'[t].pkg = task[t].pkg
    /\ ready' = ready

LEMMA StepsKeepFrame ==
    ASSUME NEW t \in Tasks, WorkerStep(t) \/ SlotStep(t)
    PROVE  TaskFrame(t)
BY DEF WorkerStep, WorkerFrame, SlotStep, SlotFrame, TaskFrame

LEMMA UnpackKept ==
    ASSUME Inv, UnpackInv, NEW t \in Tasks, TaskFrame(t),
           ScopedFits(t)', UnpackFits(t)', BackupFits(t)',
           IsWhole(disk'[PkgOf(t)].app), IsBackup(disk'[PkgOf(t)].minus),
           PlusStays(t) \/ (PlusIsMine(t) /\ PlusIsOwned(t)),
           task[t].pc \notin Holding => OnlyPlus(t)
    PROVE  UnpackInv'
<1> DEFINE p == PkgOf(t)
<1>1. p \in Packages /\ p' = p BY TypedFields DEF Inv, PkgOf, TaskFrame
<1>2. ASSUME NEW u \in Tasks \ {t} PROVE ScopedFits(u)' /\ UnpackFits(u)'
  <2>1. task'[u] = task[u] /\ ScopedFits(u) /\ UnpackFits(u) BY DEF TaskFrame, UnpackInv
  <2>2. ScopedFits(u)' BY <2>1 DEF ScopedFits, Install
  <2>3. PkgOf(u) \in Packages /\ PkgOf(u)' = PkgOf(u) BY <2>1, TypedFields DEF Inv, PkgOf
  <2>4. CASE disk'[PkgOf(u)].plus = disk[PkgOf(u)].plus
    BY <2>1, <2>2, <2>3, <2>4 DEF UnpackFits, Install
  <2>5. CASE PkgOf(u) = p /\ PlusIsMine(t)
    <3>1. "unpackDir" \notin task[u].scoped
      <4>1. CASE "unpackDir" \in task[t].scoped BY <2>5, <4>1, OneOwner
      <4>2. CASE task[t].pc = "startInstallation" /\ Install(t)
        BY <2>5, <4>2, AskerIsAlone, OwnerIsStarted
      <4> QED BY <2>5, <4>1, <4>2 DEF PlusIsMine
    <3>2. ~(Install(u) /\ task[u].pc \in Unpacking \cup Unpacked \cup Reported)
      BY <2>1, <3>1 DEF ScopedFits, Unpacking, Unpacked, Reported
    <3> QED BY <2>1, <2>2, <3>1, <3>2 DEF UnpackFits, Install
  <2> QED BY <2>2, <2>3, <2>4, <2>5 DEF PlusStays, Dirs, TaskFrame
<1>3. ASSUME NEW q \in Packages, ready', Exists(disk'[q].plus)
      PROVE  \/ MayFail("remove") /\ disk'[q].plus.stage = "leftover"
             \/ \E u \in Tasks : PkgOf(u)' = q /\ "unpackDir" \in task'[u].scoped
  <2>1. CASE q = p /\ PlusIsOwned(t) BY <1>1, <1>3, <2>1 DEF PlusIsOwned
  <2>2. CASE disk'[q].plus = disk[q].plus /\ (q = p => PlusStays(t))
    <3>1. ready /\ Exists(disk[q].plus) BY <1>3, <2>2 DEF TaskFrame
    <3>2. CASE MayFail("remove") /\ disk[q].plus.stage = "leftover" BY <2>2, <3>2
    <3>3. CASE \E u \in Tasks : PkgOf(u) = q /\ "unpackDir" \in task[u].scoped
      <4>1. PICK u \in Tasks : PkgOf(u) = q /\ "unpackDir" \in task[u].scoped BY <3>3
      <4> QED BY <1>1, <2>2, <4>1 DEF TaskFrame, PkgOf, PlusStays
    <3> QED BY <3>1, <3>2, <3>3 DEF UnpackInv
  <2> QED BY <2>1, <2>2 DEF TaskFrame, PlusStays, Dirs
<1>4. \A q \in Packages : IsWhole(disk'[q].app) /\ IsBackup(disk'[q].minus)
  BY DEF TaskFrame, UnpackInv
<1>6. ASSUME NEW u \in Tasks \ {t}, "backup" \in task'[u].scoped PROVE BackupFits(u)'
  <2>1. task'[u] = task[u] /\ ScopedFits(u) /\ BackupFits(u) BY DEF TaskFrame, UnpackInv
  <2>2. PkgOf(u) \in Packages /\ PkgOf(u)' = PkgOf(u) BY <2>1, TypedFields DEF Inv, PkgOf
  <2>3. task[u].pc \in Holding
    BY <1>6, <2>1 DEF ScopedFits, Unpacking, Unpacked, Reported, Holding, Finishing
  <2>4. PkgOf(u) = p => OnlyPlus(t) BY <2>3, HeldByOne
  <2>5. disk'[PkgOf(u)].minus = disk[PkgOf(u)].minus BY <2>2, <2>4 DEF OnlyPlus, Dirs, TaskFrame
  <2> QED BY <2>1, <2>2, <2>5 DEF BackupFits
<1>5. \A u \in Tasks : ScopedFits(u)' /\ UnpackFits(u)' /\ BackupFits(u)' BY <1>2, <1>6 DEF BackupFits
<1> QED BY <1>3, <1>4, <1>5 DEF UnpackInv

LEMMA SlotUnpack ==
    ASSUME Inv, UnpackInv, NEW t \in Tasks, SlotStep(t)
    PROVE  UnpackInv'
<1>1. /\ ScopedFits(t) /\ UnpackFits(t) /\ BackupFits(t)
      /\ IsWhole(Dirs(t).app) /\ IsBackup(Dirs(t).minus)
      /\ Dirs(t) \in PackageDirs /\ OneExtracts
  BY DirsOf DEF UnpackInv, Inv, Dirs
<1>2. task'[t].kind = task[t].kind /\ task'[t].pkg = task[t].pkg BY DEF SlotStep, SlotFrame
<1>3. /\ ScopedFits(t)' /\ UnpackFits(t)' /\ BackupFits(t)'
      /\ IsWhole(disk'[PkgOf(t)].app) /\ IsBackup(disk'[PkgOf(t)].minus)
      /\ PlusStays(t) \/ (PlusIsMine(t) /\ PlusIsOwned(t))
      /\ task[t].pc \notin Holding => OnlyPlus(t)
  <2>1. CASE KeepsDirs(t) /\ KeepsScoped(t)
    <3>1. /\ PlusStays(t) /\ IsWhole(disk'[PkgOf(t)].app) /\ IsBackup(disk'[PkgOf(t)].minus)
          /\ "unpackDir" \in task'[t].scoped =>
                 Exists(disk'[PkgOf(t)].plus) /\ disk'[PkgOf(t)].plus.ver = t
          /\ BackupFits(t)' /\ OnlyPlus(t)
      BY <1>1, <1>2, <2>1 DEF KeepsDirs, KeepsScoped, PlusStays, UnpackFits, BackupFits, OnlyPlus, PkgOf, Dirs
    <3> USE <1>1, <1>2, <2>1, <3>1 DEF ScopedFits, UnpackFits, OnlyInstallation, OnlyRemoval, Unpacking,
             Unpacked, Reported, StageAt, Install, PkgOf, Goes, KeepsScoped, KeepsDirs, Dirs
    <3>2. CASE Begins(t) \/ Leaves(t) BY <3>2 DEF Begins, Leaves
    <3>3. CASE Answers(t) BY <3>3 DEF Answers
    <3>4. CASE Installs(t) \/ Updates(t) BY <3>4 DEF Installs, Updates, Approves
    <3>5. CASE Removes(t) BY <3>5 DEF Removes, Approves
    <3>6. CASE Completes(t) BY <3>6 DEF Completes
    <3>7. CASE Withdraws(t) BY <3>7 DEF Withdraws
    <3>9. CASE Ends(t) BY <3>9 DEF Ends
    <3> QED BY <3>2, <3>3, <3>4, <3>5, <3>6, <3>7, <3>9 DEF SlotStep
  <2>2. CASE Ends(t)
    <3>1. /\ disk'[PkgOf(t)].app = Dirs(t).app /\ disk'[PkgOf(t)].minus = Dirs(t).minus
          /\ OnlyPlus(t)
          /\ IF "unpackDir" \in task[t].scoped
             THEN Exists(disk'[PkgOf(t)].plus) =>
                      MayFail("remove") /\ disk'[PkgOf(t)].plus.stage = "leftover"
             ELSE disk'[PkgOf(t)].plus = Dirs(t).plus
      <4>1. CASE "unpackDir" \in task[t].scoped
        <5>1. PICK left \in Removed(Dirs(t).plus) : disk'[PkgOf(t)] = [Dirs(t) EXCEPT !.plus = left]
          BY <2>2, <4>1 DEF Ends
        <5>2. Exists(left) => MayFail("remove") /\ left.stage = "leftover"
          BY <1>1, RemovedFields DEF PackageDirs, IsLeftOf, Exists
        <5> QED BY <1>1, <4>1, <5>1, <5>2, PlusFields DEF OnlyPlus
      <4>2. CASE "unpackDir" \notin task[t].scoped BY <2>2, <4>2 DEF Ends, KeepsDirs, OnlyPlus
      <4> QED BY <4>1, <4>2
    <3>2. task'[t].pc = "gone" /\ task'[t].scoped = {} BY <2>2 DEF Ends, Goes
    <3> QED BY <1>1, <1>2, <3>1, <3>2
            DEF ScopedFits, UnpackFits, BackupFits, OnlyInstallation, OnlyRemoval, Unpacking, Unpacked, Reported,
                PlusStays, PlusIsMine, PlusIsOwned, Exists
  <2>3. Ends(t) \/ (KeepsDirs(t) /\ KeepsScoped(t))
    BY DEF SlotStep, Begins, Leaves, Answers, Installs, Updates, Removes, Approves, Completes, Withdraws
  <2> QED BY <2>1, <2>2, <2>3
<1> QED BY <1>3, UnpackKept, StepsKeepFrame

(* nothing that UnpackInv looks at changes *)
LEMMA SameUnpack ==
    ASSUME UnpackInv, SameTasks, UNCHANGED <<disk, ready>>
    PROVE  UnpackInv'
<1>1. \A t \in Tasks : ScopedFits(t)' /\ UnpackFits(t)' /\ BackupFits(t)'
  BY DEF UnpackInv, SameTasks, ScopedFits, UnpackFits, BackupFits, Install, PkgOf
<1> QED BY <1>1 DEF UnpackInv, SameTasks, PkgOf

LEMMA EnqueuesUnpack ==
    ASSUME Inv, UnpackInv, NEW t \in Tasks, Enqueues(t)
    PROVE  UnpackInv'
<1>1. "unpackDir" \notin task[t].scoped BY OwnerIsStarted DEF Enqueues, Goes, Started
<1>2. ScopedFits(t)' /\ UnpackFits(t)' /\ BackupFits(t)'
  BY DEF Enqueues, Goes, ScopedFits, UnpackFits, BackupFits, OnlyInstallation, OnlyRemoval, Unpacking, Unpacked, Reported
<1>3. \A u \in Tasks \ {t} : ScopedFits(u)' /\ UnpackFits(u)' /\ BackupFits(u)'
  BY DEF Enqueues, UnpackInv, ScopedFits, UnpackFits, BackupFits, Install, PkgOf
<1>4. \A q \in Packages : ready' /\ Exists(disk'[q].plus) =>
         \/ MayFail("remove") /\ disk'[q].plus.stage = "leftover"
         \/ \E u \in Tasks : PkgOf(u)' = q /\ "unpackDir" \in task'[u].scoped
  BY <1>1 DEF Enqueues, UnpackInv, PkgOf
<1> QED BY <1>2, <1>3, <1>4 DEF UnpackInv, Enqueues

(* while the packages are not registered, and after a crash, no task runs *)
LEMMA NobodyOwns ==
    ASSUME Inv, UnpackInv, ~ready, NEW t \in Tasks
    PROVE  ~Started(t) /\ "unpackDir" \notin task[t].scoped
<1>1. ~Started(t) BY ConstantsAssumption DEF Inv, Listed
<1> QED BY <1>1, OwnerIsStarted

LEMMA CleanedUpFields ==
    ASSUME NEW d \in PackageDirs
    PROVE  LET e == CleanedUp(d)
           IN  /\ e.app = IF Loadable(d) THEN d.app ELSE NoDir
               /\ e.plus = NoDir /\ e.minus = NoDir /\ ~e.docMinus
               /\ e.doc <=> d.doc /\ Loadable(d)
BY DEF CleanedUp, PackageDirs

LEMMA RegisterUnpack ==
    ASSUME Inv, UnpackInv, RegisterPackages, SameTasks
    PROVE  UnpackInv'
<1>1. ~ready /\ \A p \in Packages : disk[p] \in PackageDirs /\ disk'[p] = CleanedUp(disk[p])
  BY DEF RegisterPackages, Inv, TypeOK
<1>2. \A t \in Tasks : ~Started(t) /\ "unpackDir" \notin task[t].scoped BY <1>1, NobodyOwns
<1>3. \A t \in Tasks : ScopedFits(t)' BY DEF UnpackInv, SameTasks, ScopedFits, Install
<1>4. \A t \in Tasks : UnpackFits(t)' /\ BackupFits(t)'
  BY <1>2 DEF UnpackInv, ScopedFits, SameTasks, UnpackFits, BackupFits, Started, Unpacking, Unpacked, Reported
<1>5. \A p \in Packages : /\ ~Exists(disk'[p].plus)
                          /\ IsWhole(disk'[p].app) /\ IsBackup(disk'[p].minus)
  BY <1>1, CleanedUpFields DEF UnpackInv, IsWhole, IsBackup, Exists
<1> QED BY <1>3, <1>4, <1>5 DEF UnpackInv

LEMMA CrashedTask ==
    ASSUME Inv, Crash, NEW t \in Tasks
    PROVE  /\ task'[t].pkg = task[t].pkg /\ task'[t].kind = task[t].kind /\ task'[t].keep = task[t].keep
           /\ IF task[t].pc \in {"unused", "gone"} THEN task'[t] = task[t]
              ELSE /\ task'[t].pc = "gone" /\ task'[t].scoped = {}
                   /\ task'[t].state = IF Ended(t) THEN task[t].state ELSE "Lost"
BY DEF Crash, Inv, TypeOK, Task

(* the directories as the crash finds them, or some of them already cleaned up *)
LEMMA CrashedDirs ==
    ASSUME Inv, Crash, NEW p \in Packages
    PROVE  /\ disk'[p].app = disk[p].app \/ disk'[p].app = CleanedUp(disk[p]).app
           /\ disk'[p].plus \in {disk[p].plus, NoDir} /\ disk'[p].minus \in {disk[p].minus, NoDir}
           /\ disk'[p].doc \in {disk[p].doc, CleanedUp(disk[p]).doc}
           /\ disk'[p].docMinus \in {disk[p].docMinus, FALSE}
           /\ CleanedUp(disk[p]).app = IF Loadable(disk[p]) THEN disk[p].app ELSE NoDir
           /\ CleanedUp(disk[p]).doc <=> disk[p].doc /\ Loadable(disk[p])
<1>1. disk[p] \in PackageDirs BY DEF Inv, TypeOK
<1>2. disk'[p] = disk[p] \/ disk'[p] \in PartlyCleanedUp(disk[p]) BY DEF Crash
<1> QED BY <1>1, <1>2, CleanedUpFields DEF PartlyCleanedUp

LEMMA CrashUnpack ==
    ASSUME Inv, UnpackInv, Crash
    PROVE  UnpackInv'
<1>1. \A t \in Tasks : /\ task'[t].pkg = task[t].pkg /\ task'[t].kind = task[t].kind
                       /\ task'[t].pc \in {"unused", "gone"} /\ task'[t].scoped = {}
  BY CrashedTask DEF UnpackInv, ScopedFits, Unpacking, Unpacked, Reported
<1>2. \A t \in Tasks : ScopedFits(t)' /\ UnpackFits(t)' /\ BackupFits(t)'
  BY <1>1 DEF ScopedFits, UnpackFits, BackupFits, OnlyInstallation, OnlyRemoval, Unpacking, Unpacked, Reported
<1>3. \A p \in Packages : IsWhole(disk'[p].app) /\ IsBackup(disk'[p].minus)
  BY CrashedDirs DEF UnpackInv, IsWhole, IsBackup, Exists
<1> QED BY <1>2, <1>3 DEF UnpackInv, Crash

LEMMA UnpackPreserved ==
    ASSUME "readback" \notin Faults, Inv, Inv', UnpackInv, [Next]_vars
    PROVE  UnpackInv'
<1>1. ASSUME NEW t \in Tasks, WorkerStep(t) PROVE UnpackInv'
  BY <1>1, WorkerScoped, WorkerPlus, WorkerHolding, UnpackKept, StepsKeepFrame
<1>2. ASSUME NEW t \in Tasks, SlotStep(t) PROVE UnpackInv' BY <1>2, SlotUnpack
<1>3. CASE Silent BY <1>3, SameUnpack DEF Silent
<1>4. CASE AppStep /\ AppOnly /\ SameTasks BY <1>4, SameUnpack DEF AppOnly
<1> QED BY <1>1, <1>2, <1>3, <1>4, Steps, EnqueuesUnpack, RegisterUnpack, CrashUnpack

LEMMA InitialTask ==
    ASSUME Init, NEW t \in Tasks
    PROVE  task[t].pc = "unused" /\ task[t].scoped = {} /\ task[t].state = "Queued"
BY DEF Init, NewTask

LEMMA InitialDisk ==
    ASSUME Init, NEW p \in Packages
    PROVE  /\ disk[p].plus = NoDir /\ disk[p].minus = NoDir /\ ~disk[p].docMinus
           /\ disk[p].app \in {Whole(Shipped), NoDir} /\ disk[p].doc = Exists(disk[p].app)
<1>1. PICK installed \in SUBSET Packages :
         disk = [q \in Packages |-> InitialDirs(IF q \in installed THEN Whole(Shipped) ELSE NoDir)]
  BY DEF Init
<1> QED BY <1>1 DEF InitialDirs

LEMMA InitUnpack == Init => UnpackInv
<1> SUFFICES ASSUME Init PROVE UnpackInv OBVIOUS
<1>1. \A t \in Tasks : ScopedFits(t) /\ UnpackFits(t) /\ BackupFits(t)
  BY InitialTask DEF ScopedFits, UnpackFits, BackupFits, OnlyInstallation, OnlyRemoval, Unpacking, Unpacked, Reported
<1>2. \A p \in Packages : /\ ~Exists(disk[p].plus)
                          /\ IsWhole(disk[p].app) /\ IsBackup(disk[p].minus)
  BY InitialDisk DEF IsWhole, IsBackup, Exists, Whole
<1> QED BY <1>1, <1>2 DEF UnpackInv

LEMMA UnpackInvariance ==
    ASSUME "readback" \notin Faults
    PROVE  Spec => []UnpackInv
<1>1. Init => UnpackInv BY InitUnpack
<1>2. Inv /\ Inv' /\ UnpackInv /\ [Next]_vars => UnpackInv' BY UnpackPreserved
<1> QED BY <1>1, <1>2, Invariance, PTL DEF Spec

-----------------------------------------------------------------------------
(* DatabaseInv *)

(* the list has version ver of p (or none, if it is not known) where d is on the disk *)
Lists(p, known, ver, d) ==
    IF Exists(d.app) THEN known /\ ver = d.app.ver
    ELSE \/ ~known
         \/ p \in BuiltIn /\ ver = Base
         \/ MayFail("undo") /\ Exists(d.minus) /\ d.minus = Whole(ver)

(* the directories after the ScopedRenamers of the task have undone their work *)
Restored(t) ==
    IF "backup" \in task[t].scoped THEN UndoNameToNameMinus(disk[PkgOf(t)]) ELSE disk[PkgOf(t)]

(* what the manager thinks of the package of a task it has approved *)
ListFits(t) ==
    LET k == pkg[PkgOf(t)]
    IN  /\ k.known
        /\ IF Install(t) THEN \/ k.state = "BeingInstalled" /\ k.ver = t /\ k.pending = None
                              \/ k.state = "BeingUpdated" /\ k.pending = t
           ELSE /\ k.pending = None
                /\ k.state = IF PkgOf(t) \in BuiltIn THEN "BeingDowngraded" ELSE "BeingRemoved"

Done == {"removeBackup", "removeOld", "askFinish"}

(* what the file system may force the manager to leave at <id>- *)
MayLeave(dir) == MayFail("undo") \/ (MayFail("remove") /\ dir.stage = "leftover")

DirsFit(t) ==
    LET p == PkgOf(t)
        k == pkg[p]
        d == disk[p]
        scoped == task[t].scoped
        pc == task[t].pc
    IN  /\ pc \notin Done => Lists(p, k.state # "BeingInstalled", k.ver, Restored(t))
        /\ pc = "backup" => Exists(d.app)
        /\ "backup" \in scoped => Exists(d.minus) /\ ~Exists(d.app)
        /\ "docBackup" \in scoped => ~task[t].keep
        /\ pc \in Done => IF Install(t) THEN Exists(d.app) /\ d.app.ver = t ELSE ~Exists(d.app)
        /\ Exists(d.minus) => \/ MayLeave(d.minus) \/ "backup" \in scoped
                              \/ pc \in {"removeBackup", "removeOld"}
        /\ d.docMinus => \/ MayFail("undo") \/ MayFail("remove") \/ "docBackup" \in scoped
                         \/ pc = "removeOld" /\ ~task[t].keep

QuietFits(p) ==
    /\ Lists(p, pkg[p].known, pkg[p].ver, disk[p])
    /\ Exists(disk[p].minus) => MayLeave(disk[p].minus)
    /\ disk[p].docMinus => MayFail("undo") \/ MayFail("remove")
    /\ pkg[p].pending = None

HolderFits(t) == task[t].pc \in Holding => ListFits(t) /\ DirsFit(t)

DatabaseInv ==
    /\ \A t \in Tasks : HolderFits(t)
    /\ \A p \in Packages : ready /\ ~InHand(p) => QuietFits(p)
    /\ \A p \in Packages : ~ready => pkg[p] = Absent

LEMMA RestoredFields ==
    ASSUME TypeOK, NEW t \in Tasks
    PROVE  IF "backup" \in task[t].scoped
           THEN Restored(t).app = Dirs(t).minus /\ Restored(t).minus = NoDir
           ELSE Restored(t).app = Dirs(t).app /\ Restored(t).minus = Dirs(t).minus
BY DirsOf, DirsFields DEF Restored, Dirs

LEMMA RestoredNext ==
    ASSUME TypeOK', NEW t \in Tasks, task'[t].pkg = task[t].pkg
    PROVE  LET d == disk'[PkgOf(t)]
           IN  IF "backup" \in task'[t].scoped
               THEN Restored(t)'.app = d.minus /\ Restored(t)'.minus = NoDir
               ELSE Restored(t)'.app = d.app /\ Restored(t)'.minus = d.minus
<1>1. PkgOf(t)' = PkgOf(t) /\ task'[t].pkg \in Packages BY DEF PkgOf, TypeOK, Task
<1>2. disk'[PkgOf(t)] \in PackageDirs BY <1>1 DEF TypeOK, PkgOf
<1> QED BY <1>1, <1>2, DirsFields DEF Restored

(* a holder is not disturbed by a step of another task *)
LEMMA OtherHolder ==
    ASSUME Inv, Inv', DatabaseInv, NEW t \in Tasks, TaskFrame(t), NEW u \in Tasks \ {t},
           PkgOf(u) = PkgOf(t) /\ task[u].pc \in Holding => OnlyPlus(t) /\ pkg'[PkgOf(t)] = pkg[PkgOf(t)],
           \A q \in Packages \ {PkgOf(t)} : pkg'[q] = pkg[q]
    PROVE  HolderFits(u)'
<1> SUFFICES ASSUME task'[u].pc \in Holding PROVE ListFits(u)' /\ DirsFit(u)'
  BY DEF HolderFits
<1>1. task'[u] = task[u] /\ HolderFits(u) /\ task[u].pc \in Holding BY DEF TaskFrame, DatabaseInv
<1>2. PkgOf(u) \in Packages /\ PkgOf(u)' = PkgOf(u) BY <1>1, TypedFields DEF Inv, PkgOf
<1>3. LET d == disk[PkgOf(u)]
          e == disk'[PkgOf(u)]
      IN  /\ e.app = d.app /\ e.minus = d.minus /\ e.docMinus = d.docMinus
          /\ pkg'[PkgOf(u)] = pkg[PkgOf(u)]
  BY <1>1, <1>2 DEF TaskFrame, OnlyPlus, Dirs
<1>4. Restored(u)'.app = Restored(u).app /\ Restored(u)'.minus = Restored(u).minus
  BY <1>1, <1>3, RestoredFields, RestoredNext DEF Inv, Dirs
<1>5. ListFits(u)' BY <1>1, <1>2, <1>3 DEF HolderFits, ListFits, Install
<1>6. DirsFit(u)' BY <1>1, <1>2, <1>3, <1>4 DEF HolderFits, DirsFit, Install, Lists
<1> QED BY <1>5, <1>6

LEMMA UndoneByLabel ==
    ASSUME UnpackInv, NEW t \in Tasks
    PROVE  /\ task[t].pc # "rename" => "backup" \notin task[t].scoped /\ "docDir" \notin task[t].scoped
           /\ task[t].pc # "renameApp" => "docBackup" \notin task[t].scoped
<1>1. ScopedFits(t) BY DEF UnpackInv
<1> QED BY <1>1 DEF ScopedFits, Unpacking, Unpacked, Reported

LEMMA WorkerHolder ==
    ASSUME Inv, Inv', UnpackInv, UnpackInv', DatabaseInv, NEW t \in Tasks, WorkerStep(t)
    PROVE  HolderFits(t)'
<1> SUFFICES ASSUME task'[t].pc \in Holding PROVE ListFits(t)' /\ DirsFit(t)'
  BY DEF HolderFits
<1>1. task[t].pc \in Holding BY WorkerHolding
<1>2. ListFits(t) /\ DirsFit(t) /\ ScopedFits(t) /\ ScopedFits(t)' /\ UnpackFits(t) /\ BackupFits(t)
  BY <1>1 DEF DatabaseInv, HolderFits, UnpackInv
<1>3. /\ task'[t].kind = task[t].kind /\ task'[t].pkg = task[t].pkg /\ task'[t].keep = task[t].keep
      /\ pkg' = pkg /\ Dirs(t) \in PackageDirs /\ TypeOK
  BY DirsOf DEF WorkerStep, WorkerFrame, Inv
<1>4. PkgOf(t)' = PkgOf(t) /\ Install(t)' = Install(t) BY <1>3 DEF PkgOf, Install
<1>5. ListFits(t)' BY <1>2, <1>3, <1>4 DEF ListFits
<1> DEFINE p == PkgOf(t)
           e == disk'[p]
           d == Dirs(t)
           r == Restored(t)
           s == Restored(t)'
<1>6. /\ IF "backup" \in task[t].scoped THEN r.app = d.minus /\ r.minus = NoDir
         ELSE r.app = d.app /\ r.minus = d.minus
      /\ IF "backup" \in task'[t].scoped THEN s.app = e.minus /\ s.minus = NoDir
         ELSE s.app = e.app /\ s.minus = e.minus
  BY <1>3, RestoredFields, RestoredNext DEF Inv
<1> HIDE DEF r, s
<1>7. /\ task[t].pc \notin Done => Lists(p, pkg[p].state # "BeingInstalled", pkg[p].ver, r)
      /\ task[t].pc = "backup" => Exists(d.app)
      /\ "backup" \in task[t].scoped => Exists(d.minus) /\ ~Exists(d.app)
      /\ "docBackup" \in task[t].scoped => ~task[t].keep
      /\ task[t].pc \in Done => IF Install(t) THEN Exists(d.app) /\ d.app.ver = t ELSE ~Exists(d.app)
      /\ Exists(d.minus) => MayLeave(d.minus) \/ "backup" \in task[t].scoped
                              \/ task[t].pc \in {"removeBackup", "removeOld"}
      /\ d.docMinus => \/ MayFail("undo") \/ MayFail("remove") \/ "docBackup" \in task[t].scoped
                       \/ task[t].pc = "removeOld" /\ ~task[t].keep
  BY <1>2 DEF DirsFit, Dirs, r
<1>8. SUFFICES /\ task'[t].pc \notin Done => Lists(p, pkg[p].state # "BeingInstalled", pkg[p].ver, s)
               /\ task'[t].pc = "backup" => Exists(e.app)
               /\ "backup" \in task'[t].scoped => Exists(e.minus) /\ ~Exists(e.app)
               /\ "docBackup" \in task'[t].scoped => ~task[t].keep
               /\ task'[t].pc \in Done =>
                     IF Install(t) THEN Exists(e.app) /\ e.app.ver = t ELSE ~Exists(e.app)
               /\ Exists(e.minus) => MayLeave(e.minus) \/ "backup" \in task'[t].scoped
                                       \/ task'[t].pc \in {"removeBackup", "removeOld"}
               /\ e.docMinus => \/ MayFail("undo") \/ MayFail("remove") \/ "docBackup" \in task'[t].scoped
                                \/ task'[t].pc = "removeOld" /\ ~task[t].keep
  BY <1>3, <1>4, <1>5 DEF DirsFit, s
<1>9. /\ ~Exists(NoDir) /\ d.minus \in Dir
      /\ \A left, dir : IsLeftOf(left, dir) => MayFail("remove") /\ MayLeave(left)
  BY <1>3 DEF Exists, PackageDirs, IsLeftOf, MayLeave
<1> USE <1>1, <1>2, <1>3, <1>4, <1>6, <1>7, <1>9 DEF Done, Lists
<1> USE DEF ScopedFits, Unpacking, Unpacked, Reported, Goes, KeepsScoped
<1>10. CASE OnlyPlus(t) /\ KeepsScoped(t) /\ task'[t].pc \notin Done \cup {"backup"} /\ task[t].pc \notin Done
  BY <1>10 DEF OnlyPlus
<1>11. CASE Refused(t) BY <1>11 DEF Refused, Holding, Finishing
<1>12. CASE Aborted(t)
  <2>0. /\ task'[t].pc = "askCancel"
        /\ "backup" \notin task'[t].scoped /\ "docBackup" \notin task'[t].scoped
        /\ task[t].pc \notin Done
    BY <1>12 DEF Aborted
  <2>1. CASE \/ KeepsDirs(t) /\ task[t].pc \notin {"rename", "renameApp"}
             \/ task[t].pc = "renameDoc" /\ e = [d EXCEPT !.docMinus = FALSE]
    <3>1. e.app = d.app /\ e.minus = d.minus /\ (e.docMinus => d.docMinus)
      BY <2>1 DEF KeepsDirs, PackageDirs
    <3>2. "backup" \notin task[t].scoped /\ "docBackup" \notin task[t].scoped
      BY <2>1, UndoneByLabel
    <3>3. s.app = r.app /\ s.minus = r.minus BY <2>0, <3>1, <3>2
    <3> QED BY <2>0, <2>1, <3>1, <3>2, <3>3
  <2>2. CASE /\ task[t].pc = "backup"
             /\ \E left \in TargetOfFailedRename(d.app, d.minus) : e = [d EXCEPT !.minus = left]
    <3>1. PICK left \in TargetOfFailedRename(d.app, d.minus) : e = [d EXCEPT !.minus = left] BY <2>2
    <3>2. "backup" \notin task[t].scoped /\ "docBackup" \notin task[t].scoped
      BY <2>2, UndoneByLabel
    <3>3. e.app = d.app /\ e.minus = left /\ e.docMinus = d.docMinus
      BY <1>3, <3>1, MinusFields
    <3>5. left = NoDir \/ IsLeftOf(left, d.minus)
      BY <2>2, <3>1, FailedTarget
    <3>4. s.app = e.app /\ r.app = d.app /\ Exists(d.app) BY <2>0, <2>2, <3>2
    <3> QED BY <2>0, <2>2, <3>2, <3>3, <3>4, <3>5
  <2>3. CASE task[t].pc = "rename" /\ \E undone \in Undone(t) : e = RolledBack(t, undone)
    <3>1. PICK undone \in Undone(t) : e = RolledBack(t, undone) BY <2>3
    <3>2. /\ IF "backup" \in undone
             THEN e.app = d.minus /\ e.minus = NoDir ELSE e.app = d.app /\ e.minus = d.minus
          /\ e.docMinus => d.docMinus
          /\ "backup" \in undone => "backup" \in task[t].scoped
          /\ "backup" \in task[t].scoped => MayFail("undo") \/ "backup" \in undone
      BY <3>1, RolledBackFields
    <3>3. "docBackup" \notin task[t].scoped BY <2>3, UndoneByLabel
    <3>4. Exists(e.minus) => MayLeave(e.minus) BY <2>3, <3>2 DEF MayLeave
    <3>5. Lists(p, pkg[p].state # "BeingInstalled", pkg[p].ver, s)
      <4>1. CASE "backup" \in task[t].scoped /\ "backup" \notin undone
        <5>1. MayFail("undo") /\ s.app = d.app /\ s.minus = d.minus /\ r.app = d.minus
          BY <2>0, <3>2, <4>1
        <5>2. ~Exists(d.app) /\ Exists(d.minus) BY <4>1
        <5>3. d.minus.ver = pkg[p].ver BY <2>3, <5>1, <5>2
        <5>4. d.minus \in Content /\ d.minus.stage = "reported"
          BY <1>2, <1>9, <4>1, <5>2 DEF BackupFits, IsWhole, Dirs, Dir, Exists
        <5>5. d.minus = Whole(pkg[p].ver) BY <5>3, <5>4 DEF Content, Whole
        <5> QED BY <5>1, <5>2, <5>5
      <4>2. CASE ~("backup" \in task[t].scoped /\ "backup" \notin undone)
        <5>1. s.app = r.app /\ s.minus = r.minus BY <2>0, <3>2, <4>2
        <5> QED BY <2>3, <5>1
      <4> QED BY <4>1, <4>2
    <3> QED BY <2>0, <2>3, <3>2, <3>3, <3>4, <3>5
  <2>4. CASE /\ task[t].pc = "renameApp"
             /\ \E left \in TargetOfFailedRename(d.app, d.minus), undone \in Undone(t) :
                   e = [RolledBack(t, undone) EXCEPT !.minus = left]
    <3>1. PICK left \in TargetOfFailedRename(d.app, d.minus), undone \in Undone(t) :
             e = [RolledBack(t, undone) EXCEPT !.minus = left]
      BY <2>4
    <3>2. "backup" \notin task[t].scoped BY <2>4, UndoneByLabel
    <3>3. LET b == RolledBack(t, undone)
          IN  /\ b \in PackageDirs /\ b.app = d.app
              /\ b.docMinus => d.docMinus /\ "docBackup" \notin undone
              /\ "docBackup" \in task[t].scoped => MayFail("undo") \/ "docBackup" \in undone
      BY <3>2, RolledBackFields
    <3>7. e.app = d.app /\ e.minus = left /\ e.docMinus = RolledBack(t, undone).docMinus
      BY <3>1, <3>3, MinusFields
    <3>4. /\ e.app = d.app /\ e.minus = left
          /\ e.docMinus => MayFail("undo") \/ MayFail("remove")
      BY <2>4, <3>3, <3>7
    <3>5. IF Exists(d.app) THEN left = NoDir \/ IsLeftOf(left, d.minus) ELSE left = d.minus
      BY FailedTarget
    <3>6. s.app = e.app /\ s.minus = e.minus /\ r.app = d.app /\ r.minus = d.minus BY <2>0, <3>2
    <3> QED BY <2>0, <2>4, <3>2, <3>4, <3>5, <3>6
  <2> QED BY <1>12, <2>1, <2>2, <2>3, <2>4 DEF Aborted
<1>13. CASE GoesOn(t) BY <1>13 DEF GoesOn, KeepsDirs, Holding, Finishing
<1>14. CASE StartsUnpacking(t) BY <1>14 DEF StartsUnpacking, Holding, Finishing
<1>15. CASE EndsUnpacking(t)
  <2>1. OnlyPlus(t) BY <1>15, PlusFields DEF EndsUnpacking, OnlyPlus
  <2> QED BY <1>10, <1>15, <2>1 DEF EndsUnpacking
<1>16. CASE WritesReport(t)
  <2>1. OnlyPlus(t) BY <1>16, PlusFields DEF WritesReport, OnlyPlus
  <2> QED BY <1>16, <2>1 DEF WritesReport, OnlyPlus
<1>17. CASE CreatesDocuments(t) BY <1>17, DirsFields DEF CreatesDocuments
<1>18. CASE BacksUp(t) BY <1>18, DirsFields DEF BacksUp
<1>19. CASE RenamesNewVersion(t)
  <2>1. "unpackDir" \in task[t].scoped BY <1>19 DEF RenamesNewVersion
  <2>2. Exists(d.plus) /\ d.plus.ver = t BY <2>1 DEF UnpackFits, Dirs
  <2> QED BY <1>19, <2>2, DirsFields DEF RenamesNewVersion
<1>20. CASE RemovesBackup(t)
  <2>1. PICK left \in Removed(d.minus) : e = [d EXCEPT !.minus = left] BY <1>20 DEF RemovesBackup
  <2>2. left = NoDir \/ IsLeftOf(left, d.minus) BY RemovedFields
  <2>3. e.app = d.app /\ e.minus = left /\ e.docMinus = d.docMinus BY <1>3, <2>1, MinusFields
  <2> QED BY <1>20, <2>1, <2>2, <2>3 DEF RemovesBackup
<1>21. CASE RenamesDocuments(t) BY <1>21, DirsFields DEF RenamesDocuments
<1>22. CASE RenamesApplication(t) BY <1>22, DirsFields DEF RenamesApplication
<1>23. CASE RemovesOldVersion(t)
  <2>1. PICK left \in Removed(d.minus), stay \in BOOLEAN :
           /\ stay => task[t].keep \/ MayFail("remove")
           /\ e = [d EXCEPT !.minus = left, !.docMinus = @ /\ stay]
    BY <1>23 DEF RemovesOldVersion
  <2>2. left = NoDir \/ IsLeftOf(left, d.minus) BY RemovedFields
  <2>3. e.app = d.app /\ e.minus = left /\ (e.docMinus => d.docMinus /\ stay)
    BY <2>1 DEF PackageDirs
  <2> QED BY <1>23, <2>1, <2>2, <2>3 DEF RemovesOldVersion
<1> QED BY <1>11, <1>12, <1>13, <1>14, <1>15, <1>16, <1>17, <1>18, <1>19, <1>20, <1>21, <1>22, <1>23
        DEF WorkerStep, Transition

LEMMA HoldsNext ==
    ASSUME Inv, NEW t \in Tasks, TaskFrame(t)
    PROVE  /\ \A u \in Tasks \ {t}, q \in Packages : Holds(u, q)' <=> Holds(u, q)
           /\ \A q \in Packages \ {PkgOf(t)} : InHand(q)' <=> InHand(q)
           /\ (task[t].pc \in Holding <=> task'[t].pc \in Holding) =>
                  \A q \in Packages : InHand(q)' <=> InHand(q)
           /\ task'[t].pc \in Holding => InHand(PkgOf(t))'
BY TypedFields DEF Inv, TaskFrame, InHand, Holds, PkgOf

(* a step that neither takes nor returns a package *)
LEMMA DatabaseKept ==
    ASSUME Inv, Inv', DatabaseInv, NEW t \in Tasks, TaskFrame(t), UNCHANGED pkg,
           task[t].pc \in Holding <=> task'[t].pc \in Holding,
           task[t].pc \notin Holding => OnlyPlus(t),
           HolderFits(t)'
    PROVE  DatabaseInv'
<1>1. \A u \in Tasks \ {t} : HolderFits(u)' BY OtherHolder, HeldByOne
<1>2. ASSUME NEW q \in Packages, ready', ~InHand(q)' PROVE QuietFits(q)'
  <2>1. ready /\ ~InHand(q) BY <1>2, HoldsNext DEF TaskFrame
  <2>2. QuietFits(q) BY <2>1 DEF DatabaseInv
  <2>3. q = PkgOf(t) => OnlyPlus(t) BY <2>1 DEF InHand, Holds
  <2>4. LET d == disk[q]
            e == disk'[q]
        IN  e.app = d.app /\ e.minus = d.minus /\ e.docMinus = d.docMinus
    BY <2>3 DEF OnlyPlus, Dirs, TaskFrame
  <2> QED BY <2>2, <2>4 DEF QuietFits, Lists
<1>3. \A p \in Packages : ~ready' => pkg'[p] = Absent BY DEF TaskFrame, DatabaseInv
<1> QED BY <1>1, <1>2, <1>3 DEF DatabaseInv

LEMMA WorkerDatabase ==
    ASSUME Inv, Inv', UnpackInv, UnpackInv', DatabaseInv, NEW t \in Tasks, WorkerStep(t)
    PROVE  DatabaseInv'
<1>1. UNCHANGED pkg BY DEF WorkerStep, WorkerFrame
<1> QED BY <1>1, StepsKeepFrame, WorkerHolding, WorkerHolder, DatabaseKept

(* a step that takes a package or returns it *)
LEMMA DatabaseChanged ==
    ASSUME Inv, Inv', DatabaseInv, NEW t \in Tasks, SlotFrame(t), KeepsDirs(t), ready,
           task[t].pc \notin Holding => ~InHand(PkgOf(t)),
           HolderFits(t)',
           task'[t].pc \notin Holding => QuietFits(PkgOf(t))'
    PROVE  DatabaseInv'
<1>1. TaskFrame(t) /\ ready' BY DEF SlotFrame, TaskFrame
<1>2. ASSUME NEW u \in Tasks \ {t} PROVE HolderFits(u)'
  <2>1. ~(PkgOf(u) = PkgOf(t) /\ task[u].pc \in Holding) BY HeldByOne DEF InHand, Holds
  <2> QED BY <1>1, <2>1, OtherHolder DEF SlotFrame
<1>3. ASSUME NEW q \in Packages, ~InHand(q)' PROVE QuietFits(q)'
  <2>1. CASE q = PkgOf(t)
    BY <1>1, <1>3, <2>1, HoldsNext DEF QuietFits, PkgOf, TaskFrame
  <2>2. CASE q # PkgOf(t)
    <3>1. QuietFits(q) BY <1>1, <1>3, <2>2, HoldsNext DEF DatabaseInv
    <3> QED BY <2>2, <3>1 DEF QuietFits, SlotFrame
  <2> QED BY <2>1, <2>2
<1> QED BY <1>1, <1>2, <1>3 DEF DatabaseInv

LEMMA StartedIsReady ==
    ASSUME Inv, NEW t \in Tasks, Started(t)
    PROVE  ready
BY ConstantsAssumption DEF Inv, Listed

LEMMA ApprovesDatabase ==
    ASSUME Inv, Inv', UnpackInv, UnpackInv', DatabaseInv, NEW t \in Tasks, SlotFrame(t),
           Installs(t) \/ Updates(t) \/ Removes(t)
    PROVE  DatabaseInv'
<1> DEFINE p == PkgOf(t)
<1>1. /\ task[t].pc \in {"askApproval", "askRemoval"} /\ task'[t].pc = "waitStop" /\ ~InHand(p)
      /\ KeepsDirs(t)
  BY DEF Installs, Updates, Removes, Approves, Goes
<1>2. ready /\ p \in Packages BY <1>1, StartedIsReady, TypedFields DEF Started, Inv, PkgOf
<1>3. QuietFits(p) BY <1>1, <1>2 DEF DatabaseInv
<1>4. p' = p /\ Install(t)' = Install(t) BY DEF SlotFrame, PkgOf, Install
<1>5. ListFits(t)'
  BY <1>3, <1>4 DEF ListFits, QuietFits, Installs, Updates, Removes, Approves
<1>6. DirsFit(t)'
  <2>1. "backup" \notin task'[t].scoped /\ "docBackup" \notin task'[t].scoped
    <3>1. ScopedFits(t)' BY DEF UnpackInv
    <3> QED BY <1>1, <3>1 DEF ScopedFits, Unpacking, Unpacked, Reported
  <2>2. Restored(t)' = disk[p] /\ disk'[p] = disk[p]
    BY <1>1, <1>4, <2>1 DEF Restored, KeepsDirs, Dirs
  <2>3. Lists(p, pkg'[p].state # "BeingInstalled", pkg'[p].ver, disk[p])
    BY <1>3 DEF QuietFits, Lists, Installs, Updates, Removes, Approves, Stopping
  <2> QED BY <1>1, <1>3, <1>4, <2>1, <2>2, <2>3 DEF DirsFit, Done, QuietFits
<1>7. HolderFits(t)' /\ task'[t].pc \in Holding BY <1>1, <1>5, <1>6 DEF HolderFits, Holding
<1> QED BY <1>1, <1>2, <1>7, DatabaseChanged

LEMMA ReturnsDatabase ==
    ASSUME Inv, Inv', UnpackInv, UnpackInv', DatabaseInv, NEW t \in Tasks, SlotFrame(t),
           Completes(t) \/ Withdraws(t)
    PROVE  DatabaseInv'
<1> DEFINE p == PkgOf(t)
<1>1. /\ task[t].pc \in {"askFinish", "askCancel"} /\ task'[t].pc \in {"end", "setError"}
      /\ KeepsDirs(t)
  BY DEF Completes, Withdraws, Goes
<1>2. ready /\ p \in Packages /\ p' = p
  BY <1>1, StartedIsReady, TypedFields DEF Started, Inv, PkgOf, SlotFrame
<1>3. ListFits(t) /\ DirsFit(t) BY <1>1 DEF DatabaseInv, HolderFits, Holding
<1>4. "backup" \notin task[t].scoped /\ "docBackup" \notin task[t].scoped BY <1>1, UndoneByLabel
<1>5. Restored(t) = disk[p] /\ disk'[p] = disk[p] BY <1>1, <1>4 DEF Restored, KeepsDirs, Dirs
<1>6. Lists(p, pkg'[p].known, pkg'[p].ver, disk[p]) /\ pkg'[p].pending = None
  <2> DEFINE k == pkg[p]
             new == pkg'[p]
  <2>1. /\ Absent.known = FALSE /\ Absent.pending = None
        /\ k.known \in BOOLEAN /\ new.known \in BOOLEAN
    BY <1>2 DEF Absent, Inv, TypeOK, Package
  <2>2. CASE Completes(t)
    <3>1. task[t].pc = "askFinish" BY <2>2 DEF Completes, Goes
    <3>2. IF Install(t) THEN Exists(disk[p].app) /\ disk[p].app.ver = t ELSE ~Exists(disk[p].app)
      BY <1>3, <3>1 DEF DirsFit, Done
    <3>3. IF k.state = "BeingRemoved" THEN new = Absent
          ELSE /\ new.known = k.known /\ new.pending = None
               /\ new.ver = IF k.state = "BeingUpdated" THEN k.pending
                            ELSE IF k.state = "BeingDowngraded" THEN Base ELSE k.ver
      BY <2>2 DEF Completes
    <3>4. new.pending = None BY <2>1, <3>3
    <3>5. Install(t) => new.known /\ new.ver = t BY <1>3, <2>1, <3>3 DEF ListFits
    <3>6. ~Install(t) => ~new.known \/ (p \in BuiltIn /\ new.ver = Base)
      BY <1>3, <2>1, <3>3 DEF ListFits
    <3> QED BY <3>2, <3>4, <3>5, <3>6 DEF Lists
  <2>3. CASE Withdraws(t)
    <3>1. task[t].pc = "askCancel" BY <2>3 DEF Withdraws, Goes
    <3>2. Lists(p, k.state # "BeingInstalled", k.ver, disk[p]) BY <1>3, <1>5, <3>1 DEF DirsFit, Done
    <3>3. IF k.state = "BeingInstalled" THEN new = Absent
          ELSE new.known = k.known /\ new.ver = k.ver /\ new.pending = None
      BY <2>3 DEF Withdraws
    <3> QED BY <1>3, <2>1, <3>2, <3>3 DEF Lists, ListFits
  <2> QED BY <2>2, <2>3
<1>7. QuietFits(p)' BY <1>1, <1>2, <1>3, <1>4, <1>5, <1>6 DEF QuietFits, DirsFit
<1>8. HolderFits(t)' /\ task[t].pc \in Holding /\ task'[t].pc \notin Holding
  BY <1>1 DEF HolderFits, Holding, Finishing
<1> QED BY <1>1, <1>2, <1>7, <1>8, DatabaseChanged

LEMMA SlotDatabase ==
    ASSUME Inv, Inv', UnpackInv, UnpackInv', DatabaseInv, NEW t \in Tasks, SlotStep(t)
    PROVE  DatabaseInv'
<1>1. CASE Installs(t) \/ Updates(t) \/ Removes(t)
  BY <1>1, ApprovesDatabase DEF SlotStep
<1>2. CASE Completes(t) \/ Withdraws(t)
  BY <1>2, ReturnsDatabase DEF SlotStep
<1>3. CASE Begins(t) \/ Leaves(t) \/ Ends(t) \/ Answers(t)
  <2>1. task[t].pc \notin Holding /\ task'[t].pc \notin Holding /\ UNCHANGED pkg
    BY <1>3 DEF Begins, Leaves, Ends, Answers, Goes, KeepsList, Holding, Finishing
  <2>4. ASSUME disk'[PkgOf(t)] = Dirs(t) PROVE OnlyPlus(t) BY <2>4 DEF OnlyPlus
  <2>5. ASSUME NEW left, disk'[PkgOf(t)] = [Dirs(t) EXCEPT !.plus = left] PROVE OnlyPlus(t)
    BY <2>5, DirsOf, PlusFields DEF OnlyPlus, Inv
  <2>3. OnlyPlus(t) BY <1>3, <2>4, <2>5 DEF Begins, Leaves, Ends, Answers, KeepsDirs
  <2> QED BY <2>1, <2>3, StepsKeepFrame, DatabaseKept DEF HolderFits
<1> QED BY <1>1, <1>2, <1>3 DEF SlotStep

(* a step that changes no directory, and of a package at most the applications it waits for *)
LEMMA SameDatabase ==
    ASSUME Inv, Inv', DatabaseInv, UNCHANGED <<disk, ready>>,
           \A u \in Tasks : task'[u].pc \in Holding =>
               /\ task'[u].pc = task[u].pc /\ task'[u].scoped = task[u].scoped
               /\ task'[u].pkg = task[u].pkg /\ task'[u].kind = task[u].kind
               /\ task'[u].keep = task[u].keep,
           \A q \in Packages : InHand(q)' <=> InHand(q),
           \A q \in Packages :
               /\ pkg'[q].known = pkg[q].known /\ pkg'[q].state = pkg[q].state
               /\ pkg'[q].ver = pkg[q].ver /\ pkg'[q].pending = pkg[q].pending
               /\ pkg[q] = Absent => pkg'[q] = Absent
    PROVE  DatabaseInv'
<1>1. ASSUME NEW u \in Tasks PROVE HolderFits(u)'
  <2> SUFFICES ASSUME task'[u].pc \in Holding PROVE ListFits(u)' /\ DirsFit(u)' BY DEF HolderFits
  <2>1. ListFits(u) /\ DirsFit(u) BY DEF DatabaseInv, HolderFits
  <2>2. PkgOf(u) \in Packages /\ PkgOf(u)' = PkgOf(u) BY TypedFields DEF Inv, PkgOf
  <2>3. ListFits(u)' BY <2>1, <2>2 DEF ListFits, Install
  <2>4. Restored(u)' = Restored(u) BY <2>2 DEF Restored
  <2>5. DirsFit(u)' BY <2>1, <2>2, <2>4 DEF DirsFit, Install
  <2> QED BY <2>3, <2>5
<1>2. \A q \in Packages : ready' /\ ~InHand(q)' => QuietFits(q)' BY DEF DatabaseInv, QuietFits
<1>3. \A q \in Packages : ~ready' => pkg'[q] = Absent BY DEF DatabaseInv
<1> QED BY <1>1, <1>2, <1>3 DEF DatabaseInv

LEMMA SameTasksHold ==
    ASSUME SameTasks
    PROVE  \A q \in Packages : InHand(q)' <=> InHand(q)
BY DEF SameTasks, InHand, Holds, PkgOf

LEMMA EnqueuesHold ==
    ASSUME NEW t \in Tasks, Enqueues(t)
    PROVE  /\ task[t].pc \notin Holding /\ task'[t].pc \notin Holding
           /\ \A u \in Tasks \ {t} : task'[u] = task[u]
           /\ \A q \in Packages : InHand(q)' <=> InHand(q)
<1>1. task[t].pc \notin Holding /\ task'[t].pc \notin Holding
  BY DEF Enqueues, Goes, Holding, Finishing
<1> QED BY <1>1 DEF Enqueues, InHand, Holds, PkgOf

(* what an application step changes of the packages *)
LEMMA AppFields ==
    ASSUME Inv, AppStep, NEW q \in Packages
    PROVE  /\ pkg'[q].known = pkg[q].known /\ pkg'[q].state = pkg[q].state
           /\ pkg'[q].ver = pkg[q].ver /\ pkg'[q].pending = pkg[q].pending
           /\ pkg[q] = Absent => pkg'[q] = Absent
<1>1. CASE UNCHANGED pkg BY <1>1
<1>2. CASE \E a \in Apps : pkg' = [pkg EXCEPT ![Owner[a]].waiting = @ \ {a}]
  <2>1. PICK a \in Apps : pkg' = [pkg EXCEPT ![Owner[a]].waiting = @ \ {a}] BY <1>2
  <2>2. pkg[q] \in Package /\ pkg \in [Packages -> Package] BY DEF Inv, TypeOK
  <2>3. CASE q # Owner[a] BY <2>1, <2>2, <2>3
  <2>4. CASE q = Owner[a]
    <3>1. pkg'[q] = [pkg[q] EXCEPT !.waiting = @ \ {a}] BY <2>1, <2>2, <2>4
    <3>2. pkg[q].waiting = {} => pkg'[q] = pkg[q] BY <2>2, <3>1 DEF Package
    <3>3. Absent.waiting = {} BY DEF Absent
    <3> QED BY <2>2, <3>1, <3>2, <3>3 DEF Package
  <2> QED BY <2>3, <2>4
<1> QED BY <1>1, <1>2 DEF AppStep, StartApplication, ContainerReady, ApplicationFinished

LEMMA RegisterDatabase ==
    ASSUME Inv, Inv', UnpackInv, RegisterPackages, SameTasks
    PROVE  DatabaseInv'
<1>1. ~ready /\ ready' /\ \A p \in Packages : disk[p] \in PackageDirs /\ disk'[p] = CleanedUp(disk[p])
  BY DEF RegisterPackages, Inv, TypeOK
<1>2. \A t \in Tasks : task'[t].pc \notin Holding
  BY <1>1, NobodyOwns DEF SameTasks, Started, Holding, Finishing
<1>3. ASSUME NEW p \in Packages PROVE QuietFits(p)'
  <2>1. Loadable(disk[p]) <=> Exists(disk[p].app) BY DEF UnpackInv, IsWhole, Loadable
  <2>2. pkg'[p] = IF Loadable(disk[p]) THEN Registered(disk[p].app.ver)
                  ELSE IF p \in BuiltIn THEN Registered(Base) ELSE Absent
    BY DEF RegisterPackages
  <2>3. /\ pkg'[p].pending = None
        /\ IF Loadable(disk[p]) THEN pkg'[p].known /\ pkg'[p].ver = disk[p].app.ver
           ELSE ~pkg'[p].known \/ (p \in BuiltIn /\ pkg'[p].ver = Base)
    BY <2>2 DEF Registered, Absent
  <2>4. /\ disk'[p].app = IF Loadable(disk[p]) THEN disk[p].app ELSE NoDir
        /\ disk'[p].minus = NoDir /\ ~disk'[p].docMinus
    BY <1>1, CleanedUpFields
  <2> QED BY <2>1, <2>3, <2>4 DEF QuietFits, Lists, Exists
<1> QED BY <1>1, <1>2, <1>3 DEF DatabaseInv, HolderFits

LEMMA CrashDatabase ==
    ASSUME Inv, Crash
    PROVE  DatabaseInv'
<1>1. \A t \in Tasks : task'[t].pc \notin Holding
  BY CrashedTask DEF Holding, Finishing
<1> QED BY <1>1 DEF DatabaseInv, HolderFits, Crash

LEMMA DatabasePreserved ==
    ASSUME "readback" \notin Faults, Inv, Inv', UnpackInv, UnpackInv', DatabaseInv, [Next]_vars
    PROVE  DatabaseInv'
<1>1. ASSUME NEW t \in Tasks, Enqueues(t) PROVE DatabaseInv'
  <2>1. UNCHANGED <<pkg, disk, ready>> BY <1>1 DEF Enqueues
  <2> QED BY <1>1, <2>1, EnqueuesHold, SameDatabase
<1>2. CASE Silent
  <2>1. UNCHANGED <<pkg, disk, ready>> BY <1>2 DEF Silent
  <2> QED BY <1>2, <2>1, SameTasksHold, SameDatabase DEF Silent, SameTasks
<1>3. CASE AppStep /\ AppOnly /\ SameTasks
  <2>1. UNCHANGED <<disk, ready>> BY <1>3 DEF AppOnly
  <2> QED BY <1>3, <2>1, SameTasksHold, AppFields, SameDatabase DEF SameTasks
<1> QED BY <1>1, <1>2, <1>3, Steps, WorkerDatabase, SlotDatabase, RegisterDatabase, CrashDatabase

LEMMA InitDatabase == Init => DatabaseInv
<1> SUFFICES ASSUME Init PROVE DatabaseInv OBVIOUS
<1>1. \A t \in Tasks : task[t].pc \notin Holding BY InitialTask DEF Holding, Finishing
<1> QED BY <1>1 DEF DatabaseInv, HolderFits, Init

LEMMA DatabaseInvariance ==
    ASSUME "readback" \notin Faults
    PROVE  Spec => []DatabaseInv
<1>1. Init => DatabaseInv BY InitDatabase
<1>2. Inv /\ Inv' /\ UnpackInv /\ UnpackInv' /\ DatabaseInv /\ [Next]_vars => DatabaseInv'
  BY DatabasePreserved
<1> QED BY <1>1, <1>2, Invariance, UnpackInvariance, PTL DEF Spec

(* What stands at <installation path>/<id> is a complete installation with its report
   (finishInstallation writes the report before it renames), in every state, and so also
   when the process dies in that state. *)
THEOREM ApplicationDirsAreWhole ==
    ASSUME "readback" \notin Faults
    PROVE  Spec => []ApplicationDirIsWhole
<1>1. UnpackInv => ApplicationDirIsWhole BY DEF UnpackInv, IsWhole, ApplicationDirIsWhole
<1> QED BY <1>1, UnpackInvariance, PTL

(* The unpack directory <id>+ belongs to exactly one task: no other installation of the
   same package deletes it or renames it in startInstallation or finishInstallation; what
   nobody owns is the rest of one that could not be deleted. *)
THEOREM UnpackDirsHaveOneOwner ==
    ASSUME "readback" \notin Faults
    PROVE  Spec => []UnpackDirHasOneOwner
<1>1. UnpackInv => UnpackDirHasOneOwner
  BY DEF UnpackInv, UnpackFits, UnpackDirHasOneOwner
<1> QED BY <1>1, UnpackInvariance, PTL

(* While no task works on a package, the list of packages says what a restart would
   load from the disk.  It names what stands at <id>- only after a failed undo, and only
   a failed undo or a failed removal leaves anything at <id>- (installationtask.cpp:440,
   deinstallationtask.cpp:107). *)
THEOREM TheListMatchesTheDisk ==
    ASSUME "readback" \notin Faults
    PROVE  Spec => []DatabaseMatchesDisk
<1>1. DatabaseInv => DatabaseMatchesDisk
  BY DEF DatabaseInv, QuietFits, MayLeave, Lists, DatabaseMatchesDisk
<1> QED BY <1>1, DatabaseInvariance, PTL

============================================================================
