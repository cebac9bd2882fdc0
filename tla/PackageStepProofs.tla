------------------------- MODULE PackageStepProofs -------------------------
(***************************************************************************)
(* What the steps of PackageManager do to one task and to the directories  *)
(* of its package, written as a table of transitions.  The invariants of   *)
(* the disk (PackageDiskProofs) and the refinement (PackageStoreProofs)    *)
(* are proved from this table, not from the actions.                       *)
(***************************************************************************)
EXTENDS PackageManagerProofs

Dirs(t) == disk[PkgOf(t)]

(* what a step of t's thread leaves alone *)
WorkerFrame(t) ==
    /\ task' \in [Tasks -> Task] /\ disk' \in [Packages -> PackageDirs]
    /\ \A u \in Tasks \ {t} : task'[u] = task[u]
    /\ \A q \in Packages \ {PkgOf(t)} : disk'[q] = disk[q]
    /\ task'[t].pkg = task[t].pkg /\ task'[t].kind = task[t].kind /\ task'[t].keep = task[t].keep
    /\ UNCHANGED <<incoming, active, installing, pkg, app, ready, crashes>>

Goes(t, from, to) == task[t].pc = from /\ task'[t].pc = to
KeepsDirs(t) == disk'[PkgOf(t)] = Dirs(t)
KeepsState(t) == task'[t].state = task[t].state
KeepsScoped(t) == task'[t].scoped = task[t].scoped

(* a task that has not been approved gives up *)
Refused(t) ==
    /\ ~task[t].approved
    /\ task'[t].pc = "end" /\ task'[t].state = "Failed" /\ KeepsScoped(t)
    /\ \/ task[t].pc \in {"begin", "download", "declined", "startInstallation"} /\ KeepsDirs(t)
       \/ /\ task[t].pc = "startInstallation"
          /\ \E left \in Removed(Dirs(t).plus) : disk'[PkgOf(t)] = [Dirs(t) EXCEPT !.plus = left]

(* an approved task gives up, and undoes what it has done *)
Aborted(t) ==
    /\ task[t].approved
    /\ task'[t].pc = "askCancel"
    /\ task'[t].state = IF Install(t) THEN "Failed" ELSE task[t].state
    /\ task'[t].scoped = task[t].scoped \cap {"unpackDir"}
    /\ \/ /\ task[t].pc \in {"waitStop", "unpack", "awaitAck", "writeReport", "createDocs",
                             "renameDoc"}
          /\ KeepsDirs(t)
       \/ /\ task[t].pc = "backup"
          /\ \E left \in TargetOfFailedRename(Dirs(t).app, Dirs(t).minus) :
                disk'[PkgOf(t)] = [Dirs(t) EXCEPT !.minus = left]
       \/ /\ task[t].pc = "renameDoc" /\ Dirs(t).doc
          /\ disk'[PkgOf(t)] = [Dirs(t) EXCEPT !.docMinus = FALSE]
       \/ /\ task[t].pc = "rename"
          /\ \E undone \in Undone(t) : disk'[PkgOf(t)] = RolledBack(t, undone)
       \/ /\ task[t].pc = "renameApp"
          /\ \E left \in TargetOfFailedRename(Dirs(t).app, Dirs(t).minus), undone \in Undone(t) :
                disk'[PkgOf(t)] = [RolledBack(t, undone) EXCEPT !.minus = left]

(* a step that neither touches the disk nor ends the task *)
GoesOn(t) ==
    /\ KeepsDirs(t) /\ KeepsScoped(t)
    /\ \/ /\ Install(t) /\ KeepsState(t)
          /\ \/ Goes(t, "begin", "download") \/ Goes(t, "download", "askActive")
             \/ Goes(t, "waitStop", "unpack") /\ AllApplicationsStopped(PkgOf(t))
             \/ Goes(t, "lockFinish", "writeReport")
       \/ Install(t) /\ Goes(t, "awaitAck", "lockFinish") /\ task'[t].state = "Installing"
       \/ /\ ~Install(t) /\ KeepsState(t)
          /\ \/ Goes(t, "begin", "askRemoval")
             \/ Goes(t, "waitStop", "renameDoc") /\ AllApplicationsStopped(PkgOf(t))
             \/ Goes(t, "renameDoc", "renameApp") /\ task[t].keep
       \/ Goes(t, "setError", "end") /\ task'[t].state = "Failed"
       \/ Goes(t, "end", "finished") /\ KeepsState(t)

StartsUnpacking(t) ==
    /\ Install(t) /\ Goes(t, "startInstallation", "askApproval") /\ KeepsState(t)
    /\ task'[t].scoped = {"unpackDir"}
    /\ disk'[PkgOf(t)] = [Dirs(t) EXCEPT !.plus = [ver |-> t, stage |-> "unpacking"]]

EndsUnpacking(t) ==
    /\ Install(t) /\ Goes(t, "unpack", "awaitAck") /\ task'[t].state = "AwaitingAcknowledge"
    /\ KeepsScoped(t)
    /\ disk'[PkgOf(t)] = IF Exists(Dirs(t).plus) /\ Dirs(t).plus.ver = t
                         THEN [Dirs(t) EXCEPT !.plus.stage = "unpacked"] ELSE Dirs(t)

WritesReport(t) ==
    /\ Install(t) /\ KeepsState(t) /\ KeepsScoped(t)
    /\ Goes(t, "writeReport", IF Exists(Dirs(t).app) THEN "backup" ELSE "createDocs")
    /\ Exists(Dirs(t).plus)
    /\ disk'[PkgOf(t)] = [Dirs(t) EXCEPT !.plus = WithReport(@)]

CreatesDocuments(t) ==
    /\ Install(t) /\ KeepsState(t) /\ Goes(t, "createDocs", "rename")
    /\ task'[t].scoped = IF Dirs(t).doc THEN task[t].scoped ELSE task[t].scoped \cup {"docDir"}
    /\ disk'[PkgOf(t)] = [Dirs(t) EXCEPT !.doc = TRUE]

BacksUp(t) ==
    /\ Install(t) /\ KeepsState(t) /\ Goes(t, "backup", "rename")
    /\ task'[t].scoped = task[t].scoped \cup {"backup"}
    /\ disk'[PkgOf(t)] = NameToNameMinus(Dirs(t))

RenamesNewVersion(t) ==
    /\ Install(t) /\ task'[t].state = "CleaningUp"
    /\ Goes(t, "rename", IF "backup" \in task[t].scoped THEN "removeBackup" ELSE "askFinish")
    /\ task'[t].scoped = {}
    /\ Exists(Dirs(t).plus)
    /\ disk'[PkgOf(t)] = NamePlusToName(Dirs(t))

RemovesBackup(t) ==
    /\ Install(t) /\ KeepsState(t) /\ KeepsScoped(t) /\ Goes(t, "removeBackup", "askFinish")
    /\ \E left \in Removed(Dirs(t).minus) : disk'[PkgOf(t)] = [Dirs(t) EXCEPT !.minus = left]

RenamesDocuments(t) ==
    /\ ~Install(t) /\ KeepsState(t) /\ Goes(t, "renameDoc", "renameApp")
    /\ ~task[t].keep /\ Dirs(t).doc
    /\ task'[t].scoped = {"docBackup"}
    /\ disk'[PkgOf(t)] = DocToDocMinus(Dirs(t))

RenamesApplication(t) ==
    /\ ~Install(t) /\ KeepsState(t) /\ Goes(t, "renameApp", "removeOld")
    /\ task'[t].scoped = {}
    /\ Exists(Dirs(t).app)
    /\ disk'[PkgOf(t)] = NameToNameMinus(Dirs(t))

RemovesOldVersion(t) ==
    /\ ~Install(t) /\ KeepsState(t) /\ KeepsScoped(t) /\ Goes(t, "removeOld", "askFinish")
    /\ \E left \in Removed(Dirs(t).minus), stay \in BOOLEAN :
          /\ (task[t].keep => stay) /\ (stay => task[t].keep \/ MayFail("remove"))
          /\ disk'[PkgOf(t)] = [Dirs(t) EXCEPT !.minus = left, !.docMinus = @ /\ stay]

Transition(t) ==
    \/ Refused(t) \/ Aborted(t) \/ GoesOn(t)
    \/ StartsUnpacking(t) \/ EndsUnpacking(t) \/ WritesReport(t) \/ CreatesDocuments(t)
    \/ BacksUp(t) \/ RenamesNewVersion(t) \/ RemovesBackup(t)
    \/ RenamesDocuments(t) \/ RenamesApplication(t) \/ RemovesOldVersion(t)

WorkerStep(t) == WorkerFrame(t) /\ Transition(t)

-----------------------------------------------------------------------------
LEMMA WorkerLeavesAlone ==
    ASSUME Inv, NEW t \in Tasks, Worker(t)
    PROVE  UNCHANGED <<incoming, active, installing, pkg, app, ready, crashes>>
BY WorkerMoves DEF WorkerMove, Inv

LEMMA DirsOf ==
    ASSUME TypeOK, NEW t \in Tasks
    PROVE  /\ PkgOf(t) \in Packages /\ Dirs(t) \in PackageDirs /\ task[t] \in Task
           /\ \A d : [disk EXCEPT ![PkgOf(t)] = d][PkgOf(t)] = d
           /\ \A d, q \in Packages \ {PkgOf(t)} : [disk EXCEPT ![PkgOf(t)] = d][q] = disk[q]
BY TypedFields DEF TypeOK, PkgOf, Dirs

LEMMA ThrowBecomes ==
    ASSUME TypeOK, NEW t \in Tasks, Throw(t)
    PROVE  /\ \A u \in Tasks \ {t} : task'[u] = task[u]
           /\ task'[t].pkg = task[t].pkg /\ task'[t].kind = task[t].kind /\ task'[t].keep = task[t].keep
           /\ IF task[t].approved
              THEN /\ task'[t].pc = "askCancel"
                   /\ task'[t].state = IF Install(t) THEN "Failed" ELSE task[t].state
                   /\ task'[t].scoped = task[t].scoped \cap {"unpackDir"}
              ELSE task'[t].pc = "end" /\ task'[t].state = "Failed" /\ KeepsScoped(t)
BY DEF TypeOK, Task, Throw, KeepsScoped

LEMMA GotoBecomes ==
    ASSUME TypeOK, NEW t \in Tasks, NEW label, Goto(t, label)
    PROVE  /\ \A u \in Tasks \ {t} : task'[u] = task[u]
           /\ task'[t].pkg = task[t].pkg /\ task'[t].kind = task[t].kind /\ task'[t].keep = task[t].keep
           /\ task'[t].pc = label /\ KeepsState(t) /\ KeepsScoped(t)
BY DEF TypeOK, Task, Goto, KeepsState, KeepsScoped

LEMMA StateBecomes ==
    ASSUME TypeOK, NEW t \in Tasks, NEW label, NEW state,
           task' = [task EXCEPT ![t].pc = label, ![t].state = state]
    PROVE  /\ \A u \in Tasks \ {t} : task'[u] = task[u]
           /\ task'[t].pkg = task[t].pkg /\ task'[t].kind = task[t].kind /\ task'[t].keep = task[t].keep
           /\ task'[t].pc = label /\ task'[t].state = state /\ KeepsScoped(t)
BY DEF TypeOK, Task, KeepsScoped

LEMMA ScopedBecomes ==
    ASSUME TypeOK, NEW t \in Tasks, NEW label, NEW scoped,
           \/ task' = [task EXCEPT ![t].scoped = scoped, ![t].pc = label]
           \/ task' = [task EXCEPT ![t].pc = label, ![t].scoped = scoped]
    PROVE  /\ \A u \in Tasks \ {t} : task'[u] = task[u]
           /\ task'[t].pkg = task[t].pkg /\ task'[t].kind = task[t].kind /\ task'[t].keep = task[t].keep
           /\ task'[t].pc = label /\ task'[t].scoped = scoped /\ KeepsState(t)
BY DEF TypeOK, Task, KeepsState

(* the frame holds for every step of a worker that changes only its own directories *)
LEMMA Frame ==
    ASSUME Inv, NEW t \in Tasks, Worker(t),
           \A u \in Tasks \ {t} : task'[u] = task[u],
           task'[t].pkg = task[t].pkg /\ task'[t].kind = task[t].kind /\ task'[t].keep = task[t].keep,
           disk' = disk \/ \E d : disk' = [disk EXCEPT ![PkgOf(t)] = d]
    PROVE  WorkerFrame(t)
<1>1. WorkerMove(t) BY WorkerMoves DEF Inv
<1>2. task' \in [Tasks -> Task] /\ disk' \in [Packages -> PackageDirs]
  BY <1>1 DEF WorkerMove, TaskMove, TaskChange
<1>3. \A q \in Packages \ {PkgOf(t)} : disk'[q] = disk[q]
  <2>1. CASE \E d : disk' = [disk EXCEPT ![PkgOf(t)] = d]
    <3>1. PICK d : disk' = [disk EXCEPT ![PkgOf(t)] = d] BY <2>1
    <3>2. TypeOK BY DEF Inv
    <3> QED BY <3>1, <3>2, DirsOf
  <2> QED BY <2>1
<1> QED BY <1>2, <1>3, WorkerLeavesAlone DEF WorkerFrame

LEMMA SameDisk ==
    ASSUME NEW t \in Tasks, UNCHANGED disk
    PROVE  KeepsDirs(t)
BY DEF KeepsDirs, Dirs

LEMMA ApprovedAt ==
    ASSUME Inv, NEW t \in Tasks
    PROVE  /\ task[t].pc \in Holding => task[t].approved
           /\ task[t].pc \in Early => ~task[t].approved
BY DEF Inv, ApprovalMatchesLabel

(* a worker that throws without having touched the disk in this step *)
LEMMA ThrowTransition ==
    ASSUME Inv, NEW t \in Tasks, Worker(t), Throw(t), UNCHANGED disk,
           task[t].pc \in {"begin", "download", "declined", "waitStop", "unpack", "awaitAck",
                           "writeReport", "createDocs", "renameDoc"}
    PROVE  WorkerStep(t)
<1>1. WorkerFrame(t) BY ThrowBecomes, Frame DEF Inv
<1>2. KeepsDirs(t) BY SameDisk
<1>3. CASE task[t].approved
  <2>1. task[t].pc \notin Early BY <1>3, ApprovedAt
  <2>2. Aborted(t) BY <1>2, <1>3, <2>1, ThrowBecomes DEF Aborted, Inv, Early
  <2> QED BY <1>1, <2>2 DEF WorkerStep, Transition
<1>4. CASE ~task[t].approved
  <2>1. task[t].pc \notin Holding BY <1>4, ApprovedAt
  <2>2. Refused(t) BY <1>2, <1>4, <2>1, ThrowBecomes DEF Refused, Inv, Holding, Finishing
  <2> QED BY <1>1, <2>2 DEF WorkerStep, Transition
<1> QED BY <1>3, <1>4

(* ... or having changed the directories of its package *)
LEMMA ThrowFrame ==
    ASSUME Inv, NEW t \in Tasks, Worker(t), Throw(t), NEW d, disk' = [disk EXCEPT ![PkgOf(t)] = d]
    PROVE  WorkerFrame(t) /\ disk'[PkgOf(t)] = d
<1>1. TypeOK BY DEF Inv
<1> QED BY <1>1, ThrowBecomes, Frame, DirsOf

(* ... or goes to another label *)
LEMMA GoTransition ==
    ASSUME Inv, NEW t \in Tasks, Worker(t), UNCHANGED disk, NEW label, Goto(t, label),
           KeepsDirs(t) /\ KeepsScoped(t) /\ KeepsState(t) /\ Goes(t, task[t].pc, label) => GoesOn(t)
    PROVE  WorkerStep(t)
<1>1. WorkerFrame(t) BY GotoBecomes, Frame DEF Inv
<1>2. KeepsDirs(t) /\ KeepsScoped(t) /\ KeepsState(t) /\ Goes(t, task[t].pc, label)
  BY SameDisk, GotoBecomes DEF Inv, Goes
<1> QED BY <1>1, <1>2 DEF WorkerStep, Transition

LEMMA BeginInstallationStep ==
    ASSUME Inv, NEW t \in Tasks, Worker(t), BeginInstallation(t)
    PROVE  WorkerStep(t)
<1>1. task[t].pc = "begin" /\ Install(t) /\ UNCHANGED disk
  BY DEF BeginInstallation, Step, At, TaskOnly
<1>2. CASE Throw(t) BY <1>1, <1>2, ThrowTransition
<1>3. CASE Goto(t, "download") BY <1>1, <1>3, GoTransition DEF GoesOn
<1> QED BY <1>2, <1>3 DEF BeginInstallation

LEMMA DownloadStep ==
    ASSUME Inv, NEW t \in Tasks, Worker(t), Download(t)
    PROVE  WorkerStep(t)
<1>1. task[t].pc = "download" /\ Install(t) /\ UNCHANGED disk
  BY DEF Download, Step, At, TaskOnly
<1>2. CASE Throw(t) BY <1>1, <1>2, ThrowTransition
<1>3. CASE Goto(t, "askActive") BY <1>1, <1>3, GoTransition DEF GoesOn
<1> QED BY <1>2, <1>3 DEF Download, Ask

LEMMA DeclinedStep ==
    ASSUME Inv, NEW t \in Tasks, Worker(t), Declined(t)
    PROVE  WorkerStep(t)
BY ThrowTransition DEF Declined, At, TaskOnly

LEMMA StartInstallationStep ==
    ASSUME Inv, NEW t \in Tasks, Worker(t), StartInstallation(t)
    PROVE  WorkerStep(t)
<1> DEFINE p == PkgOf(t)
<1>1. task[t].pc = "startInstallation" /\ Install(t) /\ TypeOK /\ disk \in [Packages -> PackageDirs]
      /\ p \in Packages
  BY DirsOf DEF StartInstallation, Step, At, Inv, TypeOK
<1>2. CASE /\ disk' = [disk EXCEPT ![p].plus = [ver |-> t, stage |-> "unpacking"]]
           /\ task' = [task EXCEPT ![t].scoped = {"unpackDir"}, ![t].pc = "askApproval"]
  <2>1. disk' = [disk EXCEPT ![p] = [Dirs(t) EXCEPT !.plus = [ver |-> t, stage |-> "unpacking"]]]
    BY <1>2 DEF Dirs
  <2>2. WorkerFrame(t) BY <1>1, <1>2, <2>1, ScopedBecomes, Frame
  <2>3. disk'[p] = [Dirs(t) EXCEPT !.plus = [ver |-> t, stage |-> "unpacking"]]
    BY <1>1, <2>1, DirsOf
  <2>4. StartsUnpacking(t) BY <1>1, <1>2, <2>3, ScopedBecomes DEF StartsUnpacking, Goes
  <2> QED BY <2>2, <2>4 DEF WorkerStep, Transition
<1>3. ASSUME Throw(t), NEW left \in Removed(disk[p].plus),
             disk' = [disk EXCEPT ![p] = [disk[p] EXCEPT !.plus = left]]
      PROVE  WorkerStep(t)
  <2>1. WorkerFrame(t) /\ disk'[p] = [Dirs(t) EXCEPT !.plus = left]
    BY <1>3, ThrowFrame DEF Dirs
  <2>2. ~task[t].approved BY <1>1, ApprovedAt DEF Early
  <2>3. Refused(t) BY <1>1, <1>3, <2>1, <2>2, ThrowBecomes DEF Refused, Dirs
  <2> QED BY <2>1, <2>3 DEF WorkerStep, Transition
<1>4. CASE Throw(t) /\ disk' = [disk EXCEPT ![p].plus = NoDir]
  BY <1>3, <1>4 DEF Removed
<1>5. CASE Throw(t) /\ MayFail("remove") /\ Exists(disk[p].plus)
           /\ disk' = [disk EXCEPT ![p].plus = Leftover(@)]
  <2>1. disk' = [disk EXCEPT ![p] = [disk[p] EXCEPT !.plus = Leftover(disk[p].plus)]]
    BY <1>1, <1>5, DirsTyped DEF PackageDirs
  <2>2. Leftover(disk[p].plus) \in Removed(disk[p].plus) BY <1>5 DEF Removed
  <2> QED BY <1>3, <1>5, <2>1, <2>2
<1> QED BY <1>2, <1>4, <1>5 DEF StartInstallation

LEMMA WaitStopStep ==
    ASSUME Inv, NEW t \in Tasks, Worker(t), WaitStop(t)
    PROVE  WorkerStep(t)
<1>1. task[t].pc = "waitStop" /\ UNCHANGED disk
  BY DEF WaitStop, At, TaskOnly
<1>2. CASE Throw(t) BY <1>1, <1>2, ThrowTransition
<1>3. CASE /\ AllApplicationsStopped(PkgOf(t))
           /\ Goto(t, IF Install(t) THEN "unpack" ELSE "renameDoc")
  BY <1>1, <1>3, GoTransition DEF GoesOn
<1> QED BY <1>2, <1>3 DEF WaitStop

LEMMA UnpackStep ==
    ASSUME Inv, NEW t \in Tasks, Worker(t), Unpack(t)
    PROVE  WorkerStep(t)
<1> DEFINE p == PkgOf(t)
<1>1. task[t].pc = "unpack" /\ Install(t) /\ TypeOK /\ disk \in [Packages -> PackageDirs]
      /\ p \in Packages
  BY DirsOf DEF Unpack, Step, At, Inv, TypeOK
<1>2. CASE Throw(t) /\ UNCHANGED disk BY <1>1, <1>2, ThrowTransition
<1>3. CASE /\ task' = [task EXCEPT ![t].pc = "awaitAck", ![t].state = "AwaitingAcknowledge"]
           /\ disk' = IF Exists(disk[p].plus) /\ disk[p].plus.ver = t
                      THEN [disk EXCEPT ![p].plus.stage = "unpacked"] ELSE disk
  <2> DEFINE d == IF Exists(Dirs(t).plus) /\ Dirs(t).plus.ver = t
                  THEN [Dirs(t) EXCEPT !.plus.stage = "unpacked"] ELSE Dirs(t)
  <2>1. disk' = [disk EXCEPT ![p] = d] BY <1>1, <1>3 DEF Dirs
  <2> HIDE DEF d
  <2>2. WorkerFrame(t) BY <1>1, <1>3, <2>1, StateBecomes, Frame
  <2>3. disk'[p] = d BY <1>1, <2>1, DirsOf
  <2>4. Goes(t, "unpack", "awaitAck") /\ task'[t].state = "AwaitingAcknowledge" /\ KeepsScoped(t)
    BY <1>1, <1>3, StateBecomes DEF Goes
  <2>5. EndsUnpacking(t) BY <1>1, <2>3, <2>4 DEF EndsUnpacking, d
  <2> QED BY <2>2, <2>5 DEF WorkerStep, Transition
<1> QED BY <1>2, <1>3 DEF Unpack

LEMMA AwaitAcknowledgeStep ==
    ASSUME Inv, NEW t \in Tasks, Worker(t), AwaitAcknowledge(t)
    PROVE  WorkerStep(t)
<1>1. task[t].pc = "awaitAck" /\ Install(t) /\ UNCHANGED disk /\ TypeOK
  BY DEF AwaitAcknowledge, Step, At, TaskOnly, Inv
<1>2. CASE Throw(t) BY <1>1, <1>2, ThrowTransition
<1>3. CASE task' = [task EXCEPT ![t].pc = "lockFinish", ![t].state = "Installing"]
  <2>1. WorkerFrame(t) BY <1>1, <1>3, StateBecomes, Frame
  <2>2. GoesOn(t) BY <1>1, <1>3, StateBecomes, SameDisk DEF GoesOn, Goes
  <2> QED BY <2>1, <2>2 DEF WorkerStep, Transition
<1> QED BY <1>2, <1>3 DEF AwaitAcknowledge

LEMMA LockFinishStep ==
    ASSUME Inv, NEW t \in Tasks, Worker(t), LockFinish(t)
    PROVE  WorkerStep(t)
<1>1. task[t].pc = "lockFinish" /\ Install(t) /\ UNCHANGED disk /\ Goto(t, "writeReport")
  BY DEF LockFinish, Step, At, TaskOnly
<1> QED BY <1>1, GoTransition DEF GoesOn

LEMMA WriteReportStep ==
    ASSUME Inv, NEW t \in Tasks, Worker(t), WriteReport(t)
    PROVE  WorkerStep(t)
<1> DEFINE p == PkgOf(t)
           next == IF Exists(disk[p].app) THEN "backup" ELSE "createDocs"
<1>1. task[t].pc = "writeReport" /\ Install(t) /\ TypeOK BY DEF WriteReport, Step, At, Inv
<1>2. CASE Throw(t) /\ UNCHANGED disk BY <1>1, <1>2, ThrowTransition
<1>3. CASE /\ Exists(disk[p].plus)
           /\ disk' = [disk EXCEPT ![p].plus = WithReport(@)]
           /\ Goto(t, next)
  <2>1. disk' = [disk EXCEPT ![p] = [Dirs(t) EXCEPT !.plus = WithReport(@)]] BY <1>3 DEF Dirs
  <2>2. WorkerFrame(t) BY <1>1, <1>3, <2>1, GotoBecomes, Frame
  <2>3. disk'[p] = [Dirs(t) EXCEPT !.plus = WithReport(@)] BY <1>1, <2>1, DirsOf
  <2>4. KeepsState(t) /\ KeepsScoped(t) /\ Goes(t, "writeReport", next)
    BY <1>1, <1>3, GotoBecomes DEF Goes
  <2>5. WritesReport(t) BY <1>1, <1>3, <2>3, <2>4 DEF WritesReport, Dirs
  <2> QED BY <2>2, <2>5 DEF WorkerStep, Transition
<1> QED BY <1>2, <1>3 DEF WriteReport

LEMMA CreateDocumentDirectoryStep ==
    ASSUME Inv, NEW t \in Tasks, Worker(t), CreateDocumentDirectory(t)
    PROVE  WorkerStep(t)
<1> DEFINE p == PkgOf(t)
           scoped == IF Dirs(t).doc THEN task[t].scoped ELSE task[t].scoped \cup {"docDir"}
<1>1. task[t].pc = "createDocs" /\ Install(t) /\ TypeOK
  BY DEF CreateDocumentDirectory, Step, At, Inv
<1>2. CASE Throw(t) /\ UNCHANGED disk BY <1>1, <1>2, ThrowTransition
<1>3. CASE /\ task' = [task EXCEPT ![t].pc = "rename", ![t].scoped =
                                     IF disk[p].doc THEN @ ELSE @ \cup {"docDir"}]
           /\ disk' = [disk EXCEPT ![p].doc = TRUE]
  <2>1. disk' = [disk EXCEPT ![p] = [Dirs(t) EXCEPT !.doc = TRUE]] BY <1>3 DEF Dirs
  <2>2. task' = [task EXCEPT ![t].pc = "rename", ![t].scoped = scoped] BY <1>1, <1>3 DEF Dirs, TypeOK, Task
  <2> HIDE DEF scoped
  <2>3. WorkerFrame(t) BY <1>1, <2>1, <2>2, ScopedBecomes, Frame
  <2>4. disk'[p] = [Dirs(t) EXCEPT !.doc = TRUE] BY <1>1, <2>1, DirsOf
  <2>5. KeepsState(t) /\ task'[t].scoped = scoped /\ Goes(t, "createDocs", "rename")
    BY <1>1, <2>2, ScopedBecomes DEF Goes
  <2>6. CreatesDocuments(t) BY <1>1, <2>4, <2>5 DEF CreatesDocuments, scoped
  <2> QED BY <2>3, <2>6 DEF WorkerStep, Transition
<1> QED BY <1>2, <1>3 DEF CreateDocumentDirectory

LEMMA BackupOldVersionStep ==
    ASSUME Inv, NEW t \in Tasks, Worker(t), BackupOldVersion(t)
    PROVE  WorkerStep(t)
<1> DEFINE p == PkgOf(t)
           scoped == task[t].scoped \cup {"backup"}
<1>1. task[t].pc = "backup" /\ Install(t) /\ TypeOK BY DEF BackupOldVersion, Step, At, Inv
<1>2. CASE /\ \E left \in TargetOfFailedRename(disk[p].app, disk[p].minus) :
                disk' = [disk EXCEPT ![p].minus = left]
           /\ Throw(t)
  <2>1. PICK left \in TargetOfFailedRename(Dirs(t).app, Dirs(t).minus) :
           disk' = [disk EXCEPT ![p] = [Dirs(t) EXCEPT !.minus = left]]
    BY <1>2 DEF Dirs
  <2>2. WorkerFrame(t) /\ disk'[p] = [Dirs(t) EXCEPT !.minus = left] BY <1>2, <2>1, ThrowFrame
  <2>3. task[t].approved BY <1>1, ApprovedAt DEF Holding, Finishing
  <2>4. Aborted(t) BY <1>1, <1>2, <2>1, <2>2, <2>3, ThrowBecomes DEF Aborted
  <2> QED BY <2>2, <2>4 DEF WorkerStep, Transition
<1>3. CASE /\ disk' = [disk EXCEPT ![p] = NameToNameMinus(@)]
           /\ task' = [task EXCEPT ![t].pc = "rename", ![t].scoped = @ \cup {"backup"}]
  <2>1. disk' = [disk EXCEPT ![p] = NameToNameMinus(Dirs(t))] BY <1>3 DEF Dirs
  <2>2. task' = [task EXCEPT ![t].pc = "rename", ![t].scoped = scoped] BY <1>1, <1>3 DEF TypeOK, Task
  <2> HIDE DEF scoped
  <2>3. WorkerFrame(t) BY <1>1, <2>1, <2>2, ScopedBecomes, Frame
  <2>4. disk'[p] = NameToNameMinus(Dirs(t)) BY <1>1, <2>1, DirsOf
  <2>5. KeepsState(t) /\ task'[t].scoped = scoped /\ Goes(t, "backup", "rename")
    BY <1>1, <2>2, ScopedBecomes DEF Goes
  <2>6. BacksUp(t) BY <1>1, <2>4, <2>5 DEF BacksUp, scoped
  <2> QED BY <2>3, <2>6 DEF WorkerStep, Transition
<1> QED BY <1>2, <1>3 DEF BackupOldVersion

LEMMA RenameNewVersionStep ==
    ASSUME Inv, NEW t \in Tasks, Worker(t), RenameNewVersion(t)
    PROVE  WorkerStep(t)
<1> DEFINE p == PkgOf(t)
<1>1. task[t].pc = "rename" /\ Install(t) /\ TypeOK BY DEF RenameNewVersion, Step, At, Inv
<1>2. CASE /\ Throw(t)
           /\ \E undone \in Undone(t) : disk' = [disk EXCEPT ![p] = RolledBack(t, undone)]
  <2>1. PICK undone \in Undone(t) : disk' = [disk EXCEPT ![p] = RolledBack(t, undone)] BY <1>2
  <2>2. WorkerFrame(t) /\ disk'[p] = RolledBack(t, undone) BY <1>2, <2>1, ThrowFrame
  <2>3. task[t].approved BY <1>1, ApprovedAt DEF Holding, Finishing
  <2>4. Aborted(t) BY <1>1, <1>2, <2>1, <2>2, <2>3, ThrowBecomes DEF Aborted
  <2> QED BY <2>2, <2>4 DEF WorkerStep, Transition
<1>3. ASSUME NEW next, next = IF "backup" \in task[t].scoped THEN "removeBackup" ELSE "askFinish",
             Exists(disk[p].plus),
             disk' = [disk EXCEPT ![p] = NamePlusToName(@)],
             task' = [task EXCEPT ![t].pc = next, ![t].state = "CleaningUp", ![t].scoped = {}]
      PROVE  WorkerStep(t)
  <2>1. disk' = [disk EXCEPT ![p] = NamePlusToName(Dirs(t))] BY <1>3 DEF Dirs
  <2>2. /\ \A u \in Tasks \ {t} : task'[u] = task[u]
        /\ task'[t].pkg = task[t].pkg /\ task'[t].kind = task[t].kind /\ task'[t].keep = task[t].keep
        /\ task'[t].pc = next /\ task'[t].state = "CleaningUp" /\ task'[t].scoped = {}
    BY <1>1, <1>3 DEF TypeOK, Task
  <2>3. WorkerFrame(t) BY <1>1, <2>1, <2>2, Frame
  <2>4. disk'[p] = NamePlusToName(Dirs(t)) BY <1>1, <2>1, DirsOf
  <2>5. RenamesNewVersion(t) BY <1>1, <1>3, <2>2, <2>4 DEF RenamesNewVersion, Dirs, Goes
  <2> QED BY <2>3, <2>5 DEF WorkerStep, Transition
<1> QED BY <1>2, <1>3 DEF RenameNewVersion

LEMMA RemoveBackupStep ==
    ASSUME Inv, NEW t \in Tasks, Worker(t), RemoveBackup(t)
    PROVE  WorkerStep(t)
<1> DEFINE p == PkgOf(t)
<1>1. task[t].pc = "removeBackup" /\ Install(t) /\ TypeOK /\ Goto(t, "askFinish")
  BY DEF RemoveBackup, Step, At, Inv, Ask
<1>2. PICK left \in Removed(Dirs(t).minus) :
         disk' = [disk EXCEPT ![p] = [Dirs(t) EXCEPT !.minus = left]]
  BY DEF Dirs, RemoveBackup
<1>3. WorkerFrame(t) BY <1>1, <1>2, GotoBecomes, Frame
<1>4. disk'[p] = [Dirs(t) EXCEPT !.minus = left] BY <1>1, <1>2, DirsOf
<1>5. RemovesBackup(t) BY <1>1, <1>2, <1>4, GotoBecomes DEF RemovesBackup, Goes
<1> QED BY <1>3, <1>5 DEF WorkerStep, Transition

LEMMA EndRunStep ==
    ASSUME Inv, NEW t \in Tasks, Worker(t), EndRun(t)
    PROVE  WorkerStep(t)
<1>1. task[t].pc = "end" /\ UNCHANGED disk /\ Goto(t, "finished")
  BY DEF EndRun, Ask, At, TaskOnly
<1> QED BY <1>1, GoTransition DEF GoesOn

LEMMA SetErrorStep ==
    ASSUME Inv, NEW t \in Tasks, Worker(t), SetError(t)
    PROVE  WorkerStep(t)
<1>1. task[t].pc = "setError" /\ UNCHANGED disk /\ TypeOK
      /\ task' = [task EXCEPT ![t].pc = "end", ![t].state = "Failed"]
  BY DEF SetError, At, TaskOnly, Inv
<1>2. WorkerFrame(t) BY <1>1, StateBecomes, Frame
<1>3. GoesOn(t) BY <1>1, StateBecomes, SameDisk DEF GoesOn, Goes
<1> QED BY <1>2, <1>3 DEF WorkerStep, Transition

LEMMA BeginRemovalStep ==
    ASSUME Inv, NEW t \in Tasks, Worker(t), BeginRemoval(t)
    PROVE  WorkerStep(t)
<1>1. task[t].pc = "begin" /\ ~Install(t) /\ UNCHANGED disk
  BY DEF BeginRemoval, Removing, At, TaskOnly
<1>2. CASE Throw(t) BY <1>1, <1>2, ThrowTransition
<1>3. CASE Goto(t, "askRemoval") BY <1>1, <1>3, GoTransition DEF GoesOn
<1> QED BY <1>2, <1>3 DEF BeginRemoval, Ask

LEMMA RenameDocumentsStep ==
    ASSUME Inv, NEW t \in Tasks, Worker(t), RenameDocuments(t)
    PROVE  WorkerStep(t)
<1> DEFINE p == PkgOf(t)
<1>1. task[t].pc = "renameDoc" /\ ~Install(t) /\ TypeOK
  BY DEF RenameDocuments, Removing, At, Inv
<1>2. CASE Throw(t) /\ UNCHANGED disk BY <1>1, <1>2, ThrowTransition
<1>5. CASE Throw(t) /\ disk[p].doc /\ disk' = [disk EXCEPT ![p].docMinus = FALSE]
  <2>1. disk' = [disk EXCEPT ![p] = [Dirs(t) EXCEPT !.docMinus = FALSE]] BY <1>5 DEF Dirs
  <2>2. WorkerFrame(t) /\ disk'[p] = [Dirs(t) EXCEPT !.docMinus = FALSE] BY <1>5, <2>1, ThrowFrame
  <2>3. task[t].approved BY <1>1, ApprovedAt DEF Holding, Finishing
  <2>4. Aborted(t) BY <1>1, <1>5, <2>2, <2>3, ThrowBecomes DEF Aborted, Dirs
  <2> QED BY <2>2, <2>4 DEF WorkerStep, Transition
<1>3. CASE task[t].keep /\ Goto(t, "renameApp") /\ UNCHANGED disk
  BY <1>1, <1>3, GoTransition DEF GoesOn
<1>4. CASE /\ ~task[t].keep /\ disk[p].doc
           /\ disk' = [disk EXCEPT ![p] = DocToDocMinus(@)]
           /\ task' = [task EXCEPT ![t].pc = "renameApp", ![t].scoped = {"docBackup"}]
  <2>1. disk' = [disk EXCEPT ![p] = DocToDocMinus(Dirs(t))] BY <1>4 DEF Dirs
  <2>2. WorkerFrame(t) BY <1>1, <1>4, <2>1, ScopedBecomes, Frame
  <2>3. disk'[p] = DocToDocMinus(Dirs(t)) BY <1>1, <2>1, DirsOf
  <2>4. KeepsState(t) /\ task'[t].scoped = {"docBackup"} /\ Goes(t, "renameDoc", "renameApp")
    BY <1>1, <1>4, ScopedBecomes DEF Goes
  <2>5. RenamesDocuments(t) BY <1>1, <1>4, <2>3, <2>4 DEF RenamesDocuments, Dirs
  <2> QED BY <2>2, <2>5 DEF WorkerStep, Transition
<1> QED BY <1>2, <1>3, <1>4, <1>5 DEF RenameDocuments

LEMMA RenameApplicationStep ==
    ASSUME Inv, NEW t \in Tasks, Worker(t), RenameApplication(t)
    PROVE  WorkerStep(t)
<1> DEFINE p == PkgOf(t)
<1>1. task[t].pc = "renameApp" /\ ~Install(t) /\ TypeOK
  BY DEF RenameApplication, Removing, At, Inv
<1>2. CASE /\ \E left \in TargetOfFailedRename(disk[p].app, disk[p].minus), undone \in Undone(t) :
                disk' = [disk EXCEPT ![p] = [RolledBack(t, undone) EXCEPT !.minus = left]]
           /\ Throw(t)
  <2>1. PICK left \in TargetOfFailedRename(Dirs(t).app, Dirs(t).minus), undone \in Undone(t) :
           disk' = [disk EXCEPT ![p] = [RolledBack(t, undone) EXCEPT !.minus = left]]
    BY <1>2 DEF Dirs
  <2>2. WorkerFrame(t) /\ disk'[p] = [RolledBack(t, undone) EXCEPT !.minus = left]
    BY <1>2, <2>1, ThrowFrame
  <2>3. task[t].approved BY <1>1, ApprovedAt DEF Holding, Finishing
  <2>4. Aborted(t) BY <1>1, <1>2, <2>1, <2>2, <2>3, ThrowBecomes DEF Aborted
  <2> QED BY <2>2, <2>4 DEF WorkerStep, Transition
<1>3. CASE /\ Exists(disk[p].app)
           /\ disk' = [disk EXCEPT ![p] = NameToNameMinus(@)]
           /\ task' = [task EXCEPT ![t].pc = "removeOld", ![t].scoped = {}]
  <2>1. disk' = [disk EXCEPT ![p] = NameToNameMinus(Dirs(t))] BY <1>3 DEF Dirs
  <2>2. WorkerFrame(t) BY <1>1, <1>3, <2>1, ScopedBecomes, Frame
  <2>3. disk'[p] = NameToNameMinus(Dirs(t)) BY <1>1, <2>1, DirsOf
  <2>4. KeepsState(t) /\ task'[t].scoped = {} /\ Goes(t, "renameApp", "removeOld")
    BY <1>1, <1>3, ScopedBecomes DEF Goes
  <2>5. RenamesApplication(t) BY <1>1, <1>3, <2>3, <2>4 DEF RenamesApplication, Dirs
  <2> QED BY <2>2, <2>5 DEF WorkerStep, Transition
<1> QED BY <1>2, <1>3 DEF RenameApplication

LEMMA RemoveOldVersionStep ==
    ASSUME Inv, NEW t \in Tasks, Worker(t), RemoveOldVersion(t)
    PROVE  WorkerStep(t)
<1> DEFINE p == PkgOf(t)
<1>1. task[t].pc = "removeOld" /\ ~Install(t) /\ TypeOK /\ Goto(t, "askFinish")
  BY DEF RemoveOldVersion, Removing, At, Inv, Ask
<1>2. PICK left \in Removed(Dirs(t).minus), stay \in BOOLEAN :
         /\ (task[t].keep => stay) /\ (stay => task[t].keep \/ MayFail("remove"))
         /\ disk' = [disk EXCEPT ![p] = [Dirs(t) EXCEPT !.minus = left, !.docMinus = @ /\ stay]]
  <2>1. MayFail("remove") \in BOOLEAN BY DEF MayFail
  <2> QED BY <2>1 DEF Dirs, RemoveOldVersion
<1> DEFINE d == [Dirs(t) EXCEPT !.minus = left, !.docMinus = @ /\ stay]
<1>3. disk' = [disk EXCEPT ![p] = d] BY <1>2
<1>4. WorkerFrame(t) BY <1>1, <1>3, GotoBecomes, Frame
<1>5. disk'[p] = d BY <1>1, <1>3, DirsOf
<1>6. RemovesOldVersion(t) BY <1>1, <1>2, <1>5, GotoBecomes DEF RemovesOldVersion, Goes
<1> QED BY <1>4, <1>6 DEF WorkerStep, Transition

(* every step of a worker is one of the transitions *)
LEMMA WorkerSteps ==
    ASSUME Inv, NEW t \in Tasks, Worker(t)
    PROVE  WorkerStep(t)
BY BeginInstallationStep, DownloadStep, DeclinedStep, StartInstallationStep, WaitStopStep,
   UnpackStep, AwaitAcknowledgeStep, LockFinishStep, WriteReportStep, CreateDocumentDirectoryStep,
   BackupOldVersionStep, RenameNewVersionStep, RemoveBackupStep, BeginRemovalStep,
   RenameDocumentsStep, RenameApplicationStep, RemoveOldVersionStep, SetErrorStep, EndRunStep
   DEF Worker

-----------------------------------------------------------------------------
(* The slots of the main thread that serve one task. *)

SlotFrame(t) ==
    /\ task' \in [Tasks -> Task] /\ disk' \in [Packages -> PackageDirs]
    /\ pkg' \in [Packages -> Package]
    /\ \A u \in Tasks \ {t} : task'[u] = task[u]
    /\ \A q \in Packages \ {PkgOf(t)} : disk'[q] = disk[q] /\ pkg'[q] = pkg[q]
    /\ task'[t].pkg = task[t].pkg /\ task'[t].kind = task[t].kind /\ task'[t].keep = task[t].keep
    /\ UNCHANGED <<ready, crashes>>

KeepsList(t) == UNCHANGED <<pkg, app>>

(* ExecuteNextTask *)
Begins(t) ==
    /\ ready /\ Goes(t, "queued", "begin") /\ task'[t].state = "Executing"
    /\ KeepsScoped(t) /\ KeepsDirs(t) /\ KeepsList(t)

(* CancelIncomingTask *)
Leaves(t) ==
    /\ Goes(t, "queued", "gone") /\ task'[t].state = "Failed"
    /\ KeepsScoped(t) /\ KeepsDirs(t) /\ KeepsList(t)

(* TaskFinished *)
Ends(t) ==
    /\ Goes(t, "finished", "gone") /\ task'[t].scoped = {}
    /\ task'[t].state = IF task[t].state = "Failed" THEN "Failed" ELSE "Finished"
    /\ IF "unpackDir" \in task[t].scoped
       THEN \E left \in Removed(Dirs(t).plus) : disk'[PkgOf(t)] = [Dirs(t) EXCEPT !.plus = left]
       ELSE KeepsDirs(t)
    /\ KeepsList(t)

(* AnswerIsActive, and StartingPackageRemoval when it refuses *)
Answers(t) ==
    /\ \/ Goes(t, "askActive", "declined") \/ Goes(t, "askActive", "startInstallation")
       \/ Goes(t, "askRemoval", "declined")
    /\ KeepsState(t) /\ KeepsScoped(t) /\ KeepsDirs(t) /\ KeepsList(t)

(* an approval: nobody was working on the package *)
Approves(t, from) ==
    /\ Goes(t, from, "waitStop") /\ ~InHand(PkgOf(t))
    /\ KeepsState(t) /\ KeepsScoped(t) /\ KeepsDirs(t)
    /\ pkg'[PkgOf(t)].known

Installs(t) ==
    LET old == pkg[PkgOf(t)]  new == pkg'[PkgOf(t)]
    IN  /\ Approves(t, "askApproval") /\ Install(t)
        /\ ~old.known
        /\ new.state = "BeingInstalled" /\ new.ver = t /\ new.pending = None
        /\ UNCHANGED app

Stopping(t) ==
    LET old == pkg[PkgOf(t)]  new == pkg'[PkgOf(t)]
    IN  /\ old.known /\ new.ver = old.ver
        /\ new.waiting = {a \in AppsOf(PkgOf(t)) : app[a] \in {"Running", "ShuttingDown"}}
        /\ StopApps(PkgOf(t))

Updates(t) ==
    /\ Approves(t, "askApproval") /\ Install(t) /\ Stopping(t)
    /\ pkg'[PkgOf(t)].state = "BeingUpdated" /\ pkg'[PkgOf(t)].pending = t

Removes(t) ==
    LET old == pkg[PkgOf(t)]  new == pkg'[PkgOf(t)]
    IN  /\ Approves(t, "askRemoval") /\ ~Install(t) /\ Stopping(t)
        /\ new.state = IF PkgOf(t) \in BuiltIn THEN "BeingDowngraded" ELSE "BeingRemoved"
        /\ new.pending = old.pending

(* FinishedPackageInstall *)
Completes(t) ==
    LET old == pkg[PkgOf(t)]  new == pkg'[PkgOf(t)]
    IN  /\ Goes(t, "askFinish", "end") /\ KeepsState(t) /\ KeepsScoped(t) /\ KeepsDirs(t)
        /\ IF old.state = "BeingRemoved" THEN new = Absent
           ELSE /\ old.state \in {"BeingInstalled", "BeingUpdated", "BeingDowngraded"}
                /\ new.known = old.known /\ new.state = "Installed" /\ new.pending = None
                /\ new.ver = IF old.state = "BeingUpdated" THEN old.pending
                             ELSE IF old.state = "BeingDowngraded" THEN Base ELSE old.ver
        /\ IF old.state = "BeingInstalled" THEN UNCHANGED app ELSE Unregister(PkgOf(t))

(* CanceledPackageInstall *)
Withdraws(t) ==
    LET old == pkg[PkgOf(t)]  new == pkg'[PkgOf(t)]
    IN  /\ Goes(t, "askCancel", IF Install(t) THEN "end" ELSE "setError")
        /\ KeepsState(t) /\ KeepsScoped(t) /\ KeepsDirs(t)
        /\ IF old.state = "BeingInstalled" THEN new = Absent
           ELSE /\ new.known = old.known /\ new.ver = old.ver
                /\ new.state = "Installed" /\ new.pending = None
        /\ UNCHANGED app

SlotStep(t) ==
    /\ SlotFrame(t)
    /\ \/ Begins(t) \/ Leaves(t) \/ Ends(t) \/ Answers(t)
       \/ Installs(t) \/ Updates(t) \/ Removes(t) \/ Completes(t) \/ Withdraws(t)

(* The other steps: a new task is queued, ... *)
Enqueues(t) ==
    /\ Goes(t, "unused", "queued") /\ task'[t].state = "Queued" /\ task'[t].scoped = {}
    /\ task'[t].pkg \in Packages
    /\ task' \in [Tasks -> Task] /\ \A u \in Tasks \ {t} : task'[u] = task[u]
    /\ UNCHANGED <<pkg, app, disk, ready, crashes>>

(* ... nothing happens to labels, packages and directories, ... *)
SameTasks ==
    /\ task' \in [Tasks -> Task]
    /\ \A u \in Tasks :
          /\ task'[u].pc = task[u].pc /\ task'[u].state = task[u].state
          /\ task'[u].scoped = task[u].scoped /\ task'[u].pkg = task[u].pkg
          /\ task'[u].kind = task[u].kind /\ task'[u].keep = task[u].keep

Silent == SameTasks /\ UNCHANGED <<pkg, app, disk, ready, crashes>>

(* ... or an application starts or ends *)
AppStep == \E a \in Apps : StartApplication(a) \/ ContainerReady(a) \/ ApplicationFinished(a)

-----------------------------------------------------------------------------
LEMMA GotoSlot ==
    ASSUME Inv, Inv', NEW t \in Tasks, NEW op \in Asking, Answered(t, op), NEW label, Goto(t, label),
           UNCHANGED <<disk, ready, crashes>>,
           pkg' = pkg \/ \E r \in Package : pkg' = [pkg EXCEPT ![PkgOf(t)] = r]
    PROVE  /\ SlotFrame(t) /\ Goes(t, op, label)
           /\ KeepsState(t) /\ KeepsScoped(t) /\ KeepsDirs(t)
<1>1. TypeOK /\ PkgOf(t) \in Packages BY TypedFields DEF Inv, PkgOf
<1>2. task[t].pc = op BY AskedFor
<1>3. \A q \in Packages \ {PkgOf(t)} : pkg'[q] = pkg[q] BY <1>1, PackageTyped
<1>4. task' \in [Tasks -> Task] /\ disk' \in [Packages -> PackageDirs] /\ pkg' \in [Packages -> Package]
  BY DEF Inv, TypeOK
<1>5. SlotFrame(t) BY <1>1, <1>3, <1>4, GotoBecomes DEF SlotFrame
<1> QED BY <1>1, <1>2, <1>5, GotoBecomes, SameDisk DEF Goes

LEMMA ApproveSlot ==
    ASSUME Inv, Inv', NEW t \in Tasks, NEW op \in Asking, Answered(t, op), Approve(t),
           UNCHANGED <<disk, ready, crashes>>, ~InHand(PkgOf(t)),
           NEW r \in Package, pkg' = [pkg EXCEPT ![PkgOf(t)] = r], r.known
    PROVE  SlotFrame(t) /\ Approves(t, op) /\ pkg'[PkgOf(t)] = r
<1>1. TypeOK /\ PkgOf(t) \in Packages BY TypedFields DEF Inv, PkgOf
<1>2. task[t].pc = op BY AskedFor
<1>3. \A q \in Packages \ {PkgOf(t)} : pkg'[q] = pkg[q] BY <1>1, PackageTyped
<1>4. task' \in [Tasks -> Task] /\ disk' \in [Packages -> PackageDirs] /\ pkg' \in [Packages -> Package]
  BY DEF Inv, TypeOK
<1>5. /\ \A u \in Tasks \ {t} : task'[u] = task[u]
      /\ task'[t].pkg = task[t].pkg /\ task'[t].kind = task[t].kind /\ task'[t].keep = task[t].keep
      /\ task'[t].pc = "waitStop" /\ KeepsState(t) /\ KeepsScoped(t)
  BY <1>1 DEF Approve, TypeOK, Task, KeepsState, KeepsScoped
<1>6. SlotFrame(t) BY <1>1, <1>3, <1>4, <1>5 DEF SlotFrame
<1>7. pkg'[PkgOf(t)] = r BY <1>1, PackageTyped
<1> QED BY <1>1, <1>2, <1>5, <1>6, <1>7, SameDisk DEF Goes, Approves

LEMMA NextTaskSlot ==
    ASSUME Inv, Inv', ExecuteNextTask
    PROVE  Silent \/ \E t \in Tasks : SlotStep(t)
<1>1. TypeOK /\ task' \in [Tasks -> Task] /\ disk' \in [Packages -> PackageDirs]
      /\ pkg' \in [Packages -> Package]
  BY DEF Inv, TypeOK
<1>2. UNCHANGED <<pkg, app, disk, ready, crashes>> BY DEF ExecuteNextTask
<1>3. CASE UNCHANGED task BY <1>1, <1>2, <1>3 DEF Silent, SameTasks
<1>4. CASE /\ ready /\ incoming # <<>>
           /\ task' = [task EXCEPT ![Head(incoming)].pc = "begin",
                                  ![Head(incoming)].state = "Executing"]
  <2>1. incoming \in Seq(Tasks) BY <1>1 DEF TypeOK
  <2>2. /\ Head(incoming) \in Tasks /\ Head(incoming) = incoming[1] /\ 1 \in 1 .. Len(incoming)
    BY <1>4, <2>1
  <2>3. PICK t \in Tasks : t = Head(incoming) BY <2>2
  <2>4. task[t].pc = "queued" BY <2>2, <2>3 DEF Inv, Listed, At
  <2>5. task' = [task EXCEPT ![t].pc = "begin", ![t].state = "Executing"] BY <1>4, <2>3
  <2>8. task'[t].pc = "begin" /\ task'[t].state = "Executing" /\ KeepsScoped(t)
    BY <1>1, <2>5 DEF TypeOK, Task, KeepsScoped
  <2>6. Begins(t) BY <1>2, <1>4, <2>4, <2>8, SameDisk DEF Begins, Goes, KeepsList
  <2>7. SlotFrame(t) BY <1>1, <1>2, <2>5, StateBecomes DEF SlotFrame
  <2> QED BY <2>6, <2>7 DEF SlotStep
<1> QED BY <1>3, <1>4 DEF ExecuteNextTask

LEMMA LeavesSlot ==
    ASSUME Inv, Inv', NEW t \in Tasks, CancelIncomingTask(t)
    PROVE  SlotStep(t)
<1>1. TypeOK /\ task' \in [Tasks -> Task] /\ disk' \in [Packages -> PackageDirs]
      /\ pkg' \in [Packages -> Package]
  BY DEF Inv, TypeOK
<1>2. /\ UNCHANGED <<pkg, app, disk, ready, crashes>>
      /\ task[t].pc = "queued" /\ task' = [task EXCEPT ![t].pc = "gone", ![t].state = "Failed"]
  BY DEF CancelIncomingTask, Incoming, At
<1>3. Leaves(t) BY <1>1, <1>2, StateBecomes, SameDisk DEF Leaves, Goes, KeepsList
<1>4. SlotFrame(t) BY <1>1, <1>2, StateBecomes DEF SlotFrame
<1> QED BY <1>3, <1>4 DEF SlotStep

LEMMA EndsSlot ==
    ASSUME Inv, Inv', NEW t \in Tasks, TaskFinished(t)
    PROVE  SlotStep(t)
<1> DEFINE p == PkgOf(t)
<1>1. TypeOK /\ task' \in [Tasks -> Task] /\ disk' \in [Packages -> PackageDirs]
      /\ pkg' \in [Packages -> Package] /\ p \in Packages
  BY TypedFields DEF Inv, TypeOK, PkgOf
<1>2. UNCHANGED <<pkg, app, ready, crashes>> BY DEF TaskFinished
<1>3. task[t].pc = "finished" BY HeadOfCalls DEF TaskFinished, Ops, CallFits
<1>4. /\ \A u \in Tasks \ {t} : task'[u] = task[u]
      /\ task'[t].pkg = task[t].pkg /\ task'[t].kind = task[t].kind /\ task'[t].keep = task[t].keep
      /\ task'[t].pc = "gone" /\ task'[t].scoped = {}
      /\ task'[t].state = IF task[t].state = "Failed" THEN "Failed" ELSE "Finished"
  BY <1>1 DEF TaskFinished, TypeOK, Task
<1>5. CASE "unpackDir" \in task[t].scoped
  <2>1. PICK left \in Removed(Dirs(t).plus) :
           disk' = [disk EXCEPT ![p] = [Dirs(t) EXCEPT !.plus = left]]
    BY <1>5 DEF TaskFinished, Dirs
  <2>2. disk'[p] = [Dirs(t) EXCEPT !.plus = left] /\ \A q \in Packages \ {p} : disk'[q] = disk[q]
    BY <1>1, <2>1, DirsOf
  <2>3. SlotFrame(t) BY <1>1, <1>2, <1>4, <2>2 DEF SlotFrame
  <2>4. Ends(t) BY <1>2, <1>3, <1>4, <1>5, <2>1, <2>2 DEF Ends, Goes, KeepsList
  <2> QED BY <2>3, <2>4 DEF SlotStep
<1>6. CASE "unpackDir" \notin task[t].scoped
  <2>1. disk' = disk BY <1>6 DEF TaskFinished
  <2>2. SlotFrame(t) BY <1>1, <1>2, <1>4, <2>1 DEF SlotFrame
  <2>3. Ends(t) BY <1>2, <1>3, <1>4, <1>6, <2>1, SameDisk DEF Ends, Goes, KeepsList
  <2> QED BY <2>2, <2>3 DEF SlotStep
<1> QED BY <1>5, <1>6

LEMMA AnswerIsActiveSlot ==
    ASSUME Inv, Inv', NEW t \in Tasks, AnswerIsActive(t)
    PROVE  SlotStep(t)
<1>1. Answered(t, "askActive") /\ "askActive" \in Asking BY DEF AnswerIsActive, Asking
<1>2. UNCHANGED <<pkg, app, disk, ready, crashes>> BY DEF AnswerIsActive
<1>3. PICK label \in {"declined", "startInstallation"} : Goto(t, label) BY DEF AnswerIsActive
<1>4. /\ SlotFrame(t) /\ Goes(t, "askActive", label)
      /\ KeepsState(t) /\ KeepsScoped(t) /\ KeepsDirs(t)
  BY <1>1, <1>2, <1>3, GotoSlot
<1>5. Answers(t) BY <1>2, <1>4 DEF Answers, KeepsList
<1> QED BY <1>4, <1>5 DEF SlotStep

(* nobody holds the package of an installation that asks for approval *)
LEMMA AskerIsAlone ==
    ASSUME Inv, NEW t \in Tasks, task[t].pc \in {"startInstallation", "askApproval"}, Install(t)
    PROVE  \A u \in Tasks : PkgOf(u) = PkgOf(t) /\ Started(u) => u = t
<1>1. t = active /\ \A v \in installing : PkgOf(v) # PkgOf(t)
  BY DEF Inv, OneExtracts, Extracting
<1> QED BY <1>1 DEF Inv, Listed

LEMMA InstallationSlot ==
    ASSUME Inv, Inv', NEW t \in Tasks, StartingPackageInstallation(t)
    PROVE  SlotStep(t)
<1> DEFINE p == PkgOf(t)
<1>1. TypeOK /\ p \in Packages /\ pkg[p] \in Package BY TypedFields, PackageTyped DEF Inv, PkgOf
<1>2. Answered(t, "askApproval") /\ "askApproval" \in Asking BY DEF StartingPackageInstallation, Asking
<1>3. task[t].pc = "askApproval" /\ Install(t) BY <1>2, AskedFor DEF Inv, OneExtracts
<1>4. ~InHand(p)
  BY <1>3, AskerIsAlone DEF InHand, Holds, Holding, Finishing, Started
<1>5. pkg[p].blocked = 0 /\ ~IsBlocked(p)
  BY <1>1, <1>4 DEF Inv, BlockedByItsTask, IsBlocked
<1>6. UNCHANGED <<disk, ready, crashes>> /\ Approve(t) BY <1>5 DEF StartingPackageInstallation
<1>7. CASE ~pkg[p].known
  <2> DEFINE r == [Registered(t) EXCEPT !.state = "BeingInstalled", !.blocked = 1]
  <2>1. pkg' = [pkg EXCEPT ![p] = r] /\ UNCHANGED app BY <1>7 DEF StartingPackageInstallation
  <2>2. /\ r \in Package /\ r.known /\ r.state = "BeingInstalled" /\ r.ver = t /\ r.pending = None
    BY DEF Registered, Absent, Package, PackageStates, Version
  <2> HIDE DEF r
  <2>3. SlotFrame(t) /\ Approves(t, "askApproval") /\ pkg'[p] = r
    BY <1>2, <1>4, <1>6, <2>1, <2>2, ApproveSlot
  <2>4. Installs(t) BY <1>3, <1>7, <2>1, <2>2, <2>3 DEF Installs
  <2> QED BY <2>3, <2>4 DEF SlotStep
<1>8. CASE pkg[p].known
  <2> DEFINE w == {a \in AppsOf(p) : app[a] \in {"Running", "ShuttingDown"}}
             r == [pkg[p] EXCEPT !.blocked = 1, !.waiting = w, !.state = "BeingUpdated", !.pending = t]
  <2>1. w \in SUBSET Apps BY DEF AppsOf
  <2>2. Blocked(p) = [pkg[p] EXCEPT !.blocked = 1, !.waiting = w]
    BY <1>1, <1>5 DEF Blocked, IsBlocked, Package
  <2> HIDE DEF w
  <2>3. r = [Blocked(p) EXCEPT !.state = "BeingUpdated", !.pending = t]
    BY <1>1, <2>2 DEF Package
  <2>4. r \in Package /\ r.known /\ r.state = "BeingUpdated" /\ r.pending = t /\ r.ver = pkg[p].ver
        /\ r.waiting = w
    BY <1>1, <1>8, <2>1 DEF Package, PackageStates
  <2> HIDE DEF r
  <2>5. pkg' = [pkg EXCEPT ![p] = r] /\ StopApps(p)
    BY <1>5, <1>8, <2>3 DEF StartingPackageInstallation
  <2>6. SlotFrame(t) /\ Approves(t, "askApproval") /\ pkg'[p] = r
    BY <1>2, <1>4, <1>6, <2>4, <2>5, ApproveSlot
  <2>7. Updates(t) BY <1>3, <1>8, <2>4, <2>5, <2>6 DEF Updates, Stopping, w
  <2> QED BY <2>6, <2>7 DEF SlotStep
<1> QED BY <1>7, <1>8 DEF Package

LEMMA RemovalSlot ==
    ASSUME Inv, Inv', NEW t \in Tasks, StartingPackageRemoval(t)
    PROVE  SlotStep(t)
<1> DEFINE p == PkgOf(t)
<1>1. TypeOK /\ p \in Packages /\ pkg[p] \in Package BY TypedFields, PackageTyped DEF Inv, PkgOf
<1>2. Answered(t, "askRemoval") /\ "askRemoval" \in Asking BY DEF StartingPackageRemoval, Asking
<1>3. task[t].pc = "askRemoval" /\ ~Install(t) BY <1>2, AskedFor DEF Inv, OneExtracts
<1>4. UNCHANGED <<disk, ready, crashes>> BY DEF StartingPackageRemoval
<1>5. CASE Goto(t, "declined") /\ UNCHANGED <<pkg, app>>
  <2>1. /\ SlotFrame(t) /\ Goes(t, "askRemoval", "declined")
        /\ KeepsState(t) /\ KeepsScoped(t) /\ KeepsDirs(t)
    BY <1>2, <1>4, <1>5, GotoSlot
  <2>2. Answers(t) BY <1>3, <1>5, <2>1 DEF Answers, KeepsList
  <2> QED BY <2>1, <2>2 DEF SlotStep
<1> DEFINE state == IF p \in BuiltIn THEN "BeingDowngraded" ELSE "BeingRemoved"
<1>6. CASE /\ pkg[p].known /\ ~IsBlocked(p) /\ StopApps(p) /\ Approve(t)
           /\ pkg' = [pkg EXCEPT ![p] = [Blocked(p) EXCEPT !.state = state]]
  <2> DEFINE w == {a \in AppsOf(p) : app[a] \in {"Running", "ShuttingDown"}}
             r == [pkg[p] EXCEPT !.blocked = 1, !.waiting = w, !.state = state]
  <2>1. w \in SUBSET Apps BY DEF AppsOf
  <2>2. pkg[p].blocked = 0 /\ ~InHand(p) BY <1>1, <1>6 DEF Inv, BlockedByItsTask, IsBlocked
  <2>3. Blocked(p) = [pkg[p] EXCEPT !.blocked = 1, !.waiting = w]
    BY <1>1, <1>6, <2>2 DEF Blocked, Package
  <2>4. state \in PackageStates BY DEF PackageStates
  <2> HIDE DEF w, state
  <2>5. r = [Blocked(p) EXCEPT !.state = state] BY <1>1, <2>3 DEF Package
  <2>6. r \in Package /\ r.known /\ r.state = state /\ r.pending = pkg[p].pending /\ r.ver = pkg[p].ver
        /\ r.waiting = w
    BY <1>1, <1>6, <2>1, <2>4 DEF Package
  <2> HIDE DEF r
  <2>7. pkg' = [pkg EXCEPT ![p] = r] BY <1>6, <2>5
  <2>8. SlotFrame(t) /\ Approves(t, "askRemoval") /\ pkg'[p] = r
    BY <1>2, <1>4, <1>6, <2>2, <2>6, <2>7, ApproveSlot
  <2>9. Removes(t) BY <1>3, <1>6, <2>6, <2>8 DEF Removes, Stopping, w, state
  <2> QED BY <2>8, <2>9 DEF SlotStep
<1>7. HasRemovableUpdate(p) => p \in BuiltIn BY DEF HasRemovableUpdate
<1> QED BY <1>5, <1>6, <1>7 DEF StartingPackageRemoval

LEMMA FinishedSlot ==
    ASSUME "readback" \notin Faults, Inv, Inv', NEW t \in Tasks, FinishedPackageInstall(t)
    PROVE  SlotStep(t)
<1> DEFINE p == PkgOf(t)
           old == pkg[p]
           v == IF old.state = "BeingUpdated" THEN old.pending
                ELSE IF old.state = "BeingDowngraded" THEN Base ELSE old.ver
           m == [old EXCEPT !.state = "Installed", !.pending = None, !.ver = v]
<1>1. TypeOK /\ p \in Packages /\ old \in Package /\ v \in Version \cup {None}
  BY TypedFields, PackageTyped DEF Inv, PkgOf, Version
<1>2. /\ Answered(t, "askFinish") /\ "askFinish" \in Asking /\ Goto(t, "end")
      /\ UNCHANGED <<disk, ready, crashes>>
  BY DEF FinishedPackageInstall, Asking
<1>3. old.blocked = 1 /\ old.state # "Installed" BY <1>2, InHandOfAsker
<1>4. Completed(p) = Unblocked(m) BY <1>1 DEF Completed, Package
<1>5. CASE /\ old.state \in {"BeingInstalled", "BeingUpdated", "BeingDowngraded"}
           /\ pkg' = [pkg EXCEPT ![p] = Completed(p)]
           /\ IF old.state = "BeingInstalled" THEN UNCHANGED app ELSE Unregister(p)
  <2>1. m.blocked = 1 /\ m \in Package /\ m.state = "Installed" /\ m.pending = None /\ m.ver = v
        /\ m.known = old.known
    <3> HIDE DEF v
    <3> QED BY <1>1, <1>3 DEF Package, PackageStates
  <2> HIDE DEF m
  <2>2. Completed(p) = [m EXCEPT !.blocked = 0, !.waiting = {}] BY <1>4, <2>1 DEF Unblocked, Package
  <2> HIDE DEF v
  <2>3. PICK r \in Package : /\ r = Completed(p) /\ r.known = old.known /\ r.state = "Installed"
                             /\ r.pending = None /\ r.ver = v
    BY <2>1, <2>2 DEF Package
  <2>4. pkg' = [pkg EXCEPT ![p] = r] BY <1>5, <2>3
  <2>5. /\ SlotFrame(t) /\ Goes(t, "askFinish", "end")
        /\ KeepsState(t) /\ KeepsScoped(t) /\ KeepsDirs(t)
    BY <1>2, <2>4, GotoSlot
  <2>6. pkg'[p] = r BY <1>1, <2>4, PackageTyped
  <2>7. Completes(t) BY <1>5, <2>3, <2>5, <2>6 DEF Completes, v
  <2> QED BY <2>5, <2>7 DEF SlotStep
<1>6. CASE old.state = "BeingRemoved" /\ pkg' = [pkg EXCEPT ![p] = Absent] /\ Unregister(p)
  <2>1. /\ SlotFrame(t) /\ Goes(t, "askFinish", "end")
        /\ KeepsState(t) /\ KeepsScoped(t) /\ KeepsDirs(t)
    BY <1>2, <1>6, AbsentTyped, GotoSlot
  <2>2. pkg'[p] = Absent BY <1>1, <1>6, AbsentTyped, PackageTyped
  <2>3. Completes(t) BY <1>6, <2>1, <2>2 DEF Completes
  <2> QED BY <2>1, <2>3 DEF SlotStep
<1> QED BY <1>3, <1>5, <1>6 DEF FinishedPackageInstall, MayFail

LEMMA CanceledSlot ==
    ASSUME Inv, Inv', NEW t \in Tasks, CanceledPackageInstall(t)
    PROVE  SlotStep(t)
<1> DEFINE p == PkgOf(t)
           old == pkg[p]
           m == [old EXCEPT !.state = "Installed", !.pending = None]
           label == IF Install(t) THEN "end" ELSE "setError"
<1>1. TypeOK /\ p \in Packages /\ old \in Package BY TypedFields, PackageTyped DEF Inv, PkgOf
<1>2. /\ Answered(t, "askCancel") /\ "askCancel" \in Asking /\ Goto(t, label)
      /\ UNCHANGED <<app, disk, ready, crashes>>
  BY DEF CanceledPackageInstall, Asking
<1>3. old.blocked = 1 /\ old.state # "Installed" BY <1>2, InHandOfAsker
<1>4. PICK r \in Package :
         /\ pkg' = [pkg EXCEPT ![p] = r]
         /\ IF old.state = "BeingInstalled" THEN r = Absent
            ELSE r.known = old.known /\ r.ver = old.ver /\ r.state = "Installed" /\ r.pending = None
  <2>1. CASE old.state = "BeingInstalled"
    BY <1>3, <2>1, AbsentTyped DEF CanceledPackageInstall
  <2>2. CASE old.state # "BeingInstalled"
    <3>1. pkg' = [pkg EXCEPT ![p] = Unblocked(m)] BY <1>3, <2>2 DEF CanceledPackageInstall
    <3>2. m.blocked = 1 /\ m \in Package /\ m.state = "Installed" /\ m.pending = None
          /\ m.ver = old.ver /\ m.known = old.known
      BY <1>1, <1>3 DEF Package, PackageStates
    <3> HIDE DEF m
    <3>3. Unblocked(m) = [m EXCEPT !.blocked = 0, !.waiting = {}] BY <3>2 DEF Unblocked, Package
    <3> QED BY <2>2, <3>1, <3>2, <3>3 DEF Package
  <2> QED BY <2>1, <2>2
<1> HIDE DEF label
<1>5. /\ SlotFrame(t) /\ Goes(t, "askCancel", label)
      /\ KeepsState(t) /\ KeepsScoped(t) /\ KeepsDirs(t)
  BY <1>2, <1>4, GotoSlot
<1>6. pkg'[p] = r BY <1>1, <1>4, PackageTyped
<1>7. Withdraws(t) BY <1>2, <1>4, <1>5, <1>6 DEF Withdraws, label
<1> QED BY <1>5, <1>7 DEF SlotStep

(* the other steps *)
LEMMA EnqueuesSlot ==
    ASSUME Inv, Inv', NEW t \in Tasks, NEW kind, NEW p \in Packages, NEW keep,
           EnqueueTask(t, NewTask(kind, p, keep))
    PROVE  Enqueues(t)
<1>1. task \in [Tasks -> Task] /\ task' \in [Tasks -> Task] BY DEF Inv, TypeOK
<1> QED BY <1>1 DEF EnqueueTask, At, NewTask, Enqueues, Goes

LEMMA FlagSlot ==
    ASSUME Inv, Inv', NEW t \in Tasks, AcknowledgePackageInstallation(t) \/ CancelStartedTask(t)
    PROVE  Silent
<1>1. task \in [Tasks -> Task] /\ task' \in [Tasks -> Task] BY DEF Inv, TypeOK
<1>2. UNCHANGED <<pkg, app, disk, ready, crashes>>
  BY DEF AcknowledgePackageInstallation, CancelStartedTask
<1>3. SameTasks
  BY <1>1 DEF AcknowledgePackageInstallation, CancelStartedTask, SameTasks, Task
<1> QED BY <1>2, <1>3 DEF Silent

LEMMA UnchangedSlot ==
    ASSUME Inv', UNCHANGED task
    PROVE  SameTasks
BY DEF SameTasks, Inv, TypeOK

(* Every step is a transition of one task, made by its thread or by a slot of the main
   thread, or one of the others. *)
LEMMA Steps ==
    ASSUME "readback" \notin Faults, Inv, Inv', [Next]_vars
    PROVE  \/ \E t \in Tasks : WorkerStep(t) \/ SlotStep(t) \/ Enqueues(t)
           \/ Silent
           \/ AppStep /\ AppOnly /\ SameTasks
           \/ RegisterPackages /\ SameTasks
           \/ Crash
<1>1. ASSUME NEW t \in Tasks, Request(t) PROVE SlotStep(t) \/ Enqueues(t) \/ Silent
  <2>1. CASE CancelIncomingTask(t) BY <2>1, LeavesSlot
  <2>2. CASE AcknowledgePackageInstallation(t) \/ CancelStartedTask(t) BY <2>2, FlagSlot
  <2>3. CASE \E p \in Packages : \/ StartPackageInstallation(t, p)
                                 \/ \E keep \in BOOLEAN : RemovePackage(t, p, keep)
    BY <2>3, EnqueuesSlot DEF StartPackageInstallation, RemovePackage
  <2> QED BY <1>1, <2>1, <2>2, <2>3 DEF Request
<1>2. ASSUME NEW t \in Tasks, Worker(t) PROVE WorkerStep(t) BY <1>2, WorkerSteps
<1>3. CASE EventLoop
  <2>1. CASE RegisterPackages BY <2>1, UnchangedSlot DEF RegisterPackages
  <2>2. CASE ExecuteNextTask BY <2>2, NextTaskSlot
  <2>3. ASSUME NEW t \in Tasks, FinishedPackageExtraction(t) PROVE Silent
    BY <2>3, UnchangedSlot DEF FinishedPackageExtraction, Silent
  <2> QED BY <1>3, <2>1, <2>2, <2>3, EndsSlot, AnswerIsActiveSlot, InstallationSlot, RemovalSlot,
             FinishedSlot, CanceledSlot DEF EventLoop
<1>4. CASE Environment
  <2>1. AppStep => AppOnly
    BY DEF AppStep, StartApplication, ContainerReady, ApplicationFinished
  <2>2. AppOnly => SameTasks BY UnchangedSlot DEF AppOnly
  <2> QED BY <1>4, <2>1, <2>2 DEF Environment, AppStep
<1>5. CASE UNCHANGED vars BY <1>5, UnchangedSlot DEF vars, Silent
<1> QED BY <1>1, <1>2, <1>3, <1>4, <1>5 DEF Next

============================================================================
