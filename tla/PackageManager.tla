--------------------------- MODULE PackageManager ---------------------------
(***************************************************************************)
(* Installation, update, downgrade and removal of packages: the task       *)
(* queues and the package list of PackageManager (main thread), the        *)
(* InstallationTask and DeinstallationTask threads, the Package objects    *)
(* that block applications, the directories on disk, and what a restart    *)
(* makes of them.                                                          *)
(*                                                                         *)
(* Threads.  Every task is a thread of its own; its program counter is     *)
(* task[t].pc.  The main thread is an event loop: "calls" is the FIFO of   *)
(* the queued invocations posted to PackageManager.  A worker that uses a  *)
(* blocking queued invocation posts a call and stays at an "ask..." label  *)
(* until the event loop has run it.  Requests of the System UI and events  *)
(* of application processes reach the event loop at any time.              *)
(***************************************************************************)
EXTENDS Naturals, Sequences, SequencesExt

CONSTANTS
    Packages,    \* package ids
    BuiltIn,     \* the packages that are part of the system image
    Apps,        \* application ids
    Owner,       \* Owner[a]: the package application a belongs to
    SlowStart,   \* applications whose container is not ready at once
    Tasks,       \* task ids; each one is used once (bounds the run)
    Shipped,     \* version of a package installed before the run
    Base,        \* version of a built-in package on the system image
    NoDir, None,
    Faults,      \* the I/O operations that may fail in this run
    MaxCrashes   \* bound: crashes of the process in one run

FaultKinds == {"unpack", "mkdir", "report", "rename", "remove", "undo", "readback"}

ASSUME ConstantsAssumption ==
    /\ Packages # {} /\ BuiltIn \subseteq Packages
    /\ Owner \in [Apps -> Packages]
    /\ SlowStart \subseteq Apps
    /\ Faults \subseteq FaultKinds
    /\ MaxCrashes \in Nat
    /\ Shipped \notin Tasks /\ Base \notin Tasks /\ Base # Shipped
    /\ None \notin Tasks \cup {Shipped, Base}

Version == Tasks \cup {Shipped, Base}

INSTANCE PackageDirs

ASSUME NoDirAssumption == NoDir \notin Content

VARIABLES
    task,        \* the AsynchronousTask objects
    incoming,    \* d->incomingTaskList
    active,      \* d->activeTask
    installing,  \* d->installationTaskList
    calls,       \* queued invocations of the main event loop
    pkg,         \* d->packages and the Package objects
    app,         \* run states of the applications
    disk,        \* the directories of each package
    ready,       \* d->cleanupBrokenInstallationsDone
    crashes      \* number of crashes so far (bound)

queues == <<incoming, active, installing>>
vars == <<task, queues, calls, pkg, app, disk, ready, crashes>>

-----------------------------------------------------------------------------
(* Types *)

(* where a worker waits for the main thread to run its call *)
Asking == {"askActive", "askApproval", "askRemoval", "askFinish", "askCancel"}

(* InstallationTask::finishInstallation, under s_serializeFinishInstallation *)
Finishing == {"writeReport", "createDocs", "backup", "rename", "removeBackup"}

Labels ==
    {"unused", "queued", "begin", "download", "startInstallation", "waitStop", "unpack",
     "awaitAck", "lockFinish", "renameDoc", "renameApp", "removeOld", "declined",
     "setError", "end", "finished", "gone"} \cup Asking \cup Finishing

TaskStates ==
    {"Queued", "Executing", "Failed", "Finished", "AwaitingAcknowledge", "Installing",
     "CleaningUp", "Lost"}

(* what the ScopedDirectoryCreators and ScopedRenamers of a task would still undo *)
Scoped == {"unpackDir", "docDir", "backup", "docBackup"}

Task ==
    [pkg : Packages, kind : {"install", "remove"}, keep : BOOLEAN, pc : Labels,
     state : TaskStates, canceled : BOOLEAN, acked : BOOLEAN, approved : BOOLEAN,
     scoped : SUBSET Scoped]

PackageStates ==
    {"Installed", "BeingInstalled", "BeingUpdated", "BeingDowngraded", "BeingRemoved"}

Package ==
    [state : PackageStates, known : BOOLEAN, ver : Version \cup {None},
     pending : Tasks \cup {None}, blocked : Nat, waiting : SUBSET Apps]

Ops == Asking \cup {"executeNextTask", "finishedExtraction", "finished"}
Call == [task : Tasks \cup {None}, op : Ops]

RunStates == {"NotRunning", "Pending", "Running", "ShuttingDown"}

TypeOK ==
    /\ task \in [Tasks -> Task]
    /\ incoming \in Seq(Tasks)
    /\ active \in Tasks \cup {None}
    /\ installing \subseteq Tasks
    /\ calls \in Seq(Call)
    /\ pkg \in [Packages -> Package]
    /\ app \in [Apps -> RunStates]
    /\ disk \in [Packages -> PackageDirs]
    /\ ready \in BOOLEAN
    /\ crashes \in 0 .. MaxCrashes

-----------------------------------------------------------------------------
(* Reading the state *)

At(t, label) == task[t].pc = label
Install(t) == task[t].kind = "install"
PkgOf(t) == task[t].pkg
AppsOf(p) == {a \in Apps : Owner[a] = p}
MayFail(kind) == kind \in Faults

(* removeRecursiveHelper: the directory is gone, or what could not be deleted is left *)
Removed(dir) ==
    {NoDir} \cup IF MayFail("remove") /\ Exists(dir) THEN {Leftover(dir)} ELSE {}

(* ScopedRenamer::internalRename fails: it deletes an old target first, unless there is
   nothing to rename, and has not been able to, or the rename itself fails *)
TargetOfFailedRename(from, target) ==
    IF ~Exists(from) THEN {target}
    ELSE (IF MayFail("rename") THEN {NoDir} ELSE {})
         \cup IF MayFail("remove") /\ Exists(target) THEN {Leftover(target)} ELSE {}

Incoming(t) == At(t, "queued")
AllTasks(t) == task[t].pc \notin {"unused", "gone"}

Absent == [state |-> "Installed", known |-> FALSE, ver |-> None, pending |-> None,
           blocked |-> 0, waiting |-> {}]
Registered(v) == [Absent EXCEPT !.known = TRUE, !.ver = v]

(* Package::builtInHasRemovableUpdate, PackageInfo::installationReport *)
HasRemovableUpdate(p) == p \in BuiltIn /\ pkg[p].ver # Base
HasReport(p) == pkg[p].ver # Base /\ pkg[p].state # "BeingInstalled"

IsBlocked(p) == pkg[p].blocked > 0
(* mutant: only the block is awaited *)
AllApplicationsStoppedMutant(p) == IsBlocked(p)

AllApplicationsStopped(p) == IsBlocked(p) /\ pkg[p].waiting = {}

-----------------------------------------------------------------------------
(* Package::block and Package::unblock *)

(* block() adds to the counter whatever it returns.  Only the first blocker makes
   the applications stop: one that is NotRunning (its start may still be pending)
   reports back at once, the others are killed (Application::stop(true)). *)
Blocked(p) ==
    IF IsBlocked(p)
    THEN [pkg[p] EXCEPT !.blocked = @ + 1]
    ELSE [pkg[p] EXCEPT !.blocked = @ + 1,
                        !.waiting = {a \in AppsOf(p) : app[a] \in {"Running", "ShuttingDown"}}]

StopApps(p) ==
    app' = [a \in Apps |-> IF a \in AppsOf(p) /\ app[a] = "Running" /\ ~IsBlocked(p)
                           THEN "ShuttingDown" ELSE app[a]]

Unblocked(r) ==
    [r EXCEPT !.blocked = @ - 1, !.waiting = IF r.blocked = 1 THEN {} ELSE @]

(* unregistering deletes the Application objects: a pending start finds no application *)
Unregister(p) ==
    app' = [a \in Apps |-> IF a \in AppsOf(p) THEN "NotRunning" ELSE app[a]]

-----------------------------------------------------------------------------
(* Posting to the event loop, and what a worker does next *)

Post(op, t) == calls' = Append(calls, [task |-> t, op |-> op])
TriggerExecuteNextTask == Post("executeNextTask", None)

(* the event loop takes the next call, and posts another one *)
Take(op) == calls # <<>> /\ Head(calls).op = op
CallsDone == calls' = Tail(calls)
(* mutant: the end of a task does not trigger the next one *)
CallsDoneAndTriggerMutant == CallsDone

CallsDoneAndTrigger ==
    calls' = Append(Tail(calls), [task |-> None, op |-> "executeNextTask"])

Goto(t, label) == task' = [task EXCEPT ![t].pc = label]

(* mutant: the manager is told of every failure, approved or not *)
ThrowMutant(t) ==
    /\ task' = [task EXCEPT ![t].pc = "askCancel",
                            ![t].state = IF Install(t) THEN "Failed" ELSE @,
                            ![t].scoped = @ \cap {"unpackDir"}]
    /\ Post("askCancel", t)

(* the catch block of execute(): an installation is marked Failed first, a removal
   only after the manager has been told *)
Throw(t) ==
    IF task[t].approved
    THEN /\ task' = [task EXCEPT ![t].pc = "askCancel",
                                 ![t].state = IF Install(t) THEN "Failed" ELSE @,
                                 ![t].scoped = @ \cap {"unpackDir"}]
         /\ Post("askCancel", t)
    ELSE /\ task' = [task EXCEPT ![t].pc = "end", ![t].state = "Failed"]
         /\ UNCHANGED calls

-----------------------------------------------------------------------------
(* Requests of the System UI, run by the main thread *)

NewTask(kind, p, keep) ==
    [pkg |-> p, kind |-> kind, keep |-> keep, pc |-> "queued", state |-> "Queued",
     canceled |-> FALSE, acked |-> FALSE, approved |-> FALSE,
     scoped |-> {}]

EnqueueTask(t, new) ==
    /\ At(t, "unused")
    /\ task' = [task EXCEPT ![t] = new]
    /\ incoming' = Append(incoming, t)
    /\ TriggerExecuteNextTask
    /\ UNCHANGED <<active, installing, pkg, app, disk, ready, crashes>>

StartPackageInstallation(t, p) == EnqueueTask(t, NewTask("install", p, FALSE))

RemovePackage(t, p, keep) ==
    /\ pkg[p].known
    /\ EnqueueTask(t, NewTask("remove", p, keep))

AcknowledgePackageInstallation(t) ==
    /\ AllTasks(t) /\ Install(t)
    /\ ~task[t].canceled /\ ~task[t].acked
    /\ task' = [task EXCEPT ![t].acked = TRUE]
    /\ UNCHANGED <<queues, calls, pkg, app, disk, ready, crashes>>

(* a queued task is canceled by force and deleted *)
CancelIncomingTask(t) ==
    /\ Incoming(t)
    /\ task' = [task EXCEPT ![t].pc = "gone", ![t].state = "Failed"]
    /\ \E i \in DOMAIN incoming : incoming[i] = t /\ incoming' = RemoveAt(incoming, i)
    /\ TriggerExecuteNextTask
    /\ UNCHANGED <<active, installing, pkg, app, disk, ready, crashes>>

(* InstallationTask::cancel, DeinstallationTask::cancel *)
Cancelable(t) ==
    IF Install(t) THEN ~task[t].acked
                  ELSE task[t].pc \in {"begin", "askRemoval", "declined", "waitStop"}

CancelStartedTask(t) ==
    /\ t = active \/ t \in installing
    /\ Cancelable(t) /\ ~task[t].canceled
    /\ task' = [task EXCEPT ![t].canceled = TRUE]
    /\ UNCHANGED <<queues, calls, pkg, app, disk, ready, crashes>>

-----------------------------------------------------------------------------
(* PackageManager slots run by the event loop *)

(* registerPackages: delayed until the installation directory is mounted *)
RegisterPackages ==
    /\ ~ready
    /\ pkg' = [p \in Packages |->
                 IF Loadable(disk[p]) THEN Registered(disk[p].app.ver)
                 ELSE IF p \in BuiltIn THEN Registered(Base) ELSE Absent]
    /\ disk' = [p \in Packages |-> CleanedUp(disk[p])]
    /\ ready' = TRUE
    /\ TriggerExecuteNextTask
    /\ UNCHANGED <<task, queues, app, crashes>>

ExecuteNextTask ==
    /\ Take("executeNextTask") /\ CallsDone
    /\ IF ~ready \/ active # None \/ incoming = <<>>
       THEN UNCHANGED <<task, incoming, active>>
       ELSE /\ active' = Head(incoming)
            /\ incoming' = Tail(incoming)
            /\ task' = [task EXCEPT ![Head(incoming)].pc = "begin",
                                    ![Head(incoming)].state = "Executing"]
    /\ UNCHANGED <<installing, pkg, app, disk, ready, crashes>>

(* mutant: the task that waits for its acknowledge is still the active one *)
FinishedPackageExtractionMutant(t) ==
    /\ Take("finishedExtraction") /\ Head(calls).task = t
    /\ installing' = installing \cup {t}
    /\ CallsDoneAndTrigger
    /\ UNCHANGED <<task, incoming, active, pkg, app, disk, ready, crashes>>

(* the slot connected to InstallationTask::finishedPackageExtraction *)
FinishedPackageExtraction(t) ==
    /\ Take("finishedExtraction") /\ Head(calls).task = t
    /\ active' = IF active = t THEN None ELSE active
    /\ installing' = installing \cup {t}
    /\ CallsDoneAndTrigger
    /\ UNCHANGED <<task, incoming, pkg, app, disk, ready, crashes>>

(* mutant: the task does not own the directory it unpacked to *)
TaskFinishedMutant(t) ==
    /\ Take("finished") /\ Head(calls).task = t
    /\ task' = [task EXCEPT ![t].pc = "gone", ![t].scoped = {},
                            ![t].state = IF @ = "Failed" THEN @ ELSE "Finished"]
    /\ active' = IF active = t THEN None ELSE active
    /\ installing' = installing \ {t}
    /\ CallsDoneAndTrigger
    /\ UNCHANGED <<incoming, pkg, app, disk, ready, crashes>>

(* the slot connected to QThread::finished; deleting the task deletes the unpack
   directory it still owns (~ScopedDirectoryCreator) *)
TaskFinished(t) ==
    /\ Take("finished") /\ Head(calls).task = t
    /\ task' = [task EXCEPT ![t].pc = "gone", ![t].scoped = {},
                            ![t].state = IF @ = "Failed" THEN @ ELSE "Finished"]
    /\ active' = IF active = t THEN None ELSE active
    /\ installing' = installing \ {t}
    /\ IF "unpackDir" \in task[t].scoped
       THEN \E left \in Removed(disk[PkgOf(t)].plus) :
               disk' = [disk EXCEPT ![PkgOf(t)].plus = left]
       ELSE UNCHANGED disk
    /\ CallsDoneAndTrigger
    /\ UNCHANGED <<incoming, pkg, app, ready, crashes>>

Answered(t, op) == Take(op) /\ Head(calls).task = t /\ CallsDone

(* mutant: the scan finds nothing *)
IsPackageInstallationActiveMutant(p) == FALSE

IsPackageInstallationActive(p) == \E u \in installing : PkgOf(u) = p

AnswerIsActive(t) ==
    /\ Answered(t, "askActive")
    /\ Goto(t, IF IsPackageInstallationActive(PkgOf(t)) THEN "declined"
                                                        ELSE "startInstallation")
    /\ UNCHANGED <<queues, pkg, app, disk, ready, crashes>>

Approve(t) == task' = [task EXCEPT ![t].pc = "waitStop", ![t].approved = TRUE]

(* an update needs the block; a new package is registered blocked, and has no
   applications to wait for *)
StartingPackageInstallation(t) ==
    LET p == PkgOf(t) IN
    /\ Answered(t, "askApproval")
    /\ IF ~pkg[p].known
       THEN /\ pkg' = [pkg EXCEPT ![p] = [Registered(t) EXCEPT !.state = "BeingInstalled",
                                                              !.blocked = 1]]
            /\ Approve(t) /\ UNCHANGED app
       ELSE /\ StopApps(p)
            /\ IF IsBlocked(p)
               THEN pkg' = [pkg EXCEPT ![p] = Blocked(p)] /\ Goto(t, "declined")
               ELSE /\ pkg' = [pkg EXCEPT ![p] = [Blocked(p) EXCEPT
                                                  !.state = "BeingUpdated", !.pending = t]]
                    /\ Approve(t)
    /\ UNCHANGED <<queues, disk, ready, crashes>>

StartingPackageRemoval(t) ==
    LET p == PkgOf(t) IN
    /\ Answered(t, "askRemoval")
    /\ IF \/ ~pkg[p].known \/ IsBlocked(p) \/ pkg[p].state # "Installed"
          \/ p \in BuiltIn /\ ~HasRemovableUpdate(p)
       THEN Goto(t, "declined") /\ UNCHANGED <<pkg, app>>
       ELSE /\ StopApps(p)
            /\ pkg' = [pkg EXCEPT ![p] = [Blocked(p) EXCEPT
                   !.state = IF HasRemovableUpdate(p) THEN "BeingDowngraded" ELSE "BeingRemoved"]]
            /\ Approve(t)
    /\ UNCHANGED <<queues, disk, ready, crashes>>

(* mutant: the block is lifted twice *)
CompletedTwiceMutant(p) ==
    Unblocked(Unblocked([pkg[p] EXCEPT !.state = "Installed", !.pending = None,
                 !.ver = IF pkg[p].state = "BeingUpdated" THEN pkg[p].pending
                         ELSE IF pkg[p].state = "BeingDowngraded" THEN Base ELSE @]))

(* mutant: an update keeps the information of the old version *)
CompletedUpdateMutant(p) ==
    Unblocked([pkg[p] EXCEPT !.state = "Installed", !.pending = None,
                 !.ver = IF pkg[p].state = "BeingDowngraded" THEN Base ELSE @])

(* mutant: a downgrade keeps the information of the update *)
CompletedDowngradeMutant(p) ==
    Unblocked([pkg[p] EXCEPT !.state = "Installed", !.pending = None,
                 !.ver = IF pkg[p].state = "BeingUpdated" THEN pkg[p].pending ELSE @])

(* the new state of a package whose installation, update or downgrade is done *)
Completed(p) ==
    Unblocked([pkg[p] EXCEPT !.state = "Installed", !.pending = None,
                 !.ver = IF pkg[p].state = "BeingUpdated" THEN pkg[p].pending
                         ELSE IF pkg[p].state = "BeingDowngraded" THEN Base ELSE @])

FinishedPackageInstall(t) ==
    LET p == PkgOf(t) IN
    /\ Answered(t, "askFinish")
    /\ Goto(t, "end")
    /\ \/ /\ pkg[p].state \in {"BeingInstalled", "BeingUpdated", "BeingDowngraded"}
          /\ pkg' = [pkg EXCEPT ![p] = Completed(p)]
          /\ IF pkg[p].state = "BeingInstalled" THEN UNCHANGED app ELSE Unregister(p)
       \/ /\ pkg[p].state = "BeingRemoved"
          /\ pkg' = [pkg EXCEPT ![p] = Absent]
          /\ Unregister(p)
       \/ \* nothing to finish, or the report just written cannot be read back: the
          \* manager rejects the package and leaves it blocked
          /\ \/ pkg[p].state = "Installed"
             \/ MayFail("readback") /\ pkg[p].state \in {"BeingInstalled", "BeingUpdated"}
          /\ pkg' = [pkg EXCEPT ![p].pending = None]
          /\ UNCHANGED app
    /\ UNCHANGED <<queues, disk, ready, crashes>>

CanceledPackageInstall(t) ==
    LET p == PkgOf(t) IN
    /\ Answered(t, "askCancel")
    /\ Goto(t, IF Install(t) THEN "end" ELSE "setError")
    /\ pkg' = [pkg EXCEPT ![p] =
           IF pkg[p].state = "BeingInstalled" THEN Absent
           ELSE IF pkg[p].state = "Installed" THEN @
           ELSE Unblocked([pkg[p] EXCEPT !.state = "Installed", !.pending = None])]
    /\ UNCHANGED <<queues, app, disk, ready, crashes>>

-----------------------------------------------------------------------------
(* InstallationTask::execute, on the thread of the task *)

TaskOnly == UNCHANGED <<queues, pkg, app, disk, ready, crashes>>
TaskAndDisk == UNCHANGED <<queues, pkg, app, ready, crashes>>

Ask(t, label, op) == Goto(t, label) /\ Post(op, t)

Step(t, label) == At(t, label) /\ Install(t)

BeginInstallation(t) ==
    /\ Step(t, "begin")
    /\ IF task[t].canceled THEN Throw(t) ELSE Goto(t, "download") /\ UNCHANGED calls
    /\ TaskOnly

(* the extractor notices a cancel at its next read; by then the first two files may
   be there, and checkExtractedFile asks the manager *)
Download(t) ==
    /\ Step(t, "download")
    /\ \/ Ask(t, "askActive", "askActive")
       \/ (MayFail("unpack") \/ task[t].canceled) /\ Throw(t)
    /\ TaskOnly

Declined(t) == At(t, "declined") /\ Throw(t) /\ TaskOnly

(* startInstallation: an old, partial installation is deleted before the new directory
   is made *)
StartInstallation(t) ==
    LET p == PkgOf(t) IN
    /\ Step(t, "startInstallation")
    /\ \/ /\ disk' = [disk EXCEPT ![p].plus = [ver |-> t, stage |-> "unpacking"]]
          /\ task' = [task EXCEPT ![t].scoped = {"unpackDir"}, ![t].pc = "askApproval"]
          /\ Post("askApproval", t)
       \/ /\ MayFail("mkdir")
          /\ disk' = [disk EXCEPT ![p].plus = NoDir]
          /\ Throw(t)
       \/ /\ MayFail("remove") /\ Exists(disk[p].plus)
          /\ disk' = [disk EXCEPT ![p].plus = Leftover(@)]
          /\ Throw(t)
    /\ TaskAndDisk

(* both kinds of task poll until the applications have stopped *)
WaitStop(t) ==
    /\ At(t, "waitStop")
    /\ \/ (task[t].canceled \/ (Install(t) /\ ~pkg[PkgOf(t)].known)) /\ Throw(t)
       \/ /\ ~task[t].canceled /\ AllApplicationsStopped(PkgOf(t))
          /\ Goto(t, IF Install(t) THEN "unpack" ELSE "renameDoc")
          /\ UNCHANGED calls
    /\ TaskOnly

(* the rest of extract() and the check of the signatures; what this task unpacks goes
   where its path leads, also when that directory has been replaced.  A cancel may come
   too late for the extractor to notice. *)
Unpack(t) ==
    LET p == PkgOf(t) IN
    /\ Step(t, "unpack")
    /\ \/ /\ task' = [task EXCEPT ![t].pc = "awaitAck", ![t].state = "AwaitingAcknowledge"]
          /\ disk' = IF Exists(disk[p].plus) /\ disk[p].plus.ver = t
                     THEN [disk EXCEPT ![p].plus.stage = "unpacked"] ELSE disk
          /\ Post("finishedExtraction", t)
       \/ /\ MayFail("unpack") \/ task[t].canceled
          /\ Throw(t) /\ UNCHANGED disk
    /\ TaskAndDisk

AwaitAcknowledge(t) ==
    /\ Step(t, "awaitAck")
    /\ \/ task[t].canceled /\ Throw(t)
       \/ /\ ~task[t].canceled /\ task[t].acked
          /\ task' = [task EXCEPT ![t].pc = "lockFinish", ![t].state = "Installing"]
          /\ UNCHANGED calls
    /\ TaskOnly

(* s_serializeFinishInstallation is held until finishedPackageInstall has returned *)
FinishLockHeld == \E u \in Tasks : task[u].pc \in Finishing
                                   \/ (At(u, "askFinish") /\ Install(u))

LockFinish(t) ==
    /\ Step(t, "lockFinish") /\ ~FinishLockHeld
    /\ Goto(t, "writeReport") /\ UNCHANGED calls
    /\ TaskOnly

(* finishInstallation: an existing application directory makes it an update *)
WriteReport(t) ==
    LET p == PkgOf(t) IN
    /\ Step(t, "writeReport")
    /\ \/ /\ Exists(disk[p].plus)
          /\ disk' = [disk EXCEPT ![p].plus = WithReport(@)]
          /\ Goto(t, IF Exists(disk[p].app) THEN "backup" ELSE "createDocs")
          /\ UNCHANGED calls
       \/ (MayFail("report") \/ ~Exists(disk[p].plus)) /\ Throw(t) /\ UNCHANGED disk
    /\ TaskAndDisk

CreateDocumentDirectory(t) ==
    LET p == PkgOf(t) IN
    /\ Step(t, "createDocs")
    /\ \/ /\ task' = [task EXCEPT ![t].pc = "rename", ![t].scoped =
                                     IF disk[p].doc THEN @ ELSE @ \cup {"docDir"}]
          /\ disk' = [disk EXCEPT ![p].doc = TRUE]
          /\ UNCHANGED calls
       \/ MayFail("mkdir") /\ ~disk[p].doc /\ Throw(t) /\ UNCHANGED disk
    /\ TaskAndDisk

BackupOldVersion(t) ==
    LET p == PkgOf(t) IN
    /\ Step(t, "backup")
    /\ \/ /\ disk' = [disk EXCEPT ![p] = NameToNameMinus(@)]
          /\ task' = [task EXCEPT ![t].pc = "rename", ![t].scoped = @ \cup {"backup"}]
          /\ UNCHANGED calls
       \/ /\ \E left \in TargetOfFailedRename(disk[p].app, disk[p].minus) :
                disk' = [disk EXCEPT ![p].minus = left]
          /\ Throw(t)
    /\ TaskAndDisk

(* what the destructors of the ScopedRenamers and of the ScopedDirectoryCreator of the
   document directory can undo: renaming back and removing may both fail *)
Undone(t) ==
    {u \in SUBSET (task[t].scoped \ {"unpackDir"}) :
        /\ MayFail("undo") \/ task[t].scoped \cap {"backup", "docBackup"} \subseteq u
        /\ MayFail("remove") \/ task[t].scoped \cap {"docDir"} \subseteq u}

(* mutant: the renamed documents are deleted, not renamed back *)
RolledBackDocumentsMutant(t, undone) ==
    LET d == disk[PkgOf(t)]
        restored == IF "backup" \in undone THEN UndoNameToNameMinus(d) ELSE d
    IN  [restored EXCEPT !.doc = @ /\ "docDir" \notin undone,
                         !.docMinus = @ /\ "docBackup" \notin undone]

(* what leaving execute() by an exception undoes on the disk; the rest stays behind *)
RolledBack(t, undone) ==
    LET d == disk[PkgOf(t)]
        restored == IF "backup" \in undone THEN UndoNameToNameMinus(d) ELSE d
    IN  [restored EXCEPT !.doc = (@ /\ "docDir" \notin undone) \/ "docBackup" \in undone,
                         !.docMinus = @ /\ "docBackup" \notin undone]

(* only an update has a backup to remove *)
RenameNewVersion(t) ==
    LET p == PkgOf(t)
        next == IF "backup" \in task[t].scoped THEN "removeBackup" ELSE "askFinish"
    IN
    /\ Step(t, "rename")
    /\ \/ /\ Exists(disk[p].plus)
          /\ disk' = [disk EXCEPT ![p] = NamePlusToName(@)]
          /\ task' = [task EXCEPT ![t].pc = next, ![t].state = "CleaningUp", ![t].scoped = {}]
          /\ IF next = "askFinish" THEN Post("askFinish", t) ELSE UNCHANGED calls
       \/ /\ MayFail("rename") \/ ~Exists(disk[p].plus)
          /\ \E undone \in Undone(t) : disk' = [disk EXCEPT ![p] = RolledBack(t, undone)]
          /\ Throw(t)
    /\ TaskAndDisk

(* the result of the removal is ignored *)
RemoveBackup(t) ==
    LET p == PkgOf(t) IN
    /\ Step(t, "removeBackup")
    /\ \E left \in Removed(disk[p].minus) : disk' = [disk EXCEPT ![p].minus = left]
    /\ Ask(t, "askFinish", "askFinish")
    /\ TaskAndDisk

(* run() returns, and QThread::finished is queued *)
EndRun(t) ==
    /\ At(t, "end")
    /\ Ask(t, "finished", "finished")
    /\ TaskOnly

-----------------------------------------------------------------------------
(* DeinstallationTask::execute, on the thread of the task; WaitStop, Declined and
   EndRun are shared *)

Removing(t, label) == At(t, label) /\ ~Install(t)

(* the checks made on this thread, before the manager is asked *)
BeginRemoval(t) ==
    LET p == PkgOf(t) IN
    /\ Removing(t, "begin")
    /\ IF pkg[p].known /\ HasReport(p)
       THEN Ask(t, "askRemoval", "askRemoval")
       ELSE Throw(t)
    /\ TaskOnly

RenameDocuments(t) ==
    LET p == PkgOf(t) IN
    /\ Removing(t, "renameDoc")
    /\ \/ /\ task[t].keep
          /\ Goto(t, "renameApp") /\ UNCHANGED <<calls, disk>>
       \/ /\ ~task[t].keep /\ disk[p].doc
          /\ disk' = [disk EXCEPT ![p] = DocToDocMinus(@)]
          /\ task' = [task EXCEPT ![t].pc = "renameApp", ![t].scoped = {"docBackup"}]
          /\ UNCHANGED calls
       \/ /\ ~task[t].keep
          /\ \/ ~disk[p].doc /\ UNCHANGED disk
             \/ disk[p].doc /\ MayFail("rename") /\ disk' = [disk EXCEPT ![p].docMinus = FALSE]
             \/ disk[p].doc /\ disk[p].docMinus /\ MayFail("remove") /\ UNCHANGED disk
          /\ Throw(t)
    /\ TaskAndDisk

RenameApplication(t) ==
    LET p == PkgOf(t) IN
    /\ Removing(t, "renameApp")
    /\ \/ /\ Exists(disk[p].app)
          /\ disk' = [disk EXCEPT ![p] = NameToNameMinus(@)]
          /\ task' = [task EXCEPT ![t].pc = "removeOld", ![t].scoped = {}]
          /\ UNCHANGED calls
       \/ /\ \E left \in TargetOfFailedRename(disk[p].app, disk[p].minus), undone \in Undone(t) :
                disk' = [disk EXCEPT ![p] = [RolledBack(t, undone) EXCEPT !.minus = left]]
          /\ Throw(t)
    /\ TaskAndDisk

(* the point of no return has passed: what cannot be removed is logged and stays *)
RemoveOldVersion(t) ==
    LET p == PkgOf(t)
        documentsLeft == IF task[t].keep THEN {TRUE} ELSE {FALSE, MayFail("remove")}
    IN
    /\ Removing(t, "removeOld")
    /\ \E left \in Removed(disk[p].minus), stay \in documentsLeft :
          disk' = [disk EXCEPT ![p].minus = left, ![p].docMinus = @ /\ stay]
    /\ Ask(t, "askFinish", "askFinish")
    /\ TaskAndDisk

SetError(t) ==
    /\ At(t, "setError")
    /\ task' = [task EXCEPT ![t].pc = "end", ![t].state = "Failed"]
    /\ UNCHANGED calls
    /\ TaskOnly

-----------------------------------------------------------------------------
(* Applications, as far as blocking a package is concerned *)

Startable(p) == pkg[p].known /\ pkg[p].state # "BeingInstalled"

AppOnly == UNCHANGED <<task, queues, calls, disk, ready, crashes>>

StartApplication(a) ==
    LET p == Owner[a] IN
    /\ Startable(p) /\ ~IsBlocked(p) /\ app[a] = "NotRunning"
    /\ app' = [app EXCEPT ![a] = IF a \in SlowStart THEN "Pending" ELSE "Running"]
    /\ UNCHANGED pkg /\ AppOnly

(* the lambda connected to AbstractContainer::ready; it does not look at the block *)
ContainerReady(a) ==
    /\ app[a] = "Pending"
    /\ app' = [app EXCEPT ![a] = "Running"]
    /\ UNCHANGED pkg /\ AppOnly

(* its process ends: it was killed, it quit or it crashed *)
ApplicationFinished(a) ==
    /\ app[a] \in {"Running", "ShuttingDown"}
    /\ app' = [app EXCEPT ![a] = "NotRunning"]
    /\ pkg' = [pkg EXCEPT ![Owner[a]].waiting = @ \ {a}]
    /\ AppOnly

-----------------------------------------------------------------------------
Ended(t) == task[t].state = "Failed" \/ task[t].pc \in {"end", "finished", "gone"}

(* The process dies, and is started again: only the disk is left.  A shutdown does
   not wait for the tasks either, and is the same to them.  Before the packages are
   registered the process may also end because the cleanup fails. *)
Crash ==
    /\ crashes < MaxCrashes
    /\ crashes' = crashes + 1
    /\ task' = [t \in Tasks |->
                  IF task[t].pc \in {"unused", "gone"} THEN task[t]
                  ELSE [task[t] EXCEPT !.pc = "gone", !.scoped = {},
                          !.state = IF Ended(t) THEN @ ELSE "Lost"]]
    /\ incoming' = <<>> /\ active' = None /\ installing' = {}
    /\ calls' = <<>>
    /\ pkg' = [p \in Packages |-> Absent]
    /\ app' = [a \in Apps |-> "NotRunning"]
    /\ ready' = FALSE
    /\ \/ UNCHANGED disk
       \/ /\ ~ready
          /\ disk' \in {d \in [Packages -> UNION {PartlyCleanedUp(disk[p]) : p \in Packages}] :
                          \A p \in Packages : d[p] \in PartlyCleanedUp(disk[p])}

-----------------------------------------------------------------------------
InitialDirs(app0) ==
    [app |-> app0, plus |-> NoDir, doc |-> Exists(app0), docMinus |-> FALSE, minus |-> NoDir]

Init ==
    /\ task = [t \in Tasks |->
                 [NewTask("install", CHOOSE p \in Packages : TRUE, FALSE) EXCEPT !.pc = "unused"]]
    /\ incoming = <<>> /\ active = None /\ installing = {}
    /\ calls = <<>>
    /\ pkg = [p \in Packages |-> Absent]
    /\ app = [a \in Apps |-> "NotRunning"]
    /\ \E installed \in SUBSET Packages :
          disk = [p \in Packages |->
                    InitialDirs(IF p \in installed THEN Whole(Shipped) ELSE NoDir)]
    /\ ready = FALSE
    /\ crashes = 0

Request(t) ==
    \/ \E p \in Packages : \/ StartPackageInstallation(t, p)
                           \/ \E keep \in BOOLEAN : RemovePackage(t, p, keep)
    \/ AcknowledgePackageInstallation(t)
    \/ CancelIncomingTask(t)
    \/ CancelStartedTask(t)

EventLoop ==
    \/ RegisterPackages
    \/ ExecuteNextTask
    \/ \E t \in Tasks :
          \/ FinishedPackageExtraction(t) \/ TaskFinished(t)
          \/ AnswerIsActive(t)
          \/ StartingPackageInstallation(t) \/ StartingPackageRemoval(t)
          \/ FinishedPackageInstall(t) \/ CanceledPackageInstall(t)

Worker(t) ==
    \/ BeginInstallation(t) \/ Download(t) \/ Declined(t) \/ StartInstallation(t)
    \/ WaitStop(t) \/ Unpack(t) \/ AwaitAcknowledge(t) \/ LockFinish(t)
    \/ WriteReport(t) \/ CreateDocumentDirectory(t) \/ BackupOldVersion(t)
    \/ RenameNewVersion(t) \/ RemoveBackup(t)
    \/ BeginRemoval(t) \/ RenameDocuments(t) \/ RenameApplication(t)
    \/ RemoveOldVersion(t) \/ SetError(t) \/ EndRun(t)

Environment ==
    \/ \E a \in Apps : StartApplication(a) \/ ContainerReady(a) \/ ApplicationFinished(a)
    \/ Crash

Next ==
    \/ \E t \in Tasks : Request(t) \/ Worker(t)
    \/ EventLoop
    \/ Environment

Spec == Init /\ [][Next]_vars

(* waiting for more of the package, without a timeout; a cancel ends the wait *)
NeedsData(t) == task[t].pc \in {"download", "unpack"} /\ ~task[t].canceled

(* The event loop and every task thread keep running, and the kernel reports the end
   of a process that was killed.  Nothing is assumed of requests, nor of the source the
   package is downloaded from. *)
Fairness ==
    /\ WF_vars(EventLoop)
    /\ \A t \in Tasks : WF_vars(~NeedsData(t) /\ Worker(t))
    /\ \A a \in Apps : WF_vars(app[a] = "ShuttingDown" /\ ApplicationFinished(a))

FairSpec == Spec /\ Fairness

-----------------------------------------------------------------------------
(* Safety *)

(* between startingPackageInstallation/Removal and finished/canceledPackageInstall *)
Holding ==
    {"waitStop", "unpack", "awaitAck", "lockFinish", "renameDoc", "renameApp", "removeOld",
     "askFinish", "askCancel"} \cup Finishing
Holds(t, p) == task[t].pc \in Holding /\ PkgOf(t) = p
InHand(p) == \E t \in Tasks : Holds(t, p)

(* A package is worked on by at most one task, and it is blocked, and marked as being
   changed, exactly while there is one: no path through a task (cancel, error, success)
   leaks a block or lifts the block of another task. *)
BlockedByItsTask ==
    \A p \in Packages :
        /\ \A t, u \in Tasks : Holds(t, p) /\ Holds(u, p) => t = u
        /\ pkg[p].blocked = IF InHand(p) THEN 1 ELSE 0
        /\ (pkg[p].state = "Installed") = ~InHand(p)

(* What stands at <installation path>/<id> has been unpacked completely and has its
   report, in every state of every interleaving, and so also when the process dies. *)
ApplicationDirIsWhole ==
    \A p \in Packages : Exists(disk[p].app) => disk[p].app.stage = "reported"

(* The unpack directory <id>+ has one owner, which is the task that still has to delete
   or rename it: no other installation of the same package replaces or deletes it.
   Without an owner it is only what a failed removal has left of it. *)
UnpackDirHasOneOwner ==
    /\ \A t \in Tasks : "unpackDir" \in task[t].scoped =>
           Exists(disk[PkgOf(t)].plus) /\ disk[PkgOf(t)].plus.ver = t
    /\ \A p \in Packages : ready /\ Exists(disk[p].plus) =>
           \/ MayFail("remove") /\ disk[p].plus.stage = "leftover"
           \/ \E t \in Tasks : PkgOf(t) = p /\ "unpackDir" \in task[t].scoped

(* package.cpp:133: while a task changes the files of a package, none of its
   applications is running. *)
StoppedWhileFilesChange ==
    \A t \in Tasks : task[t].pc \in Holding \ {"waitStop", "askCancel"} =>
        \A a \in AppsOf(PkgOf(t)) : app[a] \notin {"Running", "ShuttingDown"}

(* While nobody works on a package, the list in memory says what a restart would load
   from the disk.  A whole backup is left, and the list may name it, only if the file
   system refused to undo a rename; the rest of a backup only if it refused to delete. *)
DatabaseMatchesDisk ==
    \A p \in Packages : ready /\ ~InHand(p) =>
        LET d == disk[p] IN
        /\ IF Exists(d.app)
           THEN pkg[p].known /\ pkg[p].ver = d.app.ver
           ELSE \/ ~pkg[p].known
                \/ p \in BuiltIn /\ pkg[p].ver = Base
                \/ /\ MayFail("undo") /\ Exists(d.minus)
                   /\ d.minus = Whole(pkg[p].ver)
        /\ Exists(d.minus) =>
              \/ MayFail("undo")
              \/ MayFail("remove") /\ d.minus.stage = "leftover"
        /\ d.docMinus => MayFail("undo") \/ MayFail("remove")

(* As long as the process does not die, no sequence of installations, updates and
   removals, failed or not, leaves an installed package without its documents; if the
   file system refused to undo their rename, they are still in <id>-. *)
InstalledPackagesHaveDocuments ==
    \A p \in Packages : ready /\ ~InHand(p) /\ Exists(disk[p].app) =>
        disk[p].doc \/ (MayFail("undo") /\ disk[p].docMinus)

(* installer.qdoc:60: an installation that failed is rolled back: its version is not
   listed, and nowhere on the disk but for what could not be deleted of <id>+. *)
FailedInstallationLeavesNothing ==
    \A t \in Tasks : ready /\ task[t].state = "Failed" /\ At(t, "gone") =>
        \A p \in Packages :
            /\ pkg[p].ver # t /\ pkg[p].pending # t
            /\ \A dir \in {disk[p].app, disk[p].minus} : Exists(dir) => dir.ver # t
            /\ Exists(disk[p].plus) /\ disk[p].plus.ver = t =>
                  MayFail("remove") /\ disk[p].plus.stage = "leftover"

(* Every live task is in exactly one of the three lists cancelTask and
   acknowledgePackageInstallation search, and none of them holds a deleted task. *)
LiveTasksAreListedOnce ==
    \A t \in Tasks :
        LET lists == (IF t \in Range(incoming) THEN 1 ELSE 0)
                     + (IF t = active THEN 1 ELSE 0)
                     + (IF t \in installing THEN 1 ELSE 0)
        IN  lists = IF AllTasks(t) THEN 1 ELSE 0

(* packagemanager.cpp:1101: documents that removePackage was told to keep are still
   there when the package is gone (a later removal may delete them). *)
KeptDocumentsStay ==
    \A t \in Tasks : At(t, "gone") /\ task[t].state = "Finished" /\ task[t].keep =>
        disk[PkgOf(t)].doc \/ \E u \in Tasks \ {t} : task[u].kind = "remove" /\ ~task[u].keep

-----------------------------------------------------------------------------
(* Liveness *)

Underway(t) == t = active \/ t \in installing

(* A removal that has started, an installation that was canceled, and one that was
   acknowledged after its extraction come to their end, whatever other tasks wait for:
   their acknowledge, their data or their applications.  One that was acknowledged
   earlier, and what is queued behind it, ends too, unless a download delivers no more. *)
TasksEnd ==
    \A t \in Tasks :
        /\ (\/ task[t].canceled
            \/ Underway(t) /\ ~Install(t)
            \/ t \in installing /\ task[t].acked) ~> At(t, "gone")
        /\ \/ (AllTasks(t) /\ (task[t].acked \/ ~Install(t))) ~> At(t, "gone")
           \/ <>[](\E u \in Tasks : NeedsData(u))

-----------------------------------------------------------------------------
(* Refinement *)

(* the version clients can use: while the packages are not registered yet, the one
   registering them is going to find *)
UsableVersion(p) ==
    IF ~ready THEN IF Loadable(disk[p]) THEN disk[p].app.ver
                   ELSE IF p \in BuiltIn THEN Base ELSE None
    ELSE IF pkg[p].state = "BeingInstalled" THEN None ELSE pkg[p].ver

Outcome(t) ==
    CASE task[t].state = "Lost"   -> "lost"
      [] task[t].state = "Failed" -> "failed"
      [] OTHER                    -> IF Ended(t) THEN "done" ELSE "open"

Store == INSTANCE PackageStore WITH
    store <- [p \in Packages |-> UsableVersion(p)],
    request <- [t \in Tasks |-> IF At(t, "unused") THEN None
                                ELSE [pkg |-> PkgOf(t), kind |-> task[t].kind]],
    outcome <- [t \in Tasks |-> Outcome(t)]

ASSUME RequestAssumption == None \notin Store!Request

(* To its clients PackageManager is a store that changes in one step per successful
   task: an update is never seen half done, a failed or canceled task changes nothing,
   and a crash costs at most the packages tasks were working on. *)
ImplementsPackageStore == Store!Spec

============================================================================
