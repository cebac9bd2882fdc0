------------------------ MODULE PackageManagerProofs ------------------------
(***************************************************************************)
(* Proofs about PackageManager, for every number of packages, tasks,       *)
(* applications and crashes and every set of faults that does not let the  *)
(* manager reject what it has just installed (fault "readback").           *)
(*                                                                         *)
(* The inductive invariant says, besides the types: which list a task is   *)
(* in (Listed), which calls to the main thread can be queued for a task    *)
(* at which label (CallsMatchLabels), that a task has the approval of the  *)
(* manager exactly at the labels behind it (ApprovalMatchesLabel), that at *)
(* most one task is in front of the end of its extraction (OneExtracts),   *)
(* and that the package of an approved task is blocked for it alone        *)
(* (BlockedByItsTask).                                                     *)
(***************************************************************************)
EXTENDS PackageManager, SequenceTheorems, TLAPS

Started(t) == task[t].pc \notin {"unused", "queued", "gone"}

(* labels of a task the manager has not approved yet, or declined *)
Early ==
    {"queued", "begin", "download", "askActive", "startInstallation", "askApproval",
     "askRemoval", "declined"}

(* labels of an installation before and after finishedPackageExtraction is emitted *)
Extracting ==
    {"begin", "download", "askActive", "startInstallation", "askApproval", "waitStop",
     "unpack"}
Extracted == {"awaitAck", "lockFinish", "askFinish", "askCancel", "end", "finished"} \cup Finishing

Listed ==
    /\ \A t \in Tasks : Started(t) <=> t = active \/ t \in installing
    /\ active \notin installing
    /\ \A t \in Tasks : At(t, "queued") => \E i \in 1 .. Len(incoming) : incoming[i] = t
    /\ \A i \in 1 .. Len(incoming) : At(incoming[i], "queued")
    /\ \A i, j \in 1 .. Len(incoming) : incoming[i] = incoming[j] => i = j
    /\ ~ready => active = None /\ installing = {}

CallFits(call, tasks, act) ==
    /\ call.op = "executeNextTask" <=> call.task = None
    /\ call.op \in Asking \cup {"finished"} => tasks[call.task].pc = call.op
    /\ call.op = "finishedExtraction" =>
           /\ call.task = act
           /\ tasks[act].kind = "install" /\ tasks[act].pc \in Extracted

(* a task has at most two queued calls, and then the first is finishedPackageExtraction *)
InOrder(first, second) ==
    first.task = second.task /\ first.task # None =>
        first.op = "finishedExtraction" /\ second.op # "finishedExtraction"

CallsMatchLabels ==
    /\ \A i \in 1 .. Len(calls) : CallFits(calls[i], task, active)
    /\ \A i, j \in 1 .. Len(calls) : i < j => InOrder(calls[i], calls[j])

ApprovalMatchesLabel ==
    \A t \in Tasks : /\ task[t].pc \in Holding => task[t].approved
                     /\ task[t].pc \in Early => ~task[t].approved

OneExtracts ==
    \A t \in Tasks :
        /\ task[t].pc = "askApproval" => Install(t)
        /\ task[t].pc = "askRemoval" => ~Install(t)
        /\ Install(t) =>
              /\ task[t].pc \in Extracting => t = active
              /\ task[t].pc \in {"startInstallation", "askApproval"} =>
                     \A u \in installing : PkgOf(u) # PkgOf(t)

Inv ==
    /\ TypeOK
    /\ Listed
    /\ CallsMatchLabels
    /\ ApprovalMatchesLabel
    /\ OneExtracts
    /\ BlockedByItsTask

-----------------------------------------------------------------------------
(* Every step of a worker has the same shape: one task goes on to a next label, its
   approval and its package stay, at most one call is posted, and the main thread's
   data are not touched. *)

TaskChange(t, label) ==
    /\ task' \in [Tasks -> Task]
    /\ \A u \in Tasks : u # t => task'[u] = task[u]
    /\ task'[t].pkg = task[t].pkg /\ task'[t].kind = task[t].kind
    /\ task'[t].pc = label

TaskMove(t, label) == TaskChange(t, label) /\ task'[t].approved = task[t].approved

LEMMA TypedFields ==
    ASSUME TypeOK, NEW t \in Tasks
    PROVE  /\ task[t].pc \in Labels /\ task[t].state \in TaskStates /\ task[t].scoped \in SUBSET Scoped
           /\ task[t].pkg \in Packages /\ task[t].approved \in BOOLEAN
BY DEF TypeOK, Task

LEMMA EntryMove ==
    ASSUME TypeOK, NEW t \in Tasks, NEW r \in Task, task' = [task EXCEPT ![t] = r],
           r.kind = task[t].kind, r.pkg = task[t].pkg, r.approved = task[t].approved
    PROVE  TaskMove(t, r.pc)
<1>1. task' \in [Tasks -> Task] /\ task'[t] = r /\ \A u \in Tasks : u # t => task'[u] = task[u]
  BY DEF TypeOK
<1> QED BY <1>1 DEF TaskChange, TaskMove

LEMMA RecordMove ==
    ASSUME TypeOK, NEW t \in Tasks, NEW label \in Labels, NEW state \in TaskStates,
           NEW scoped \in SUBSET Scoped,
           task' = [task EXCEPT ![t].pc = label, ![t].state = state, ![t].scoped = scoped]
    PROVE  TaskMove(t, label)
<1> DEFINE r == [task[t] EXCEPT !.pc = label, !.state = state, !.scoped = scoped]
<1>1. task \in [Tasks -> Task] BY DEF TypeOK
<1>2. task[t] \in Task BY <1>1
<1>3. r \in Task BY <1>2 DEF Task
<1>4. task' = [task EXCEPT ![t] = r] BY <1>1, <1>2 DEF Task
<1>5. r.pc = label /\ r.kind = task[t].kind /\ r.pkg = task[t].pkg /\ r.approved = task[t].approved
  BY <1>2 DEF Task
<1> HIDE DEF r
<1> QED BY <1>3, <1>4, <1>5, EntryMove

LEMMA GotoMove ==
    ASSUME TypeOK, NEW t \in Tasks, NEW label \in Labels, Goto(t, label)
    PROVE  TaskMove(t, label)
BY DEF TypeOK, Task, TaskChange, TaskMove, Goto

LEMMA StateMove ==
    ASSUME TypeOK, NEW t \in Tasks, NEW label \in Labels, NEW state \in TaskStates,
           task' = [task EXCEPT ![t].pc = label, ![t].state = state]
    PROVE  TaskMove(t, label)
<1> DEFINE r == [task[t] EXCEPT !.pc = label, !.state = state]
<1>1. task \in [Tasks -> Task] /\ task[t] \in Task BY DEF TypeOK
<1>2. r \in Task BY <1>1 DEF Task
<1>3. task' = [task EXCEPT ![t] = r] BY <1>1 DEF Task
<1>4. r.pc = label /\ r.kind = task[t].kind /\ r.pkg = task[t].pkg /\ r.approved = task[t].approved
  BY <1>1 DEF Task
<1> HIDE DEF r
<1> QED BY <1>2, <1>3, <1>4, EntryMove

LEMMA ScopedMove ==
    ASSUME TypeOK, NEW t \in Tasks, NEW label \in Labels, NEW scoped \in SUBSET Scoped,
           task' = [task EXCEPT ![t].scoped = scoped, ![t].pc = label]
    PROVE  TaskMove(t, label)
<1> DEFINE r == [task[t] EXCEPT !.scoped = scoped, !.pc = label]
<1>1. task \in [Tasks -> Task] /\ task[t] \in Task BY DEF TypeOK
<1>2. r \in Task BY <1>1 DEF Task
<1>3. task' = [task EXCEPT ![t] = r] BY <1>1 DEF Task
<1>4. r.pc = label /\ r.kind = task[t].kind /\ r.pkg = task[t].pkg /\ r.approved = task[t].approved
  BY <1>1 DEF Task
<1> HIDE DEF r
<1> QED BY <1>2, <1>3, <1>4, EntryMove

LEMMA ThrowMove ==
    ASSUME TypeOK, NEW t \in Tasks, Throw(t)
    PROVE  IF task[t].approved THEN TaskMove(t, "askCancel") /\ Post("askCancel", t)
                               ELSE TaskMove(t, "end") /\ calls' = calls
<1>1. CASE task[t].approved
  <2>1. PICK state \in TaskStates, scoped \in SUBSET Scoped :
           task' = [task EXCEPT ![t].pc = "askCancel", ![t].state = state, ![t].scoped = scoped]
    BY <1>1, TypedFields DEF Throw, TaskStates
  <2> QED BY <1>1, <2>1, RecordMove DEF Throw, Labels, Asking
<1>2. CASE ~task[t].approved
  BY <1>2, StateMove DEF Throw, Labels, TaskStates
<1> QED BY <1>1, <1>2

(* ... where the label allows it, ... *)
LabelStep(t, to) ==
    LET pc == task[t].pc
    IN  /\ pc \notin {"unused", "queued", "gone", "finished"} \cup Asking
        /\ to \notin {"unused", "queued", "gone"}
        /\ pc \in Holding <=> to \in Holding
        /\ to \in Early => pc \in Early
        /\ Install(t) => /\ to \in Extracting => pc \in Extracting
                         /\ to \in {"startInstallation", "askApproval"} => pc = "startInstallation"
                         /\ pc \in Extracted => to \in Extracted
        /\ to = "askApproval" => Install(t)
        /\ to = "askRemoval" => ~Install(t)
        /\ to \in Labels

(* ... and posts the call that belongs to the label *)
CallStep(t, to) ==
    \/ calls' = calls /\ to \notin Asking \cup {"finished"}
    \/ to \in Asking \cup {"finished"} /\ Post(to, t)
    \/ Install(t) /\ task[t].pc = "unpack" /\ to = "awaitAck" /\ Post("finishedExtraction", t)

WorkerMove(t) ==
    \E to \in Labels :
        /\ TaskMove(t, to) /\ LabelStep(t, to) /\ CallStep(t, to)
        /\ disk' \in [Packages -> PackageDirs]
        /\ UNCHANGED <<incoming, active, installing, pkg, app, ready, crashes>>

LEMMA ThrowStep ==
    ASSUME TypeOK, ApprovalMatchesLabel, NEW t \in Tasks, Throw(t),
           task[t].pc \in (Holding \cup Early) \ (Asking \cup {"queued"}),
           disk' \in [Packages -> PackageDirs],
           UNCHANGED <<incoming, active, installing, pkg, app, ready, crashes>>
    PROVE  WorkerMove(t)
<1>1. CASE task[t].pc \in Holding
  <2>1. TaskMove(t, "askCancel") /\ Post("askCancel", t)
    BY <1>1, ThrowMove DEF ApprovalMatchesLabel
  <2> QED BY <1>1, <2>1 DEF WorkerMove, LabelStep, CallStep, Labels, Asking, Finishing, Holding,
                           Early, Extracting, Extracted
<1>2. CASE task[t].pc \in Early
  <2>1. TaskMove(t, "end") /\ calls' = calls
    BY <1>2, ThrowMove DEF ApprovalMatchesLabel
  <2> QED BY <1>2, <2>1 DEF WorkerMove, LabelStep, CallStep, Labels, Asking, Finishing, Holding,
                           Early, Extracting, Extracted
<1> QED BY <1>1, <1>2

LEMMA BeginInstallationMoves ==
    ASSUME TypeOK, ApprovalMatchesLabel, NEW t \in Tasks, BeginInstallation(t)
    PROVE  WorkerMove(t)
<1>1. task[t].pc = "begin" /\ disk' \in [Packages -> PackageDirs]
  BY DEF BeginInstallation, Step, At, TaskOnly, TypeOK
<1>2. CASE task[t].canceled
  BY <1>1, <1>2, ThrowStep DEF BeginInstallation, TaskOnly, queues, Early, Asking
<1>3. CASE ~task[t].canceled
  <2>1. TaskMove(t, "download") BY <1>3, GotoMove DEF BeginInstallation, Labels
  <2> QED BY <1>1, <1>3, <2>1 DEF BeginInstallation, TaskOnly, queues, WorkerMove, LabelStep,
              CallStep, Labels, Asking, Finishing, Holding, Early, Extracting, Extracted
<1> QED BY <1>2, <1>3

LEMMA DirsTyped ==
    ASSUME TypeOK, NEW p \in Packages
    PROVE  /\ disk \in [Packages -> PackageDirs]
           /\ \A dirs \in PackageDirs : [disk EXCEPT ![p] = dirs] \in [Packages -> PackageDirs]
           /\ NameToNameMinus(disk[p]) \in PackageDirs
           /\ NamePlusToName(disk[p]) \in PackageDirs
           /\ DocToDocMinus(disk[p]) \in PackageDirs
           /\ \A dir \in Dir : [disk EXCEPT ![p].plus = dir] \in [Packages -> PackageDirs]
           /\ \A dir \in Dir : [disk EXCEPT ![p].minus = dir] \in [Packages -> PackageDirs]
           /\ \A left \in BOOLEAN : [disk EXCEPT ![p].docMinus = left] \in [Packages -> PackageDirs]
           /\ disk[p] \in PackageDirs /\ disk[p].plus \in Dir /\ disk[p].minus \in Dir
BY DEF TypeOK, PackageDirs, NameToNameMinus, NamePlusToName, DocToDocMinus, Dir

(* What a failed removal leaves is a directory, or nothing. *)
LEMMA RemovedTyped ==
    ASSUME NEW dir \in Dir
    PROVE  /\ Removed(dir) \subseteq Dir
           /\ Exists(dir) => Leftover(dir) \in Dir
           /\ \A from : TargetOfFailedRename(from, dir) \subseteq Dir
<1>1. Exists(dir) => Leftover(dir) \in Dir BY DEF Exists, Leftover, Dir, Content, Stage
<1>2. NoDir \in Dir BY DEF Dir
<1> QED BY <1>1, <1>2 DEF Removed, TargetOfFailedRename

LEMMA RolledBackTyped ==
    ASSUME TypeOK, NEW t \in Tasks, NEW undone
    PROVE  RolledBack(t, undone) \in PackageDirs
<1>1. disk[PkgOf(t)] \in PackageDirs BY TypedFields DEF TypeOK, PkgOf
<1>2. UndoNameToNameMinus(disk[PkgOf(t)]) \in PackageDirs
  BY <1>1 DEF UndoNameToNameMinus, PackageDirs, Dir
<1> QED BY <1>1, <1>2 DEF RolledBack, PackageDirs

LEMMA DownloadMoves ==
    ASSUME TypeOK, ApprovalMatchesLabel, NEW t \in Tasks, Download(t)
    PROVE  WorkerMove(t)
<1>1. task[t].pc = "download" /\ disk' \in [Packages -> PackageDirs]
  BY DEF Download, Step, At, TaskOnly, TypeOK
<1>2. CASE Throw(t)
  BY <1>1, <1>2, ThrowStep DEF Download, TaskOnly, queues, Early, Asking
<1>3. CASE Ask(t, "askActive", "askActive")
  <2>1. TaskMove(t, "askActive") BY <1>3, GotoMove DEF Ask, Labels, Asking
  <2> QED BY <1>1, <1>3, <2>1 DEF Download, Ask, TaskOnly, queues, WorkerMove,
       LabelStep, CallStep, Labels, Asking, Finishing,
       Holding, Early, Extracting, Extracted
<1> QED BY <1>2, <1>3 DEF Download

LEMMA DeclinedMoves ==
    ASSUME TypeOK, ApprovalMatchesLabel, NEW t \in Tasks, Declined(t)
    PROVE  WorkerMove(t)
BY ThrowStep DEF Declined, At, TaskOnly, queues, Early, Asking, TypeOK

LEMMA StartInstallationMoves ==
    ASSUME TypeOK, ApprovalMatchesLabel, NEW t \in Tasks, StartInstallation(t)
    PROVE  WorkerMove(t)
<1> DEFINE p == PkgOf(t)
<1>1. task[t].pc = "startInstallation" /\ Install(t) /\ p \in Packages
  BY TypedFields DEF StartInstallation, Step, At, PkgOf
<1>2. CASE Throw(t) /\ disk' = [disk EXCEPT ![p].plus = NoDir]
  <2>1. disk' \in [Packages -> PackageDirs] BY <1>1, <1>2, DirsTyped DEF Dir
  <2> QED BY <1>1, <1>2, <2>1, ThrowStep DEF StartInstallation, TaskAndDisk, queues, Early, Asking
<1>4. CASE Throw(t) /\ Exists(disk[p].plus) /\ disk' = [disk EXCEPT ![p].plus = Leftover(@)]
  <2>1. Leftover(disk[p].plus) \in Dir BY <1>1, <1>4, DirsTyped, RemovedTyped
  <2>2. disk' = [disk EXCEPT ![p].plus = Leftover(disk[p].plus)]
    BY <1>1, <1>4, DirsTyped DEF PackageDirs
  <2>3. disk' \in [Packages -> PackageDirs] BY <1>1, <2>1, <2>2, DirsTyped
  <2> QED BY <1>1, <1>4, <2>3, ThrowStep DEF StartInstallation, TaskAndDisk, queues, Early, Asking
<1>3. CASE /\ disk' = [disk EXCEPT ![p].plus = [ver |-> t, stage |-> "unpacking"]]
           /\ task' = [task EXCEPT ![t].scoped = {"unpackDir"}, ![t].pc = "askApproval"]
           /\ Post("askApproval", t)
  <2>1. [ver |-> t, stage |-> "unpacking"] \in Dir BY DEF Dir, Content, Version, Stage
  <2>2. disk' \in [Packages -> PackageDirs] BY <1>1, <1>3, <2>1, DirsTyped
  <2>3. TaskMove(t, "askApproval") 
    <3>1. PICK scoped \in SUBSET Scoped : scoped = {"unpackDir"} BY DEF Scoped
    <3> QED BY <1>3, <3>1, ScopedMove DEF Labels, Asking
  <2> QED BY <1>1, <1>3, <2>2, <2>3 DEF StartInstallation, TaskAndDisk, queues, WorkerMove,
       LabelStep, CallStep, Labels, Asking, Finishing,
       Holding, Early, Extracting, Extracted
<1> QED BY <1>2, <1>3, <1>4 DEF StartInstallation

LEMMA WaitStopMoves ==
    ASSUME TypeOK, ApprovalMatchesLabel, NEW t \in Tasks, WaitStop(t)
    PROVE  WorkerMove(t)
<1>1. task[t].pc = "waitStop" /\ disk' \in [Packages -> PackageDirs]
  BY DEF WaitStop, At, TaskOnly, TypeOK
<1>2. CASE Throw(t)
  BY <1>1, <1>2, ThrowStep DEF WaitStop, TaskOnly, queues, Holding, Asking
<1>3. CASE Goto(t, IF Install(t) THEN "unpack" ELSE "renameDoc") /\ UNCHANGED calls
  <2>1. TaskMove(t, IF Install(t) THEN "unpack" ELSE "renameDoc") BY <1>3, GotoMove DEF Labels
  <2> QED BY <1>1, <1>3, <2>1 DEF WaitStop, TaskOnly, queues, WorkerMove,
       LabelStep, CallStep, Labels, Asking, Finishing,
       Holding, Early, Extracting, Extracted
<1> QED BY <1>2, <1>3 DEF WaitStop

LEMMA UnpackMoves ==
    ASSUME TypeOK, ApprovalMatchesLabel, NEW t \in Tasks, Unpack(t)
    PROVE  WorkerMove(t)
<1> DEFINE p == PkgOf(t)
<1>1. task[t].pc = "unpack" /\ Install(t) /\ p \in Packages
  BY TypedFields DEF Unpack, Step, At, PkgOf
<1>2. CASE Throw(t) /\ UNCHANGED disk
  <2>1. disk' \in [Packages -> PackageDirs] BY <1>2 DEF TypeOK
  <2> QED BY <1>1, <1>2, <2>1, ThrowStep DEF Unpack, TaskAndDisk, queues, Holding, Asking
<1>3. CASE /\ task' = [task EXCEPT ![t].pc = "awaitAck", ![t].state = "AwaitingAcknowledge"]
           /\ disk' = IF Exists(disk[p].plus) /\ disk[p].plus.ver = t
                      THEN [disk EXCEPT ![p].plus.stage = "unpacked"] ELSE disk
           /\ Post("finishedExtraction", t)
  <2>1. disk' \in [Packages -> PackageDirs]
    <3>1. CASE Exists(disk[p].plus)
      <4>1. disk[p].plus \in Content BY <1>1, <3>1, DirsTyped DEF Exists, Dir
      <4>2. [disk[p].plus EXCEPT !.stage = "unpacked"] \in Dir
        BY <4>1 DEF Dir, Content, Stage
      <4>3. [disk EXCEPT ![p].plus.stage = "unpacked"]
               = [disk EXCEPT ![p].plus = [disk[p].plus EXCEPT !.stage = "unpacked"]]
        OBVIOUS
      <4> QED BY <1>1, <1>3, <4>2, <4>3, DirsTyped
    <3>2. CASE ~Exists(disk[p].plus)
      BY <1>3, <3>2 DEF TypeOK
    <3> QED BY <3>1, <3>2
  <2>2. TaskMove(t, "awaitAck") BY <1>3, StateMove DEF Labels, TaskStates
  <2> QED BY <1>1, <1>3, <2>1, <2>2 DEF Unpack, TaskAndDisk, queues, WorkerMove,
       LabelStep, CallStep, Labels, Asking, Finishing,
       Holding, Early, Extracting, Extracted
<1> QED BY <1>2, <1>3 DEF Unpack

LEMMA AwaitAcknowledgeMoves ==
    ASSUME TypeOK, ApprovalMatchesLabel, NEW t \in Tasks, AwaitAcknowledge(t)
    PROVE  WorkerMove(t)
<1>1. task[t].pc = "awaitAck" /\ disk' \in [Packages -> PackageDirs]
  BY DEF AwaitAcknowledge, Step, At, TaskOnly, TypeOK
<1>2. CASE Throw(t)
  BY <1>1, <1>2, ThrowStep DEF AwaitAcknowledge, TaskOnly, queues, Holding, Asking
<1>3. CASE /\ task' = [task EXCEPT ![t].pc = "lockFinish", ![t].state = "Installing"]
           /\ UNCHANGED calls
  <2>1. TaskMove(t, "lockFinish") BY <1>3, StateMove DEF Labels, TaskStates
  <2> QED BY <1>1, <1>3, <2>1 DEF AwaitAcknowledge, TaskOnly, queues, WorkerMove,
       LabelStep, CallStep, Labels, Asking, Finishing,
       Holding, Early, Extracting, Extracted
<1> QED BY <1>2, <1>3 DEF AwaitAcknowledge

LEMMA LockFinishMoves ==
    ASSUME TypeOK, ApprovalMatchesLabel, NEW t \in Tasks, LockFinish(t)
    PROVE  WorkerMove(t)
<1>1. task[t].pc = "lockFinish" /\ disk' \in [Packages -> PackageDirs]
  BY DEF LockFinish, Step, At, TaskOnly, TypeOK
<1>2. TaskMove(t, "writeReport") BY GotoMove DEF LockFinish, Labels, Finishing
<1> QED BY <1>1, <1>2 DEF LockFinish, TaskOnly, queues, WorkerMove,
       LabelStep, CallStep, Labels, Asking, Finishing,
       Holding, Early, Extracting, Extracted

LEMMA WriteReportMoves ==
    ASSUME TypeOK, ApprovalMatchesLabel, NEW t \in Tasks, WriteReport(t)
    PROVE  WorkerMove(t)
<1> DEFINE p == PkgOf(t)
           next == IF Exists(disk[p].app) THEN "backup" ELSE "createDocs"
<1>1. task[t].pc = "writeReport" /\ p \in Packages
  BY TypedFields DEF WriteReport, Step, At, PkgOf
<1>2. CASE Throw(t) /\ UNCHANGED disk
  <2>1. disk' \in [Packages -> PackageDirs] BY <1>2 DEF TypeOK
  <2> QED BY <1>1, <1>2, <2>1, ThrowStep DEF WriteReport, TaskAndDisk, queues, Holding, Finishing, Asking
<1>3. CASE /\ Exists(disk[p].plus)
           /\ disk' = [disk EXCEPT ![p].plus = WithReport(@)]
           /\ Goto(t, next) /\ UNCHANGED calls
  <2>1. disk[p].plus \in Content BY <1>1, <1>3, DirsTyped DEF Exists, Dir
  <2>2. WithReport(disk[p].plus) \in Dir BY <2>1 DEF WithReport, Dir, Content, Stage
  <2>3. disk' \in [Packages -> PackageDirs] BY <1>1, <1>3, <2>2, DirsTyped
  <2>4. TaskMove(t, next) BY <1>3, GotoMove DEF Labels, Finishing
  <2> QED BY <1>1, <1>3, <2>3, <2>4 DEF WriteReport, TaskAndDisk, queues, WorkerMove,
       LabelStep, CallStep, Labels, Asking, Finishing,
       Holding, Early, Extracting, Extracted
<1> QED BY <1>2, <1>3 DEF WriteReport

LEMMA CreateDocumentDirectoryMoves ==
    ASSUME TypeOK, ApprovalMatchesLabel, NEW t \in Tasks, CreateDocumentDirectory(t)
    PROVE  WorkerMove(t)
<1> DEFINE p == PkgOf(t)
<1>1. task[t].pc = "createDocs" /\ p \in Packages
  BY TypedFields DEF CreateDocumentDirectory, Step, At, PkgOf
<1>2. CASE Throw(t) /\ UNCHANGED disk
  <2>1. disk' \in [Packages -> PackageDirs] BY <1>2 DEF TypeOK
  <2> QED BY <1>1, <1>2, <2>1, ThrowStep
      DEF CreateDocumentDirectory, TaskAndDisk, queues, Holding, Finishing, Asking
<1>3. CASE /\ task' = [task EXCEPT ![t].pc = "rename", ![t].scoped =
                                     IF disk[p].doc THEN @ ELSE @ \cup {"docDir"}]
           /\ disk' = [disk EXCEPT ![p].doc = TRUE]
           /\ UNCHANGED calls
  <2>1. disk' \in [Packages -> PackageDirs] BY <1>1, <1>3 DEF TypeOK, PackageDirs
  <2>2. TaskMove(t, "rename")
    <3>1. PICK scoped \in SUBSET Scoped : task' = [task EXCEPT ![t].scoped = scoped, ![t].pc = "rename"]
      <4> DEFINE scoped == IF disk[p].doc THEN task[t].scoped ELSE task[t].scoped \cup {"docDir"}
      <4>1. scoped \in SUBSET Scoped BY TypedFields DEF Scoped
      <4>2. task' = [task EXCEPT ![t].scoped = scoped, ![t].pc = "rename"]
        BY <1>3 DEF TypeOK, Task
      <4> QED BY <4>1, <4>2
    <3> QED BY <3>1, ScopedMove DEF Labels, Finishing
  <2> QED BY <1>1, <1>3, <2>1, <2>2 DEF CreateDocumentDirectory, TaskAndDisk, queues, WorkerMove,
       LabelStep, CallStep, Labels, Asking, Finishing,
       Holding, Early, Extracting, Extracted
<1> QED BY <1>2, <1>3 DEF CreateDocumentDirectory

LEMMA BackupOldVersionMoves ==
    ASSUME TypeOK, ApprovalMatchesLabel, NEW t \in Tasks, BackupOldVersion(t)
    PROVE  WorkerMove(t)
<1> DEFINE p == PkgOf(t)
<1>1. task[t].pc = "backup" /\ p \in Packages
  BY TypedFields DEF BackupOldVersion, Step, At, PkgOf
<1>2. CASE /\ \E left \in TargetOfFailedRename(disk[p].app, disk[p].minus) :
                disk' = [disk EXCEPT ![p].minus = left]
           /\ Throw(t)
  <2>1. disk' \in [Packages -> PackageDirs]
    <3>1. TargetOfFailedRename(disk[p].app, disk[p].minus) \subseteq Dir
      BY <1>1, DirsTyped, RemovedTyped
    <3> QED BY <1>1, <1>2, <3>1, DirsTyped
  <2> QED BY <1>1, <1>2, <2>1, ThrowStep
      DEF BackupOldVersion, TaskAndDisk, queues, Holding, Finishing, Asking
<1>3. CASE /\ disk' = [disk EXCEPT ![p] = NameToNameMinus(@)]
           /\ task' = [task EXCEPT ![t].pc = "rename", ![t].scoped = @ \cup {"backup"}]
           /\ UNCHANGED calls
  <2>1. disk' \in [Packages -> PackageDirs] BY <1>1, <1>3, DirsTyped
  <2>2. TaskMove(t, "rename")
    <3>1. PICK scoped \in SUBSET Scoped : scoped = task[t].scoped \cup {"backup"}
      BY TypedFields DEF Scoped
    <3>2. task' = [task EXCEPT ![t].scoped = scoped, ![t].pc = "rename"]
      BY <1>3, <3>1 DEF TypeOK, Task
    <3> QED BY <3>2, ScopedMove DEF Labels, Finishing
  <2> QED BY <1>1, <1>3, <2>1, <2>2 DEF BackupOldVersion, TaskAndDisk, queues, WorkerMove,
       LabelStep, CallStep, Labels, Asking, Finishing,
       Holding, Early, Extracting, Extracted
<1> QED BY <1>2, <1>3 DEF BackupOldVersion

LEMMA RenameNewVersionMoves ==
    ASSUME TypeOK, ApprovalMatchesLabel, NEW t \in Tasks, RenameNewVersion(t)
    PROVE  WorkerMove(t)
<1> DEFINE p == PkgOf(t)
<1>1. task[t].pc = "rename" /\ p \in Packages
  BY TypedFields DEF RenameNewVersion, Step, At, PkgOf
<1>2. CASE /\ \E undone \in Undone(t) : disk' = [disk EXCEPT ![p] = RolledBack(t, undone)]
           /\ Throw(t)
  <2>1. PICK undone : disk' = [disk EXCEPT ![p] = RolledBack(t, undone)] BY <1>2
  <2>2. disk' \in [Packages -> PackageDirs] BY <1>1, <2>1, RolledBackTyped, DirsTyped
  <2> QED BY <1>1, <1>2, <2>2, ThrowStep
      DEF RenameNewVersion, TaskAndDisk, queues, Holding, Finishing, Asking
<1>3. ASSUME NEW next \in {"removeBackup", "askFinish"},
             disk' = [disk EXCEPT ![p] = NamePlusToName(@)],
             task' = [task EXCEPT ![t].pc = next, ![t].state = "CleaningUp", ![t].scoped = {}],
             IF next = "askFinish" THEN Post("askFinish", t) ELSE UNCHANGED calls
      PROVE  WorkerMove(t)
  <2>1. disk' \in [Packages -> PackageDirs] BY <1>1, <1>3, DirsTyped
  <2>2. TaskMove(t, next)
    <3>1. PICK scoped \in SUBSET Scoped : scoped = {} OBVIOUS
    <3>2. next \in Labels BY DEF Labels, Finishing, Asking
    <3> QED BY <1>3, <3>1, <3>2, RecordMove DEF TaskStates
  <2> QED BY <1>1, <1>3, <2>1, <2>2 DEF RenameNewVersion, TaskAndDisk, queues, WorkerMove,
       LabelStep, CallStep, Labels, Asking, Finishing,
       Holding, Early, Extracting, Extracted
<1> QED BY <1>2, <1>3 DEF RenameNewVersion

LEMMA RemoveBackupMoves ==
    ASSUME TypeOK, ApprovalMatchesLabel, NEW t \in Tasks, RemoveBackup(t)
    PROVE  WorkerMove(t)
<1>1. task[t].pc = "removeBackup" /\ PkgOf(t) \in Packages
  BY TypedFields DEF RemoveBackup, Step, At, PkgOf
<1>2. disk' \in [Packages -> PackageDirs]
  <2>1. Removed(disk[PkgOf(t)].minus) \subseteq Dir BY <1>1, DirsTyped, RemovedTyped
  <2> QED BY <1>1, <2>1, DirsTyped DEF RemoveBackup
<1>3. TaskMove(t, "askFinish") BY GotoMove DEF RemoveBackup, Ask, Labels, Asking
<1> QED BY <1>1, <1>2, <1>3 DEF RemoveBackup, Ask, TaskAndDisk, queues, WorkerMove,
       LabelStep, CallStep, Labels, Asking, Finishing,
       Holding, Early, Extracting, Extracted

LEMMA BeginRemovalMoves ==
    ASSUME TypeOK, ApprovalMatchesLabel, NEW t \in Tasks, BeginRemoval(t)
    PROVE  WorkerMove(t)
<1>1. task[t].pc = "begin" /\ ~Install(t) /\ disk' \in [Packages -> PackageDirs]
  BY DEF BeginRemoval, Removing, At, TaskOnly, TypeOK
<1>2. CASE Throw(t)
  BY <1>1, <1>2, ThrowStep DEF BeginRemoval, TaskOnly, queues, Early, Asking
<1>3. CASE Ask(t, "askRemoval", "askRemoval")
  <2>1. TaskMove(t, "askRemoval") BY <1>3, GotoMove DEF Ask, Labels, Asking
  <2> QED BY <1>1, <1>3, <2>1 DEF BeginRemoval, Ask, TaskOnly, queues, WorkerMove,
       LabelStep, CallStep, Labels, Asking, Finishing,
       Holding, Early, Extracting, Extracted
<1> QED BY <1>2, <1>3 DEF BeginRemoval

LEMMA RenameDocumentsMoves ==
    ASSUME TypeOK, ApprovalMatchesLabel, NEW t \in Tasks, RenameDocuments(t)
    PROVE  WorkerMove(t)
<1> DEFINE p == PkgOf(t)
<1>1. task[t].pc = "renameDoc" /\ ~Install(t) /\ p \in Packages
  BY TypedFields DEF RenameDocuments, Removing, At, PkgOf
<1>2. CASE Throw(t) /\ (UNCHANGED disk \/ disk' = [disk EXCEPT ![p].docMinus = FALSE])
  <2>1. disk' \in [Packages -> PackageDirs]
    <3>1. CASE UNCHANGED disk BY <1>1, <3>1, DirsTyped
    <3>2. CASE disk' = [disk EXCEPT ![p].docMinus = FALSE]
      <4>1. PICK left \in BOOLEAN : left = FALSE OBVIOUS
      <4>2. disk' = [disk EXCEPT ![p].docMinus = left] BY <3>2, <4>1
      <4> QED BY <1>1, <4>2, DirsTyped
    <3> QED BY <1>2, <3>1, <3>2
  <2> QED BY <1>1, <1>2, <2>1, ThrowStep DEF RenameDocuments, TaskAndDisk, queues, Holding, Asking
<1>3. CASE Goto(t, "renameApp") /\ UNCHANGED <<calls, disk>>
  <2>1. disk' \in [Packages -> PackageDirs] BY <1>3 DEF TypeOK
  <2>2. TaskMove(t, "renameApp") BY <1>3, GotoMove DEF Labels
  <2> QED BY <1>1, <1>3, <2>1, <2>2 DEF RenameDocuments, TaskAndDisk, queues, WorkerMove,
       LabelStep, CallStep, Labels, Asking, Finishing,
       Holding, Early, Extracting, Extracted
<1>4. CASE /\ disk' = [disk EXCEPT ![p] = DocToDocMinus(@)]
           /\ task' = [task EXCEPT ![t].pc = "renameApp", ![t].scoped = {"docBackup"}]
           /\ UNCHANGED calls
  <2>1. disk' \in [Packages -> PackageDirs] BY <1>1, <1>4, DirsTyped
  <2>2. TaskMove(t, "renameApp")
    <3>1. PICK scoped \in SUBSET Scoped : scoped = {"docBackup"} BY DEF Scoped
    <3>2. task' = [task EXCEPT ![t].scoped = scoped, ![t].pc = "renameApp"]
      BY <1>4, <3>1 DEF TypeOK, Task
    <3> QED BY <3>2, ScopedMove DEF Labels
  <2> QED BY <1>1, <1>4, <2>1, <2>2 DEF RenameDocuments, TaskAndDisk, queues, WorkerMove,
       LabelStep, CallStep, Labels, Asking, Finishing,
       Holding, Early, Extracting, Extracted
<1> QED BY <1>2, <1>3, <1>4 DEF RenameDocuments

LEMMA RenameApplicationMoves ==
    ASSUME TypeOK, ApprovalMatchesLabel, NEW t \in Tasks, RenameApplication(t)
    PROVE  WorkerMove(t)
<1> DEFINE p == PkgOf(t)
<1>1. task[t].pc = "renameApp" /\ ~Install(t) /\ p \in Packages
  BY TypedFields DEF RenameApplication, Removing, At, PkgOf
<1>2. CASE /\ \E left \in TargetOfFailedRename(disk[p].app, disk[p].minus), undone \in Undone(t) :
                disk' = [disk EXCEPT ![p] = [RolledBack(t, undone) EXCEPT !.minus = left]]
           /\ Throw(t)
  <2>1. disk' \in [Packages -> PackageDirs]
    <3>1. PICK left \in Dir, undone \in Undone(t) :
             disk' = [disk EXCEPT ![p] = [RolledBack(t, undone) EXCEPT !.minus = left]]
      BY <1>1, <1>2, DirsTyped, RemovedTyped
    <3>2. [RolledBack(t, undone) EXCEPT !.minus = left] \in PackageDirs
      BY RolledBackTyped DEF PackageDirs
    <3> QED BY <1>1, <3>1, <3>2, DirsTyped
  <2> QED BY <1>1, <1>2, <2>1, ThrowStep DEF RenameApplication, TaskAndDisk, queues, Holding, Asking
<1>3. CASE /\ disk' = [disk EXCEPT ![p] = NameToNameMinus(@)]
           /\ task' = [task EXCEPT ![t].pc = "removeOld", ![t].scoped = {}]
           /\ UNCHANGED calls
  <2>1. disk' \in [Packages -> PackageDirs] BY <1>1, <1>3, DirsTyped
  <2>2. TaskMove(t, "removeOld")
    <3>1. PICK scoped \in SUBSET Scoped : scoped = {} OBVIOUS
    <3>2. task' = [task EXCEPT ![t].scoped = scoped, ![t].pc = "removeOld"]
      BY <1>3, <3>1 DEF TypeOK, Task
    <3> QED BY <3>2, ScopedMove DEF Labels
  <2> QED BY <1>1, <1>3, <2>1, <2>2 DEF RenameApplication, TaskAndDisk, queues, WorkerMove,
       LabelStep, CallStep, Labels, Asking, Finishing,
       Holding, Early, Extracting, Extracted
<1> QED BY <1>2, <1>3 DEF RenameApplication

LEMMA RemoveOldVersionMoves ==
    ASSUME TypeOK, ApprovalMatchesLabel, NEW t \in Tasks, RemoveOldVersion(t)
    PROVE  WorkerMove(t)
<1> DEFINE p == PkgOf(t)
<1>1. task[t].pc = "removeOld" /\ ~Install(t) /\ p \in Packages
  BY TypedFields DEF RemoveOldVersion, Removing, At, PkgOf
<1>2. disk' \in [Packages -> PackageDirs]
  <2>1. Removed(disk[p].minus) \subseteq Dir /\ disk[p] \in PackageDirs
    BY <1>1, DirsTyped, RemovedTyped
  <2>2. PICK left \in Dir, stay \in BOOLEAN :
           disk' = [disk EXCEPT ![p].minus = left, ![p].docMinus = @ /\ stay]
    <3>1. MayFail("remove") \in BOOLEAN BY DEF MayFail
    <3> QED BY <2>1, <3>1 DEF RemoveOldVersion
  <2>3. PICK docs \in BOOLEAN : docs = (disk[p].docMinus /\ stay) OBVIOUS
  <2> DEFINE dirs == [disk[p] EXCEPT !.minus = left, !.docMinus = docs]
  <2>4. dirs \in PackageDirs BY <2>1 DEF PackageDirs
  <2>5. disk' = [disk EXCEPT ![p] = dirs] BY <1>1, <2>1, <2>2, <2>3, DirsTyped DEF PackageDirs
  <2> HIDE DEF dirs
  <2> QED BY <1>1, <2>4, <2>5, DirsTyped
<1>3. TaskMove(t, "askFinish") BY GotoMove DEF RemoveOldVersion, Ask, Labels, Asking
<1> QED BY <1>1, <1>2, <1>3 DEF RemoveOldVersion, Ask, TaskAndDisk, queues, WorkerMove,
       LabelStep, CallStep, Labels, Asking, Finishing,
       Holding, Early, Extracting, Extracted

LEMMA SetErrorMoves ==
    ASSUME TypeOK, ApprovalMatchesLabel, NEW t \in Tasks, SetError(t)
    PROVE  WorkerMove(t)
<1>1. task[t].pc = "setError" /\ disk' \in [Packages -> PackageDirs]
  BY DEF SetError, At, TaskOnly, TypeOK
<1>2. TaskMove(t, "end") BY StateMove DEF SetError, Labels, TaskStates
<1> QED BY <1>1, <1>2 DEF SetError, TaskOnly, queues, WorkerMove,
       LabelStep, CallStep, Labels, Asking, Finishing,
       Holding, Early, Extracting, Extracted

LEMMA EndRunMoves ==
    ASSUME TypeOK, ApprovalMatchesLabel, NEW t \in Tasks, EndRun(t)
    PROVE  WorkerMove(t)
<1>1. task[t].pc = "end" /\ disk' \in [Packages -> PackageDirs]
  BY DEF EndRun, At, TaskOnly, TypeOK
<1>2. TaskMove(t, "finished") BY GotoMove DEF EndRun, Ask, Labels
<1> QED BY <1>1, <1>2 DEF EndRun, Ask, TaskOnly, queues, WorkerMove,
       LabelStep, CallStep, Labels, Asking, Finishing,
       Holding, Early, Extracting, Extracted

LEMMA WorkerMoves ==
    ASSUME TypeOK, ApprovalMatchesLabel, NEW t \in Tasks, Worker(t)
    PROVE  WorkerMove(t)
BY BeginInstallationMoves, DownloadMoves, DeclinedMoves, StartInstallationMoves, WaitStopMoves,
   UnpackMoves, AwaitAcknowledgeMoves, LockFinishMoves, WriteReportMoves,
   CreateDocumentDirectoryMoves, BackupOldVersionMoves, RenameNewVersionMoves, RemoveBackupMoves,
   BeginRemovalMoves, RenameDocumentsMoves, RenameApplicationMoves, RemoveOldVersionMoves,
   SetErrorMoves, EndRunMoves DEF Worker

-----------------------------------------------------------------------------
(* What posting a call and taking the first one off the queue do to CallsMatchLabels. *)

LEMMA CallTyped ==
    ASSUME TypeOK, NEW i \in 1 .. Len(calls)
    PROVE  calls[i] \in Call /\ calls[i].task \in Tasks \cup {None} /\ calls[i].op \in Ops
<1>1. calls[i] \in Call BY DEF TypeOK
<1> QED BY <1>1 DEF Call

LEMMA AppendFacts ==
    ASSUME NEW S, NEW s \in Seq(S), NEW x \in S
    PROVE  /\ Append(s, x) \in Seq(S)
           /\ Len(Append(s, x)) = Len(s) + 1 /\ Len(s) \in Nat
           /\ Append(s, x)[Len(s) + 1] = x
           /\ \A i \in 1 .. Len(s) : Append(s, x)[i] = s[i] /\ s[i] \in S
OBVIOUS

LEMMA CallsPosted ==
    ASSUME TypeOK, CallsMatchLabels, NEW call \in Call, calls' = Append(calls, call),
           \A i \in 1 .. Len(calls) : CallFits(calls[i], task', active'),
           CallFits(call, task', active'),
           \A i \in 1 .. Len(calls) : InOrder(calls[i], call)
    PROVE  CallsMatchLabels' /\ calls' \in Seq(Call)
<1>1. calls' \in Seq(Call) /\ Len(calls') = Len(calls) + 1 /\ Len(calls) \in Nat
  BY DEF TypeOK
<1>2. \A i \in 1 .. Len(calls) : calls'[i] = calls[i]
  BY DEF TypeOK
<1>3. calls'[Len(calls) + 1] = call
  BY DEF TypeOK
<1>4. \A i \in 1 .. Len(calls') : i \in 1 .. Len(calls) \/ i = Len(calls) + 1
  BY <1>1
<1>5. \A i \in 1 .. Len(calls') : CallFits(calls'[i], task', active')
  BY <1>2, <1>3, <1>4
<1>6. \A i, j \in 1 .. Len(calls') : i < j => InOrder(calls'[i], calls'[j])
  <2> SUFFICES ASSUME NEW i \in 1 .. Len(calls'), NEW j \in 1 .. Len(calls'), i < j
               PROVE  InOrder(calls'[i], calls'[j])
    OBVIOUS
  <2>1. i \in 1 .. Len(calls) BY <1>1
  <2>2. CASE j \in 1 .. Len(calls) BY <1>2, <2>1, <2>2 DEF CallsMatchLabels
  <2>3. CASE j = Len(calls) + 1 BY <1>2, <1>3, <2>1, <2>3
  <2> QED BY <1>4, <2>2, <2>3
<1> QED BY <1>1, <1>5, <1>6 DEF CallsMatchLabels, CallFits, InOrder

LEMMA CallsKept ==
    ASSUME CallsMatchLabels, calls' = calls,
           \A i \in 1 .. Len(calls) : CallFits(calls[i], task', active')
    PROVE  CallsMatchLabels'
BY DEF CallsMatchLabels, CallFits, InOrder

Trigger == [task |-> None, op |-> "executeNextTask"]

LEMMA CallsTaken ==
    ASSUME TypeOK, CallsMatchLabels, calls # <<>>,
           \/ calls' = Tail(calls)
           \/ calls' = Append(Tail(calls), Trigger),
           \A i \in 2 .. Len(calls) : CallFits(calls[i], task', active')
    PROVE  CallsMatchLabels' /\ calls' \in Seq(Call)
<1> DEFINE n == Len(calls)
<1>1. n \in Nat \ {0} /\ Tail(calls) \in Seq(Call) /\ Len(Tail(calls)) = n - 1
  BY DEF TypeOK
<1>2. \A i \in 1 .. n - 1 : Tail(calls)[i] = calls[i + 1] /\ i + 1 \in 2 .. n
  BY <1>1 DEF TypeOK
<1>3. Trigger \in Call /\ CallFits(Trigger, task', active')
        /\ \A call \in Call : InOrder(call, Trigger)
  BY ConstantsAssumption DEF Trigger, Call, Ops, CallFits, InOrder, Asking
<1>4. \A i \in 1 .. n - 1 : CallFits(Tail(calls)[i], task', active')
  BY <1>2
<1>5. \A i, j \in 1 .. n - 1 : i < j => InOrder(Tail(calls)[i], Tail(calls)[j])
  <2> SUFFICES ASSUME NEW i \in 1 .. n - 1, NEW j \in 1 .. n - 1, i < j
               PROVE  InOrder(calls[i + 1], calls[j + 1])
    BY <1>2
  <2>1. i + 1 \in 1 .. n /\ j + 1 \in 1 .. n /\ i + 1 < j + 1 BY <1>1
  <2> QED BY <2>1 DEF CallsMatchLabels
<1>6. CASE calls' = Tail(calls)
  BY <1>1, <1>4, <1>5, <1>6 DEF CallsMatchLabels, CallFits, InOrder
<1>7. CASE calls' = Append(Tail(calls), Trigger)
  <2>0. Tail(calls) \in Seq(Call) /\ Trigger \in Call BY <1>1, <1>3
  <2>1. calls' \in Seq(Call) /\ Len(calls') = n /\ calls'[n] = Trigger
    BY <1>1, <2>0, <1>7, AppendFacts
  <2>2. \A i \in 1 .. n - 1 : calls'[i] = Tail(calls)[i] /\ calls'[i] \in Call
    BY <1>1, <2>0, <1>7, AppendFacts
  <2>3. \A i \in 1 .. n : i \in 1 .. n - 1 \/ i = n
    <3>1. n \in Nat BY <1>1
    <3> HIDE DEF n
    <3> QED BY <3>1
  <2>4. \A i \in 1 .. n : CallFits(calls'[i], task', active')
    <3> SUFFICES ASSUME NEW i \in 1 .. n PROVE CallFits(calls'[i], task', active')
      OBVIOUS
    <3>1. CASE i \in 1 .. n - 1 BY <1>4, <2>2, <3>1
    <3>2. CASE i = n BY <1>3, <2>1, <3>2
    <3> QED BY <2>3, <3>1, <3>2
  <2>5. \A i, j \in 1 .. n : i < j => InOrder(calls'[i], calls'[j])
    <3> SUFFICES ASSUME NEW i \in 1 .. n, NEW j \in 1 .. n, i < j
                 PROVE  InOrder(calls'[i], calls'[j])
      OBVIOUS
    <3>1. i \in 1 .. n - 1 BY <1>1
    <3>2. CASE j \in 1 .. n - 1 BY <1>5, <2>2, <3>1, <3>2
    <3>3. CASE j = n BY <1>3, <2>1, <2>2, <3>1, <3>3
    <3> QED BY <2>3, <3>2, <3>3
  <2> QED BY <2>1, <2>4, <2>5 DEF CallsMatchLabels, CallFits, InOrder
<1> QED BY <1>6, <1>7

-----------------------------------------------------------------------------
(* A step of a worker preserves the invariant. *)

LEMMA WorkerKeepsCalls ==
    ASSUME Inv, NEW t \in Tasks, WorkerMove(t)
    PROVE  CallsMatchLabels' /\ calls' \in Seq(Call)
<1> USE DEF Inv
<1>1. PICK to \in Labels : TaskMove(t, to) /\ LabelStep(t, to) /\ CallStep(t, to) /\ active' = active
  BY DEF WorkerMove
<1>2. None \notin Tasks BY ConstantsAssumption
<1>3. \A i \in 1 .. Len(calls) : calls[i].task = t => calls[i].op = "finishedExtraction"
  <2> SUFFICES ASSUME NEW i \in 1 .. Len(calls), calls[i].task = t
               PROVE  calls[i].op = "finishedExtraction"
    OBVIOUS
  <2>1. CallFits(calls[i], task, active) /\ calls[i].op \in Ops BY CallTyped DEF CallsMatchLabels
  <2> QED BY <1>1, <1>2, <2>1 DEF CallFits, LabelStep, Ops
<1>4. \A i \in 1 .. Len(calls) : CallFits(calls[i], task', active')
  <2> SUFFICES ASSUME NEW i \in 1 .. Len(calls)
               PROVE  CallFits(calls[i], task', active)
    BY <1>1
  <2>1. CallFits(calls[i], task, active) /\ calls[i].task \in Tasks \cup {None}
    BY CallTyped DEF CallsMatchLabels
  <2>2. CASE calls[i].task = t
    <3>1. calls[i].op = "finishedExtraction" /\ active = t BY <1>3, <2>1, <2>2 DEF CallFits
    <3>2. task[t].kind = "install" /\ task[t].pc \in Extracted BY <2>1, <3>1 DEF CallFits
    <3>3. to \in Extracted BY <1>1, <3>2 DEF LabelStep, Install
    <3>4. task'[t].pc \in Extracted /\ task'[t].kind = "install" BY <1>1, <3>2, <3>3 DEF TaskChange, TaskMove
    <3> QED BY <1>2, <2>2, <3>1, <3>4 DEF CallFits, Asking
  <2>3. CASE calls[i].task # t
    BY <1>1, <1>2, <2>1, <2>3 DEF CallFits, TaskChange, TaskMove, Asking
  <2> QED BY <2>2, <2>3
<1>5. CASE calls' = calls
  BY <1>4, <1>5, CallsKept DEF TypeOK
<1>6. ASSUME NEW op \in Ops \ {"executeNextTask"}, Post(op, t),
             op \in Asking \cup {"finished"} => to = op,
             op = "finishedExtraction" => Install(t) /\ task[t].pc = "unpack" /\ to = "awaitAck"
      PROVE  CallsMatchLabels' /\ calls' \in Seq(Call)
  <2> DEFINE call == [task |-> t, op |-> op]
  <2>1. call \in Call /\ call.task = t /\ call.op = op BY DEF Call
  <2>2. CallFits(call, task', active')
    <3>1. CASE op \in Asking \cup {"finished"}
      BY <1>1, <1>2, <1>6, <3>1 DEF CallFits, TaskChange, TaskMove, Asking
    <3>2. CASE op = "finishedExtraction"
      <4>1. t = active BY <1>6, <3>2 DEF OneExtracts, Extracting
      <4>2. task'[t].pc = "awaitAck" /\ task'[t].kind = "install"
        BY <1>1, <1>6, <3>2 DEF TaskChange, TaskMove, Install
      <4> QED BY <1>1, <1>2, <3>2, <4>1, <4>2 DEF CallFits, Extracted, Asking
    <3> QED BY <3>1, <3>2 DEF Ops
  <2>3. \A i \in 1 .. Len(calls) : InOrder(calls[i], call)
    <3> SUFFICES ASSUME NEW i \in 1 .. Len(calls), calls[i].task = t
                 PROVE  calls[i].op = "finishedExtraction" /\ op # "finishedExtraction"
      BY <2>1 DEF InOrder
    <3>1. calls[i].op = "finishedExtraction" BY <1>3
    <3>2. task[t].pc \in Extracted
      BY <3>1, CallTyped DEF CallsMatchLabels, CallFits
    <3> QED BY <1>6, <3>1, <3>2 DEF Extracted, Finishing
  <2>4. calls' = Append(calls, call) BY <1>6 DEF Post
  <2> HIDE DEF call
  <2> QED BY <1>4, <2>1, <2>2, <2>3, <2>4, CallsPosted
<1>7. \/ calls' = calls
      \/ \E op \in Ops \ {"executeNextTask"} :
            /\ Post(op, t)
            /\ op \in Asking \cup {"finished"} => to = op
            /\ op = "finishedExtraction" => Install(t) /\ task[t].pc = "unpack" /\ to = "awaitAck"
  BY <1>1 DEF CallStep, Ops, Asking
<1> QED BY <1>5, <1>6, <1>7

LEMMA WorkerPreserves ==
    ASSUME Inv, NEW t \in Tasks, WorkerMove(t)
    PROVE  Inv'
<1> USE DEF Inv
<1>1. PICK to \in Labels : TaskMove(t, to) /\ LabelStep(t, to)
  BY DEF WorkerMove
<1>2. UNCHANGED <<incoming, active, installing, pkg, app, ready, crashes>>
  BY DEF WorkerMove
<1>3. CallsMatchLabels' /\ calls' \in Seq(Call)
  BY WorkerKeepsCalls
<1>4. TypeOK'
  BY <1>1, <1>2, <1>3 DEF TypeOK, TaskChange, TaskMove, WorkerMove
<1>5. Listed'
  <2>1. \A u \in Tasks : /\ Started(u)' <=> Started(u)
                         /\ At(u, "queued")' <=> At(u, "queued")
    BY <1>1 DEF TaskChange, TaskMove, LabelStep, Started, At
  <2>2. \A i \in 1 .. Len(incoming) : incoming[i] \in Tasks BY DEF TypeOK
  <2>3. \A i \in 1 .. Len(incoming) : At(incoming[i], "queued")' BY <1>2, <2>1, <2>2 DEF Listed, At
  <2> QED BY <1>2, <2>1, <2>3 DEF Listed
<1>6. ApprovalMatchesLabel'
  BY <1>1 DEF ApprovalMatchesLabel, TaskChange, TaskMove, LabelStep
<1>7. OneExtracts'
  BY <1>1, <1>2 DEF OneExtracts, TaskChange, TaskMove, LabelStep, Install, PkgOf, TypeOK
<1>8. BlockedByItsTask'
  <2>1. \A u \in Tasks, p \in Packages : Holds(u, p)' <=> Holds(u, p)
    BY <1>1 DEF TaskChange, TaskMove, LabelStep, Holds, PkgOf
  <2>2. \A p \in Packages : InHand(p)' <=> InHand(p)
    BY <2>1 DEF InHand
  <2> QED BY <1>2, <2>1, <2>2 DEF BlockedByItsTask
<1> QED BY <1>3, <1>4, <1>5, <1>6, <1>7, <1>8

-----------------------------------------------------------------------------
(* What the hand-over of a package between the manager and a task does to
   BlockedByItsTask: kept, released, acquired. *)

LEMMA KeepsHold ==
    ASSUME Inv, NEW t \in Tasks, NEW to \in Labels, TaskChange(t, to),
           task[t].pc \in Holding <=> to \in Holding,
           \A p \in Packages : /\ pkg'[p].blocked = pkg[p].blocked
                               /\ (pkg'[p].state = "Installed") = (pkg[p].state = "Installed")
    PROVE  BlockedByItsTask'
<1>1. \A u \in Tasks, p \in Packages : Holds(u, p)' <=> Holds(u, p)
  BY DEF TaskChange, Holds, PkgOf
<1>2. \A p \in Packages : InHand(p)' <=> InHand(p)
  BY <1>1 DEF InHand
<1> QED BY <1>1, <1>2 DEF Inv, BlockedByItsTask

LEMMA Releases ==
    ASSUME Inv, NEW t \in Tasks, NEW to \in Labels \ Holding, TaskChange(t, to),
           task[t].pc \in Holding,
           NEW q \in Packages, q = PkgOf(t),
           pkg'[q].blocked = 0, pkg'[q].state = "Installed",
           \A p \in Packages \ {q} : pkg'[p] = pkg[p]
    PROVE  BlockedByItsTask'
<1>1. \A u \in Tasks, p \in Packages : Holds(u, p)' <=> Holds(u, p) /\ u # t
  BY DEF TaskChange, Holds, PkgOf
<1>2. Holds(t, q) BY DEF Holds
<1>3. \A p \in Packages \ {q} : InHand(p)' <=> InHand(p)
  BY <1>1 DEF InHand, Holds
<1>4. \A u \in Tasks : ~Holds(u, q)'
  BY <1>1, <1>2 DEF Inv, BlockedByItsTask
<1>5. ~InHand(q)'
  BY <1>4 DEF InHand
<1> SUFFICES ASSUME NEW p \in Packages
             PROVE  /\ \A u, v \in Tasks : Holds(u, p)' /\ Holds(v, p)' => u = v
                    /\ pkg'[p].blocked = IF InHand(p)' THEN 1 ELSE 0
                    /\ (pkg'[p].state = "Installed") = ~InHand(p)'
  BY DEF BlockedByItsTask
<1>6. \A u, v \in Tasks : Holds(u, p)' /\ Holds(v, p)' => u = v
  BY <1>1 DEF Inv, BlockedByItsTask
<1>7. CASE p = q BY <1>5, <1>6, <1>7
<1>8. CASE p # q BY <1>3, <1>6, <1>8 DEF Inv, BlockedByItsTask
<1> QED BY <1>7, <1>8

LEMMA Acquires ==
    ASSUME Inv, NEW t \in Tasks, NEW to \in Holding, TaskChange(t, to),
           NEW q \in Packages, q = PkgOf(t), ~InHand(q),
           pkg'[q].blocked = 1, pkg'[q].state # "Installed",
           \A p \in Packages \ {q} : pkg'[p] = pkg[p]
    PROVE  BlockedByItsTask'
<1>0. /\ \A p \in Packages : Holds(t, p)' <=> p = q
      /\ \A u \in Tasks \ {t}, p \in Packages : Holds(u, p)' <=> Holds(u, p)
  BY DEF TaskChange, Holds, PkgOf
<1>1. \A u \in Tasks, p \in Packages :
        p # q => (Holds(u, p)' <=> Holds(u, p))
  BY <1>0 DEF Holds
<1>2. \A p \in Packages \ {q} : InHand(p)' <=> InHand(p)
  <2> SUFFICES ASSUME NEW p \in Packages, p # q PROVE InHand(p)' <=> InHand(p)
    OBVIOUS
  <2>1. \A u \in Tasks : Holds(u, p)' <=> Holds(u, p) BY <1>1
  <2> QED BY <2>1 DEF InHand
<1>3. \A u \in Tasks : Holds(u, q)' <=> u = t
  BY <1>0 DEF InHand
<1>4. InHand(q)' BY <1>3 DEF InHand
<1> SUFFICES ASSUME NEW p \in Packages
             PROVE  /\ \A u, v \in Tasks : Holds(u, p)' /\ Holds(v, p)' => u = v
                    /\ pkg'[p].blocked = IF InHand(p)' THEN 1 ELSE 0
                    /\ (pkg'[p].state = "Installed") = ~InHand(p)'
  BY DEF BlockedByItsTask
<1>5. CASE p = q BY <1>3, <1>4, <1>5
<1>6. CASE p # q
  <2>1. \A u, v \in Tasks : Holds(u, p)' /\ Holds(v, p)' => u = v
    BY <1>1, <1>6 DEF Inv, BlockedByItsTask
  <2> QED BY <1>2, <1>6, <2>1 DEF Inv, BlockedByItsTask
<1> QED BY <1>5, <1>6

-----------------------------------------------------------------------------
(* The event loop answers a worker. *)

LEMMA AskedFor ==
    ASSUME Inv, NEW t \in Tasks, NEW op \in Asking, Answered(t, op)
    PROVE  /\ task[t].pc = op
           /\ \A i \in 2 .. Len(calls) : calls[i].task # t
           /\ calls # <<>> /\ calls' = Tail(calls)
<1>1. Len(calls) \in Nat \ {0} /\ calls[1] = Head(calls) BY DEF Inv, TypeOK, Answered, Take
<1>2. calls[1].op = op /\ calls[1].task = t BY <1>1 DEF Answered, Take
<1>3. CallFits(calls[1], task, active) BY <1>1 DEF Inv, CallsMatchLabels
<1>4. task[t].pc = op BY <1>2, <1>3 DEF CallFits
<1>5. \A i \in 2 .. Len(calls) : InOrder(calls[1], calls[i])
  BY <1>1 DEF Inv, CallsMatchLabels
<1>6. \A i \in 2 .. Len(calls) : calls[i].task # t
  BY <1>2, <1>5, ConstantsAssumption DEF InOrder, Asking
<1> QED BY <1>4, <1>6 DEF Answered, Take, CallsDone

(* All of the invariant but BlockedByItsTask, which each answer changes in its way. *)
LEMMA AnswerPreserves ==
    ASSUME Inv, NEW t \in Tasks, NEW op \in Asking, Answered(t, op),
           NEW to \in Labels \ ({"unused", "queued", "gone"} \cup Asking), TaskChange(t, to),
           UNCHANGED <<queues, disk, ready, crashes>>,
           pkg' \in [Packages -> Package], app' \in [Apps -> RunStates],
           to \in Holding => task'[t].approved, to \in Early => ~task'[t].approved,
           Install(t) /\ to \in Extracting => op \in Extracting,
           to = "startInstallation" => ~IsPackageInstallationActive(PkgOf(t)),
           BlockedByItsTask'
    PROVE  Inv'
<1> USE DEF Inv
<1>1. /\ task[t].pc = op /\ calls # <<>> /\ calls' = Tail(calls)
      /\ \A i \in 2 .. Len(calls) : calls[i].task # t
  BY AskedFor
<1>2. UNCHANGED <<incoming, active, installing, disk, ready, crashes>> BY DEF queues
<1>3. \A i \in 2 .. Len(calls) : CallFits(calls[i], task', active')
  <2> SUFFICES ASSUME NEW i \in 2 .. Len(calls) PROVE CallFits(calls[i], task', active)
    BY <1>2
  <2>1. i \in 1 .. Len(calls) BY DEF TypeOK
  <2>2. CallFits(calls[i], task, active) BY <2>1 DEF CallsMatchLabels
  <2>3. calls[i].task \in Tasks \cup {None} /\ calls[i].task # t BY <1>1, <2>1, CallTyped
  <2>4. None \notin Tasks BY ConstantsAssumption
  <2> QED BY <2>2, <2>3, <2>4 DEF CallFits, TaskChange, Asking
<1>4. CallsMatchLabels' /\ calls' \in Seq(Call)
  BY <1>1, <1>3, CallsTaken
<1>5. TypeOK'
  BY <1>2, <1>4 DEF TypeOK, TaskChange
<1>6. Listed'
  <2>1. \A u \in Tasks : /\ Started(u)' <=> Started(u)
                         /\ At(u, "queued")' <=> At(u, "queued")
    BY <1>1 DEF TaskChange, Started, At, Asking
  <2>2. \A i \in 1 .. Len(incoming) : incoming[i] \in Tasks BY DEF TypeOK
  <2>3. \A i \in 1 .. Len(incoming) : At(incoming[i], "queued")' BY <1>2, <2>1, <2>2 DEF Listed, At
  <2> QED BY <1>2, <2>1, <2>3 DEF Listed
<1>7. ApprovalMatchesLabel'
  BY DEF ApprovalMatchesLabel, TaskChange
<1>8. OneExtracts'
  <2>1. task[t].pc \in Extracting => (Install(t) => t = active) BY DEF OneExtracts
  <2>2. \A u \in Tasks : PkgOf(u)' = PkgOf(u) /\ (Install(u)' <=> Install(u))
    BY DEF TaskChange, PkgOf, Install
  <2>3. \A u \in installing : u \in Tasks BY DEF TypeOK
  <2> SUFFICES ASSUME NEW u \in Tasks
               PROVE  /\ task'[u].pc = "askApproval" => Install(u)
                      /\ task'[u].pc = "askRemoval" => ~Install(u)
                      /\ Install(u) =>
                            /\ task'[u].pc \in Extracting => u = active
                            /\ task'[u].pc \in {"startInstallation", "askApproval"} =>
                                   \A v \in installing : PkgOf(v) # PkgOf(u)
    BY <1>2, <2>2, <2>3 DEF OneExtracts
  <2>4. CASE u = t
    BY <1>1, <2>1, <2>4 DEF TaskChange, Asking, IsPackageInstallationActive
  <2>5. CASE u # t
    BY <2>5 DEF TaskChange, OneExtracts
  <2> QED BY <2>4, <2>5
<1> QED BY <1>4, <1>5, <1>6, <1>7, <1>8

LEMMA ApproveChange ==
    ASSUME TypeOK, NEW t \in Tasks, Approve(t)
    PROVE  TaskChange(t, "waitStop") /\ task'[t].approved
<1> DEFINE r == [task[t] EXCEPT !.pc = "waitStop", !.approved = TRUE]
<1>1. task \in [Tasks -> Task] /\ task[t] \in Task BY DEF TypeOK
<1>2. r \in Task /\ r.pc = "waitStop" /\ r.kind = task[t].kind /\ r.pkg = task[t].pkg /\ r.approved
  BY <1>1 DEF Task, Labels
<1>3. task' = [task EXCEPT ![t] = r] BY <1>1 DEF Approve, Task
<1> HIDE DEF r
<1> QED BY <1>1, <1>2, <1>3 DEF TaskChange

LEMMA PackageTyped ==
    ASSUME TypeOK, NEW p \in Packages
    PROVE  /\ pkg[p] \in Package /\ pkg[p].ver \in Version \cup {None}
           /\ pkg[p].pending \in Version \cup {None}
           /\ \A r \in Package : /\ [pkg EXCEPT ![p] = r] \in [Packages -> Package]
                                 /\ [pkg EXCEPT ![p] = r][p] = r
                                 /\ \A q \in Packages \ {p} : [pkg EXCEPT ![p] = r][q] = pkg[q]
BY DEF TypeOK, Package, Version

LEMMA AppsTyped ==
    ASSUME TypeOK, NEW p \in Packages
    PROVE  /\ StopApps(p) => app' \in [Apps -> RunStates]
           /\ Unregister(p) => app' \in [Apps -> RunStates]
           /\ UNCHANGED app => app' \in [Apps -> RunStates]
BY DEF TypeOK, StopApps, Unregister, RunStates

LEMMA BlockedTyped ==
    ASSUME TypeOK, NEW p \in Packages, pkg[p].blocked = 0, NEW s \in PackageStates
    PROVE  \E r \in Package : /\ [Blocked(p) EXCEPT !.state = s] = r
                              /\ r.state = s /\ r.blocked = 1
<1>1. pkg[p] \in Package BY PackageTyped
<1> DEFINE w == {a \in AppsOf(p) : app[a] \in {"Running", "ShuttingDown"}}
           r == [pkg[p] EXCEPT !.blocked = 1, !.waiting = w, !.state = s]
<1>2. w \in SUBSET Apps BY DEF AppsOf
<1>3. Blocked(p) = [pkg[p] EXCEPT !.blocked = 1, !.waiting = w]
  BY <1>1 DEF Blocked, IsBlocked, Package
<1> HIDE DEF w
<1>4. [Blocked(p) EXCEPT !.state = s] = r
  BY <1>1, <1>3 DEF Package
<1>5. r \in Package BY <1>1, <1>2 DEF Package
<1>6. r.state = s /\ r.blocked = 1 BY <1>1 DEF Package
<1> QED BY <1>4, <1>5, <1>6

LEMMA BlockedPendingTyped ==
    ASSUME TypeOK, NEW p \in Packages, pkg[p].blocked = 0, NEW t \in Tasks
    PROVE  \E r \in Package : /\ [Blocked(p) EXCEPT !.state = "BeingUpdated", !.pending = t] = r
                              /\ r.state = "BeingUpdated" /\ r.blocked = 1
<1>1. PICK b \in Package : /\ [Blocked(p) EXCEPT !.state = "BeingUpdated"] = b
                           /\ b.state = "BeingUpdated" /\ b.blocked = 1
  BY BlockedTyped DEF PackageStates
<1> DEFINE r == [b EXCEPT !.pending = t]
<1>2. r \in Package /\ r.state = "BeingUpdated" /\ r.blocked = 1 BY <1>1 DEF Package
<1>3. [Blocked(p) EXCEPT !.state = "BeingUpdated", !.pending = t] = r BY <1>1
<1> HIDE DEF r
<1> QED BY <1>2, <1>3

LEMMA AnswerIsActivePreserves ==
    ASSUME Inv, NEW t \in Tasks, AnswerIsActive(t)
    PROVE  Inv'
<1>1. TypeOK BY DEF Inv
<1>2. PICK to \in {"declined", "startInstallation"} :
         /\ Goto(t, to) /\ (to = "startInstallation" => ~IsPackageInstallationActive(PkgOf(t)))
  BY DEF AnswerIsActive
<1>3. to \in Labels /\ TaskMove(t, to) BY <1>1, <1>2, GotoMove DEF Labels
<1>4. task[t].pc = "askActive" /\ Answered(t, "askActive") /\ "askActive" \in Asking
  BY AskedFor DEF AnswerIsActive, Asking
<1>5. ~task[t].approved BY <1>4 DEF Inv, ApprovalMatchesLabel, Early
<1>6. UNCHANGED <<queues, pkg, app, disk, ready, crashes>> BY DEF AnswerIsActive
<1>7. pkg' \in [Packages -> Package] /\ app' \in [Apps -> RunStates]
  BY <1>1, <1>6 DEF TypeOK
<1>8. BlockedByItsTask'
  BY <1>2, <1>3, <1>4, <1>6, KeepsHold DEF TaskMove, Holding, Finishing
<1> QED BY <1>2, <1>3, <1>4, <1>5, <1>6, <1>7, <1>8, AnswerPreserves
        DEF TaskMove, Holding, Finishing, Early, Extracting, Asking

LEMMA StartingPackageInstallationPreserves ==
    ASSUME Inv, NEW t \in Tasks, StartingPackageInstallation(t)
    PROVE  Inv'
<1> DEFINE p == PkgOf(t)
<1>1. TypeOK /\ p \in Packages BY TypedFields DEF Inv, PkgOf
<1>2. task[t].pc = "askApproval" /\ Answered(t, "askApproval") /\ "askApproval" \in Asking
  BY AskedFor DEF StartingPackageInstallation, Asking
<1>3. UNCHANGED <<queues, disk, ready, crashes>> BY DEF StartingPackageInstallation
<1>4. ~InHand(p)
  <2> SUFFICES ASSUME NEW u \in Tasks, Holds(u, p) PROVE FALSE BY DEF InHand
  <2>1. Install(t) /\ t = active /\ \A v \in installing : PkgOf(v) # p
    BY <1>2 DEF Inv, OneExtracts, Extracting
  <2>2. u = active \/ u \in installing
    BY DEF Inv, Listed, Started, Holds, Holding, Finishing, Asking
  <2> QED BY <1>2, <2>1, <2>2 DEF Holds, Holding, Finishing
<1>5. pkg[p].blocked = 0 /\ ~IsBlocked(p)
  BY <1>1, <1>4 DEF Inv, BlockedByItsTask, IsBlocked
<1>6. Approve(t) /\ app' \in [Apps -> RunStates]
  BY <1>1, <1>5, AppsTyped DEF StartingPackageInstallation
<1>7. PICK r \in Package : /\ pkg' = [pkg EXCEPT ![p] = r]
                           /\ r.blocked = 1 /\ r.state # "Installed"
  <2>1. CASE pkg[p].known
    <3>1. pkg' = [pkg EXCEPT ![p] = [Blocked(p) EXCEPT !.state = "BeingUpdated", !.pending = t]]
      BY <1>5, <2>1 DEF StartingPackageInstallation
    <3> QED BY <1>1, <1>5, <3>1, BlockedPendingTyped
  <2>2. CASE ~pkg[p].known
    <3> DEFINE r == [Registered(t) EXCEPT !.state = "BeingInstalled", !.blocked = 1]
    <3>1. pkg' = [pkg EXCEPT ![p] = r] BY <2>2 DEF StartingPackageInstallation
    <3>2. r \in Package /\ r.blocked = 1 /\ r.state = "BeingInstalled"
      BY DEF Registered, Absent, Package, PackageStates, Version
    <3> HIDE DEF r
    <3> QED BY <3>1, <3>2
  <2> QED BY <2>1, <2>2
<1>8. TaskChange(t, "waitStop") /\ task'[t].approved BY <1>1, <1>6, ApproveChange
<1>9. /\ pkg' \in [Packages -> Package] /\ pkg'[p] = r
      /\ \A q \in Packages \ {p} : pkg'[q] = pkg[q]
  BY <1>1, <1>7, PackageTyped
<1>10. BlockedByItsTask'
  BY <1>1, <1>4, <1>7, <1>8, <1>9, Acquires DEF Holding
<1>11. "waitStop" \in Labels \ ({"unused", "queued", "gone"} \cup Asking)
  BY DEF Labels, Asking
<1> QED BY <1>2, <1>3, <1>6, <1>8, <1>9, <1>10, <1>11, AnswerPreserves DEF Early, Extracting

LEMMA StartingPackageRemovalPreserves ==
    ASSUME Inv, NEW t \in Tasks, StartingPackageRemoval(t)
    PROVE  Inv'
<1> DEFINE p == PkgOf(t)
<1>1. TypeOK /\ p \in Packages BY TypedFields DEF Inv, PkgOf
<1>2. task[t].pc = "askRemoval" /\ Answered(t, "askRemoval") /\ "askRemoval" \in Asking
  BY AskedFor DEF StartingPackageRemoval, Asking
<1>3. UNCHANGED <<queues, disk, ready, crashes>> BY DEF StartingPackageRemoval
<1>4. ~Install(t) BY <1>2 DEF Inv, OneExtracts
<1>5. CASE Goto(t, "declined") /\ UNCHANGED <<pkg, app>>
  <2>1. "declined" \in Labels \ ({"unused", "queued", "gone"} \cup Asking)
    BY DEF Labels, Asking
  <2>2. TaskMove(t, "declined") BY <1>1, <1>5, <2>1, GotoMove
  <2>3. ~task[t].approved BY <1>2 DEF Inv, ApprovalMatchesLabel, Early
  <2>4. BlockedByItsTask'
    BY <1>2, <1>5, <2>1, <2>2, KeepsHold DEF TaskMove, Holding, Finishing
  <2>5. pkg' \in [Packages -> Package] /\ app' \in [Apps -> RunStates] BY <1>1, <1>5 DEF TypeOK
  <2> QED BY <1>2, <1>3, <1>4, <2>1, <2>2, <2>3, <2>4, <2>5, AnswerPreserves
          DEF TaskMove, Holding, Finishing
<1>6. CASE /\ ~IsBlocked(p) /\ StopApps(p) /\ Approve(t)
           /\ pkg' = [pkg EXCEPT ![p] = [Blocked(p) EXCEPT
                 !.state = IF HasRemovableUpdate(p) THEN "BeingDowngraded" ELSE "BeingRemoved"]]
  <2>1. pkg[p].blocked = 0 /\ ~InHand(p)
    BY <1>1, <1>6 DEF Inv, BlockedByItsTask, IsBlocked
  <2>2. PICK r \in Package : /\ pkg' = [pkg EXCEPT ![p] = r]
                             /\ r.blocked = 1 /\ r.state # "Installed"
    <3>1. PICK s \in PackageStates :
             pkg' = [pkg EXCEPT ![p] = [Blocked(p) EXCEPT !.state = s]] /\ s # "Installed"
      BY <1>6 DEF PackageStates
    <3>2. PICK r \in Package : [Blocked(p) EXCEPT !.state = s] = r /\ r.state = s /\ r.blocked = 1
      BY <1>1, <2>1, BlockedTyped
    <3> QED BY <3>1, <3>2
  <2>3. TaskChange(t, "waitStop") /\ task'[t].approved BY <1>1, <1>6, ApproveChange
  <2>4. /\ pkg' \in [Packages -> Package] /\ pkg'[p] = r
        /\ \A q \in Packages \ {p} : pkg'[q] = pkg[q]
    BY <1>1, <2>2, PackageTyped
  <2>5. BlockedByItsTask'
    BY <1>1, <2>1, <2>2, <2>3, <2>4, Acquires DEF Holding
  <2>6. "waitStop" \in Labels \ ({"unused", "queued", "gone"} \cup Asking)
    BY DEF Labels, Asking
  <2>7. app' \in [Apps -> RunStates] BY <1>1, <1>6, AppsTyped
  <2> QED BY <1>2, <1>3, <1>4, <2>3, <2>4, <2>5, <2>6, <2>7, AnswerPreserves DEF Early
<1> QED BY <1>5, <1>6 DEF StartingPackageRemoval

(* the manager gives the package back: it is unblocked, whatever became of the task *)
LEMMA ReleasePreserves ==
    ASSUME Inv, NEW t \in Tasks, NEW op \in {"askFinish", "askCancel"}, Answered(t, op),
           NEW to \in {"end", "setError"}, Goto(t, to),
           UNCHANGED <<queues, disk, ready, crashes>>,
           NEW r \in Package, r.blocked = 0, r.state = "Installed",
           pkg' = [pkg EXCEPT ![PkgOf(t)] = r], app' \in [Apps -> RunStates]
    PROVE  Inv'
<1>1. TypeOK /\ PkgOf(t) \in Packages BY TypedFields DEF Inv, PkgOf
<1>2. op \in Asking /\ to \in Labels \ ({"unused", "queued", "gone"} \cup Asking)
  BY DEF Labels, Asking
<1>3. task[t].pc = op BY <1>2, AskedFor
<1>4. TaskMove(t, to) BY <1>1, <1>2, GotoMove
<1>5. /\ pkg' \in [Packages -> Package] /\ pkg'[PkgOf(t)] = r
      /\ \A q \in Packages \ {PkgOf(t)} : pkg'[q] = pkg[q]
  BY <1>1, PackageTyped
<1>6. to \notin Holding /\ to \notin Early /\ to \notin Extracting /\ op \in Holding
  BY DEF Holding, Finishing, Early, Extracting
<1>7. BlockedByItsTask'
  BY <1>1, <1>2, <1>3, <1>4, <1>5, <1>6, Releases DEF TaskMove
<1> QED BY <1>1, <1>2, <1>4, <1>5, <1>6, <1>7, AnswerPreserves DEF TaskMove

LEMMA InHandOfAsker ==
    ASSUME Inv, NEW t \in Tasks, NEW op \in {"askFinish", "askCancel"}, Answered(t, op)
    PROVE  pkg[PkgOf(t)].blocked = 1 /\ pkg[PkgOf(t)].state # "Installed"
<1>1. PkgOf(t) \in Packages BY TypedFields DEF Inv, PkgOf
<1>2. task[t].pc = op BY AskedFor DEF Asking
<1>3. InHand(PkgOf(t)) BY <1>2 DEF InHand, Holds, Holding
<1> QED BY <1>1, <1>3 DEF Inv, BlockedByItsTask

LEMMA AbsentTyped == Absent \in Package /\ Absent.blocked = 0 /\ Absent.state = "Installed"
BY DEF Absent, Package, PackageStates

LEMMA UnblockedTyped ==
    ASSUME NEW r \in Package, r.blocked = 1, r.state = "Installed"
    PROVE  Unblocked(r) \in Package /\ Unblocked(r).blocked = 0 /\ Unblocked(r).state = "Installed"
<1> DEFINE free == [r EXCEPT !.blocked = 0, !.waiting = {}]
<1>1. Unblocked(r) = free BY DEF Unblocked, Package
<1>2. 0 \in Nat /\ {} \in SUBSET Apps OBVIOUS
<1>3. free \in Package BY <1>2 DEF Package
<1>4. free.blocked = 0 /\ free.state = "Installed" BY DEF Package
<1> QED BY <1>1, <1>3, <1>4

LEMMA CompletedTyped ==
    ASSUME TypeOK, NEW p \in Packages, pkg[p].blocked = 1
    PROVE  Completed(p) \in Package /\ Completed(p).blocked = 0 /\ Completed(p).state = "Installed"
<1> DEFINE v == IF pkg[p].state = "BeingUpdated" THEN pkg[p].pending
                ELSE IF pkg[p].state = "BeingDowngraded" THEN Base ELSE pkg[p].ver
           r == [pkg[p] EXCEPT !.state = "Installed", !.pending = None, !.ver = v]
<1>1. pkg[p] \in Package /\ v \in Version \cup {None} BY PackageTyped DEF Version
<1>2. Completed(p) = Unblocked(r) BY <1>1 DEF Completed, Package
<1>3. r \in Package /\ r.blocked = 1 /\ r.state = "Installed"
  <2> HIDE DEF v
  <2> QED BY <1>1 DEF Package, PackageStates
<1> QED BY <1>2, <1>3, UnblockedTyped

LEMMA FinishedPackageInstallPreserves ==
    ASSUME "readback" \notin Faults, Inv, NEW t \in Tasks, FinishedPackageInstall(t)
    PROVE  Inv'
<1> DEFINE p == PkgOf(t)
<1>1. TypeOK /\ p \in Packages BY TypedFields DEF Inv, PkgOf
<1>2. pkg[p].blocked = 1 /\ pkg[p].state # "Installed" /\ Answered(t, "askFinish") /\ Goto(t, "end")
  BY InHandOfAsker DEF FinishedPackageInstall
<1>3. app' \in [Apps -> RunStates]
  BY <1>1, AppsTyped DEF FinishedPackageInstall
<1>4. \/ pkg' = [pkg EXCEPT ![p] = Completed(p)]
      \/ pkg' = [pkg EXCEPT ![p] = Absent]
  BY <1>2 DEF FinishedPackageInstall, MayFail
<1>5. PICK r \in Package : pkg' = [pkg EXCEPT ![p] = r] /\ r.blocked = 0 /\ r.state = "Installed"
  BY <1>1, <1>2, <1>4, CompletedTyped, AbsentTyped
<1> QED BY <1>2, <1>3, <1>5, ReleasePreserves DEF FinishedPackageInstall

LEMMA CanceledPackageInstallPreserves ==
    ASSUME Inv, NEW t \in Tasks, CanceledPackageInstall(t)
    PROVE  Inv'
<1> DEFINE p == PkgOf(t)
           kept == [pkg[p] EXCEPT !.state = "Installed", !.pending = None]
<1>1. TypeOK /\ p \in Packages BY TypedFields DEF Inv, PkgOf
<1>2. pkg[p].blocked = 1 /\ pkg[p].state # "Installed" /\ Answered(t, "askCancel")
  BY InHandOfAsker DEF CanceledPackageInstall
<1>3. app' \in [Apps -> RunStates] BY <1>1 DEF CanceledPackageInstall, TypeOK
<1>4. pkg' = [pkg EXCEPT ![p] = Unblocked(kept)] \/ pkg' = [pkg EXCEPT ![p] = Absent]
  BY <1>2 DEF CanceledPackageInstall
<1>5. kept \in Package /\ kept.blocked = 1 /\ kept.state = "Installed"
  BY <1>1, <1>2, PackageTyped DEF Package, PackageStates
<1> HIDE DEF kept
<1>6. PICK r \in Package : pkg' = [pkg EXCEPT ![p] = r] /\ r.blocked = 0 /\ r.state = "Installed"
  BY <1>4, <1>5, UnblockedTyped, AbsentTyped
<1>7. PICK to \in {"end", "setError"} : Goto(t, to) BY DEF CanceledPackageInstall
<1> QED BY <1>2, <1>3, <1>6, <1>7, ReleasePreserves DEF CanceledPackageInstall

-----------------------------------------------------------------------------
(* The other slots of the event loop. *)

LEMMA RegisterPackagesPreserves ==
    ASSUME Inv, RegisterPackages
    PROVE  Inv'
<1>1. /\ ~ready /\ ready' = TRUE
      /\ UNCHANGED <<task, incoming, active, installing, app, crashes>>
      /\ calls' = Append(calls, Trigger)
  BY DEF RegisterPackages, queues, TriggerExecuteNextTask, Post, Trigger
<1>2. \A t \in Tasks : ~Started(t)
  BY <1>1, ConstantsAssumption DEF Inv, Listed
<1>3. Trigger \in Call /\ CallFits(Trigger, task', active')
        /\ \A call \in Call : InOrder(call, Trigger)
  BY ConstantsAssumption DEF Trigger, Call, Ops, CallFits, InOrder, Asking
<1>4. \A i \in 1 .. Len(calls) : CallFits(calls[i], task', active')
  BY <1>1 DEF Inv, CallsMatchLabels, CallFits
<1>5. \A i \in 1 .. Len(calls) : InOrder(calls[i], Trigger)
  BY <1>3, CallTyped DEF Inv
<1>6. CallsMatchLabels' /\ calls' \in Seq(Call)
  <2> HIDE DEF Trigger
  <2> QED BY <1>1, <1>3, <1>4, <1>5, CallsPosted DEF Inv
<1>7. pkg' \in [Packages -> Package]
        /\ \A p \in Packages : pkg'[p].blocked = 0 /\ pkg'[p].state = "Installed"
  <2>1. \A v \in Version : Registered(v) \in Package /\ Registered(v).blocked = 0
                                /\ Registered(v).state = "Installed"
    BY DEF Registered, Absent, Package, PackageStates
  <2>2. \A p \in Packages : Loadable(disk[p]) => disk[p].app.ver \in Version
    BY DEF Inv, TypeOK, PackageDirs, Dir, Content, Loadable, Exists
  <2>3. Base \in Version BY DEF Version
  <2>4. \A p \in Packages : pkg'[p] \in Package /\ pkg'[p].blocked = 0
                                /\ pkg'[p].state = "Installed"
    BY <2>1, <2>2, <2>3, AbsentTyped DEF RegisterPackages
  <2> QED BY <2>4 DEF RegisterPackages
<1>8. disk' \in [Packages -> PackageDirs]
  <2>1. \A p \in Packages : CleanedUp(disk[p]) \in PackageDirs
    BY DEF Inv, TypeOK, CleanedUp, PackageDirs, Dir, Loadable
  <2> QED BY <2>1 DEF RegisterPackages
<1>9. TypeOK' BY <1>1, <1>6, <1>7, <1>8 DEF Inv, TypeOK
<1>10. Listed' BY <1>1 DEF Inv, Listed, Started, At
<1>11. ApprovalMatchesLabel' BY <1>1 DEF Inv, ApprovalMatchesLabel
<1>12. OneExtracts' BY <1>1 DEF Inv, OneExtracts, Install, PkgOf
<1>13. BlockedByItsTask'
  <2>1. \A p \in Packages, t \in Tasks : ~Holds(t, p)'
    BY <1>1, <1>2 DEF Holds, Holding, Finishing, Started
  <2>2. \A p \in Packages : ~InHand(p)' BY <2>1 DEF InHand
  <2> QED BY <1>7, <2>1, <2>2 DEF BlockedByItsTask
<1> QED BY <1>6, <1>9, <1>10, <1>11, <1>12, <1>13 DEF Inv

LEMMA HeadOfCalls ==
    ASSUME Inv, NEW op \in Ops, Take(op)
    PROVE  /\ calls # <<>> /\ 1 \in 1 .. Len(calls) /\ calls[1] = Head(calls) /\ calls[1].op = op
           /\ CallFits(calls[1], task, active)
           /\ \A i \in 2 .. Len(calls) :
                 /\ CallFits(calls[i], task, active) /\ InOrder(calls[1], calls[i])
                 /\ calls[i].task \in Tasks \cup {None} /\ calls[i].op \in Ops
<1>1. calls # <<>> /\ 1 \in 1 .. Len(calls) /\ calls[1] = Head(calls) /\ calls[1].op = op
  BY DEF Inv, TypeOK, Take
<1>2. \A i \in 2 .. Len(calls) : i \in 1 .. Len(calls) /\ 1 < i
  BY DEF Inv, TypeOK
<1> QED BY <1>1, <1>2, CallTyped DEF Inv, CallsMatchLabels

LEMMA ExecuteNextTaskPreserves ==
    ASSUME Inv, ExecuteNextTask
    PROVE  Inv'
<1>1. TypeOK /\ None \notin Tasks BY ConstantsAssumption DEF Inv
<1>2. /\ calls # <<>> /\ calls' = Tail(calls)
      /\ \A i \in 2 .. Len(calls) :
            /\ CallFits(calls[i], task, active)
            /\ calls[i].task \in Tasks \cup {None} /\ calls[i].op \in Ops
  BY HeadOfCalls DEF ExecuteNextTask, CallsDone, Ops
<1>3. UNCHANGED <<installing, pkg, app, disk, ready, crashes>> BY DEF ExecuteNextTask
<1>4. CASE UNCHANGED <<task, incoming, active>>
  <2>1. CallsMatchLabels' /\ calls' \in Seq(Call)
    BY <1>2, <1>4, CallsTaken DEF Inv
  <2>2. TypeOK' BY <1>3, <1>4, <2>1 DEF Inv, TypeOK
  <2>3. Listed' /\ ApprovalMatchesLabel' /\ OneExtracts' /\ BlockedByItsTask'
    BY <1>3, <1>4 DEF Inv, Listed, Started, At, ApprovalMatchesLabel, OneExtracts, Install, PkgOf,
                      BlockedByItsTask, InHand, Holds
  <2> QED BY <2>1, <2>2, <2>3 DEF Inv
<1>5. CASE /\ ready /\ active = None /\ incoming # <<>>
           /\ active' = Head(incoming) /\ incoming' = Tail(incoming)
           /\ task' = [task EXCEPT ![Head(incoming)].pc = "begin",
                                  ![Head(incoming)].state = "Executing"]
  <2>0. PICK h \in Tasks : /\ h = Head(incoming) /\ active' = h
                           /\ task' = [task EXCEPT ![h].pc = "begin", ![h].state = "Executing"]
    <3>1. incoming \in Seq(Tasks) /\ incoming # <<>> BY <1>1, <1>5 DEF TypeOK
    <3>2. Head(incoming) \in Tasks BY <3>1
    <3> QED BY <1>5, <3>2
  <2>1. /\ Len(incoming) \in Nat \ {0} /\ h = incoming[1] /\ h \in Tasks
        /\ \A i \in 1 .. Len(incoming) : incoming[i] \in Tasks
        /\ Tail(incoming) \in Seq(Tasks) /\ Len(Tail(incoming)) = Len(incoming) - 1
        /\ \A i \in 1 .. Len(incoming) - 1 : Tail(incoming)[i] = incoming[i + 1]
    BY <1>1, <1>5, <2>0 DEF TypeOK
  <2>2. task[h].pc = "queued" BY <2>1 DEF Inv, Listed, At
  <2>3. TaskMove(h, "begin") BY <1>1, <2>0, StateMove DEF Labels, TaskStates
  <2>4. \A i \in 2 .. Len(calls) : CallFits(calls[i], task', active')
    <3> SUFFICES ASSUME NEW i \in 2 .. Len(calls) PROVE CallFits(calls[i], task', h)
      BY <2>0
    <3>1. /\ CallFits(calls[i], task, active)
          /\ calls[i].task \in Tasks \cup {None} /\ calls[i].op \in Ops
      BY <1>2
    <3>2. calls[i].op # "finishedExtraction" BY <1>5, <3>1 DEF CallFits
    <3>3. calls[i].task # h
      BY <1>1, <2>1, <2>2, <3>1, <3>2 DEF CallFits, Ops, Asking
    <3> QED BY <1>1, <2>3, <3>1, <3>2, <3>3 DEF CallFits, TaskChange, TaskMove, Asking
  <2>5. CallsMatchLabels' /\ calls' \in Seq(Call)
    BY <1>1, <1>2, <2>4, CallsTaken DEF Inv
  <2>6. TypeOK' BY <1>1, <1>3, <1>5, <2>0, <2>1, <2>3, <2>5 DEF TypeOK, TaskChange, TaskMove
  <2>7. Listed'
    <3>1. \A t \in Tasks : t # h => (Started(t)' <=> Started(t)) /\ (At(t, "queued")' <=> At(t, "queued"))
      BY <2>3 DEF TaskChange, TaskMove, Started, At
    <3>2. ~Started(h) /\ Started(h)' /\ ~At(h, "queued")'
      BY <2>1, <2>2, <2>3 DEF TaskChange, TaskMove, Started, At
    <3>3. h \notin installing BY <2>1, <3>2 DEF Inv, Listed
    <3>4. \A t \in Tasks : Started(t)' <=> t = h \/ t \in installing
      BY <1>1, <1>5, <2>0, <3>1, <3>2, <3>3 DEF Inv, Listed
    <3>5. \A i \in 1 .. Len(incoming) - 1 : i + 1 \in 1 .. Len(incoming) /\ i + 1 # 1
      BY <2>1
    <3>6. \A i \in 1 .. Len(incoming) - 1 : incoming[i + 1] # h
      BY <2>1, <3>5 DEF Inv, Listed
    <3>7. \A t \in Tasks : At(t, "queued")' => \E i \in 1 .. Len(incoming) - 1 : Tail(incoming)[i] = t
      <4> SUFFICES ASSUME NEW t \in Tasks, At(t, "queued")'
                   PROVE  \E i \in 1 .. Len(incoming) - 1 : Tail(incoming)[i] = t
        OBVIOUS
      <4>1. t # h BY <3>2
      <4>2. PICK j \in 1 .. Len(incoming) : incoming[j] = t BY <3>1, <4>1 DEF Inv, Listed
      <4>3. j # 1 BY <2>1, <4>1, <4>2
      <4>4. j - 1 \in 1 .. Len(incoming) - 1 /\ (j - 1) + 1 = j BY <2>1, <4>3
      <4> QED BY <2>1, <4>2, <4>4
    <3>8. \A i \in 1 .. Len(incoming) - 1 : task'[Tail(incoming)[i]].pc = "queued"
      <4> SUFFICES ASSUME NEW i \in 1 .. Len(incoming) - 1
                   PROVE  task'[incoming[i + 1]].pc = "queued"
        BY <2>1
      <4>1. At(incoming[i + 1], "queued") /\ incoming[i + 1] \in Tasks
        BY <2>1, <3>5 DEF Inv, Listed
      <4> QED BY <2>3, <3>6, <4>1 DEF TaskMove, TaskChange, At
    <3>9. \A i, j \in 1 .. Len(incoming) - 1 : Tail(incoming)[i] = Tail(incoming)[j] => i = j
      <4> SUFFICES ASSUME NEW i \in 1 .. Len(incoming) - 1, NEW j \in 1 .. Len(incoming) - 1,
                          incoming[i + 1] = incoming[j + 1]
                   PROVE  i = j
        BY <2>1
      <4>1. i + 1 = j + 1 BY <3>5 DEF Inv, Listed
      <4> QED BY <2>1, <4>1
    <3> QED BY <1>3, <1>5, <2>0, <2>1, <3>3, <3>4, <3>7, <3>8, <3>9 DEF Listed, At
  <2>8. ApprovalMatchesLabel'
    BY <2>1, <2>2, <2>3 DEF Inv, ApprovalMatchesLabel, TaskMove, TaskChange, Early, Holding, Finishing
  <2>9. OneExtracts'
    <3>1. \A t \in Tasks : PkgOf(t)' = PkgOf(t) /\ (Install(t)' <=> Install(t))
      BY <2>3 DEF TaskChange, TaskMove, PkgOf, Install
    <3>2. \A t \in Tasks : Install(t) => task[t].pc \notin Extracting
      BY <1>1, <1>5 DEF Inv, OneExtracts
    <3>3. \A t \in Tasks \ {h} : task'[t].pc = task[t].pc
      BY <2>3 DEF TaskChange, TaskMove
    <3>4. task'[h].pc = "begin" BY <2>3 DEF TaskChange, TaskMove
    <3> QED BY <1>3, <1>5, <2>0, <2>1, <3>1, <3>2, <3>3, <3>4 DEF Inv, OneExtracts, Extracting
  <2>10. BlockedByItsTask'
    <3>1. "begin" \in Labels /\ "begin" \notin Holding /\ "queued" \notin Holding
      BY DEF Labels, Holding, Finishing
    <3> QED BY <1>3, <2>1, <2>2, <2>3, <3>1, KeepsHold DEF TaskMove
  <2> QED BY <2>5, <2>6, <2>7, <2>8, <2>9, <2>10 DEF Inv
<1> QED BY <1>4, <1>5 DEF ExecuteNextTask

LEMMA FinishedPackageExtractionPreserves ==
    ASSUME Inv, NEW t \in Tasks, FinishedPackageExtraction(t)
    PROVE  Inv'
<1>1. None \notin Tasks BY ConstantsAssumption
<1>2. /\ calls # <<>> /\ Head(calls).task = t /\ calls[1].task = t
      /\ calls[1].op = "finishedExtraction" /\ CallFits(calls[1], task, active)
      /\ \A i \in 2 .. Len(calls) :
            /\ CallFits(calls[i], task, active) /\ InOrder(calls[1], calls[i])
  BY HeadOfCalls DEF FinishedPackageExtraction, Ops
<1>3. t = active /\ Install(t) /\ task[t].pc \in Extracted
  BY <1>2 DEF CallFits, Install
<1>4. /\ active' = None /\ installing' = installing \cup {t}
      /\ calls' = Append(Tail(calls), Trigger)
      /\ UNCHANGED <<task, incoming, pkg, app, disk, ready, crashes>>
  BY <1>3 DEF FinishedPackageExtraction, CallsDoneAndTrigger, Trigger
<1>5. \A i \in 2 .. Len(calls) : CallFits(calls[i], task', active')
  <2> SUFFICES ASSUME NEW i \in 2 .. Len(calls) PROVE CallFits(calls[i], task, None)
    BY <1>4
  <2>1. CallFits(calls[i], task, active) /\ InOrder(calls[1], calls[i]) BY <1>2
  <2>2. calls[i].op # "finishedExtraction"
    BY <1>1, <1>2, <1>3, <2>1 DEF CallFits, InOrder
  <2> QED BY <2>1, <2>2 DEF CallFits
<1>6. CallsMatchLabels' /\ calls' \in Seq(Call)
  BY <1>2, <1>4, <1>5, CallsTaken DEF Inv
<1>7. TypeOK' BY <1>4, <1>6 DEF Inv, TypeOK
<1>8. Listed'
  <2>1. \A u \in Tasks : Started(u)' <=> u = active' \/ u \in installing'
    BY <1>1, <1>3, <1>4 DEF Inv, Listed, Started
  <2>2. active' \notin installing' /\ ready' BY <1>1, <1>3, <1>4 DEF Inv, Listed, TypeOK
  <2> QED BY <1>4, <2>1, <2>2 DEF Inv, Listed, At
<1>9. ApprovalMatchesLabel' BY <1>4 DEF Inv, ApprovalMatchesLabel
<1>10. OneExtracts'
  <2>1. \A u \in Tasks : Install(u) => task[u].pc \notin Extracting
    BY <1>3 DEF Inv, OneExtracts, Extracting, Extracted, Finishing
  <2> QED BY <1>4, <2>1 DEF Inv, OneExtracts, Install, Extracting
<1>11. BlockedByItsTask' BY <1>4 DEF Inv, BlockedByItsTask, InHand, Holds, PkgOf
<1> QED BY <1>6, <1>7, <1>8, <1>9, <1>10, <1>11 DEF Inv

LEMMA TaskFinishedPreserves ==
    ASSUME Inv, NEW t \in Tasks, TaskFinished(t)
    PROVE  Inv'
<1>1. TypeOK /\ None \notin Tasks /\ PkgOf(t) \in Packages
  BY ConstantsAssumption, TypedFields DEF Inv, PkgOf
<1>2. /\ calls # <<>> /\ calls[1].task = t
      /\ calls[1].op = "finished" /\ CallFits(calls[1], task, active)
      /\ \A i \in 2 .. Len(calls) :
            /\ CallFits(calls[i], task, active) /\ InOrder(calls[1], calls[i])
            /\ calls[i].task \in Tasks \cup {None}
  BY HeadOfCalls DEF TaskFinished, Ops
<1>3. task[t].pc = "finished" BY <1>2 DEF CallFits
<1>4. /\ active' = (IF active = t THEN None ELSE active) /\ installing' = installing \ {t}
      /\ calls' = Append(Tail(calls), Trigger)
      /\ UNCHANGED <<incoming, pkg, app, ready, crashes>>
  BY DEF TaskFinished, CallsDoneAndTrigger, Trigger
<1>5. TaskMove(t, "gone")
  <2>1. PICK scoped \in SUBSET Scoped : scoped = {} OBVIOUS
  <2>2. PICK state \in TaskStates : state = IF task[t].state = "Failed" THEN "Failed" ELSE "Finished"
    BY DEF TaskStates
  <2>3. task' = [task EXCEPT ![t].pc = "gone", ![t].state = state, ![t].scoped = scoped]
    BY <1>1, <2>1, <2>2 DEF TaskFinished, TypeOK, Task
  <2> QED BY <1>1, <2>3, RecordMove DEF Labels
<1>6. disk' \in [Packages -> PackageDirs]
  <2>1. Removed(disk[PkgOf(t)].plus) \subseteq Dir BY <1>1, DirsTyped, RemovedTyped
  <2> QED BY <1>1, <2>1, DirsTyped DEF TaskFinished
<1>7. \A i \in 2 .. Len(calls) : CallFits(calls[i], task', active')
  <2> SUFFICES ASSUME NEW i \in 2 .. Len(calls) PROVE CallFits(calls[i], task', active')
    OBVIOUS
  <2>1. CallFits(calls[i], task, active) /\ InOrder(calls[1], calls[i])
          /\ calls[i].task \in Tasks \cup {None}
    BY <1>2
  <2>2. calls[i].task # t BY <1>1, <1>2, <2>1 DEF InOrder
  <2> QED BY <1>1, <1>4, <1>5, <2>1, <2>2 DEF CallFits, TaskChange, TaskMove, Asking
<1>8. CallsMatchLabels' /\ calls' \in Seq(Call)
  BY <1>1, <1>2, <1>4, <1>7, CallsTaken DEF Inv
<1>9. TypeOK' BY <1>1, <1>4, <1>5, <1>6, <1>8 DEF TypeOK, TaskMove, TaskChange
<1>10. Listed'
  <2>1. \A u \in Tasks \ {t} : (Started(u)' <=> Started(u)) /\ (At(u, "queued")' <=> At(u, "queued"))
    BY <1>5 DEF TaskChange, TaskMove, Started, At
  <2>2. ~Started(t)' /\ ~At(t, "queued")' /\ ~At(t, "queued")
    BY <1>3, <1>5 DEF TaskChange, TaskMove, Started, At
  <2>3. \A i \in 1 .. Len(incoming) : incoming[i] \in Tasks BY <1>1 DEF TypeOK
  <2>4. \A i \in 1 .. Len(incoming) : task'[incoming[i]].pc = "queued"
    <3> SUFFICES ASSUME NEW i \in 1 .. Len(incoming) PROVE task'[incoming[i]].pc = "queued"
      OBVIOUS
    <3>1. At(incoming[i], "queued") BY DEF Inv, Listed
    <3>2. incoming[i] # t BY <2>2, <3>1
    <3> QED BY <1>5, <2>3, <3>1, <3>2 DEF TaskMove, TaskChange, At
  <2>5. \A u \in Tasks : Started(u)' <=> u = active' \/ u \in installing'
    BY <1>1, <1>4, <2>1, <2>2 DEF Inv, Listed
  <2>6. active' \notin installing' /\ (~ready' => active' = None /\ installing' = {})
    BY <1>1, <1>4 DEF Inv, Listed, TypeOK
  <2>7. \A u \in Tasks : At(u, "queued")' => At(u, "queued") BY <2>1, <2>2
  <2> QED BY <1>4, <2>4, <2>5, <2>6, <2>7 DEF Inv, Listed, At
<1>11. ApprovalMatchesLabel'
  BY <1>5 DEF Inv, ApprovalMatchesLabel, TaskMove, TaskChange, Early, Holding, Finishing
<1>12. OneExtracts'
  <2>1. \A u \in Tasks : PkgOf(u)' = PkgOf(u) /\ (Install(u)' <=> Install(u))
    BY <1>5 DEF TaskChange, TaskMove, PkgOf, Install
  <2>2. \A u \in Tasks \ {t} : task'[u].pc = task[u].pc
    BY <1>5 DEF TaskChange, TaskMove
  <2>3. task'[t].pc = "gone" BY <1>5 DEF TaskChange, TaskMove
  <2>4. installing \subseteq Tasks BY <1>1 DEF TypeOK
  <2> QED BY <1>4, <2>1, <2>2, <2>3, <2>4 DEF Inv, OneExtracts, Extracting
<1>13. BlockedByItsTask'
  <2>1. "gone" \in Labels /\ "gone" \notin Holding /\ "finished" \notin Holding
    BY DEF Labels, Holding, Finishing
  <2> QED BY <1>3, <1>4, <1>5, <2>1, KeepsHold DEF TaskMove
<1> QED BY <1>8, <1>9, <1>10, <1>11, <1>12, <1>13 DEF Inv

-----------------------------------------------------------------------------
(* Requests. *)

LEMMA EnqueueTaskPreserves ==
    ASSUME Inv, NEW t \in Tasks, NEW new \in Task, EnqueueTask(t, new),
           new.pc = "queued", ~new.approved
    PROVE  Inv'
<1>1. TypeOK /\ None \notin Tasks BY ConstantsAssumption DEF Inv
<1>2. /\ task[t].pc = "unused" /\ task' \in [Tasks -> Task] /\ task'[t] = new
      /\ \A u \in Tasks \ {t} : task'[u] = task[u]
      /\ incoming' = Append(incoming, t) /\ calls' = Append(calls, Trigger)
      /\ UNCHANGED <<active, installing, pkg, app, disk, ready, crashes>>
  BY <1>1 DEF EnqueueTask, At, TriggerExecuteNextTask, Post, Trigger, TypeOK
<1>3. Trigger \in Call /\ CallFits(Trigger, task', active')
        /\ \A call \in Call : InOrder(call, Trigger)
  BY <1>1 DEF Trigger, Call, Ops, CallFits, InOrder, Asking
<1>4. \A i \in 1 .. Len(calls) : CallFits(calls[i], task', active')
  <2> SUFFICES ASSUME NEW i \in 1 .. Len(calls) PROVE CallFits(calls[i], task', active)
    BY <1>2
  <2>1. CallFits(calls[i], task, active) /\ calls[i].task \in Tasks \cup {None} /\ calls[i].op \in Ops
    BY <1>1, CallTyped DEF Inv, CallsMatchLabels
  <2>2. calls[i].task # t
    BY <1>1, <1>2, <2>1 DEF CallFits, Ops, Asking, Extracted, Finishing
  <2> QED BY <1>1, <1>2, <2>1, <2>2 DEF CallFits, Asking
<1>5. \A i \in 1 .. Len(calls) : InOrder(calls[i], Trigger)
  BY <1>1, <1>3, CallTyped
<1>6. CallsMatchLabels' /\ calls' \in Seq(Call)
  <2> HIDE DEF Trigger
  <2> QED BY <1>1, <1>2, <1>3, <1>4, <1>5, CallsPosted DEF Inv
<1> DEFINE n == Len(incoming)
<1>7. /\ incoming' \in Seq(Tasks) /\ Len(incoming') = n + 1 /\ n \in Nat
      /\ incoming'[n + 1] = t
      /\ \A i \in 1 .. n : incoming'[i] = incoming[i] /\ incoming[i] \in Tasks
  BY <1>1, <1>2, AppendFacts DEF TypeOK
<1>8. TypeOK' BY <1>1, <1>2, <1>6, <1>7 DEF TypeOK
<1>9. Listed'
  <2>1. \A u \in Tasks : Started(u)' <=> Started(u)
    BY <1>2 DEF Started
  <2>2. \A i \in 1 .. n + 1 : i \in 1 .. n \/ i = n + 1
    <3>1. n \in Nat BY <1>7
    <3> HIDE DEF n
    <3> QED BY <3>1
  <2>3. \A i \in 1 .. n : i \in 1 .. n + 1 BY <1>7
  <2>4. n + 1 \in 1 .. n + 1 BY <1>7
  <2>5. \A i \in 1 .. n : incoming[i] # t /\ task'[incoming[i]].pc = "queued"
    BY <1>2, <1>7 DEF Inv, Listed, At
  <2>6. \A u \in Tasks : At(u, "queued")' => \E i \in 1 .. Len(incoming') : incoming'[i] = u
    <3> SUFFICES ASSUME NEW u \in Tasks, At(u, "queued")'
                 PROVE  \E i \in 1 .. n + 1 : incoming'[i] = u
      BY <1>7
    <3>1. CASE u = t BY <1>7, <2>4, <3>1
    <3>2. CASE u # t
      <4>1. PICK i \in 1 .. n : incoming[i] = u BY <1>2, <3>2 DEF Inv, Listed, At
      <4> QED BY <1>7, <2>3, <4>1
    <3> QED BY <3>1, <3>2
  <2>7. \A i \in 1 .. Len(incoming') : task'[incoming'[i]].pc = "queued"
    <3> SUFFICES ASSUME NEW i \in 1 .. n + 1 PROVE task'[incoming'[i]].pc = "queued"
      BY <1>7
    <3>1. CASE i \in 1 .. n BY <1>7, <2>5, <3>1
    <3>2. CASE i = n + 1 BY <1>2, <1>7, <3>2
    <3> QED BY <2>2, <3>1, <3>2
  <2>8. \A i, j \in 1 .. Len(incoming') : incoming'[i] = incoming'[j] => i = j
    <3> SUFFICES ASSUME NEW i \in 1 .. n + 1, NEW j \in 1 .. n + 1, incoming'[i] = incoming'[j]
                 PROVE  i = j
      BY <1>7
    <3>1. CASE i \in 1 .. n /\ j \in 1 .. n BY <1>7, <3>1 DEF Inv, Listed
    <3>2. CASE i \in 1 .. n /\ j = n + 1 BY <1>7, <2>5, <3>2
    <3>3. CASE i = n + 1 /\ j \in 1 .. n BY <1>7, <2>5, <3>3
    <3> HIDE DEF n
    <3> QED BY <2>2, <3>1, <3>2, <3>3
  <2> HIDE DEF n
  <2> QED BY <1>2, <2>1, <2>6, <2>7, <2>8 DEF Inv, Listed, At
<1>10. ApprovalMatchesLabel'
  BY <1>2 DEF Inv, ApprovalMatchesLabel, Holding, Finishing
<1>11. OneExtracts'
  <2>1. \A u \in Tasks \ {t} : PkgOf(u)' = PkgOf(u) /\ (Install(u)' <=> Install(u))
    BY <1>2 DEF PkgOf, Install
  <2>2. installing \subseteq Tasks \ {t}
    BY <1>1, <1>2 DEF TypeOK, Inv, Listed, Started
  <2>3. task'[t].pc \notin Extracting \cup {"askApproval", "askRemoval"}
    BY <1>2 DEF Extracting
  <2> SUFFICES ASSUME NEW u \in Tasks
               PROVE  /\ task'[u].pc = "askApproval" => Install(u)'
                      /\ task'[u].pc = "askRemoval" => ~Install(u)'
                      /\ Install(u)' =>
                            /\ task'[u].pc \in Extracting => u = active
                            /\ task'[u].pc \in {"startInstallation", "askApproval"} =>
                                   \A v \in installing : PkgOf(v)' # PkgOf(u)'
    BY <1>2 DEF OneExtracts
  <2>4. CASE u = t BY <2>3, <2>4 DEF Extracting
  <2>5. CASE u # t BY <1>2, <2>1, <2>2, <2>5 DEF Inv, OneExtracts
  <2> QED BY <2>4, <2>5
<1>12. BlockedByItsTask'
  <2>1. \A u \in Tasks, p \in Packages : Holds(u, p)' <=> Holds(u, p)
    BY <1>2 DEF Holds, PkgOf, Holding, Finishing
  <2>2. \A p \in Packages : InHand(p)' <=> InHand(p) BY <2>1 DEF InHand
  <2> QED BY <1>2, <2>1, <2>2 DEF Inv, BlockedByItsTask
<1> QED BY <1>6, <1>8, <1>9, <1>10, <1>11, <1>12 DEF Inv

(* a flag of a task changes, and nothing else *)
LEMMA FlagPreserves ==
    ASSUME Inv, NEW t \in Tasks, TaskMove(t, task[t].pc),
           UNCHANGED <<queues, calls, pkg, app, disk, ready, crashes>>
    PROVE  Inv'
<1>1. TypeOK /\ None \notin Tasks BY ConstantsAssumption DEF Inv
<1>2. UNCHANGED <<incoming, active, installing, calls, pkg, app, disk, ready, crashes>>
  BY DEF queues
<1>3. \A u \in Tasks : /\ task'[u].pc = task[u].pc /\ task'[u].kind = task[u].kind
                       /\ task'[u].pkg = task[u].pkg /\ task'[u].approved = task[u].approved
  BY DEF TaskMove, TaskChange
<1>4. TypeOK' BY <1>1, <1>2 DEF TypeOK, TaskMove, TaskChange
<1>5. Listed'
  <2>1. \A i \in 1 .. Len(incoming) : incoming[i] \in Tasks BY <1>1 DEF TypeOK
  <2> QED BY <1>2, <1>3, <2>1 DEF Inv, Listed, Started, At
<1>6. CallsMatchLabels'
  <2>1. \A i \in 1 .. Len(calls) : CallFits(calls[i], task', active')
    <3> SUFFICES ASSUME NEW i \in 1 .. Len(calls) PROVE CallFits(calls[i], task', active)
      BY <1>2
    <3>1. CallFits(calls[i], task, active) /\ calls[i].task \in Tasks \cup {None}
      BY <1>1, CallTyped DEF Inv, CallsMatchLabels
    <3> QED BY <1>1, <1>3, <3>1 DEF CallFits, Asking
  <2> QED BY <1>2, <2>1, CallsKept DEF Inv
<1>7. ApprovalMatchesLabel' BY <1>3 DEF Inv, ApprovalMatchesLabel
<1>8. OneExtracts'
  <2>1. installing \subseteq Tasks BY <1>1 DEF TypeOK
  <2> QED BY <1>2, <1>3, <2>1 DEF Inv, OneExtracts, Install, PkgOf
<1>9. BlockedByItsTask'
  <2>1. \A u \in Tasks, p \in Packages : Holds(u, p)' <=> Holds(u, p) BY <1>3 DEF Holds, PkgOf
  <2>2. \A p \in Packages : InHand(p)' <=> InHand(p) BY <2>1 DEF InHand
  <2> QED BY <1>2, <2>1, <2>2 DEF Inv, BlockedByItsTask
<1> QED BY <1>4, <1>5, <1>6, <1>7, <1>8, <1>9 DEF Inv

LEMMA AcknowledgePreserves ==
    ASSUME Inv, NEW t \in Tasks, AcknowledgePackageInstallation(t)
    PROVE  Inv'
<1>1. TaskMove(t, task[t].pc)
  BY DEF AcknowledgePackageInstallation, Inv, TypeOK, Task, TaskMove, TaskChange
<1> QED BY <1>1, FlagPreserves DEF AcknowledgePackageInstallation

LEMMA CancelStartedTaskPreserves ==
    ASSUME Inv, NEW t \in Tasks, CancelStartedTask(t)
    PROVE  Inv'
<1>1. TaskMove(t, task[t].pc)
  BY DEF CancelStartedTask, Inv, TypeOK, Task, TaskMove, TaskChange
<1> QED BY <1>1, FlagPreserves DEF CancelStartedTask

LEMMA RemoveAtFacts ==
    ASSUME NEW S, NEW s \in Seq(S), NEW i \in 1 .. Len(s)
    PROVE  /\ RemoveAt(s, i) \in Seq(S) /\ Len(RemoveAt(s, i)) = Len(s) - 1
           /\ \A j \in 1 .. Len(s) - 1 : RemoveAt(s, i)[j] = IF j < i THEN s[j] ELSE s[j + 1]
<1> DEFINE n == Len(s)
           front == SubSeq(s, 1, i - 1)
           back == SubSeq(s, i + 1, n)
<1>1. n \in Nat /\ i \in 1 .. n OBVIOUS
<1>2. front \in Seq(S) /\ Len(front) = i - 1 /\ \A j \in 1 .. i - 1 : front[j] = s[j]
  BY <1>1, SubSeqProperties
<1>3. back \in Seq(S) /\ Len(back) = n - i /\ \A j \in 1 .. n - i : back[j] = s[i + j]
  BY <1>1, SubSeqProperties
<1>4. RemoveAt(s, i) = front \o back BY DEF RemoveAt
<1> HIDE DEF front, back
<1>5. (front \o back) \in Seq(S) /\ Len(front \o back) = Len(front) + Len(back)
      /\ \A j \in 1 .. Len(front) + Len(back) :
            (front \o back)[j] = IF j <= Len(front) THEN front[j] ELSE back[j - Len(front)]
  BY <1>2, <1>3, ConcatProperties
<1>6. ASSUME NEW j \in 1 .. n - 1 PROVE (front \o back)[j] = IF j < i THEN s[j] ELSE s[j + 1]
  <2>1. CASE j < i BY <1>1, <1>2, <1>3, <1>5, <2>1
  <2>2. CASE ~(j < i)
    <3>0. i \in Nat /\ j \in Nat /\ n \in Nat /\ i >= 1 /\ j <= n - 1 BY <1>1
    <3> HIDE DEF n
    <3>1. j - (i - 1) \in 1 .. n - i /\ i + (j - (i - 1)) = j + 1 /\ ~(j <= i - 1)
      BY <2>2, <3>0
    <3> QED BY <1>1, <1>2, <1>3, <1>5, <2>2, <3>1
  <2> QED BY <2>1, <2>2
<1> QED BY <1>1, <1>2, <1>3, <1>4, <1>5, <1>6

LEMMA CancelIncomingTaskPreserves ==
    ASSUME Inv, NEW t \in Tasks, CancelIncomingTask(t)
    PROVE  Inv'
<1>1. TypeOK /\ None \notin Tasks BY ConstantsAssumption DEF Inv
<1>2. /\ task[t].pc = "queued" /\ calls' = Append(calls, Trigger)
      /\ UNCHANGED <<active, installing, pkg, app, disk, ready, crashes>>
  BY DEF CancelIncomingTask, Incoming, At, TriggerExecuteNextTask, Post, Trigger
<1>3. TaskMove(t, "gone")
  BY <1>1, StateMove DEF CancelIncomingTask, Labels, TaskStates
<1>4. PICK k \in 1 .. Len(incoming) : incoming[k] = t /\ incoming' = RemoveAt(incoming, k)
  <2>1. DOMAIN incoming = 1 .. Len(incoming) BY <1>1 DEF TypeOK
  <2> QED BY <2>1 DEF CancelIncomingTask
<1> DEFINE n == Len(incoming)
<1>5. /\ incoming' \in Seq(Tasks) /\ Len(incoming') = n - 1 /\ n \in Nat /\ k \in 1 .. n
      /\ \A j \in 1 .. n - 1 : incoming'[j] = IF j < k THEN incoming[j] ELSE incoming[j + 1]
      /\ \A j \in 1 .. n : incoming[j] \in Tasks
  <2>1. incoming \in Seq(Tasks) BY <1>1 DEF TypeOK
  <2>2. n \in Nat /\ \A j \in 1 .. n : incoming[j] \in Tasks BY <2>1
  <2> HIDE DEF TypeOK
  <2> QED BY <1>4, <2>1, <2>2, RemoveAtFacts
<1>6. Trigger \in Call /\ CallFits(Trigger, task', active')
        /\ \A call \in Call : InOrder(call, Trigger)
  BY <1>1 DEF Trigger, Call, Ops, CallFits, InOrder, Asking
<1>7. \A i \in 1 .. Len(calls) : CallFits(calls[i], task', active')
  <2> SUFFICES ASSUME NEW i \in 1 .. Len(calls) PROVE CallFits(calls[i], task', active)
    BY <1>2
  <2>1. CallFits(calls[i], task, active) /\ calls[i].task \in Tasks \cup {None} /\ calls[i].op \in Ops
    BY <1>1, CallTyped DEF Inv, CallsMatchLabels
  <2>2. calls[i].task # t
    BY <1>1, <1>2, <2>1 DEF CallFits, Ops, Asking, Extracted, Finishing
  <2> QED BY <1>1, <1>3, <2>1, <2>2 DEF CallFits, Asking, TaskMove, TaskChange
<1>8. \A i \in 1 .. Len(calls) : InOrder(calls[i], Trigger)
  BY <1>1, <1>6, CallTyped
<1>9. CallsMatchLabels' /\ calls' \in Seq(Call)
  <2> HIDE DEF Trigger
  <2> QED BY <1>1, <1>2, <1>6, <1>7, <1>8, CallsPosted DEF Inv
<1>10. TypeOK' BY <1>1, <1>2, <1>3, <1>5, <1>9 DEF TypeOK, TaskMove, TaskChange
<1>11. Listed'
  <2>1. \A u \in Tasks : Started(u)' <=> Started(u)
    BY <1>2, <1>3 DEF Started, TaskMove, TaskChange
  <2>2. \A i, j \in 1 .. n : incoming[i] = incoming[j] => i = j
    BY DEF Inv, Listed
  <2>3. \A j \in 1 .. n - 1 : j \in 1 .. n /\ j + 1 \in 1 .. n BY <1>5
  <2>4. \A j \in 1 .. n - 1 : incoming'[j] # t
    <3> SUFFICES ASSUME NEW j \in 1 .. n - 1 PROVE incoming'[j] # t
      OBVIOUS
    <3>1. CASE j < k BY <1>4, <1>5, <2>2, <2>3, <3>1
    <3>2. CASE ~(j < k)
      <4>1. incoming[j + 1] # t BY <1>4, <1>5, <2>2, <2>3, <3>2
      <4> QED BY <1>5, <3>2, <4>1
    <3> QED BY <3>1, <3>2
  <2>5. \A j \in 1 .. n - 1 : task'[incoming'[j]].pc = "queued"
    <3> SUFFICES ASSUME NEW j \in 1 .. n - 1 PROVE task'[incoming'[j]].pc = "queued"
      OBVIOUS
    <3>1. PICK i \in 1 .. n : incoming'[j] = incoming[i] BY <1>5, <2>3
    <3>2. At(incoming[i], "queued") /\ incoming[i] # t BY <2>4, <3>1 DEF Inv, Listed
    <3> QED BY <1>3, <1>5, <3>1, <3>2 DEF At, TaskMove, TaskChange
  <2>6. \A u \in Tasks : At(u, "queued")' => \E j \in 1 .. n - 1 : incoming'[j] = u
    <3> SUFFICES ASSUME NEW u \in Tasks, At(u, "queued")'
                 PROVE  \E j \in 1 .. n - 1 : incoming'[j] = u
      OBVIOUS
    <3>1. u # t /\ At(u, "queued") BY <1>3 DEF At, TaskMove, TaskChange
    <3>2. PICK i \in 1 .. n : incoming[i] = u BY <3>1 DEF Inv, Listed
    <3>3. i # k BY <1>4, <3>1, <3>2
    <3>4. CASE i < k
      <4>1. i \in 1 .. n - 1 BY <1>5, <3>4
      <4> QED BY <1>5, <3>2, <3>4, <4>1
    <3>5. CASE i > k
      <4>1. i - 1 \in 1 .. n - 1 /\ ~(i - 1 < k) /\ (i - 1) + 1 = i BY <1>5, <3>5
      <4> QED BY <1>5, <3>2, <4>1
    <3> QED BY <1>5, <3>3, <3>4, <3>5
  <2>7. \A i, j \in 1 .. n - 1 : incoming'[i] = incoming'[j] => i = j
    <3> SUFFICES ASSUME NEW i \in 1 .. n - 1, NEW j \in 1 .. n - 1, incoming'[i] = incoming'[j]
                 PROVE  i = j
      OBVIOUS
    <3> DEFINE old(x) == IF x < k THEN x ELSE x + 1
    <3>1. incoming'[i] = incoming[old(i)] /\ incoming'[j] = incoming[old(j)] BY <1>5
    <3>2. old(i) \in 1 .. n /\ old(j) \in 1 .. n BY <2>3
    <3>3. old(i) = old(j)
      <4> HIDE DEF old
      <4> QED BY <2>2, <3>1, <3>2
    <3>4. i \in Nat /\ j \in Nat /\ k \in Nat BY <1>5
    <3> QED BY <3>3, <3>4
  <2> HIDE DEF n
  <2> QED BY <1>2, <1>5, <2>1, <2>5, <2>6, <2>7 DEF Inv, Listed, At
<1>12. ApprovalMatchesLabel'
  BY <1>3 DEF Inv, ApprovalMatchesLabel, Holding, Finishing, Early, TaskMove, TaskChange
<1>13. OneExtracts'
  <2>1. \A u \in Tasks : PkgOf(u)' = PkgOf(u) /\ (Install(u)' <=> Install(u))
    BY <1>3 DEF TaskChange, TaskMove, PkgOf, Install
  <2>2. \A u \in Tasks \ {t} : task'[u].pc = task[u].pc
    BY <1>3 DEF TaskChange, TaskMove
  <2>3. task'[t].pc = "gone" BY <1>3 DEF TaskChange, TaskMove
  <2>4. installing \subseteq Tasks BY <1>1 DEF TypeOK
  <2> QED BY <1>2, <2>1, <2>2, <2>3, <2>4 DEF Inv, OneExtracts, Extracting
<1>14. BlockedByItsTask'
  <2>1. "gone" \in Labels /\ "gone" \notin Holding /\ "queued" \notin Holding
    BY DEF Labels, Holding, Finishing
  <2> QED BY <1>2, <1>3, <2>1, KeepsHold DEF TaskMove
<1> QED BY <1>9, <1>10, <1>11, <1>12, <1>13, <1>14 DEF Inv

-----------------------------------------------------------------------------
(* The environment, and the initial state. *)

(* neither the tasks nor the blocks change *)
LEMMA AppPreserves ==
    ASSUME Inv, AppOnly, app' \in [Apps -> RunStates], pkg' \in [Packages -> Package],
           \A p \in Packages : pkg'[p].blocked = pkg[p].blocked /\ pkg'[p].state = pkg[p].state
    PROVE  Inv'
<1>1. UNCHANGED <<task, incoming, active, installing, calls, disk, ready, crashes>>
  BY DEF AppOnly, queues
<1>2. TypeOK' BY <1>1 DEF Inv, TypeOK
<1>3. Listed' /\ ApprovalMatchesLabel' /\ OneExtracts'
  BY <1>1 DEF Inv, Listed, Started, At, ApprovalMatchesLabel, OneExtracts, Install, PkgOf
<1>4. CallsMatchLabels' BY <1>1 DEF Inv, CallsMatchLabels
<1>5. BlockedByItsTask' BY <1>1 DEF Inv, BlockedByItsTask, InHand, Holds, PkgOf
<1> QED BY <1>2, <1>3, <1>4, <1>5 DEF Inv

LEMMA ApplicationsPreserve ==
    ASSUME Inv, NEW a \in Apps,
           StartApplication(a) \/ ContainerReady(a) \/ ApplicationFinished(a)
    PROVE  Inv'
<1>1. TypeOK /\ Owner[a] \in Packages BY ConstantsAssumption DEF Inv
<1>2. CASE StartApplication(a)
  <2>1. app' \in [Apps -> RunStates] /\ pkg' = pkg
    BY <1>1, <1>2 DEF StartApplication, TypeOK, RunStates
  <2> QED BY <1>1, <1>2, <2>1, AppPreserves DEF StartApplication, TypeOK
<1>3. CASE ContainerReady(a)
  <2>1. app' \in [Apps -> RunStates] /\ pkg' = pkg
    BY <1>1, <1>3 DEF ContainerReady, TypeOK, RunStates
  <2> QED BY <1>1, <1>3, <2>1, AppPreserves DEF ContainerReady, TypeOK
<1>4. CASE ApplicationFinished(a)
  <2>1. app' \in [Apps -> RunStates]
    BY <1>1, <1>4 DEF ApplicationFinished, TypeOK, RunStates
  <2> DEFINE r == [pkg[Owner[a]] EXCEPT !.waiting = @ \ {a}]
  <2>2. pkg[Owner[a]] \in Package BY <1>1, PackageTyped
  <2>3. r \in Package /\ r.blocked = pkg[Owner[a]].blocked /\ r.state = pkg[Owner[a]].state
    BY <2>2 DEF Package
  <2>4. pkg' = [pkg EXCEPT ![Owner[a]] = r] BY <1>1, <1>4 DEF ApplicationFinished, TypeOK
  <2> HIDE DEF r
  <2>5. /\ pkg' \in [Packages -> Package] /\ pkg'[Owner[a]] = r
        /\ \A q \in Packages \ {Owner[a]} : pkg'[q] = pkg[q]
    BY <1>1, <2>3, <2>4, PackageTyped
  <2> QED BY <1>4, <2>1, <2>3, <2>5, AppPreserves DEF ApplicationFinished
<1> QED BY <1>2, <1>3, <1>4

(* nothing is queued and no task runs: as at the start, and after a crash *)
Idle ==
    /\ task \in [Tasks -> Task] /\ \A t \in Tasks : task[t].pc \in {"unused", "gone"}
    /\ incoming = <<>> /\ active = None /\ installing = {} /\ calls = <<>>
    /\ pkg = [p \in Packages |-> Absent] /\ app = [a \in Apps |-> "NotRunning"]
    /\ disk \in [Packages -> PackageDirs] /\ ready = FALSE /\ crashes \in 0 .. MaxCrashes

LEMMA IdleInv == Idle => Inv
<1> SUFFICES ASSUME Idle PROVE Inv OBVIOUS
<1> USE DEF Idle
<1>1. TypeOK
  <2>1. <<>> \in Seq(Tasks) /\ <<>> \in Seq(Call) OBVIOUS
  <2>2. pkg \in [Packages -> Package] BY AbsentTyped
  <2>3. app \in [Apps -> RunStates] BY DEF RunStates
  <2> QED BY <2>1, <2>2, <2>3 DEF TypeOK
<1>2. Listed BY ConstantsAssumption DEF Listed, Started, At
<1>3. CallsMatchLabels
  <2>1. 1 .. Len(calls) = {} OBVIOUS
  <2> QED BY <2>1 DEF CallsMatchLabels
<1>4. ApprovalMatchesLabel BY DEF ApprovalMatchesLabel, Holding, Finishing, Early
<1>5. OneExtracts BY DEF OneExtracts, Extracting
<1>6. BlockedByItsTask
  <2>1. \A p \in Packages, t \in Tasks : ~Holds(t, p) BY DEF Holds, Holding, Finishing
  <2>2. \A p \in Packages : ~InHand(p) BY <2>1 DEF InHand
  <2>3. \A p \in Packages : pkg[p].blocked = 0 /\ pkg[p].state = "Installed" BY AbsentTyped
  <2> QED BY <2>1, <2>2, <2>3 DEF BlockedByItsTask
<1> QED BY <1>1, <1>2, <1>3, <1>4, <1>5, <1>6 DEF Inv

LEMMA InitInv == Init => Inv
<1> SUFFICES ASSUME Init PROVE Inv OBVIOUS
<1>1. task \in [Tasks -> Task] /\ \A t \in Tasks : task[t].pc = "unused"
  <2> DEFINE p0 == CHOOSE p \in Packages : TRUE
             unused == [NewTask("install", p0, FALSE) EXCEPT !.pc = "unused"]
  <2>1. p0 \in Packages BY ConstantsAssumption
  <2> HIDE DEF p0
  <2>2. unused \in Task /\ unused.pc = "unused"
    BY <2>1 DEF NewTask, Task, Labels, TaskStates
  <2>3. task = [t \in Tasks |-> unused] BY DEF Init, p0
  <2> HIDE DEF unused
  <2> QED BY <2>2, <2>3
<1>2. disk \in [Packages -> PackageDirs]
  <2>1. PICK installed \in SUBSET Packages :
           disk = [p \in Packages |->
                     InitialDirs(IF p \in installed THEN Whole(Shipped) ELSE NoDir)]
    BY DEF Init
  <2>2. \A d \in {Whole(Shipped), NoDir} : InitialDirs(d) \in PackageDirs
    BY DEF InitialDirs, Whole, PackageDirs, Dir, Content, Version, Stage, Exists
  <2> QED BY <2>1, <2>2
<1>3. 0 \in 0 .. MaxCrashes BY ConstantsAssumption
<1> QED BY <1>1, <1>2, <1>3, IdleInv DEF Init, Idle

LEMMA CrashPreserves ==
    ASSUME Inv, Crash
    PROVE  Inv'
<1>1. Idle'
  <2>1. task' \in [Tasks -> Task] /\ \A t \in Tasks : task'[t].pc \in {"unused", "gone"}
    <3> DEFINE lost(t) == [task[t] EXCEPT !.pc = "gone", !.scoped = {},
                             !.state = IF Ended(t) THEN @ ELSE "Lost"]
    <3>1. \A t \in Tasks : task[t] \in Task BY DEF Inv, TypeOK
    <3>2. \A t \in Tasks : lost(t) \in Task /\ lost(t).pc = "gone"
      <4> SUFFICES ASSUME NEW t \in Tasks PROVE lost(t) \in Task /\ lost(t).pc = "gone"
        OBVIOUS
      <4>1. PICK s \in TaskStates : s = IF Ended(t) THEN task[t].state ELSE "Lost"
        BY <3>1 DEF Task, TaskStates
      <4>2. lost(t) = [task[t] EXCEPT !.pc = "gone", !.scoped = {}, !.state = s]
        BY <3>1, <4>1 DEF Task
      <4> HIDE DEF lost
      <4> QED BY <3>1, <4>2 DEF Task, Labels
    <3>3. task' = [t \in Tasks |-> IF task[t].pc \in {"unused", "gone"} THEN task[t] ELSE lost(t)]
      BY DEF Crash
    <3> HIDE DEF lost
    <3> QED BY <3>1, <3>2, <3>3
  <2>2. crashes' \in 0 .. MaxCrashes
    <3>1. crashes \in Nat /\ MaxCrashes \in Nat BY ConstantsAssumption DEF Inv, TypeOK
    <3>2. crashes < MaxCrashes /\ crashes' = crashes + 1 BY DEF Crash
    <3> QED BY <3>1, <3>2
  <2>3. disk' \in [Packages -> PackageDirs]
    <3>1. disk \in [Packages -> PackageDirs] BY DEF Inv, TypeOK
    <3>2. CASE disk' = disk BY <3>1, <3>2
    <3>3. ASSUME disk' \in [Packages -> UNION {PartlyCleanedUp(disk[p]) : p \in Packages}],
                 \A p \in Packages : disk'[p] \in PartlyCleanedUp(disk[p])
          PROVE  disk' \in [Packages -> PackageDirs]
      <4>1. ASSUME NEW p \in Packages PROVE disk'[p] \in PackageDirs
        <5>1. disk[p] \in PackageDirs BY <3>1
        <5>2. disk'[p] \in PartlyCleanedUp(disk[p]) BY <3>3
        <5> QED BY <5>1, <5>2 DEF PartlyCleanedUp, CleanedUp, PackageDirs, Dir
      <4> QED BY <3>3, <4>1
    <3> QED BY <3>2, <3>3 DEF Crash
  <2> QED BY <2>1, <2>2, <2>3 DEF Crash, Idle, Inv, TypeOK
<1>2. (Idle => Inv)' BY IdleInv, PTL
<1> QED BY <1>1, <1>2

LEMMA StutteringPreserves ==
    ASSUME Inv, UNCHANGED vars
    PROVE  Inv'
<1>1. UNCHANGED <<task, incoming, active, installing, calls, pkg, app, disk, ready, crashes>>
  BY DEF vars, queues
<1>2. TypeOK' BY <1>1 DEF Inv, TypeOK
<1>3. Listed' /\ ApprovalMatchesLabel' /\ OneExtracts'
  BY <1>1 DEF Inv, Listed, Started, At, ApprovalMatchesLabel, OneExtracts, Install, PkgOf
<1>4. CallsMatchLabels' BY <1>1 DEF Inv, CallsMatchLabels
<1>5. BlockedByItsTask' BY <1>1 DEF Inv, BlockedByItsTask, InHand, Holds, PkgOf
<1> QED BY <1>2, <1>3, <1>4, <1>5 DEF Inv

-----------------------------------------------------------------------------
LEMMA RequestPreserves ==
    ASSUME Inv, NEW t \in Tasks, Request(t)
    PROVE  Inv'
<1>1. ASSUME NEW kind \in {"install", "remove"}, NEW p \in Packages, NEW keep \in BOOLEAN,
             EnqueueTask(t, NewTask(kind, p, keep))
      PROVE  Inv'
  <2> DEFINE new == NewTask(kind, p, keep)
  <2>1. new \in Task /\ new.pc = "queued" /\ ~new.approved
    BY DEF NewTask, Task, Labels, TaskStates
  <2> HIDE DEF new
  <2>2. EnqueueTask(t, new) BY <1>1 DEF new
  <2> QED BY <2>1, <2>2, EnqueueTaskPreserves
<1>2. CASE \E p \in Packages : \/ StartPackageInstallation(t, p)
                               \/ \E keep \in BOOLEAN : RemovePackage(t, p, keep)
  BY <1>1, <1>2 DEF StartPackageInstallation, RemovePackage
<1> QED BY <1>2, AcknowledgePreserves, CancelIncomingTaskPreserves, CancelStartedTaskPreserves
        DEF Request

LEMMA EventLoopPreserves ==
    ASSUME "readback" \notin Faults, Inv, EventLoop
    PROVE  Inv'
BY RegisterPackagesPreserves, ExecuteNextTaskPreserves, FinishedPackageExtractionPreserves,
   TaskFinishedPreserves, AnswerIsActivePreserves, StartingPackageInstallationPreserves,
   StartingPackageRemovalPreserves, FinishedPackageInstallPreserves,
   CanceledPackageInstallPreserves DEF EventLoop

(* The invariant is inductive as long as the manager can read back the reports of what
   it has just installed. *)
THEOREM Invariance ==
    ASSUME "readback" \notin Faults
    PROVE  Spec => []Inv
<1>1. Init => Inv BY InitInv
<1>2. Inv /\ [Next]_vars => Inv'
  <2> SUFFICES ASSUME Inv, [Next]_vars PROVE Inv'
    OBVIOUS
  <2>1. ASSUME NEW t \in Tasks, Request(t) PROVE Inv' BY <2>1, RequestPreserves
  <2>2. ASSUME NEW t \in Tasks, Worker(t) PROVE Inv'
    <3>1. WorkerMove(t) BY <2>2, WorkerMoves DEF Inv
    <3> QED BY <3>1, WorkerPreserves
  <2>3. CASE EventLoop BY <2>3, EventLoopPreserves
  <2>4. CASE Environment BY <2>4, ApplicationsPreserve, CrashPreserves DEF Environment
  <2>5. CASE UNCHANGED vars BY <2>5, StutteringPreserves
  <2> QED BY <2>1, <2>2, <2>3, <2>4, <2>5 DEF Next
<1> QED BY <1>1, <1>2, PTL DEF Spec

(* Every variable has its type in every reachable state. *)
THEOREM TypeCorrect ==
    ASSUME "readback" \notin Faults
    PROVE  Spec => []TypeOK
<1>1. Inv => TypeOK BY DEF Inv
<1> QED BY <1>1, Invariance, PTL

(* At most one task works on a package, and the package is blocked, and marked as being
   changed, exactly while there is one (startingPackageInstallation and
   startingPackageRemoval to finishedPackageInstall and canceledPackageInstall). *)
THEOREM PackagesAreBlockedByTheirTask ==
    ASSUME "readback" \notin Faults
    PROVE  Spec => []BlockedByItsTask
<1>1. Inv => BlockedByItsTask BY DEF Inv
<1> QED BY <1>1, Invariance, PTL

(* A live task is in exactly one of incomingTaskList, activeTask and
   installationTaskList, and a deleted one is in none of them. *)
THEOREM TasksAreListedOnce ==
    ASSUME "readback" \notin Faults
    PROVE  Spec => []LiveTasksAreListedOnce
<1>1. Inv => LiveTasksAreListedOnce
  <2> SUFFICES ASSUME Inv, NEW t \in Tasks
               PROVE  (IF t \in Range(incoming) THEN 1 ELSE 0) + (IF t = active THEN 1 ELSE 0)
                         + (IF t \in installing THEN 1 ELSE 0)
                      = IF AllTasks(t) THEN 1 ELSE 0
    BY DEF LiveTasksAreListedOnce
  <2>1. t \in Range(incoming) <=> At(t, "queued")
    <3>1. DOMAIN incoming = 1 .. Len(incoming) BY DEF Inv, TypeOK
    <3> QED BY <3>1 DEF Inv, Listed, Range
  <2>2. ~(t = active /\ t \in installing) BY DEF Inv, Listed
  <2>3. Started(t) <=> t = active \/ t \in installing BY DEF Inv, Listed
  <2>4. AllTasks(t) <=> At(t, "queued") \/ Started(t) BY DEF AllTasks, At, Started
  <2>5. ~(At(t, "queued") /\ Started(t)) BY DEF At, Started
  <2> QED BY <2>1, <2>2, <2>3, <2>4, <2>5
<1> QED BY <1>1, Invariance, PTL

=============================================================================
