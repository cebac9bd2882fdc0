------------------------- MODULE PackageStoreProofs -------------------------
(***************************************************************************)
(* PackageManager implements PackageStore: every step is, for its clients, *)
(* a request, the success or the failure of one task, a restart that costs *)
(* the open tasks, or nothing.  Proved from the table of PackageStepProofs *)
(* and the invariants of PackageDiskProofs; StoreInv adds what the outcome *)
(* of a task at its label is, and which packages are always listed.        *)
(***************************************************************************)
EXTENDS PackageTaskProofs

(* an installation is Failed as soon as it gives up, a removal when it has ended *)
OutcomeFits(t) ==
    /\ task[t].state = "Failed" => task[t].pc \in {"askCancel", "end", "finished", "gone"}
    /\ task[t].state = "Lost" => task[t].pc = "gone"
    /\ task[t].pc = "askCancel" => (task[t].state = "Failed" <=> Install(t))

KnownFits(p) ==
    /\ ~pkg[p].known => pkg[p].ver = None
    /\ ready /\ p \in BuiltIn => pkg[p].known /\ pkg[p].state # "BeingInstalled"

StoreInv ==
    /\ \A t \in Tasks : OutcomeFits(t)
    /\ \A p \in Packages : KnownFits(p)

-----------------------------------------------------------------------------
(* StoreInv *)

LEMMA WorkerOutcome ==
    ASSUME StoreInv, NEW t \in Tasks, WorkerStep(t)
    PROVE  OutcomeFits(t)'
<1>1. OutcomeFits(t) /\ task'[t].kind = task[t].kind BY DEF StoreInv, WorkerStep, WorkerFrame
<1> USE <1>1 DEF OutcomeFits, Install, Goes, KeepsState
<1>2. CASE Refused(t) BY <1>2 DEF Refused
<1>3. CASE Aborted(t) BY <1>3 DEF Aborted
<1>4. CASE GoesOn(t) BY <1>4 DEF GoesOn
<1>5. CASE StartsUnpacking(t) \/ EndsUnpacking(t) \/ WritesReport(t)
  BY <1>5 DEF StartsUnpacking, EndsUnpacking, WritesReport
<1>6. CASE CreatesDocuments(t) \/ BacksUp(t) \/ RenamesNewVersion(t) \/ RemovesBackup(t)
  BY <1>6 DEF CreatesDocuments, BacksUp, RenamesNewVersion, RemovesBackup
<1>7. CASE RenamesDocuments(t) \/ RenamesApplication(t) \/ RemovesOldVersion(t)
  BY <1>7 DEF RenamesDocuments, RenamesApplication, RemovesOldVersion
<1> QED BY <1>2, <1>3, <1>4, <1>5, <1>6, <1>7 DEF WorkerStep, Transition

LEMMA SlotOutcome ==
    ASSUME StoreInv, NEW t \in Tasks, SlotStep(t)
    PROVE  OutcomeFits(t)'
<1>1. OutcomeFits(t) /\ task'[t].kind = task[t].kind BY DEF StoreInv, SlotStep, SlotFrame
<1> USE <1>1 DEF OutcomeFits, Install, Goes, KeepsState
<1>2. CASE Begins(t) \/ Leaves(t) \/ Ends(t) \/ Answers(t)
  BY <1>2 DEF Begins, Leaves, Ends, Answers
<1>3. CASE Installs(t) \/ Updates(t) \/ Removes(t)
  BY <1>3 DEF Installs, Updates, Removes, Approves
<1>4. CASE Completes(t) \/ Withdraws(t)
  BY <1>4 DEF Completes, Withdraws
<1> QED BY <1>2, <1>3, <1>4 DEF SlotStep

LEMMA SlotKnown ==
    ASSUME Inv, DatabaseInv, StoreInv, NEW t \in Tasks, SlotStep(t)
    PROVE  \A q \in Packages : KnownFits(q)'
<1> SUFFICES ASSUME NEW q \in Packages PROVE KnownFits(q)' OBVIOUS
<1>1. KnownFits(q) /\ ready' = ready BY DEF StoreInv, SlotStep, SlotFrame
<1>2. CASE q # PkgOf(t) BY <1>1, <1>2 DEF SlotStep, SlotFrame, KnownFits
<1>3. CASE q = PkgOf(t)
  <2>1. CASE Begins(t) \/ Leaves(t) \/ Ends(t) \/ Answers(t)
    BY <1>1, <2>1 DEF Begins, Leaves, Ends, Answers, KeepsList, KnownFits
  <2>2. CASE Installs(t) BY <1>1, <1>3, <2>2 DEF Installs, Approves, KnownFits
  <2>3. CASE Updates(t) \/ Removes(t)
    BY <1>1, <1>3, <2>3 DEF Updates, Removes, Approves, Stopping, KnownFits
  <2>4. CASE Completes(t) \/ Withdraws(t)
    <3>1. task[t].pc \in Holding
      BY <2>4 DEF Completes, Withdraws, Goes, Holding, Finishing
    <3>2. ListFits(t) BY <3>1 DEF DatabaseInv, HolderFits
    <3>3. ~Absent.known /\ Absent.ver = None BY DEF Absent
    <3> QED BY <1>1, <1>3, <2>4, <3>2, <3>3 DEF Completes, Withdraws, ListFits, KnownFits
  <2> QED BY <2>1, <2>2, <2>3, <2>4 DEF SlotStep
<1> QED BY <1>2, <1>3

LEMMA RegisteredFields ==
    ASSUME RegisterPackages, NEW p \in Packages
    PROVE  /\ ~ready /\ ready' /\ pkg'[p].state = "Installed"
           /\ IF Loadable(disk[p]) THEN pkg'[p].known /\ pkg'[p].ver = disk[p].app.ver
              ELSE IF p \in BuiltIn THEN pkg'[p].known /\ pkg'[p].ver = Base
              ELSE ~pkg'[p].known /\ pkg'[p].ver = None
BY DEF RegisterPackages, Registered, Absent

LEMMA StorePreserved ==
    ASSUME "readback" \notin Faults, Inv, Inv', DatabaseInv, StoreInv, [Next]_vars
    PROVE  StoreInv'
<1>1. (\A t \in Tasks : OutcomeFits(t)) /\ \A p \in Packages : KnownFits(p) BY DEF StoreInv
<1>2. ASSUME NEW t \in Tasks, WorkerStep(t) \/ SlotStep(t) PROVE StoreInv'
  <2>1. \A u \in Tasks \ {t} : task'[u] = task[u] BY <1>2, StepsKeepFrame DEF TaskFrame
  <2>2. \A u \in Tasks \ {t} : OutcomeFits(u)' BY <1>1, <2>1 DEF OutcomeFits, Install
  <2>3. OutcomeFits(t)' BY <1>2, WorkerOutcome, SlotOutcome
  <2>4. WorkerStep(t) => \A p \in Packages : KnownFits(p)'
    BY <1>1 DEF WorkerStep, WorkerFrame, KnownFits
  <2> QED BY <1>2, <2>2, <2>3, <2>4, SlotKnown DEF StoreInv
<1>3. ASSUME NEW t \in Tasks, Enqueues(t) PROVE StoreInv'
  <2>1. \A u \in Tasks : OutcomeFits(u)' BY <1>1, <1>3 DEF Enqueues, Goes, OutcomeFits, Install
  <2>2. \A p \in Packages : KnownFits(p)' BY <1>1, <1>3 DEF Enqueues, KnownFits
  <2> QED BY <2>1, <2>2 DEF StoreInv
<1>4. SameTasks => \A u \in Tasks : OutcomeFits(u)' BY <1>1 DEF SameTasks, OutcomeFits, Install
<1>5. CASE Silent BY <1>1, <1>4, <1>5 DEF Silent, StoreInv, KnownFits
<1>6. CASE AppStep /\ AppOnly /\ SameTasks
  BY <1>1, <1>4, <1>6, AppFields DEF AppOnly, StoreInv, KnownFits
<1>7. CASE RegisterPackages /\ SameTasks
  BY <1>4, <1>7, RegisteredFields DEF StoreInv, KnownFits
<1>8. CASE Crash
  <2>1. \A u \in Tasks : OutcomeFits(u)' BY <1>1, <1>8, CrashedTask DEF OutcomeFits
  <2> QED BY <1>8, <2>1 DEF StoreInv, KnownFits, Crash, Absent
<1> QED BY <1>2, <1>3, <1>5, <1>6, <1>7, <1>8, Steps

LEMMA StoreInvariance ==
    ASSUME "readback" \notin Faults
    PROVE  Spec => []StoreInv
<1>1. Init => StoreInv
  <2> SUFFICES ASSUME Init PROVE StoreInv OBVIOUS
  <2>1. \A t \in Tasks : OutcomeFits(t) BY InitialTask DEF OutcomeFits
  <2>2. \A p \in Packages : KnownFits(p) BY DEF Init, Absent, KnownFits
  <2> QED BY <2>1, <2>2 DEF StoreInv
<1>2. Inv /\ Inv' /\ DatabaseInv /\ StoreInv /\ [Next]_vars => StoreInv' BY StorePreserved
<1> QED BY <1>1, <1>2, Invariance, DatabaseInvariance, PTL DEF Spec

-----------------------------------------------------------------------------
(* The refinement mapping, one value at a time. *)

Job(t) == IF At(t, "unused") THEN None ELSE [pkg |-> PkgOf(t), kind |-> task[t].kind]

LEMMA Jobs ==
    ASSUME TypeOK, NEW t \in Tasks
    PROVE  /\ task[t].pc # "unused" => Job(t) \in Store!Request /\ Job(t) # None
           /\ task[t].pc # "unused" => Job(t).pkg = PkgOf(t) /\ Job(t).kind = task[t].kind
           /\ task[t].pc = "unused" => Job(t) = None
BY RequestAssumption DEF Job, At, PkgOf, TypeOK, Task, Store!Request

(* what clients see of all packages but one, or of all tasks but one *)
SameStore(S) == \A p \in S : UsableVersion(p)' = UsableVersion(p)
SameOutcomes(S) == \A t \in S : Job(t)' = Job(t) /\ Outcome(t)' = Outcome(t)

LEMMA Stutters ==
    ASSUME SameStore(Packages), SameOutcomes(Tasks)
    PROVE  UNCHANGED Store!vars
BY DEF SameStore, SameOutcomes, Job, Store!vars

LEMMA Submits ==
    ASSUME SameStore(Packages), NEW t \in Tasks, SameOutcomes(Tasks \ {t}),
           NEW r \in Store!Request, Job(t) = None, Job(t)' = r, Outcome(t)' = Outcome(t)
    PROVE  Store!Next
<1> DEFINE j == [u \in Tasks |-> Job(u)]
<1>1. [u \in Tasks |-> Outcome(u)]' = [u \in Tasks |-> Outcome(u)] BY DEF SameOutcomes
<1>2. [p \in Packages |-> UsableVersion(p)]' = [p \in Packages |-> UsableVersion(p)] BY DEF SameStore
<1>3. j' = [j EXCEPT ![t] = r] BY DEF SameOutcomes
<1>4. j[t] = None OBVIOUS
<1>5. Store!Submit(t, r) BY <1>1, <1>2, <1>3, <1>4 DEF Store!Submit, Job
<1> QED BY <1>5 DEF Store!Next

LEMMA Fails ==
    ASSUME SameStore(Packages), NEW t \in Tasks, SameOutcomes(Tasks \ {t}),
           Job(t) # None, Job(t)' = Job(t), Outcome(t) = "open", Outcome(t)' = "failed"
    PROVE  Store!Next
<1> DEFINE o == [u \in Tasks |-> Outcome(u)]
<1>1. o' = [o EXCEPT ![t] = "failed"] BY DEF SameOutcomes
<1>2. [p \in Packages |-> UsableVersion(p)]' = [p \in Packages |-> UsableVersion(p)] BY DEF SameStore
<1>3. [u \in Tasks |-> Job(u)]' = [u \in Tasks |-> Job(u)] BY DEF SameOutcomes
<1>4. o[t] = "open" /\ [u \in Tasks |-> Job(u)][t] # None OBVIOUS
<1>5. Store!Fail(t) BY <1>1, <1>2, <1>3, <1>4 DEF Store!Fail, Store!Open, Job
<1> QED BY <1>5 DEF Store!Next

LEMMA Succeeds ==
    ASSUME NEW t \in Tasks, SameStore(Packages \ {PkgOf(t)}), SameOutcomes(Tasks \ {t}),
           Job(t) # None, Job(t)' = Job(t), Outcome(t) = "open", Outcome(t)' = "done",
           NEW p \in Packages, p = Job(t).pkg, p = PkgOf(t),
           UsableVersion(p)' = IF Job(t).kind = "install" THEN t
                               ELSE IF p \in BuiltIn THEN Base ELSE None
    PROVE  Store!Next
<1> DEFINE o == [u \in Tasks |-> Outcome(u)]
           j == [u \in Tasks |-> Job(u)]
           s == [q \in Packages |-> UsableVersion(q)]
           v == IF Job(t).kind = "install" THEN t ELSE IF p \in BuiltIn THEN Base ELSE None
<1>1. o' = [o EXCEPT ![t] = "done"] BY DEF SameOutcomes
<1>2. j' = j BY DEF SameOutcomes
<1>3. o[t] = "open" /\ j[t] # None /\ j[t] = Job(t) OBVIOUS
<1>4. s' = [s EXCEPT ![p] = v] BY DEF SameStore
<1>5. s' = [s EXCEPT ![j[t].pkg] = Store!Result(t)]
  BY <1>3, <1>4 DEF Store!Result, Store!Fallback, Job
<1>6. Store!Succeed(t) BY <1>1, <1>2, <1>3, <1>5 DEF Store!Succeed, Store!Open, Job
<1> QED BY <1>6 DEF Store!Next

-----------------------------------------------------------------------------
(* Every step is a step of the store. *)

LEMMA WorkerLabels ==
    ASSUME NEW t \in Tasks, WorkerStep(t)
    PROVE  Started(t) /\ Started(t)'
<1> USE DEF Started, Goes
<1>1. CASE Refused(t) \/ Aborted(t) BY <1>1 DEF Refused, Aborted
<1>2. CASE GoesOn(t) BY <1>2 DEF GoesOn
<1>3. CASE StartsUnpacking(t) \/ EndsUnpacking(t) \/ WritesReport(t)
  BY <1>3 DEF StartsUnpacking, EndsUnpacking, WritesReport
<1>4. CASE CreatesDocuments(t) \/ BacksUp(t) \/ RenamesNewVersion(t) \/ RemovesBackup(t)
  BY <1>4 DEF CreatesDocuments, BacksUp, RenamesNewVersion, RemovesBackup
<1>5. CASE RenamesDocuments(t) \/ RenamesApplication(t) \/ RemovesOldVersion(t)
  BY <1>5 DEF RenamesDocuments, RenamesApplication, RemovesOldVersion
<1> QED BY <1>1, <1>2, <1>3, <1>4, <1>5 DEF WorkerStep, Transition

LEMMA SlotLabels ==
    ASSUME NEW t \in Tasks, SlotStep(t)
    PROVE  task[t].pc # "unused" /\ task'[t].pc # "unused"
BY DEF SlotStep, Begins, Leaves, Ends, Answers, Installs, Updates, Removes, Approves, Completes,
       Withdraws, Goes

LEMMA OtherOutcomes ==
    ASSUME NEW t \in Tasks, \A u \in Tasks \ {t} : task'[u] = task[u]
    PROVE  SameOutcomes(Tasks \ {t})
BY DEF SameOutcomes, Job, Outcome, Ended, At, PkgOf

LEMMA SameJob ==
    ASSUME Inv, NEW t \in Tasks, WorkerStep(t) \/ SlotStep(t)
    PROVE  Job(t)' = Job(t) /\ Job(t) # None
<1>1. task[t].pc # "unused" /\ task'[t].pc # "unused" BY WorkerLabels, SlotLabels DEF Started
<1>2. task'[t].pkg = task[t].pkg /\ task'[t].kind = task[t].kind
  BY DEF WorkerStep, WorkerFrame, SlotStep, SlotFrame
<1> QED BY <1>1, <1>2, Jobs DEF Job, At, PkgOf, Inv

(* a step of one task that neither changes what clients see of the packages nor finishes
   the task successfully *)
LEMMA QuietStep ==
    ASSUME Inv, SameStore(Packages), NEW t \in Tasks, WorkerStep(t) \/ SlotStep(t),
           Outcome(t)' = Outcome(t) \/ (Outcome(t) = "open" /\ Outcome(t)' = "failed")
    PROVE  Store!Next \/ UNCHANGED Store!vars
<1>1. SameOutcomes(Tasks \ {t}) BY StepsKeepFrame, OtherOutcomes DEF TaskFrame
<1>2. Job(t)' = Job(t) /\ Job(t) # None BY SameJob
<1>3. CASE Outcome(t)' = Outcome(t)
  <2>1. SameOutcomes(Tasks) BY <1>1, <1>2, <1>3 DEF SameOutcomes
  <2> QED BY <2>1, Stutters
<1>4. CASE Outcome(t) = "open" /\ Outcome(t)' = "failed"
  BY <1>1, <1>2, <1>4, Fails
<1> QED BY <1>3, <1>4

LEMMA WorkerStore ==
    ASSUME Inv, StoreInv, NEW t \in Tasks, WorkerStep(t)
    PROVE  Store!Next \/ UNCHANGED Store!vars
<1>1. ready BY WorkerLabels, StartedIsReady
<1>2. SameStore(Packages) BY <1>1 DEF SameStore, UsableVersion, WorkerStep, WorkerFrame
<1>3. OutcomeFits(t) /\ OutcomeFits(t)' BY WorkerOutcome DEF StoreInv
<1>4. Outcome(t)' = Outcome(t) \/ (Outcome(t) = "open" /\ Outcome(t)' = "failed")
  <2> USE <1>3 DEF OutcomeFits, Outcome, Ended, Goes, KeepsState
  <2>1. CASE Refused(t) BY <2>1 DEF Refused
  <2>2. CASE Aborted(t) BY <2>2 DEF Aborted
  <2>3. CASE GoesOn(t) BY <2>3 DEF GoesOn
  <2>4. CASE StartsUnpacking(t) \/ EndsUnpacking(t) \/ WritesReport(t)
    BY <2>4 DEF StartsUnpacking, EndsUnpacking, WritesReport
  <2>5. CASE CreatesDocuments(t) \/ BacksUp(t) \/ RenamesNewVersion(t) \/ RemovesBackup(t)
    BY <2>5 DEF CreatesDocuments, BacksUp, RenamesNewVersion, RemovesBackup
  <2>6. CASE RenamesDocuments(t) \/ RenamesApplication(t) \/ RemovesOldVersion(t)
    BY <2>6 DEF RenamesDocuments, RenamesApplication, RemovesOldVersion
  <2> QED BY <2>1, <2>2, <2>3, <2>4, <2>5, <2>6 DEF WorkerStep, Transition
<1> QED BY <1>2, <1>4, QuietStep

LEMMA SlotStore ==
    ASSUME Inv, Inv', DatabaseInv, StoreInv, NEW t \in Tasks, SlotStep(t)
    PROVE  Store!Next \/ UNCHANGED Store!vars
<1>0. PICK p \in Packages : p = PkgOf(t) BY TypedFields DEF Inv, PkgOf
<1> USE <1>0
<1>1. /\ OutcomeFits(t) /\ OutcomeFits(t)'
      /\ task'[t].kind = task[t].kind /\ ready' = ready
      /\ \A q \in Packages \ {p} : pkg'[q] = pkg[q]
  BY SlotOutcome DEF StoreInv, SlotStep, SlotFrame
<1>2. KnownFits(p) BY <1>1 DEF StoreInv
<1>3. CASE Begins(t) \/ Leaves(t) \/ Ends(t) \/ Answers(t)
  <2>1. UNCHANGED pkg BY <1>3 DEF Begins, Leaves, Ends, Answers, KeepsList
  <2>2. ready \/ UNCHANGED disk
    <3>1. CASE Leaves(t)
      <4>1. disk \in [Packages -> PackageDirs] /\ disk' \in [Packages -> PackageDirs]
        BY DEF Inv, TypeOK
      <4>2. \A q \in Packages : disk'[q] = disk[q]
        BY <3>1 DEF Leaves, KeepsDirs, Dirs, SlotStep, SlotFrame
      <4> QED BY <4>1, <4>2
    <3>2. CASE ~Leaves(t)
      <4>1. Begins(t) \/ Started(t) BY <1>3, <3>2 DEF Ends, Answers, Goes, Started
      <4> QED BY <4>1, StartedIsReady DEF Begins
    <3> QED BY <3>1, <3>2
  <2>3. SameStore(Packages) BY <1>1, <2>1, <2>2 DEF SameStore, UsableVersion
  <2>4. Outcome(t)' = Outcome(t) \/ (Outcome(t) = "open" /\ Outcome(t)' = "failed")
    BY <1>1, <1>3 DEF Begins, Leaves, Ends, Answers, Goes, KeepsState, OutcomeFits, Outcome, Ended
  <2> QED BY <2>3, <2>4, QuietStep
<1>4. CASE Installs(t) \/ Updates(t) \/ Removes(t)
  <2>1. ready /\ ~InHand(p) /\ Goes(t, task[t].pc, "waitStop") /\ KeepsState(t)
        /\ task[t].pc \in {"askApproval", "askRemoval"}
    BY <1>4, StartedIsReady DEF Installs, Updates, Removes, Approves, Goes, Started
  <2>2. pkg[p].state = "Installed" BY <1>1, <2>1 DEF Inv, BlockedByItsTask
  <2>3. UsableVersion(p)' = UsableVersion(p)
    <3>1. CASE Installs(t) BY <1>1, <1>2, <2>1, <2>2, <3>1 DEF Installs, KnownFits, UsableVersion
    <3>2. CASE Updates(t) \/ Removes(t)
      BY <1>1, <2>1, <2>2, <3>2 DEF Updates, Removes, Stopping, UsableVersion
    <3> QED BY <1>4, <3>1, <3>2
  <2>4. SameStore(Packages) BY <1>1, <2>1, <2>3 DEF SameStore, UsableVersion
  <2>5. Outcome(t)' = Outcome(t)
    BY <2>1 DEF Goes, KeepsState, Outcome, Ended
  <2> QED BY <2>4, <2>5, QuietStep
<1>5. CASE Withdraws(t)
  <2>1. ready /\ task[t].pc = "askCancel" /\ task'[t].pc = IF Install(t) THEN "end" ELSE "setError"
    BY <1>5, StartedIsReady DEF Withdraws, Goes, Started
  <2>2. task'[t].state = task[t].state BY <1>5 DEF Withdraws, KeepsState
  <2>3. Absent.ver = None /\ Absent.state = "Installed" BY DEF Absent
  <2>4. UsableVersion(p)' = UsableVersion(p)
    BY <1>1, <1>5, <2>1, <2>3 DEF Withdraws, UsableVersion
  <2>5. SameStore(Packages) BY <1>1, <2>1, <2>4 DEF SameStore, UsableVersion
  <2>6. Outcome(t)' = Outcome(t)
    BY <1>1, <2>1, <2>2 DEF OutcomeFits, Outcome, Ended
  <2> QED BY <2>5, <2>6, QuietStep
<1>6. CASE Completes(t)
  <2>1. ready /\ task[t].pc = "askFinish" /\ task'[t].pc = "end" /\ task'[t].state = task[t].state
    BY <1>6, StartedIsReady DEF Completes, Goes, Started, KeepsState
  <2>2. ListFits(t) BY <2>1 DEF DatabaseInv, HolderFits, Holding
  <2>3. Outcome(t) = "open" /\ Outcome(t)' = "done"
    BY <1>1, <2>1 DEF OutcomeFits, Outcome, Ended
  <2>4. Absent.ver = None /\ Absent.state = "Installed" BY DEF Absent
  <2>5. UsableVersion(p)' = IF Install(t) THEN t ELSE IF p \in BuiltIn THEN Base ELSE None
    BY <1>1, <1>6, <2>1, <2>2, <2>4 DEF Completes, ListFits, UsableVersion
  <2>6. Job(t).pkg = p /\ (Job(t).kind = "install" <=> Install(t))
    BY <2>1, Jobs DEF Inv, Install
  <2>7. SameStore(Packages \ {p}) BY <1>1, <2>1 DEF SameStore, UsableVersion
  <2>8. SameOutcomes(Tasks \ {t}) BY StepsKeepFrame, OtherOutcomes DEF TaskFrame
  <2>9. Job(t)' = Job(t) /\ Job(t) # None BY SameJob
  <2> QED BY <1>1, <2>3, <2>5, <2>6, <2>7, <2>8, <2>9, Succeeds
<1> QED BY <1>3, <1>4, <1>5, <1>6 DEF SlotStep

LEMMA EnqueuesStore ==
    ASSUME Inv, Inv', StoreInv, NEW t \in Tasks, Enqueues(t)
    PROVE  Store!Next
<1>1. UNCHANGED <<pkg, disk, ready>> /\ \A u \in Tasks \ {t} : task'[u] = task[u] BY DEF Enqueues
<1>2. SameStore(Packages) BY <1>1 DEF SameStore, UsableVersion
<1>3. SameOutcomes(Tasks \ {t}) BY <1>1, OtherOutcomes
<1>4. task[t].pc = "unused" /\ task'[t].pc = "queued" /\ task'[t].state = "Queued"
  BY DEF Enqueues, Goes
<1>5. Outcome(t)' = Outcome(t) BY <1>4 DEF StoreInv, OutcomeFits, Outcome, Ended
<1>6. task'[t].pkg \in Packages /\ task'[t].kind \in {"install", "remove"}
  BY DEF Inv, TypeOK, Task
<1>7. Job(t)' = [pkg |-> task'[t].pkg, kind |-> task'[t].kind] BY <1>4 DEF Job, At, PkgOf
<1>9. PICK r \in Store!Request : Job(t)' = r
  BY <1>6, <1>7 DEF Store!Request
<1>8. Job(t) = None BY <1>4, Jobs DEF Inv
<1> QED BY <1>2, <1>3, <1>5, <1>8, <1>9, Submits

LEMMA SameTasksOutcomes ==
    ASSUME SameTasks
    PROVE  SameOutcomes(Tasks)
BY DEF SameTasks, SameOutcomes, Job, Outcome, Ended, At, PkgOf

(* registerPackages makes usable what was found on the disk *)
LEMMA RegisterStore ==
    ASSUME Inv, RegisterPackages, SameTasks
    PROVE  UNCHANGED Store!vars
<1>1. SameStore(Packages) BY RegisteredFields DEF SameStore, UsableVersion
<1> QED BY <1>1, SameTasksOutcomes, Stutters

(* what is left of a package without its installed version, and what a restart is going
   to find *)
Remains(p) == IF p \in BuiltIn THEN Base ELSE None
Found(p) == IF Loadable(disk[p]) THEN disk[p].app.ver ELSE Remains(p)

Open(t) == task[t].pc # "unused" /\ Outcome(t) = "open"

(* A package no open task works on is found as it is: a task that has failed has undone
   its renames before its outcome is known. *)
LEMMA FoundAsListed ==
    ASSUME "undo" \notin Faults, Inv, UnpackInv, DatabaseInv, StoreInv, NEW p \in Packages
    PROVE  \/ Found(p) = UsableVersion(p)
           \/ \E t \in Tasks : /\ Open(t) /\ PkgOf(t) = p
                               /\ Found(p) \in {IF Install(t) THEN t ELSE Remains(p), Remains(p)}
<1>1. /\ Loadable(disk[p]) <=> Exists(disk[p].app)
      /\ KnownFits(p) /\ ~MayFail("undo")
  BY DEF UnpackInv, IsWhole, Loadable, StoreInv, MayFail
<1>2. CASE ~ready BY <1>2 DEF Found, Remains, UsableVersion
<1>3. CASE ready /\ ~InHand(p)
  <2>1. QuietFits(p) /\ pkg[p].state = "Installed" BY <1>3 DEF DatabaseInv, Inv, BlockedByItsTask
  <2>2. Lists(p, pkg[p].known, pkg[p].ver, disk[p]) BY <2>1 DEF QuietFits
  <2> QED BY <1>1, <1>3, <2>1, <2>2 DEF Lists, KnownFits, Found, Remains, UsableVersion
<1>4. CASE ready /\ InHand(p)
  <2>1. PICK t \in Tasks : task[t].pc \in Holding /\ PkgOf(t) = p BY <1>4 DEF InHand, Holds
  <2>2. ListFits(t) /\ DirsFit(t) /\ OutcomeFits(t) BY <2>1 DEF DatabaseInv, HolderFits, StoreInv
  <2>3. CASE "backup" \notin task[t].scoped /\ task[t].pc \notin Done
    <3>1. Restored(t) = disk[p] BY <2>1, <2>3 DEF Restored
    <3>2. Lists(p, pkg[p].state # "BeingInstalled", pkg[p].ver, disk[p])
      BY <2>1, <2>2, <2>3, <3>1 DEF DirsFit
    <3> QED BY <1>1, <1>4, <3>2 DEF Lists, KnownFits, Found, Remains, UsableVersion
  <2>4. CASE "backup" \in task[t].scoped \/ task[t].pc \in Done
    <3>1. task[t].pc \in Done \cup {"rename"} BY <2>4, UndoneByLabel
    <3>2. Open(t) BY <2>2, <3>1 DEF OutcomeFits, Open, Outcome, Ended, Done
    <3>3. CASE task[t].pc \in Done BY <1>1, <2>1, <2>2, <3>2, <3>3 DEF DirsFit, Found
    <3>4. CASE task[t].pc \notin Done
      <4>1. ~Exists(disk[p].app) BY <2>1, <2>2, <2>4, <3>4 DEF DirsFit
      <4> QED BY <1>1, <2>1, <3>2, <4>1 DEF Found
    <3> QED BY <3>3, <3>4
  <2> QED BY <2>3, <2>4
<1> QED BY <1>2, <1>3, <1>4

LEMMA CrashOutcomes ==
    ASSUME Inv, StoreInv, Crash, NEW t \in Tasks
    PROVE  Job(t)' = Job(t) /\ Outcome(t)' = IF Open(t) THEN "lost" ELSE Outcome(t)
<1>1. OutcomeFits(t) BY DEF StoreInv
<1>2. Job(t)' = Job(t)
  <2>1. task'[t].pc = "unused" <=> task[t].pc = "unused" BY CrashedTask
  <2> QED BY <2>1, CrashedTask DEF Job, At, PkgOf
<1>3. CASE task[t].pc = "unused" BY <1>2, <1>3, CrashedTask DEF Open, Outcome, Ended
<1>4. CASE task[t].pc # "unused" /\ Ended(t)
  <2>1. Outcome(t) # "open" /\ ~Open(t) BY <1>4 DEF Outcome, Open
  <2>2. task'[t].pc = "gone" /\ task'[t].state = task[t].state BY <1>4, CrashedTask
  <2> QED BY <1>2, <1>4, <2>1, <2>2 DEF Outcome, Ended
<1>5. CASE task[t].pc # "unused" /\ ~Ended(t)
  <2>1. task[t].state \notin {"Failed", "Lost"} /\ task[t].pc # "gone" BY <1>1, <1>5 DEF Ended, OutcomeFits
  <2>2. Open(t) BY <1>5, <2>1 DEF Open, Outcome
  <2>3. task'[t].state = "Lost" BY <1>5, <2>1, CrashedTask
  <2> QED BY <1>2, <2>2, <2>3 DEF Outcome
<1> QED BY <1>3, <1>4, <1>5

LEMMA CrashStore ==
    ASSUME "undo" \notin Faults, Inv, UnpackInv, DatabaseInv, StoreInv, Crash
    PROVE  Store!Next \/ UNCHANGED Store!vars
<1> DEFINE s == [p \in Packages |-> UsableVersion(p)]
           j == [t \in Tasks |-> Job(t)]
           o == [t \in Tasks |-> Outcome(t)]
           lost == {t \in Tasks : Open(t)}
<1>1. ASSUME NEW p \in Packages PROVE UsableVersion(p)' = Found(p)
  <2>0. disk'[p].app \in {disk[p].app, IF Loadable(disk[p]) THEN disk[p].app ELSE NoDir}
    BY CrashedDirs
  <2>1. Loadable(disk'[p]) <=> Loadable(disk[p])
    BY <2>0 DEF Loadable, Exists
  <2>2. Loadable(disk[p]) => disk'[p].app = disk[p].app BY <2>0
  <2>3. ~ready' BY DEF Crash
  <2>4. UsableVersion(p)' = IF Loadable(disk'[p]) THEN disk'[p].app.ver
                            ELSE IF p \in BuiltIn THEN Base ELSE None
    BY <2>3 DEF UsableVersion, Loadable
  <2> QED BY <2>1, <2>2, <2>4 DEF Found, Remains
<1>2. CASE lost = {}
  <2>1. SameStore(Packages) BY <1>1, <1>2, FoundAsListed DEF SameStore
  <2>2. SameOutcomes(Tasks) BY <1>2, CrashOutcomes DEF SameOutcomes
  <2> QED BY <2>1, <2>2, Stutters
<1>3. CASE lost # {}
  <2>1. j' = j BY CrashOutcomes
  <2>2. \A t \in Tasks : j[t] = Job(t) /\ o[t] = Outcome(t) OBVIOUS
  <2>3. o' = [t \in Tasks |-> IF t \in lost THEN "lost" ELSE o[t]] BY CrashOutcomes
  <2>4. ASSUME NEW t \in lost
        PROVE  /\ j[t] # None /\ o[t] = "open"
               /\ j[t].pkg = PkgOf(t) /\ (j[t].kind = "install" <=> Install(t))
    BY <2>2, Jobs DEF Open, Inv, Install
  <2>5. lost \in SUBSET {t \in Tasks : j[t] # None /\ o[t] = "open"} BY <2>4
  <2>6. ASSUME NEW p \in Packages
        PROVE  \/ s'[p] = s[p]
               \/ \E t \in lost : j[t].pkg = p /\ s'[p] \in {IF j[t].kind = "install" THEN t
                                                             ELSE Remains(j[t].pkg), Remains(p)}
    <3>1. s'[p] = Found(p) /\ s[p] = UsableVersion(p) BY <1>1
    <3>2. CASE Found(p) = UsableVersion(p) BY <3>1, <3>2
    <3>3. CASE \E t \in Tasks : /\ Open(t) /\ PkgOf(t) = p
                                /\ Found(p) \in {IF Install(t) THEN t ELSE Remains(p), Remains(p)}
      BY <2>4, <3>1, <3>3
    <3> QED BY <3>2, <3>3, FoundAsListed
  <2>7. DOMAIN s' = Packages OBVIOUS
  <2> HIDE DEF lost
  <2>8. Store!Restart
    BY <1>3, <2>1, <2>3, <2>5, <2>6, <2>7
       DEF Store!Restart, Store!Open, Store!Result, Store!Fallback, Job, Remains
  <2> QED BY <2>8 DEF Store!Next
<1> QED BY <1>2, <1>3

LEMMA StoreStep ==
    ASSUME "readback" \notin Faults, "undo" \notin Faults, Inv, Inv', UnpackInv, DatabaseInv, StoreInv,
           [Next]_vars
    PROVE  Store!Next \/ UNCHANGED Store!vars
<1>1. CASE Silent
  <2>1. SameStore(Packages) BY <1>1 DEF Silent, SameStore, UsableVersion
  <2> QED BY <1>1, <2>1, SameTasksOutcomes, Stutters DEF Silent
<1>2. CASE AppStep /\ AppOnly /\ SameTasks
  <2>1. SameStore(Packages) BY <1>2, AppFields DEF AppOnly, SameStore, UsableVersion
  <2> QED BY <1>2, <2>1, SameTasksOutcomes, Stutters
<1> QED BY <1>1, <1>2, Steps, WorkerStore, SlotStore, EnqueuesStore, RegisterStore, CrashStore

LEMMA StoreInitially ==
    ASSUME Init
    PROVE  Store!Init
<1>1. \A p \in Packages : UsableVersion(p) \in Version \cup {None}
  <2> TAKE p \in Packages
  <2>1. ~ready BY DEF Init
  <2>2. disk[p].app \in {Whole(Shipped), NoDir} BY InitialDisk
  <2>3. Whole(Shipped).ver = Shipped BY DEF Whole
  <2>4. Loadable(disk[p]) => disk[p].app.ver = Shipped BY <2>2, <2>3 DEF Loadable, Exists
  <2> QED BY <2>1, <2>4 DEF UsableVersion, Version
<1>2. \A t \in Tasks : Job(t) = None /\ Outcome(t) = "open"
  BY InitialTask DEF Job, At, Outcome, Ended
<1> QED BY <1>1, <1>2 DEF Store!Init, Job

(* To its clients PackageManager is a store of packages that changes in one step per
   successful task; a failed or canceled task changes nothing, and a crash costs at most
   the packages that open tasks were working on. *)
THEOREM PackageStoreIsImplemented ==
    ASSUME "readback" \notin Faults, "undo" \notin Faults
    PROVE  Spec => ImplementsPackageStore
<1>1. Init => Store!Init BY StoreInitially
<1>2. Inv /\ Inv' /\ UnpackInv /\ DatabaseInv /\ StoreInv /\ [Next]_vars
        => [Store!Next]_Store!vars
  BY StoreStep
<1> QED BY <1>1, <1>2, Invariance, UnpackInvariance, DatabaseInvariance, StoreInvariance, PTL
        DEF Spec, ImplementsPackageStore, Store!Spec

============================================================================
