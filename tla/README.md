# A TLA+ model of the Qt Application Manager

The Qt Application Manager is the system process of an embedded device. It installs, updates
and removes packages, starts and stops the applications in them, brokers intents between
applications, shows their notifications and composes their windows. It is driven by one main
event loop, worker threads for installations, timers, D-Bus, and the processes of the
applications, any of which may die at any moment.

This directory holds TLA+ specifications of that program, TLC configurations that check them
on small instances, and proofs that TLAPS checks. All paths below are relative to the
repository's `src/` directory unless they start with another directory; `PROJECT.json` maps
each definition to the lines it is translated from.

    tlc -workers 2 -config MCPackageManager.cfg MCPackageManager
    tlapm ApplicationManagerProofs.tla

| file | what it is |
|---|---|
| `PackageDirs.tla` | the directories of one package and the scoped operations on them |
| `PackageManager.tla` | package manager, its task threads, package blocking, restart |
| `PackageStore.tla` | what the package manager promises: an atomic store |
| `MCPackageManager.tla` + 5 `.cfg` | instances of it for TLC |
| `PackageManagerProofs.tla` | inductive invariant of `PackageManager`: lists, calls, blocks |
| `PackageStepProofs.tla` | its steps as a table of transitions of one task and its directories |
| `PackageDiskProofs.tla`, `PackageTaskProofs.tla` | the disk invariants; outcome, documents and stopped applications |
| `PackageStoreProofs.tla` | that it implements `PackageStore` |
| `IntentServer.tla` | the intent broker: requests, queues, timers, connections |
| `MCIntentServer.tla` + 4 `.cfg` | instances of it for TLC |
| `IntentServerProofs.tla` | inductive invariant and theorems of `IntentServer` |
| `IntentClient.tla` | the applications at both ends of an intent, composed with `IntentServer` |
| `MCIntentClient.tla` + `.cfg` | an instance of it for TLC |
| `IntentClientProofs.tla` | inductive invariant and theorems of `IntentClient`, over those of the server |
| `Runtime.tla` | `Application` and `AbstractRuntime`, which point at each other |
| `NativeRuntime.tla`, `QmlInProcRuntime.tla` | the two kinds of runtimes |
| `QuickLauncher.tla` | the pool of launcher processes |
| `ApplicationManager.tla` | requests, shutdown, and all of the above in one system |
| `AppLifeCycle.tla` | what the package manager expects of applications |
| `MCApplicationManager.tla` + 2 `.cfg` | instances of it for TLC |
| `ApplicationManagerProofs.tla` | inductive invariant and theorems of `ApplicationManager` |

## 1. Inventory

For each part: its state, its operations, with whom it talks, what is hard about it, and what
makes it correct.

**Package manager** (`manager-lib/packagemanager.cpp`). State: the list of `Package` objects,
`incomingTaskList` (FIFO), `activeTask`, `installationTaskList` (extracted, waiting for
acknowledge), `cleanupBrokenInstallationsDone`. Operations: `startPackageInstallation`,
`removePackage`, `acknowledgePackageInstallation`, `cancelTask`, `executeNextTask`,
registration of packages, cleanup of broken installations, and the calls tasks make to it:
`startingPackageInstallation/Removal`, `finished/canceledPackageInstall`,
`isPackageInstallationActive`. Hard: posted and blocking calls from worker threads interleave
with requests; a crash may happen between any two of these. Correct if the list of packages,
the blocks and the disk agree whenever no task is at work, and each task ends.

**Task threads** (`installationtask.cpp`, `deinstallationtask.cpp`, `asynchronoustask.cpp`).
State: task state, canceled/acknowledged flags, the process-wide finish lock, the scoped
creators and renamers. Hard: `cancel` and `acknowledge` may come at any moment, each step may
fail and has to be undone. Correct if a failed or canceled task leaves nothing behind.

**Scoped directory operations, package database** (`scopeutilities.cpp`,
`application-lib/packagedatabase.cpp`). State: the file system. Hard: the process dies between
two renames; undoing fails. Correct if a restart always finds a whole package.

**Package blocking** (`package.cpp`, `application.cpp`). State: block counter, set of
applications still to stop. Hard: stopping is asynchronous, starting too. Correct if no
application of a package runs while its files change.

**Application life cycle** (`applicationmanager.cpp`, `abstractruntime.cpp`,
`nativeruntime.cpp`, `qmlinprocruntime.cpp`, `processcontainer.cpp`). State: run state of each
application, its current runtime, the run state of the runtime, the process behind it.
Operations: start, stop, forced stop after a timeout, end or crash of a process, the D-Bus
peer connecting, `openUrl`, adding and removing applications, shutdown. Hard: a start is
spread over several callbacks; stop, crash and removal may come between any two of them.
Correct if an application has at most one runtime, its run state tells the truth, and
shutdown ends.

**Quick launcher** (`quicklauncher.cpp`). State: a pool of pre-started runtimes per container
and runtime type, a list of failed starts, timers. Hard: rebuilding, taking and dying
interleave. Correct if the pool neither outgrows its limit nor restarts forever.

**Intent server** (`intent-server-lib/`, its interface in `manager-lib/intentaminterface.cpp`).
State: requests in the request queue and three waiting queues, single-shot timers, IPC
connections. Operations: `requestToSystem`, `processRequestQueue` in five steps,
disambiguation, start of the handler, replies, timeouts. Hard: senders, handlers and System UI
answer late, twice, or never, and die. Correct if every request is answered exactly once, by
someone who may, and none waits forever.

**Intent client** (`intent-client-lib/`). State: client requests waiting for an id or a result,
handlers, timers. Hard: replies that are later than the client's own timeout. Correct if a
request finishes once, with the first of result and timeout.

**Notification manager** (`notificationmanager.cpp`). State: active notifications with their
timers. Hard: a timeout, a dismissal and a `closeNotification` race each other and an update
of the same id. Correct if a notification is closed once and no timer closes a newer one.

**Window manager, compositor** (`window-lib/`). Windows appear and vanish with Wayland surfaces;
a watchdog pings and kills clients. Mostly Qt Quick scene state.

**Start and shutdown** (`main-lib/main.cpp`). Sequential set-up; shutdown waits for
applications, quick-launchers and container helpers, with a timeout.

**Configuration and YAML**, **archives and signatures**, **watchdogs and crash handler**,
**logging, D-Bus plumbing, monitoring, tools**, **container plugins and sudo helper**: data
transformation, I/O and diagnostics, with no state that several actors change.

How they interact: a task asks the package manager (blocking call) to start an installation;
it blocks the package, which stops the applications through the application manager; the
worker polls until they are stopped. The intent server asks the application manager to start
a handler, and learns that it runs from its IPC connection. Main registers the packages when
the installation directory is available, and shuts all of this down.

The behaviours that are hard to test are listed, with their lines, under `hazards` in
`PROJECT.json`, each with the properties that cover it or the reason why none does yet.

## 2. Plan

1. Done: `PackageDirs`, `PackageManager`, `PackageStore`: data loss is the worst that can
   happen on such a device, and the installer mixes threads, callbacks and crashes.
2. Done: `IntentServer`: the component with the most message traffic and timeouts.
3. Done: `ApplicationManager`, over `NativeRuntime`, `QmlInProcRuntime` and `QuickLauncher`:
   the part with the most callbacks per line, and what the installer relies on
   (`AppLifeCycle`).
4. Done: `IntentClient`, composed with `IntentServer` over FIFO connections.
5. Done: proofs. Each safety property the passing runs check, each action property and both
   refinements are theorems (sections 3 to 6, each with the conditions they hold under).
   Liveness stays with TLC: it rests on fairness and on `ENABLED`.
6. Not planned now: `NotificationManager`, which is independent of the other parts, and
   `openUrl` of `ApplicationManager`.

## 3. The installer

### Correspondence

`PackageManager` models threads as they are. Each task is a worker with a program counter
`task[t].pc`; a label stands for the code between two places where another thread can
interfere or where the process can die with a different disk. The main thread is an event
loop over the FIFO `calls`. A blocking queued invocation is two steps: the worker posts a call
and stays at an `ask...` label; the event loop runs it and lets the worker go on. The
serialisation of `finishInstallation` by a static mutex is `FinishLockHeld`.

| model | code |
|---|---|
| `incoming`, `active`, `installing` | `incomingTaskList`, `activeTask`, `installationTaskList` |
| `pkg[p]` | the `Package` object: state, block counter, applications to stop, base and update info |
| `app[a]` | run state of an application; `Pending` is a start whose container is not ready |
| `disk[p]` | `<id>`, `<id>+`, `<id>-` in the installation path and `<id>`, `<id>-` in the document path |
| `task[t].scoped` | the scoped creators and renamers that still would undo their operation |
| `Throw` | the handler at the end of `execute()` and the destructors that run before it |
| `Crash`, `RegisterPackages` | the process dies; the next one loads the database and cleans up |

What a directory contains is reduced to who wrote it and how far: it is being unpacked
(`unpacking`), is complete but for its report (`unpacked`), is complete (`reported`), or is a
`leftover` of a recursive removal that failed half-way. The archive, its signature and
checksums are one outcome: unpacking fails or not. The constant `Faults` says which I/O
operations may fail; they fail nondeterministically:

| fault | what fails | what the code does |
|---|---|---|
| `unpack` | download, archive, signature | the task fails |
| `mkdir` | making `<id>+` or the document directory, or entering it | the task fails |
| `report` | writing the installation report | the task fails |
| `rename` | a rename of a `ScopedRenamer`, after the old target has been deleted | the destructors undo the renames before it |
| `undo` | renaming back in a destructor, of the application or of the documents | it is logged; the backup `<id>-` stays |
| `remove` | deleting a directory: an old `<id>+` or target of a rename, `<id>+` in a destructor, `<id>-` at the end | before the renames the task fails; later it is logged or ignored; a leftover stays |
| `readback` | reading the report just written | `finishedPackageInstall` returns early |

A failing cleanup of a start ends the process (`main.cpp:613-632`): this is a `Crash` that finds
each directory still there, partly deleted or gone (`PartlyCleanedUp`).

`PackageStore` is the promise to the clients: a version per package, changed in one step by a
task that succeeds, never by one that fails, and at most lost for a package under work when
the process dies. `ImplementsPackageStore` maps the usable version, the requests and the
outcomes of the tasks to it.

### Runs

| run | instance | what it shows |
|---|---|---|
| `installer_tasks` | 1 package, 1 application, 3 tasks, all faults but `readback`, no crash; 642 000 states | list, block and disk are consistent in every interleaving of three tasks on one package; `TypeOK`, `BlockedByItsTask`, `ApplicationDirIsWhole`, `UnpackDirHasOneOwner`, `StoppedWhileFilesChange`, `DatabaseMatchesDisk`, `FailedInstallationLeavesNothing`, `LiveTasksAreListedOnce` |
| `installer_crash` | one package of each sort (built-in or not), an application that starts slowly, 2 tasks, 2 crashes, all faults but `readback` and `undo`; 1 280 000 states | restarts find a whole package and the system implements the store: `ApplicationDirIsWhole`, `DatabaseMatchesDisk`, `ImplementsPackageStore` |
| `installer_live` | 2 packages, 2 tasks, failing renames, undos and removals, fairness; 376 000 states | tasks end (`TasksEnd`, see fairness), and an installed package keeps its documents, whatever fails (`InstalledPackagesHaveDocuments`) |
| `keep_documents` | 1 package, 2 tasks, a crash | violates `KeptDocumentsStay`, see findings |
| `slow_start` | 1 package with an application that starts slowly | violates `StoppedWhileFilesChange`, see findings |

Why the bounds are enough: tasks meet in a package, in the queue or in the finish lock. Three
tasks on one package give one that is extracted and waits, one that is active, and one that is
queued, which is every list with an entry, and every pair of kinds. Two packages are needed
for tasks that hold the lock and wait for it, and for the two sorts of packages. Two crashes
are one during the work and one during the cleanup after it; cleaning is idempotent, so a
third would find a disk the second could have left. Task ids are used once: a run ends when
they are used up, which is why deadlock is not checked in these configurations. Task symmetry
is only used where no liveness property is checked.

What a fault costs is part of the properties. After a refused `undo` the old version stays in
`<id>-`, and the list of packages still names it (`DatabaseMatchesDisk`); documents that were
being removed with it stay in the document path's `<id>-`
(`InstalledPackagesHaveDocuments`). Both are lost at the next start, when the cleanup deletes
them. After a refused `remove` a leftover stays, never anything complete: in `<id>+`
(`UnpackDirHasOneOwner`, `FailedInstallationLeavesNothing`) or in `<id>-`
(`DatabaseMatchesDisk`). `installer_crash` has no `undo`, so that there these properties allow
leftovers only.

### Fairness

The event loop runs posted calls and every worker goes on: these are threads of the operating
system. An application that is shutting down ends: the runtime kills it after a timeout.
Nothing is assumed of the System UI, nor of the source of a package: the extractor waits for
data without a timeout (`packageextractor.cpp:186`), so the fairness of a worker,
`WF_vars(~NeedsData(t) /\ Worker(t))`, does not cover it while it waits (a cancel wakes it up).
`TasksEnd` therefore claims two things:

- A task that was canceled, a removal that has started, and an installation that is
  acknowledged after its extraction end, whatever the other tasks wait for.
- An installation that was acknowledged earlier, and a removal that is still queued, end unless
  some task waits for data for ever. This exception is real: an acknowledged installation
  cannot be canceled (`installationtask.cpp:116`), and what is queued behind it has to wait.

### What is proved

For every number of packages, applications and tasks, any number of crashes, and all faults but
`readback` (failing renames, undos and removals included):

| theorem | states |
|---|---|
| `TypeCorrect` | `Spec => []TypeOK` |
| `PackagesAreBlockedByTheirTask` | `Spec => []BlockedByItsTask`: at most one task works on a package, and the block is held exactly as long |
| `TasksAreListedOnce` | `Spec => []LiveTasksAreListedOnce`: `cancelTask` and `acknowledgePackageInstallation` find every task, and no deleted one |
| `ApplicationDirsAreWhole` | `Spec => []ApplicationDirIsWhole`: a restart finds complete packages only, whenever it happens |
| `UnpackDirsHaveOneOwner` | `Spec => []UnpackDirHasOneOwner`: without an owner `<id>+` is only a leftover |
| `TheListMatchesTheDisk` | `Spec => []DatabaseMatchesDisk`: the list is what a restart would load; a whole backup is left only after a refused undo, a part of one only after a refused removal |
| `FailedInstallationsLeaveNothing` | `Spec => []FailedInstallationLeavesNothing`: the version of a failed installation is in no list and in no directory but a leftover in `<id>+` |
| `InstalledPackagesKeepDocuments` | `Spec => [](crashes = 0 => InstalledPackagesHaveDocuments)`, as the property says "as long as the process does not die": documents are in `<id>`, or in `<id>-` after a refused undo |
| `FilesChangeWhileStopped` | `Spec => []StoppedWhileFilesChange`, if `SlowStart = {}` |
| `PackageStoreIsImplemented` | `Spec => ImplementsPackageStore`, if `"undo"` is no fault either |

None of these is inductive. The proof has layers, each of which uses the ones before:

1. `Inv` (`PackageManagerProofs`). That `finishedPackageInstall` lifts the block of its own
   task needs to know which calls can be in the event loop for a task at a given label
   (`CallsMatchLabels`) and whether such a task has been approved (`ApprovalMatchesLabel`);
   that an approval never comes for a package already under work needs that at most one task
   is before the end of its extraction (`OneExtracts`), which in turn needs to know which list
   a task is in for every label (`Listed`).
2. The table (`PackageStepProofs`). Lemma `Steps`: each step is a transition of one task
   and the directories of its package (`WorkerStep`, thirteen kinds), a hand-over between its
   thread and the main thread (`SlotStep`), a new request, a crash, a restart, or a change of
   applications. The invariants below are proved from the table, one transition at a
   time.
3. `UnpackInv` (`PackageDiskProofs`): what a task may still have to undo at each label, and how
   far the directory it unpacks is. It holds the two properties about single directories.
4. `DatabaseInv`: while a task works on a package, the list fits the directories *as they
   would be if the task undid its renames now*. This is what makes an abort in any place lead
   back to a state that satisfies `DatabaseMatchesDisk`.
5. Three invariants on top (`PackageTaskProofs`). `VersionInv`: what is installed or listed was
   brought there by a task that succeeded, or by the one in charge. `DocumentInv`: an
   installed package has its documents, or would have them after an undo. `StopInv`: an
   application that runs while its package is blocked is one the package still waits for.
6. `StoreInv` (`PackageStoreProofs`): the outcome of a task at its label. With it each
   transition is a step of `PackageStore`, or a stutter.

Before they were proved, TLC confirmed all of these as invariants of the instance of
`installer_tasks` and of one with two packages, two tasks and two crashes.

The assumptions, and why:

- `"readback" \notin Faults`: if the installation report that has just been written cannot be
  read back, `finishedPackageInstall` returns early and the package stays blocked for good
  (`packagemanager.cpp:1430`).
- `"undo" \notin Faults`, of the refinement only: if the file system refuses to rename the old
  version back, a task that failed has changed the usable version. `DatabaseMatchesDisk` and
  the others are proved with that fault.
- `SlowStart = {}`, of `FilesChangeWhileStopped` only: run `slow_start` shows the contrary.
  Nor has the `PackageManager` module applications that only look running because of a late
  event (section 5).
- `crashes = 0`, of the documents only: the cleanup of a restart deletes documents, see finding
  `keep_documents`.
- `NoDirAssumption` and `RequestAssumption` of `PackageManager` say that absence and the
  requests are distinguishable values.

Only model-checked: `TasksEnd`, which is liveness.

## 4. The intent server

### Correspondence

Everything the server does runs in the main event loop, so an action is a whole slot or posted
call. `ProcessRequestQueue` is one pass of `processRequestQueue` over the first request, with
its steps 1 to 5 (disambiguate, start the handler, send, broadcast, forward the reply) as the
alternatives of `ProcessRequest`.

| model | code |
|---|---|
| `req[r]` | `IntentServerRequest`: state, sender, potential and selected intents, result |
| `req[r].at` | the address of the object; it may be used again after `DeleteLater` |
| `requestQueue`, `waiting[stage]` | `m_requestQueue`; `m_disambiguationQueue`, `m_startingAppQueue`, `m_sentToAppQueue` |
| `timers[stage]` | the single-shot timers started for a stage; the lambdas hold a raw pointer |
| `triggers` | calls of `processRequestQueue` posted by `triggerRequestQueue` |
| `ipc`, `started` | ready IPC connections; posted calls of `applicationWasStarted` |
| `sent` | what the last step sent to an application |

Applications and the System UI are the environment: they send, reply, start and die as they
like. Intents are registered and removed at any time, so each request sees an arbitrary set of
them. All intents have the id that is asked for; who may use one follows from its visibility,
the package and the capabilities. The order in which different posted calls run is left open.

A request of a sender that is connected but not ready is refused (`RequestToSystem`, state
`refused`). The client of section 6 only sends when it is ready.

Bounds: each request id is used once, and an application does not restart while the call that
says it has started is still posted.

### Runs

| run | instance | what it shows |
|---|---|---|
| `intent_server` | 2 requests at 2 addresses, System UI and 2 applications, a private intent, one that is only handled while its application runs, timeouts for disambiguation and start; 967 000 states | `TypeOK`, `QueuesMatchStates`, `NobodyIsForgotten`, `HandlersMayBeUsed`, `RepliedOnce` |
| `intent_live` | System UI and one application, timeouts for start and reply, fairness; 337 000 states | with timeouts each request ends (`RequestsEnd`) |
| `stale_timer` | one address | violates `CanceledByItsTimeout`, see findings |
| `slot_answer` | the System UI rejects within the signal | violates `RepliedOnce`, see findings |

Two requests are enough: requests meet in the queues, in the timers and at addresses, always
in pairs. Two addresses and two requests allow every pair of a stale timer and a live object
in the runs above too; `NobodyIsForgotten` holds in spite of them.

Fairness: posted calls run, deferred deletions happen and timers fire. No reply, start or
answer of an application is assumed, so `RequestsEnd` rests on the timeouts alone.

### What is proved

`IntentServerProofs` proves for all constants with `SlotAnswers = {}` (the System UI does not
answer within the signal):

- `TypeCorrect`, `RequestsAreInTheirQueue` (`QueuesMatchStates`), `NoWakeUpIsLost`
  (`NobodyIsForgotten`), `AccessIsRespected` (`HandlersMayBeUsed`), and
  `RequestsAreRepliedOnce` (`RepliedOnce`, an action property).

The inductive invariant adds to the checked ones: the shape of a request object in each state
(`ObjectsAreFine`), that no two live objects share an address (`OwnAddresses`), and that a
timer of a waiting request carries its address (`TimersOfRequests`). The last two are what
makes `NobodyIsForgotten` inductive although stale timers exist: a timer that fires can only
hit the one request at its address, and that request then leaves the stage.

Only model-checked: `RequestsEnd` (liveness).

## 5. Applications and quick launchers

### Correspondence

A single call of the code runs through several objects before it returns: `stop` sets the
state of the runtime, whose signal sets the state of the application, whose signal reports to
the package. So the calls (`NativeStop`, `SetState`, `SetCurrentRuntime`, ...) are operators
from a world, the records of all applications and all runtimes, to the world they leave
behind, and an action is the event or request that makes the first call.

| model | code |
|---|---|
| `app[a]` | `Application`: `m_runtime`, `m_runState`, and of its package: blocked, and whether the application is still in `m_blockedApps` |
| `rt[r]` | a runtime object with its container, process, peer D-Bus connection, timers and queued lambdas |
| `app[a].kind` | how the application is run: `native` (a process of its own), `interface` (one that also supports the `ApplicationInterface`), `launcher` (via a launcher), `inproc`; another version of the package may be of another kind (`KindsOf`) |
| `rt[r].watch` | the application that the lambda connected to `stateChanged` holds in a `QPointer` |
| `rt[r].waits` | a start that waits for `windowManagerCompositorReadyChanged` or `ready` |
| `rt[r].link` | nothing, connected, `finishedInitialization` sent, and received |
| `rt[r].sig` | the strongest thing done to end it: quit timer started, SIGTERM, SIGKILL |
| `rt[r].posted` | the lambdas an in-process runtime has in the event loop |
| `ql` | `QuickLauncher` with one entry: pool, failures, disabled, rebuild timer |
| `am` | compositor readiness, shutdown, the reports `Main::shutDown` waits for |
| `late` | history: the applications an earlier runtime has changed |

The root object of an in-process application is left out, nothing but its surfaces is looked at.
A start that takes no launcher although there is one (a debug wrapper, redirected I/O, an
OpenGL configuration of its own) is `StartFresh`.

`AppLifeCycle` is what the installer is entitled to: a start may take effect later, an
application that runs when its package is blocked stops and is reported, and no application
that is `NotRunning` is started while it is blocked. Its phases are the states of variable
`app` of `PackageManager` (`Pending` is a start that waits); `ImplementsAppLifeCycle` shows
that the whole application manager refines it. As in the installer a pending start may become
a running application although its package is blocked: that is finding `slow_start`.

`Faults` says what may fail: starting (`start`), executing the program (`exec`), executing it
after the application was told to stop (`execStop`), executing a quick launcher (`execPool`).
The order of events is not restricted. A runtime exists, with its connections, until its
deferred deletion, and what its process has sent and what it has posted may still arrive. Four
things go wrong, each a hazard in `PROJECT.json` with its line. The properties say what they
cost, and hold in spite of them:

| what happens | what it costs |
|---|---|
| `finishedInitialization` arrives after the end of the process (`nativeruntime.cpp:486`): the application is `Running` without a runtime, even if it is blocked | `late` in `RunStateAgrees` and in `AppLifeCycle`; a package blocked after this waits for a stop that nobody reports, until it is unblocked: `late` in `StopsAreReported` |
| a second `finish` of an in-process runtime comes after a new start (`qmlinprocruntime.cpp:217`) and takes the new runtime away; a queued `stopIfNoVisibleSurfaces` after the end makes the old runtime `ShuttingDown` again | `late` in `RunStateAgrees` and in `AppLifeCycle`; the runtime taken away goes on, but no process is lost (`ProcessHasOwner`) |
| `execStop`: the error is ignored, `finished` never comes, the application is `ShuttingDown` for good | `NeverExecuted` in `StopsAreReported` |
| `execPool`: a launcher without a process stays in the pool and is handed out | nothing that is claimed |

### Runs

| run | instance | what it shows |
|---|---|---|
| `application_life` | an application started via a launcher, in a container that may be slow, and one with a process of its own; 2 runtimes, a pool of 1 that is disabled by the first failure, every fault; 1 332 000 states | `TypeOK`, `RunStateAgrees`, `ProcessHasOwner`, `PoolIsUnattached`, `ReadyLauncherWasTold`, `CleanExit`, `NoNewProcessInShutDown` |
| `application_live` | one application whose versions run in-process or with an `ApplicationInterface`, 2 runtimes, every fault but of the pool, fairness; 530 000 states | `RunStateAgrees`, the refinement `ImplementsAppLifeCycle`, whoever waits for a stop hears of it (`StopsAreReported`), and no stop is forgotten (`StopIsCarriedOut`) |

Bounds: `MaxRuntimes` runtime objects exist at a time. `MaxPosted` bounds the lambdas of one
in-process runtime that its own events queue, while fewer than that are queued already; a
stop or a start from outside may add one more (`MayStop`), and a quit timer does not look at
the bound at all. So `MaxPosted` 1 is enough for what the hazards need: two `finish` in the
queue, and a `stopIfNoVisibleSurfaces` after the end of the runtime. Two runtimes are an
application with its runtime next to a pooled launcher, an old runtime next to its successor,
or both applications; no code looks at more than two runtimes of one application. A pool of
one is empty, full, disabled, or being refilled. Pooled launchers are created only after the
compositor is ready: the code would attach a launcher it took before that time from a lambda
with a raw pointer.

Deadlock is not checked: the process exits, and an application whose process ignores SIGTERM
stays as it is.

### Fairness

`Delivered(r)`: the operating system starts processes and ends those it has killed, and the
event loop runs timers and deferred deletes of each runtime. `PostedDelivered(r)`: the event
loop runs queued lambdas. The two are separate because an application that keeps closing
windows always has a lambda in the queue, which must not keep its quit timer from firing: Qt's
event loop serves both. Not assumed: that
a process ends because of SIGTERM or of the quit signal, that it connects, that the System UI
releases a surface or a container becomes ready. Hence nothing is claimed about an application
that is stopped softly but its SIGTERM, and that a shutdown ends is only true because of its
timer.

### What is proved

`ApplicationManagerProofs` proves for every set of applications of any kinds, every number of
runtimes and queued lambdas, every pool, all of `Faults` and every order of events:

| theorem | states |
|---|---|
| `ApplicationTypesAreCorrect` | `Spec => []TypeOK` |
| `RunStatesAgree` | `Spec => []RunStateAgrees` |
| `ProcessesHaveOwners` | `Spec => []ProcessHasOwner` |
| `ThePoolIsUnattached` | `Spec => []PoolIsUnattached` |
| `ReadyLaunchersWereTold` | `Spec => []ReadyLauncherWasTold` |
| `ExitsAreClean` | `Spec => []CleanExit` |
| `NoNewProcessesInShutDown` | `Spec => NoNewProcessInShutDown`, an action property |
| `AppLifeCycleIsImplemented` | `Spec => ImplementsAppLifeCycle`, the refinement |

The inductive invariant `AppInv` is a conjunction of what is true of each object by itself and
of each pair that points at each other:

- `ObjectFits(rt[r])`: the fields of one runtime; for instance a runtime whose start waits has
  no process, and a ready launcher that has an application was told to start it.
- `AppFits(a)`: an application and its current runtime, in both directions. Their states agree
  unless the application is `late`; but also a late one keeps its package waiting only while
  it is not `NotRunning`.
- `RuntimeFits(r)`: a runtime that its application has forgotten has `Ended`: it has no process
  and no start that will create one. Its events may still change the application, but no
  process can be lost with it. That only an in-process runtime can make an application forget
  a newer runtime, and that the newer one then is in-process too, is what makes this inductive.
- `PoolFits` and `DownFits`: the pool, and what has been reported during a shutdown.

Each event is a call on one runtime that changes it and the application it is the current
runtime of, and a shutdown makes such calls on all runtimes. `Answered` is what such a call may
leave behind, so each operation is examined once, for one runtime, and the two uses follow.
`LateAnswered` is what an event of a forgotten runtime may leave behind: it may also change the
application, whose current runtime is another one or none, and which then is `late`.
One lemma (`NextStep`) shows for every action that `AppInv` is kept, that no process starts
during a shutdown but those that waited (`NoNewProcess`), and that each application lives as
`AppLifeCycle` says (`LivesOn`). Before, TLC confirmed the parts of `AppInv` on the
instance of `application_life`, with `MaxPosted` 1.

Only model-checked: `StopsAreReported` and `StopIsCarriedOut` (liveness).

## 6. The intent client

### Correspondence

`IntentClient` extends `IntentServer`. Its actions are those of the applications and of the
connections between; the server's actions appear unchanged, with the messages they send
(`sent`) put on the wire.

| model | code |
|---|---|
| `ask[r]` | `IntentClientRequest` with `Direction::ToSystem`: in `m_waiting`, `m_finished`, `m_succeeded` |
| `job[r]` | the one with `Direction::ToApplication` in the handling application |
| `toSystem[a]`, `toApp[a]` | the two directions of the peer D-Bus connection of `a`; for the System UI, the queued invocations |
| `up` | processes that are alive; `Dies` and `Disconnects` are a crash and the moment the server notices |
| `answered[r]` | history: the first answer an application gave |

A request is identified by the id the server will give it. Garbage collection, which runs the
destructors, may come at any time at both ends. A crash runs no destructor, and what the
application had sent still arrives.

### Run

`intent_client`: the System UI and one application, each of which handles one intent, one
request, timeouts for all stages in the server and for both directions in the client; 334 000
states.

- `ClientTypeOK`
- `AnswerWillCome`: while a requesting application waits, its request is on the way, or known
  to it and still worked on, or its answer is on the way.
- `SuccessIsFirstAnswer`: what the documentation says of a handler's calls
  (`intenthandler.cpp:90`, only the first one has an effect), as far as success is concerned.
  The client itself sends every answer; the server's queue drops the later ones.
- `SuccessIsFinal`: neither the client's timer nor a later answer turns a success into a
  failure. A failure by timeout may become a success: `replyFromSystem` does not ask
  `m_finished` (`intentclient.cpp:250`).
- `AsksEnd`: every request ends at its sender, with the timeouts of the server alone.

One request is enough: requests share nothing in the client but `m_waiting`, a set that is
searched by id, and how they meet in the server is the subject of the runs of `IntentServer`.
Broadcasts are further requests that use up an id. An application sends by its own choice while
fewer than `MaxInFlight` (1) of its messages are on the way to the server; its timers and
destructors do not wait. Later answers follow earlier ones, and which of them is the first is
decided by the server one by one, so more of them on the way would only arrive as they do now.

Fairness: event loops run what is posted, connections deliver, and the server's timers fire.
Handlers need not answer, applications need not start or survive, and the client's timers need
not fire.

### What is proved

`IntentClientProofs` proves for all sets of requests and applications, any number of messages
on the way and timeouts or none, with `SlotAnswers = {}`:

- `ClientTypesAreCorrect` (`ClientTypeOK`), `AnswersWillCome` (`AnswerWillCome`),
  `SuccessesAreFirstAnswers` (`SuccessIsFirstAnswer`), and `SuccessesAreFinal`
  (`SuccessIsFinal`, an action property).

The server's part is not proved again. Every step of the composed system is a step of
`IntentServer` or leaves the server alone (`ServerSees`), so the server's invariant carries
over; what a step does to one request in the server is one of a few alternatives (`Advances`).

The inductive invariant `ClientInv` adds what is on the wires to it. The two ends of a request
meet in the server only, so it has two parts that do not mention each other:

- `AskFits`, the end that asks. The request is sent once; its id is on the wire before the
  reply, because the connection keeps the order; there is one reply, and it says what the
  server decided; a sender that has neither id nor reply still has its request on the way.
- `JobFits`, the end that answers. As long as the server waits for an answer (`Unheard`), only
  the one application it asked can have the request or have answered it, and the first of the
  answers on the wire is the first it gave (`HandlerDecides`). This is why a later answer
  never decides: not because the client holds it back, but because the wire keeps the order
  and the server drops answers to a request it no longer waits for.

`SlotAnswers = {}` is needed because run `slot_answer` violates the server's own invariant.
Before it was proved, TLC confirmed `ClientInv` on the instance of `intent_client` (334 000
states) and by simulation with two requests.

Only model-checked: `AsksEnd` (liveness).

## 7. Findings

1. `keep_documents`: documents kept by `removePackage(id, keepDocuments)` are deleted by the
   cleanup of the next start (`packagemanager.cpp:909` against 1101).
2. `slow_start`: an application whose container becomes ready after a removal has blocked its
   package starts and runs while the removal renames its documents and files
   (`applicationmanager.cpp:847` against `package.cpp:133`).
3. `stale_timer`: timers of an answered intent request are not stopped and may cancel a later
   request at the same address (`intentserver.cpp:544, 573, 602` against
   `doc/configuration.qdoc:777`).
4. `slot_answer`: a rejection from within the `disambiguationRequest` signal makes the server
   reply twice (`intentserver.cpp:551` against 684).

## 8. Not modelled

- Notifications: an active list with timers, independent of the other parts.
- Of the application life cycle: `openUrl` and its pending requests, documents, debug wrappers,
  redirected stdio, exit codes, quick-launch entries that hold a container without a runtime,
  calls a slot makes from within a state change (such as a System UI that restarts an
  application as soon as it reports `NotRunning`), and a second change of the compositor's
  readiness.
- Of the shutdown: the window manager, the third part that reports.
- Window manager and compositor: their state is that of Qt Quick items and Wayland surfaces.
- Configuration, YAML, archives, signatures: sequential transformation of data; what they
  decide appears as a nondeterministic outcome.
- Watchdogs, crash handler, logging, monitoring, tools, container plugins, sudo helper: I/O,
  diagnostics and calls of the operating system.
- Data races proper, such as the removal task reading its `Package` off the main thread
  (`deinstallationtask.cpp:49`), and the use of managers after their deletion at shutdown.
