------------------------- MODULE ApplicationManager -------------------------
(***************************************************************************)
(* ApplicationManager: what the System UI, D-Bus clients and the package   *)
(* manager ask of applications, and the shutdown of the whole process.     *)
(* The runtimes, their processes and the quick-launch pool answer in their *)
(* own time.                                                               *)
(***************************************************************************)
EXTENDS QmlInProcRuntime, QuickLauncher

VARIABLES
    am,
    late    \* history: applications changed by a runtime that is not theirs any longer

vars == <<app, rt, ql, am, late>>

(* the window manager, the third part, is not modelled: it reports first *)
Parts == {"applications", "quickLaunchers"}

Manager ==
    [compositor : BOOLEAN,              \* windowManagerCompositorReady
     shuttingDown : BOOLEAN,
     awaited : SUBSET Runtimes,         \* destroyed is connected to the shutdown helper
     down : SUBSET Parts,               \* Main::shutDown: what has shut down
     exit : {"no", "clean", "timer"}]   \* QCoreApplication::exit, by the last part or by the timer

TypeOK == RuntimeTypeOK /\ QuickTypeOK /\ am \in Manager /\ late \subseteq Apps

Init ==
    /\ \E kinds \in [Apps -> AppKinds] :
          /\ \A a \in Apps : kinds[a] \in KindsOf[a]
          /\ app = [a \in Apps |-> Registered(kinds[a])]
    /\ rt = [r \in Runtimes |-> NoRuntime]
    /\ QuickInit
    /\ am = [compositor |-> FALSE, shuttingDown |-> FALSE, awaited |-> {}, down |-> {},
             exit |-> "no"]
    /\ late = {}

-----------------------------------------------------------------------------
(* Start *)

(* container and compositor are ready; the application may be gone by now *)
DoStart(w, r, ok, object) ==
    IF w.rt[r].watch = None THEN Destroy(w, r)
    ELSE IF w.rt[r].kind = "inproc" THEN InProcStart(w, r, ok, object)
         ELSE NativeStart(w, r, ok)

TryStart(w, r, ok, object) ==
    IF w.rt[r].slow THEN [w EXCEPT !.rt[r].waits = "container"]
    ELSE DoStart([w EXCEPT !.rt[r].waits = "no"], r, ok, object)

(* RuntimeFactory::create and the stateChanged connection *)
NewRuntime(r, a) ==
    SetCurrentRuntime(
        [World EXCEPT !.rt[r] = [NoRuntime EXCEPT !.kind = Kind(a), !.app = a, !.watch = a,
                                                  !.slow = /\ a \in SlowContainer
                                                           /\ Kind(a) # "inproc"]], a, r)

Outcomes(k) ==
    {o \in [ok : BOOLEAN, object : BOOLEAN] :
        /\ o.ok \/ "start" \in Faults
        /\ o.object \/ (k = "inproc" /\ o.ok /\ "start" \in Faults)}

(* mutant: a start is refused while the application runs, not while it has a runtime *)
MayStartMutant(a) ==
    /\ am.exit = "no" /\ ~am.shuttingDown
    /\ app[a].exists /\ ~app[a].blocked
    /\ app[a].runState = "NotRunning"

(* an application that is blocked, or already has a runtime, is not started: the latter is
   activated, unless the runtime is shutting down or has not been started yet *)
MayStart(a) ==
    /\ am.exit = "no" /\ ~am.shuttingDown
    /\ app[a].exists /\ ~app[a].blocked
    /\ app[a].runtime = None

StartFromPool(a) ==
    /\ MayStart(a) /\ Kind(a) = "launcher" /\ ql.pool # <<>>
    /\ LET r == Head(ql.pool)
       IN  Becomes(Attach([World EXCEPT !.rt[r].watch = a], r, a))
    /\ ql' = Taken(ql)
    /\ UNCHANGED <<am, late>>

(* the pool is empty, or cannot be used for this start *)
StartFresh(a) ==
    /\ MayStart(a) /\ Free # {}
    /\ LET new == NewRuntime(Fresh, a)
       IN  IF Kind(a) = "inproc" \/ am.compositor
           THEN \E o \in Outcomes(Kind(a)) : Becomes(TryStart(new, Fresh, o.ok, o.object))
           ELSE Becomes([new EXCEPT !.rt[Fresh].waits = "compositor"])
    /\ UNCHANGED <<ql, am, late>>

StartApplication(a) == StartFromPool(a) \/ StartFresh(a)

(* every start that waited for the compositor goes on *)
SetWindowManagerCompositorReady ==
    /\ am.exit = "no" /\ ~am.compositor
    /\ am' = [am EXCEPT !.compositor = TRUE]
    /\ \E o \in Outcomes("native") :
          LET Go(r) == TryStart(World, r, o.ok, TRUE)
          IN  Becomes(Together({r \in Runtimes : rt[r].waits = "compositor"}, Go))
    /\ UNCHANGED <<ql, late>>

(* a container plugin becomes ready: neither a shutdown nor a block is looked at again *)
ContainerReady(r) ==
    /\ am.exit = "no" /\ rt[r].slow
    /\ LET ready == [World EXCEPT !.rt[r].slow = FALSE]
       IN  IF rt[r].waits = "container"
           THEN \E o \in Outcomes("native") : Becomes(TryStart(ready, r, o.ok, TRUE))
           ELSE Becomes(ready)
    /\ UNCHANGED <<ql, am, late>>

-----------------------------------------------------------------------------
(* Stop, block *)

Stop(w, r, forceKill) ==
    IF w.rt[r].kind = "inproc" THEN InProcStop(w, r, forceKill) ELSE NativeStop(w, r, forceKill)

StopApplication(a, forceKill) ==
    /\ am.exit = "no" /\ app[a].runtime # None
    /\ MayStop(app[a].runtime)
    /\ Becomes(Stop(World, app[a].runtime, forceKill))
    /\ UNCHANGED <<ql, am, late>>

StopAllApplications(forceKill) ==
    /\ am.exit = "no"
    /\ \A r \in CurrentRuntimes : MayStop(r)
    /\ LET Call(r) == Stop(World, r, forceKill)
       IN  Becomes(Together(CurrentRuntimes, Call))
    /\ UNCHANGED <<ql, am, late>>

(* mutant: an application without a runtime that is shutting down counts as stopped *)
BlockMutant(a) ==
    /\ am.exit = "no" /\ app[a].exists /\ ~app[a].blocked
    /\ app[a].runtime # None => MayStop(app[a].runtime)
    /\ LET v == [World EXCEPT !.app[a].blocked = TRUE,
                              !.app[a].waiting = app[a].runState = "Running"]
       IN  Becomes(IF app[a].runState # "Running" THEN v ELSE Stop(v, app[a].runtime, TRUE))
    /\ UNCHANGED <<ql, am, late>>

(* Package::block on behalf of a task: an application that is not running reports back at
   once, the others are killed *)
Block(a) ==
    /\ am.exit = "no" /\ app[a].exists /\ ~app[a].blocked
    /\ app[a].runtime # None => MayStop(app[a].runtime)
    /\ LET v == [World EXCEPT !.app[a].blocked = TRUE,
                              !.app[a].waiting = app[a].runState # "NotRunning"]
       IN  Becomes(IF app[a].runState = "NotRunning" \/ app[a].runtime = None THEN v
                   ELSE Stop(v, app[a].runtime, TRUE))
    /\ UNCHANGED <<ql, am, late>>

Unblock(a) ==
    /\ am.exit = "no" /\ app[a].blocked
    /\ Becomes([World EXCEPT !.app[a].blocked = FALSE, !.app[a].waiting = FALSE])
    /\ UNCHANGED <<ql, am, late>>

(* the task removes the package once its applications have stopped: runtimes keep a null
   pointer to a deleted Application *)
RemoveApplication(a) ==
    /\ am.exit = "no" /\ app[a].blocked /\ ~app[a].waiting
    /\ app' = [app EXCEPT ![a] = Unregistered]
    /\ rt' = [r \in Runtimes |->
                 [rt[r] EXCEPT !.app = IF @ = a THEN None ELSE @,
                               !.watch = IF @ = a THEN None ELSE @]]
    /\ late' = late \ {a}
    /\ UNCHANGED <<ql, am>>

(* another version of the package may need another kind of runtime *)
AddApplication(a) ==
    /\ am.exit = "no" /\ ~app[a].exists
    /\ \E kind \in KindsOf[a] : app' = [app EXCEPT ![a] = Registered(kind)]
    /\ UNCHANGED <<rt, ql, am, late>>

-----------------------------------------------------------------------------
(* Shutdown *)

(* checkShutDownFinished *)
Reported(parts) ==
    [am EXCEPT !.down = @ \cup parts,
               !.exit = IF am.down \cup parts = Parts THEN "clean" ELSE @]

(* Main::shutDown: the pool without launchers reports back from the event loop, the
   applications at once if none of them has a runtime *)
ShutDown ==
    /\ am.exit = "no" /\ ~am.shuttingDown
    /\ \A r \in CurrentRuntimes : MayStop(r)
    /\ LET Call(r) == Stop(World, r, FALSE)
           stopped == Together(CurrentRuntimes, Call)
           Launcher(r) == NativeStop(World, r, FALSE)
       IN  Becomes([stopped EXCEPT !.rt = [r \in Runtimes |->
                        IF r \in Pooled THEN Launcher(r).rt[r] ELSE stopped.rt[r]]])
    /\ ql' = [ql EXCEPT !.shuttingDown = TRUE]
    /\ am' = [Reported(IF CurrentRuntimes = {} THEN {"applications"} ELSE {}) EXCEPT
                  !.shuttingDown = TRUE, !.awaited = CurrentRuntimes]
    /\ UNCHANGED late

(* the queued QuickLauncher::shutDownFinished of an empty pool *)
EmptyPoolShutDown ==
    /\ am.exit = "no" /\ ql.shuttingDown /\ ql.pool = <<>>
    /\ "quickLaunchers" \notin am.down
    /\ am' = Reported({"quickLaunchers"})
    /\ UNCHANGED <<app, rt, ql, late>>

(* the timer of Main::shutDown: "Exiting regardless."  What is left is destroyed, which
   kills the processes. *)
ShutDownTimer ==
    /\ am.exit = "no" /\ am.shuttingDown
    /\ am' = [am EXCEPT !.exit = "timer", !.awaited = {}, !.down = {}]
    /\ app' = [a \in Apps |-> Unregistered]
    /\ rt' = [r \in Runtimes |-> NoRuntime]
    /\ ql' = [ql EXCEPT !.pool = <<>>]
    /\ late' = {}

(* what is posted behind the deferred delete, by a stop after the end, is never delivered *)
DeferredDelete(r) == rt[r].deleted /\ (rt[r].posted = <<>> \/ rt[r].state # "NotRunning")

(* mutant: every runtime that goes ends the shutdown of the applications *)
DeleteRuntimeMutant(r) ==
    /\ am.exit = "no" /\ DeferredDelete(r)
    /\ LET w == Destroy(World, r)
       IN  /\ Becomes(w)
           /\ ql' = Removed(r)
           /\ am' = Reported((IF r \in am.awaited THEN {"applications"} ELSE {})
                      \cup (IF ql.shuttingDown /\ r \in Pooled THEN {"quickLaunchers"} ELSE {}))
    /\ UNCHANGED late

(* a deferred delete: the pool forgets the launcher, and both shutdowns count *)
DeleteRuntime(r) ==
    /\ am.exit = "no" /\ DeferredDelete(r)
    /\ LET w == Destroy(World, r)
       IN  /\ Becomes(w)
           /\ ql' = Removed(r)
           /\ am' = [Reported((IF r \in am.awaited /\ \A a \in Apps : w.app[a].runtime = None
                               THEN {"applications"} ELSE {})
                        \cup (IF ql.shuttingDown /\ r \in Pooled /\ Len(ql.pool) = 1
                              THEN {"quickLaunchers"} ELSE {}))
                     EXCEPT !.awaited = @ \ {r}]
    /\ UNCHANGED late

-----------------------------------------------------------------------------
(* The events of the runtimes and of the pool *)

(* A runtime that has ended exists for a while, and an event may still reach it.  It then
   changes an application that has no runtime, or another one. *)
ComesLate(r) ==
    late' = late \cup {a \in Apps : app[a].runtime # r /\ app'[a] # app[a]}

RuntimeEvent(r) ==
    /\ am.exit = "no"
    /\ \/ /\ \/ OnProcessStarted(r) \/ OnProcessError(r) \/ NativeQuitTimer(r)
             \/ OnDBusPeerConnection(r) \/ FinishedInitialization(r)
             \/ ApplicationFinishedInitialization(r)
             \/ InProcDeliver(r) \/ InProcQuitTimer(r) \/ InProcAcknowledgeQuit(r)
             \/ InProcWindowClosed(r) \/ InProcSurfacesReleased(r)
          /\ UNCHANGED ql
       \/ \E failed \in BOOLEAN : OnProcessFinished(r, failed)
    /\ ComesLate(r)
    /\ UNCHANGED am

PoolEvent ==
    /\ am.exit = "no" /\ am.compositor
    /\ Rebuild \/ TimerEvent
    /\ UNCHANGED <<am, late>>

Next ==
    \/ \E a \in Apps :
          \/ StartApplication(a) \/ Block(a) \/ Unblock(a)
          \/ RemoveApplication(a) \/ AddApplication(a)
          \/ \E forceKill \in BOOLEAN : StopApplication(a, forceKill)
    \/ \E forceKill \in BOOLEAN : StopAllApplications(forceKill)
    \/ SetWindowManagerCompositorReady
    \/ \E r \in Runtimes : ContainerReady(r) \/ RuntimeEvent(r) \/ DeleteRuntime(r)
    \/ PoolEvent
    \/ ShutDown \/ EmptyPoolShutDown \/ ShutDownTimer

Spec == Init /\ [][Next]_vars

(* What happens without anybody's help: the operating system starts processes and ends the
   killed ones, and the event loop runs timers and deferred deletes ... *)
Delivered(r) ==
    /\ am.exit = "no"
    /\ \/ /\ OnProcessStarted(r) \/ NativeQuitTimer(r) \/ InProcQuitTimer(r)
          /\ ComesLate(r)
          /\ UNCHANGED <<ql, am>>
       \/ /\ rt[r].sig = "kill" /\ \E failed \in BOOLEAN : OnProcessFinished(r, failed)
          /\ ComesLate(r)
          /\ UNCHANGED am
       \/ DeleteRuntime(r)

(* ... and what was posted: a queue that never gets empty does not keep timers from firing *)
PostedDelivered(r) ==
    am.exit = "no" /\ InProcDeliver(r) /\ ComesLate(r) /\ UNCHANGED <<ql, am>>

(* No process has to end because it was asked to, nobody has to release a surface, and no
   container has to become ready. *)
Fairness == \A r \in Runtimes : WF_vars(Delivered(r)) /\ WF_vars(PostedDelivered(r))

FairSpec == Spec /\ Fairness

-----------------------------------------------------------------------------
(* Properties *)

(* Application and runtime agree about each other: the runtime of an application knows it
   and has its state, and an application without one is not running.  Only an event of a
   runtime that the application had before can make the states differ; and only a running
   application ever keeps its package waiting. *)
RunStateAgrees ==
    \A a \in Apps :
        LET r == app[a].runtime
        IN  /\ r # None => app[a].exists /\ rt[r].app = a
            /\ a \notin late =>
                  app[a].runState = IF r = None THEN "NotRunning" ELSE rt[r].state
            /\ app[a].waiting => app[a].blocked /\ app[a].runState # "NotRunning"

(* Every live process is accounted for: a quick launcher is in the pool, and the process
   of an application that is still registered is the one its application will stop. *)
ProcessHasOwner ==
    \A r \in Runtimes : Alive(r) =>
        /\ rt[r].quick => r \in Pooled
        /\ rt[r].app # None => app[rt[r].app].runtime = r

(* What take() hands out is a launcher no application has got, and there are never more of
   them than configured. *)
PoolIsUnattached ==
    /\ Len(ql.pool) <= PoolMax /\ Cardinality(Pooled) = Len(ql.pool)
    /\ \A r \in Pooled : rt[r].quick /\ rt[r].app = None /\ r \notin CurrentRuntimes

(* A launcher that reported its initialization and belongs to an application was told to
   start it, in whichever order the two happened. *)
ReadyLauncherWasTold ==
    \A r \in Runtimes :
        Alive(r) /\ rt[r].kind = "launcher" /\ rt[r].app # None /\ rt[r].link = "ready"
            => rt[r].told

(* When all parts have reported that they are down, they are. *)
CleanExit == am.exit = "clean" => CurrentRuntimes = {} /\ ql.pool = <<>>

(* During a shutdown the only processes that come into being are those of starts that were
   waiting for their container or for the compositor. *)
NoNewProcessInShutDown ==
    [][am.shuttingDown =>
          \A r \in Runtimes : Alive(r)' /\ ~Alive(r) => rt[r].waits # "no"]_vars

(* Applications live the way the package manager assumes, except that a late event of an
   earlier runtime may make one Running while its package is blocked. *)
Phase(a) ==
    IF ~app[a].exists THEN "gone"
    ELSE IF app[a].waiting THEN "ShuttingDown"
    ELSE IF app[a].runState # "NotRunning" THEN "Running"
    ELSE IF app[a].runtime # None THEN "Pending"
    ELSE "NotRunning"

Life == INSTANCE AppLifeCycle WITH
            life <- [a \in Apps |-> [phase |-> Phase(a), blocked |-> app[a].blocked,
                                     late |-> a \in late]]

ImplementsAppLifeCycle == Life!Spec

(* The runtime of a has a process that could not be executed: nobody reports its end. *)
NeverExecuted(a) ==
    /\ app[a].runtime # None
    /\ rt[app[a].runtime].process = "gone" /\ ~rt[app[a].runtime].deleted

(* The package that waits for an application to stop hears of it: it does not wait for
   ever, unless the process could not be executed, or a late event of an earlier runtime has
   made the application look running. *)
StopsAreReported ==
    \A a \in Apps : []<>(~app[a].waiting \/ NeverExecuted(a) \/ a \in late)

(* A runtime that is shutting down is not forgotten: an in-process runtime ends, and a
   process has at least got its SIGTERM, or there is nothing left to signal. *)
CarriedOut(r) ==
    \/ rt[r].state # "ShuttingDown"
    \/ rt[r].process = "gone"
    \/ rt[r].sig \in {"term", "kill"}
    \/ am.exit # "no"

StopIsCarriedOut == \A r \in Runtimes : []<>CarriedOut(r)

=============================================================================
