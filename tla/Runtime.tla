------------------------------ MODULE Runtime ------------------------------
(***************************************************************************)
(* AbstractRuntime and Application: the two objects every start and stop   *)
(* of an application goes through.  An Application points to its current   *)
(* runtime and keeps a copy of its state, which the runtime's signals keep *)
(* up to date; a runtime points back to its application.  One call runs    *)
(* through several of these objects before it returns, so the calls are    *)
(* operators from a world (all applications and all runtimes) to the world *)
(* they leave behind.                                                      *)
(***************************************************************************)
EXTENDS Naturals, Sequences, FiniteSets

CONSTANTS
    Apps,           \* application ids
    MaxRuntimes,    \* bound: runtime objects that exist at the same time
    KindsOf,        \* for each application the kinds its package may be of
    SlowContainer,  \* applications whose container is not ready at once
    Faults,         \* "start", "exec", "execStop", "execPool"
    None

Runtimes == 1..MaxRuntimes

(* How an application is run: by a process of its own, which may support the
   ApplicationInterface or be started via a launcher, or within the System UI. *)
NativeKinds == {"native", "interface", "launcher"}

AppKinds == NativeKinds \cup {"inproc"}

ASSUME RuntimeAssumption ==
    /\ MaxRuntimes \in Nat
    /\ KindsOf \in [Apps -> SUBSET AppKinds]
    /\ None \notin Apps \cup Runtimes

VARIABLES
    app,    \* Application objects
    rt      \* runtime objects and their processes

RunState == {"NotRunning", "StartingUp", "Running", "ShuttingDown"}

Application ==
    [exists : BOOLEAN,                      \* registered
     kind : AppKinds,                       \* runtimeName and supportsApplicationInterface
     blocked : BOOLEAN,                     \* its package is blocked
     waiting : BOOLEAN,                     \* listed in the package's m_blockedApps
     runtime : Runtimes \cup {None},        \* m_runtime
     runState : RunState]                   \* m_runState

RuntimeObject ==
    [kind : AppKinds \cup {"free"},
     quick : BOOLEAN,                       \* m_isQuickLauncher
     app : Apps \cup {None},                \* m_app
     watch : Apps \cup {None},              \* the application stateChanged reports to
     state : RunState,                      \* m_state
     slow : BOOLEAN,                        \* the container is not ready
     waits : {"no", "compositor", "container"},
     process : {"none", "starting", "up", "gone"},
     link : {"no", "bus", "hello", "ready"},    \* the peer D-Bus connection
     told : BOOLEAN,                        \* startApplication was sent to a ready launcher
     sig : {"none", "quit", "term", "kill"},    \* quit timer running, signal sent
     surfaces : BOOLEAN,                    \* in-process: m_surfaces is not empty
     posted : Seq({"create", "noRoot", "finish", "stopIfNoVisible"}),
     deleted : BOOLEAN]                     \* deleteLater was called

Unregistered == [exists |-> FALSE, kind |-> "native", blocked |-> FALSE, waiting |-> FALSE,
                 runtime |-> None, runState |-> "NotRunning"]

Registered(kind) == [Unregistered EXCEPT !.exists = TRUE, !.kind = kind]

NoRuntime ==
    [kind |-> "free", quick |-> FALSE, app |-> None, watch |-> None, state |-> "NotRunning",
     slow |-> FALSE, waits |-> "no", process |-> "none", link |-> "no", told |-> FALSE,
     sig |-> "none", surfaces |-> FALSE, posted |-> <<>>, deleted |-> FALSE]

RuntimeTypeOK ==
    /\ app \in [Apps -> Application]
    /\ rt \in [Runtimes -> RuntimeObject]

Kind(a) == app[a].kind

Exists(r) == rt[r].kind # "free"
Free == {r \in Runtimes : ~Exists(r)}

(* the object the next constructor call returns: which one it is makes no difference *)
Fresh == CHOOSE r \in Free : \A q \in Free : r <= q

Alive(r) == rt[r].process \in {"starting", "up"}

CurrentRuntimes == {app[a].runtime : a \in Apps} \ {None}

World == [app |-> app, rt |-> rt]

Becomes(w) == app' = w.app /\ rt' = w.rt

(* The same call on several runtimes: each one touches itself and its application. *)
Together(S, Call(_)) ==
    [app |-> [a \in Apps |-> IF app[a].runtime \in S
                             THEN Call(app[a].runtime).app[a] ELSE app[a]],
     rt |-> [r \in Runtimes |-> IF r \in S THEN Call(r).rt[r] ELSE rt[r]]]

-----------------------------------------------------------------------------
(* Application *)

(* mutant: the package is not told *)
SetRunStateMutant(w, a, s) == [w EXCEPT !.app[a].runState = s]

(* runStateChanged: a blocked application that is no longer running reports back to its
   package *)
SetRunState(w, a, s) ==
    IF w.app[a].runState = s THEN w
    ELSE [w EXCEPT !.app[a].runState = s,
                   !.app[a].waiting = @ /\ s # "NotRunning"]

(* mutant: losing the runtime does not reset the run state *)
SetCurrentRuntimeMutant(w, a, r) == [w EXCEPT !.app[a].runtime = r]

SetCurrentRuntime(w, a, r) ==
    IF w.app[a].runtime = r THEN w
    ELSE LET v == [w EXCEPT !.app[a].runtime = r]
         IN  IF r = None THEN SetRunState(v, a, "NotRunning") ELSE v

-----------------------------------------------------------------------------
(* AbstractRuntime *)

(* stateChanged is connected to a lambda of the application manager that copies the state
   to the application, if that one still exists *)
SetState(w, r, s) ==
    IF w.rt[r].state = s THEN w
    ELSE LET v == [w EXCEPT !.rt[r].state = s]
         IN  IF v.rt[r].watch = None THEN v ELSE SetRunState(v, v.rt[r].watch, s)

(* the destructor: destroyed makes the application whose current runtime it was forget it *)
Destroy(w, r) ==
    LET v == [w EXCEPT !.rt[r] = NoRuntime]
        owners == {a \in Apps : w.app[a].runtime = r}
    IN  IF owners = {} THEN v
        ELSE SetCurrentRuntime(v, CHOOSE a \in owners : TRUE, None)

============================================================================
