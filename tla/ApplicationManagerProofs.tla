---------------------- MODULE ApplicationManagerProofs ----------------------
(***************************************************************************)
(* ApplicationManager keeps applications, runtimes and the quick-launch    *)
(* pool consistent, for any number of each, any of the faults and every    *)
(* order of the events.                                                    *)
(*                                                                         *)
(* Nearly every event is a call on a runtime that changes that runtime and *)
(* the application it is the current runtime of.  Answered says what such  *)
(* a call may leave behind.  So each operation is examined once, for one   *)
(* runtime, whether it comes as an event of its own or on all runtimes.    *)
(* An event of a runtime its application has forgotten is the exception:   *)
(* LateAnswered says what that may do to the application as well.          *)
(***************************************************************************)
EXTENDS ApplicationManager, SequenceTheorems, FiniteSetTheorems, WellFoundedInduction, TLAPS

-----------------------------------------------------------------------------
(* The inductive invariant *)


(* what is true of a runtime object x by itself *)
ObjectFits(x) ==
    /\ x.watch = x.app
    /\ x.kind = "free" => x = NoRuntime
    /\ x.quick => x.kind = "launcher" /\ x.app = None
    /\ x.waits # "no" =>
          /\ x.kind \in NativeKinds /\ x.process = "none"
          /\ x.state = "NotRunning" /\ ~x.quick
    /\ x.kind = "inproc" => x.process = "none" /\ ~x.slow
    /\ x.kind # "inproc" => x.posted = <<>> /\ ~x.surfaces
    /\ x.link # "no" => x.process \in {"up", "gone"} /\ x.kind \in {"launcher", "interface"}
    /\ x.link = "ready" /\ x.kind = "launcher" /\ x.process = "up" /\ x.app # None => x.told

(* a runtime without a process, and without a start that will create one *)
Ended(x) == x.waits = "no" /\ x.process \notin {"starting", "up"}

(* a runtime knows its application, but the application may have forgotten it; only an
   in-process runtime can make it forget another one, which then has no process either *)
RuntimeFits(r) ==
    LET a == rt[r].app
    IN  a # None =>
            /\ app[a].exists
            /\ rt[r].kind = "inproc" <=> Kind(a) = "inproc"
            /\ app[a].runtime # r => Ended(rt[r])

AppFits(a) ==
    LET r == app[a].runtime
    IN  /\ r # None => app[a].exists /\ rt[r].app = a
        /\ a \notin late => app[a].runState = IF r = None THEN "NotRunning" ELSE rt[r].state
        /\ app[a].waiting => app[a].blocked /\ app[a].runState # "NotRunning"
        /\ app[a].blocked \/ a \in late => app[a].exists

PoolFits ==
    /\ Len(ql.pool) <= PoolMax
    /\ \A i, j \in DOMAIN ql.pool : ql.pool[i] = ql.pool[j] => i = j
    /\ \A r \in Runtimes : rt[r].quick <=> r \in Pooled

NoneCurrent == \A a \in Apps : app[a].runtime = None

DownFits ==
    /\ am.shuttingDown = ql.shuttingDown
    /\ am.down # {} \/ am.awaited # {} => am.shuttingDown
    /\ "applications" \in am.down => NoneCurrent
    /\ "quickLaunchers" \in am.down => ql.pool = <<>>
    /\ am.exit = "clean" => am.down = Parts

AppInv ==
    /\ TypeOK
    /\ \A r \in Runtimes : ObjectFits(rt[r]) /\ RuntimeFits(r)
    /\ \A a \in Apps : AppFits(a)
    /\ PoolFits
    /\ DownFits

-----------------------------------------------------------------------------
(* Calls: worlds before and after *)

Worlds == [app : [Apps -> Application], rt : [Runtimes -> RuntimeObject]]

(* v differs from w in the runtime r and the application a at most *)
Touches(w, v, r, a) ==
    /\ v \in Worlds
    /\ \A q \in Runtimes : q # r => v.rt[q] = w.rt[q]
    /\ \A b \in Apps : b # a => v.app[b] = w.app[b]

(* what SetRunState makes of an application *)
Report(y, s) ==
    IF y.runState = s THEN y
    ELSE [y EXCEPT !.runState = s, !.waiting = @ /\ s # "NotRunning"]

(* the current world is one *)
LEMMA WorldTyped == ASSUME TypeOK PROVE World \in Worlds /\ World.app = app /\ World.rt = rt
BY DEF TypeOK, RuntimeTypeOK, World, Worlds

(* the fields of a world have their types *)
LEMMA WorldFields ==
    ASSUME NEW w \in Worlds
    PROVE  /\ w.app \in [Apps -> Application]
           /\ w.rt \in [Runtimes -> RuntimeObject]
BY DEF Worlds

LEMMA TouchesTransitive ==
    ASSUME NEW w, NEW v, NEW u, NEW r, NEW a, Touches(w, v, r, a), Touches(v, u, r, a)
    PROVE  Touches(w, u, r, a)
BY DEF Touches

(* a report keeps the type, and everything but the state and the one who waits for it *)
LEMMA ReportTyped ==
    ASSUME NEW y \in Application, NEW s \in RunState
    PROVE  /\ Report(y, s) \in Application
           /\ Report(y, s).exists = y.exists
           /\ Report(y, s).kind = y.kind
           /\ Report(y, s).blocked = y.blocked
           /\ Report(y, s).runtime = y.runtime
           /\ Report(y, s).runState = s
           /\ Report(y, s).waiting => y.waiting
           /\ y.waiting /\ s # "NotRunning" => Report(y, s).waiting
           /\ Report(y, s).waiting /\ (y.waiting => y.runState # "NotRunning") => s # "NotRunning"
BY DEF Report, Application, RunState

LEMMA SetRunStateIs ==
    ASSUME NEW w \in Worlds, NEW a \in Apps, NEW s \in RunState, NEW r,
           NEW v, v = SetRunState(w, a, s)
    PROVE  Touches(w, v, r, a) /\ v.app[a] = Report(w.app[a], s) /\ v.rt = w.rt
<1>1. w.app[a] \in Application BY WorldFields
<1>2. CASE w.app[a].runState = s
  BY <1>2 DEF SetRunState, Touches, Report
<1>3. CASE w.app[a].runState # s
  <2> DEFINE y == [w.app[a] EXCEPT !.runState = s, !.waiting = @ /\ s # "NotRunning"]
  <2>1. y \in Application BY <1>1 DEF Application
  <2>2. v = [w EXCEPT !.app[a] = y] BY <1>3 DEF SetRunState, Worlds
  <2>3. y = Report(w.app[a], s) BY <1>3 DEF Report
  <2> HIDE DEF y
  <2> QED BY <2>1, <2>2, <2>3 DEF Worlds, Touches
<1> QED BY <1>2, <1>3

(* an application forgets its runtime *)
Forget(y) == IF y.runtime = None THEN y ELSE Report([y EXCEPT !.runtime = None], "NotRunning")

LEMMA ForgetTyped ==
    ASSUME NEW y \in Application
    PROVE  /\ Forget(y) \in Application
           /\ Forget(y).exists = y.exists
           /\ Forget(y).kind = y.kind
           /\ Forget(y).blocked = y.blocked
           /\ Forget(y).runtime = None
           /\ y.runtime # None => Forget(y).runState = "NotRunning"
           /\ Forget(y).waiting => y.waiting
           /\ y.runtime # None /\ (y.waiting => y.runState # "NotRunning") => ~Forget(y).waiting
BY DEF Forget, Report, Application, RunState

LEMMA SetNoRuntimeIs ==
    ASSUME NEW w \in Worlds, NEW a \in Apps, NEW r,
           NEW v, v = SetCurrentRuntime(w, a, None)
    PROVE  Touches(w, v, r, a) /\ v.app[a] = Forget(w.app[a]) /\ v.rt = w.rt
<1>1. w.app[a] \in Application BY WorldFields
<1>2. CASE w.app[a].runtime = None
  BY <1>2 DEF SetCurrentRuntime, Touches, Forget
<1>3. CASE w.app[a].runtime # None
  <2> DEFINE y == [w.app[a] EXCEPT !.runtime = None]
             u == [w EXCEPT !.app[a] = y]
  <2>1. y \in Application BY <1>1 DEF Application
  <2>2. v = SetRunState(u, a, "NotRunning") BY <1>3 DEF SetCurrentRuntime, Worlds
  <2>3. Report(y, "NotRunning") = Forget(w.app[a]) BY <1>3 DEF Forget
  <2> HIDE DEF y
  <2>4. u \in Worlds /\ Touches(w, u, r, a) /\ u.app[a] = y /\ u.rt = w.rt
    BY <2>1 DEF Worlds, Touches
  <2> HIDE DEF u
  <2>5. Touches(u, v, r, a) /\ v.app[a] = Report(y, "NotRunning") /\ v.rt = u.rt
    BY <2>2, <2>4, SetRunStateIs DEF RunState
  <2> QED BY <2>3, <2>4, <2>5, TouchesTransitive
<1> QED BY <1>2, <1>3

(* an application without a runtime gets one *)
LEMMA SetCurrentRuntimeIs ==
    ASSUME NEW w \in Worlds, NEW a \in Apps, NEW r \in Runtimes, w.app[a].runtime = None,
           NEW v, v = SetCurrentRuntime(w, a, r)
    PROVE  Touches(w, v, r, a) /\ v.app[a] = [w.app[a] EXCEPT !.runtime = r] /\ v.rt = w.rt
<1>1. w.app[a] \in Application BY WorldFields
<1>2. r # None BY RuntimeAssumption
<1> DEFINE y == [w.app[a] EXCEPT !.runtime = r]
<1>3. y \in Application BY <1>1 DEF Application
<1>4. v = [w EXCEPT !.app[a] = y] BY <1>2 DEF SetCurrentRuntime, Worlds
<1> HIDE DEF y
<1>5. Touches(w, v, r, a) /\ v.app[a] = y /\ v.rt = w.rt BY <1>3, <1>4 DEF Worlds, Touches
<1> QED BY <1>5 DEF y

(* a runtime changes its state and reports it *)
LEMMA SetStateIs ==
    ASSUME NEW w \in Worlds, NEW r \in Runtimes, NEW s \in RunState,
           NEW v, v = SetState(w, r, s), NEW a, a = w.rt[r].watch
    PROVE  /\ Touches(w, v, r, a)
           /\ v.rt[r] = [w.rt[r] EXCEPT !.state = s]
           /\ a # None => v.app[a] = IF w.rt[r].state = s THEN w.app[a] ELSE Report(w.app[a], s)
           /\ a = None => v.app = w.app
<1>1. w.rt[r] \in RuntimeObject /\ a \in Apps \cup {None} BY WorldFields DEF RuntimeObject
<1>2. CASE w.rt[r].state = s
  <2>1. v = w BY <1>2 DEF SetState
  <2>2. w.rt[r] = [w.rt[r] EXCEPT !.state = s] BY <1>1, <1>2 DEF RuntimeObject
  <2> QED BY <1>2, <2>1, <2>2 DEF Touches
<1>3. CASE w.rt[r].state # s
  <2> DEFINE x == [w.rt[r] EXCEPT !.state = s]
             u == [w EXCEPT !.rt[r] = x]
  <2>1. x \in RuntimeObject /\ x.watch = a BY <1>1 DEF RuntimeObject
  <2>2. v = IF u.rt[r].watch = None THEN u ELSE SetRunState(u, u.rt[r].watch, s)
    BY <1>3 DEF SetState, Worlds
  <2> HIDE DEF x
  <2>3. u \in Worlds /\ Touches(w, u, r, a) /\ u.rt[r] = x /\ u.app = w.app
    BY <2>1 DEF Worlds, Touches
  <2> HIDE DEF u
  <2>4. CASE a = None
    BY <2>1, <2>2, <2>3, <2>4 DEF x
  <2>5. CASE a # None
    <3>1. v = SetRunState(u, a, s) /\ a \in Apps BY <1>1, <2>1, <2>2, <2>3, <2>5
    <3>2. Touches(u, v, r, a) /\ v.app[a] = Report(u.app[a], s) /\ v.rt = u.rt
      BY <2>3, <3>1, SetRunStateIs
    <3>3. Touches(w, v, r, a) BY <2>3, <3>2, TouchesTransitive
    <3> QED BY <1>3, <2>3, <2>5, <3>2, <3>3 DEF x
  <2> QED BY <2>4, <2>5
<1> QED BY <1>2, <1>3

(* what a stop leaves of a runtime object *)
Stopped(x, x2) ==
    /\ x2 \in RuntimeObject
    /\ x2.state = "ShuttingDown"
    /\ x2.kind = x.kind /\ x2.quick = x.quick /\ x2.app = x.app /\ x2.watch = x.watch
    /\ x2.slow = x.slow /\ x2.waits = x.waits /\ x2.process = x.process /\ x2.link = x.link
    /\ x2.told = x.told /\ x2.surfaces = x.surfaces /\ x2.deleted = x.deleted
    /\ \/ x2.posted = x.posted
       \/ x.kind = "inproc" /\ x2.posted = Append(x.posted, "finish")

(* a runtime changes to x2, the application that watches it is told a new state *)
Told(w, v, r, a, s) ==
    /\ Touches(w, v, r, a)
    /\ a # None => v.app[a] = IF w.rt[r].state = s THEN w.app[a] ELSE Report(w.app[a], s)
    /\ a = None => v.app = w.app

LEMMA NativeStopIs ==
    ASSUME NEW w \in Worlds, NEW r \in Runtimes, NEW forceKill \in BOOLEAN,
           NEW v, v = NativeStop(w, r, forceKill), NEW a, a = w.rt[r].watch
    PROVE  \/ v = w
           \/ /\ w.rt[r].process # "none"
              /\ Stopped(w.rt[r], v.rt[r])
              /\ Told(w, v, r, a, "ShuttingDown")
<1>1. CASE w.rt[r].process = "none" BY <1>1 DEF NativeStop
<1>2. CASE w.rt[r].process # "none"
  <2>1. w.rt[r] \in RuntimeObject BY WorldFields
  <2>2. PICK u : u = SetState(w, r, "ShuttingDown") OBVIOUS
  <2>3. Told(w, u, r, a, "ShuttingDown") /\ u.rt[r] = [w.rt[r] EXCEPT !.state = "ShuttingDown"]
    <3>1. "ShuttingDown" \in RunState BY DEF RunState
    <3> QED BY <2>2, <3>1, SetStateIs DEF Told
  <2>4. Stopped(w.rt[r], u.rt[r]) BY <2>1, <2>3 DEF Stopped, RuntimeObject, RunState
  <2>5. v = u \/ \E s \in {"kill", "quit", "term"} : v = [u EXCEPT !.rt[r].sig = s]
    BY <1>2, <2>2 DEF NativeStop
  <2>6. ASSUME NEW s \in {"kill", "quit", "term"}, v = [u EXCEPT !.rt[r].sig = s]
        PROVE  Stopped(w.rt[r], v.rt[r]) /\ Told(w, v, r, a, "ShuttingDown")
    <3>1. u \in Worlds BY <2>3 DEF Told, Touches
    <3>2. v.rt[r] = [u.rt[r] EXCEPT !.sig = s] /\ v.app = u.app
          /\ \A q \in Runtimes : q # r => v.rt[q] = u.rt[q]
      BY <2>6, <3>1 DEF Worlds
    <3>3. [u.rt[r] EXCEPT !.sig = s] \in RuntimeObject BY <2>4 DEF Stopped, RuntimeObject
    <3>4. v \in Worlds BY <2>6, <3>1, <3>3 DEF Worlds
    <3>5. Stopped(w.rt[r], v.rt[r]) BY <2>4, <3>2, <3>3 DEF Stopped, RuntimeObject
    <3> QED BY <2>3, <3>2, <3>4, <3>5 DEF Told, Touches
  <2> QED BY <1>2, <2>3, <2>4, <2>5, <2>6
<1> QED BY <1>1, <1>2

Lambdas == {"create", "noRoot", "finish", "stopIfNoVisible"}

LEMMA PostIs ==
    ASSUME NEW w \in Worlds, NEW r \in Runtimes, NEW call \in Lambdas,
           NEW v, v = Post(w, r, call)
    PROVE  /\ v \in Worlds /\ v.app = w.app
           /\ \A q \in Runtimes : q # r => v.rt[q] = w.rt[q]
           /\ v.rt[r] = [w.rt[r] EXCEPT !.posted = Append(@, call)]
           /\ v.rt[r] \in RuntimeObject
<1>1. w.rt[r] \in RuntimeObject BY WorldFields
<1>2. Append(w.rt[r].posted, call) \in Seq({"create", "noRoot", "finish", "stopIfNoVisible"})
  BY <1>1, AppendProperties DEF RuntimeObject, Lambdas
<1> DEFINE p == Append(w.rt[r].posted, call)
           x == [w.rt[r] EXCEPT !.posted = p]
<1>3. x \in RuntimeObject
  <2>1. \A q \in Seq({"create", "noRoot", "finish", "stopIfNoVisible"}) :
            [w.rt[r] EXCEPT !.posted = q] \in RuntimeObject
    BY <1>1 DEF RuntimeObject
  <2> QED BY <1>2, <2>1
<1>4. v = [w EXCEPT !.rt[r] = x] BY <1>1 DEF Post, Worlds
<1> HIDE DEF x
<1>5. v.rt[r] = x /\ v.app = w.app /\ v \in Worlds
      /\ \A q \in Runtimes : q # r => v.rt[q] = w.rt[q]
  BY <1>3, <1>4 DEF Worlds
<1> QED BY <1>3, <1>5 DEF x

LEMMA InProcStopIs ==
    ASSUME NEW w \in Worlds, NEW r \in Runtimes, w.rt[r].kind = "inproc",
           NEW forceKill \in BOOLEAN,
           NEW v, v = InProcStop(w, r, forceKill), NEW a, a = w.rt[r].watch
    PROVE  Stopped(w.rt[r], v.rt[r]) /\ Told(w, v, r, a, "ShuttingDown")
<1>1. w.rt[r] \in RuntimeObject BY WorldFields
<1>2. PICK u : u = SetState(w, r, "ShuttingDown") OBVIOUS
<1>3. Told(w, u, r, a, "ShuttingDown") /\ u.rt[r] = [w.rt[r] EXCEPT !.state = "ShuttingDown"]
  <2>1. "ShuttingDown" \in RunState BY DEF RunState
  <2> QED BY <1>2, <2>1, SetStateIs DEF Told
<1>4. Stopped(w.rt[r], u.rt[r]) BY <1>1, <1>3 DEF Stopped, RuntimeObject, RunState
<1>5. u \in Worlds BY <1>3 DEF Told, Touches
<1>6. CASE forceKill = TRUE
  <2>1. v = Post(u, r, "finish") BY <1>2, <1>6 DEF InProcStop
  <2>2. "finish" \in Lambdas BY DEF Lambdas
  <2>3. /\ v \in Worlds /\ v.app = u.app
        /\ \A q \in Runtimes : q # r => v.rt[q] = u.rt[q]
        /\ v.rt[r] = [u.rt[r] EXCEPT !.posted = Append(@, "finish")]
        /\ v.rt[r] \in RuntimeObject
    BY <1>5, <2>1, <2>2, PostIs
  <2>4. u.rt[r].posted = w.rt[r].posted BY <1>1, <1>3 DEF RuntimeObject
  <2>5. Stopped(w.rt[r], v.rt[r])
    <3>1. u.rt[r] \in RuntimeObject BY <1>4 DEF Stopped
    <3>2. v.rt[r].posted = Append(w.rt[r].posted, "finish")
      BY <2>3, <2>4, <3>1 DEF RuntimeObject
    <3>3. v.rt[r] = [u.rt[r] EXCEPT !.posted = v.rt[r].posted] BY <2>3, <2>4, <3>2
    <3> QED BY <1>4, <2>3, <3>1, <3>2, <3>3 DEF Stopped, RuntimeObject
  <2> QED BY <1>3, <2>3, <2>5 DEF Told, Touches
<1>7. CASE forceKill = FALSE
  <2>1. v = [u EXCEPT !.rt[r].sig = "quit"] BY <1>2, <1>7 DEF InProcStop
  <2> DEFINE z == [u.rt[r] EXCEPT !.sig = "quit"]
  <2>2. z \in RuntimeObject BY <1>4 DEF Stopped, RuntimeObject
  <2>3. Stopped(w.rt[r], z) BY <1>4, <2>2 DEF Stopped, RuntimeObject
  <2>4. v.rt[r] = z /\ v.app = u.app /\ v \in Worlds
        /\ \A q \in Runtimes : q # r => v.rt[q] = u.rt[q]
    BY <1>5, <2>1, <2>2 DEF Worlds
  <2> HIDE DEF z
  <2> QED BY <1>3, <2>3, <2>4 DEF Told, Touches
<1> QED BY <1>6, <1>7

LEMMA StopIs ==
    ASSUME NEW w \in Worlds, NEW r \in Runtimes, NEW forceKill \in BOOLEAN,
           NEW v, v = Stop(w, r, forceKill), NEW a, a = w.rt[r].watch
    PROVE  \/ v = w
           \/ /\ w.rt[r].kind = "inproc" \/ w.rt[r].process # "none"
              /\ Stopped(w.rt[r], v.rt[r])
              /\ Told(w, v, r, a, "ShuttingDown")
<1>1. CASE w.rt[r].kind = "inproc" BY <1>1, InProcStopIs DEF Stop
<1>2. CASE w.rt[r].kind # "inproc" BY <1>2, NativeStopIs DEF Stop
<1> QED BY <1>1, <1>2

-----------------------------------------------------------------------------
(* What a call may do to a runtime and to the application it belongs to *)

Live(x) == x.process \in {"starting", "up"}

Forgotten(r) == rt[r].app # None /\ app[rt[r].app].runtime # r

(* the object x2 that a call makes of runtime r *)
RuntimeMoves(r, x2) ==
    /\ x2 \in RuntimeObject
    /\ ObjectFits(x2)
    /\ \/ x2.app = rt[r].app /\ x2.kind = rt[r].kind
       \/ x2 = NoRuntime
    /\ Live(x2) /\ ~Live(rt[r]) => rt[r].waits # "no"
    /\ Forgotten(r) => Ended(x2)

(* the record y2 that a call on runtime r makes of its application a, while it makes x2 of
   the runtime: they agree, or they part *)
OwnerMoves(a, y2, x2) ==
    /\ y2 \in Application
    /\ y2.exists = app[a].exists /\ y2.kind = app[a].kind /\ y2.blocked = app[a].blocked
    /\ \/ /\ y2.runtime = app[a].runtime /\ x2.app = a
          /\ a \notin late => y2.runState = x2.state
          /\ y2.waiting = app[a].waiting
          /\ app[a].runState # "NotRunning" => y2.runState # "NotRunning"
       \/ /\ y2.runtime = None /\ y2.runState = "NotRunning" /\ ~y2.waiting
          /\ Ended(x2)

(* the record y2 that a call on a forgotten runtime makes of application a: it looks as if
   it ran, or it loses the runtime it has now *)
LateMoves(a, y2) ==
    /\ y2 \in Application
    /\ app[a].exists
    /\ y2.exists = app[a].exists /\ y2.kind = app[a].kind /\ y2.blocked = app[a].blocked
    /\ \/ /\ y2.runtime = app[a].runtime /\ y2.waiting = app[a].waiting
          /\ y2.runState # "NotRunning"
       \/ /\ y2.runtime = None /\ y2.runState = "NotRunning" /\ ~y2.waiting
          /\ app[a].runtime # None => Ended(rt[app[a].runtime])

(* w is the world that a call on runtime r leaves behind *)
LateAnswered(w, r) ==
    /\ w \in Worlds
    /\ \A q \in Runtimes : q # r => w.rt[q] = rt[q]
    /\ RuntimeMoves(r, w.rt[r])
    /\ w.rt[r].quick = rt[r].quick
    /\ \A a \in Apps :
          /\ app[a].runtime = r => OwnerMoves(a, w.app[a], w.rt[r])
          /\ app[a].runtime # r => w.app[a] = app[a] \/ LateMoves(a, w.app[a])

(* only the application whose current runtime r is takes notice *)
Answered(w, r) ==
    /\ LateAnswered(w, r)
    /\ \A a \in Apps : app[a].runtime # r => w.app[a] = app[a]

(* what becomes of application a without a call on its runtime *)
OthersMove(a) ==
    \/ app'[a] = app[a]
    \/ a \in late' /\ LateMoves(a, app'[a])

(* calls on some runtimes, each of which is answered *)
Calls ==
    /\ app' \in [Apps -> Application]
    /\ rt' \in [Runtimes -> RuntimeObject]
    /\ late \subseteq late' /\ late' \subseteq Apps
    /\ \A a \in late' : a \in late \/ app[a].exists
    /\ \A r \in Runtimes : RuntimeMoves(r, rt'[r])
    /\ \A a \in Apps :
          \/ app[a].runtime # None /\ OwnerMoves(a, app'[a], rt'[app[a].runtime])
          \/ /\ OthersMove(a)
             /\ app[a].runtime # None => rt'[app[a].runtime] = rt[app[a].runtime]

QuickKept == \A r \in Runtimes : rt'[r].quick = rt[r].quick

(* the fields of the records *)
LEMMA Fields ==
    ASSUME TypeOK
    PROVE  /\ app \in [Apps -> Application]
           /\ rt \in [Runtimes -> RuntimeObject]
           /\ \A a \in Apps : app[a] \in Application /\ app[a].runtime \in Runtimes \cup {None}
           /\ \A r \in Runtimes : rt[r] \in RuntimeObject /\ rt[r].app \in Apps \cup {None}
           /\ None \notin Apps /\ None \notin Runtimes
BY RuntimeAssumption DEF TypeOK, RuntimeTypeOK, Application, RuntimeObject

(* the invariant as far as applications and runtimes are concerned *)
PairsFit ==
    /\ RuntimeTypeOK
    /\ \A r \in Runtimes : ObjectFits(rt[r]) /\ RuntimeFits(r)
    /\ \A a \in Apps : AppFits(a)

(* to do nothing is an answer *)
LEMMA NothingMoves ==
    ASSUME AppInv
    PROVE  /\ \A r \in Runtimes : RuntimeMoves(r, rt[r])
           /\ \A a \in Apps : app[a].runtime # None =>
                  OwnerMoves(a, app[a], rt[app[a].runtime])
<1>1. ASSUME NEW r \in Runtimes PROVE RuntimeMoves(r, rt[r])
  <2>1. rt[r] \in RuntimeObject /\ ObjectFits(rt[r]) /\ RuntimeFits(r) BY Fields DEF AppInv
  <2> QED BY <2>1 DEF RuntimeMoves, Forgotten, RuntimeFits
<1>2. ASSUME NEW a \in Apps, app[a].runtime # None
      PROVE  OwnerMoves(a, app[a], rt[app[a].runtime])
  <2>1. app[a] \in Application /\ AppFits(a) BY Fields DEF AppInv
  <2> QED BY <1>2, <2>1 DEF OwnerMoves, AppFits
<1> QED BY <1>1, <1>2

(* whatever calls are answered, applications and runtimes still fit *)
LEMMA CallsFit ==
    ASSUME AppInv, Calls
    PROVE  PairsFit' /\ (NoneCurrent => NoneCurrent')
<1> USE Fields
<1>0. TypeOK BY DEF AppInv
<1>1. RuntimeTypeOK' BY DEF Calls, RuntimeTypeOK
<1>2. ASSUME NEW a \in Apps
      PROVE  /\ app'[a].exists = app[a].exists /\ app'[a].kind = app[a].kind
             /\ app'[a].runtime = app[a].runtime \/ app'[a].runtime = None
             /\ app[a].runtime # None /\ app'[a].runtime = None => Ended(rt'[app[a].runtime])
  BY <1>0 DEF Calls, OthersMove, OwnerMoves, LateMoves
<1>3. ASSUME NEW a \in Apps PROVE AppFits(a)'
  <2>1. AppFits(a) BY DEF AppInv
  <2>2. a \in late' => a \in late \/ app[a].exists BY DEF Calls
  <2>3. a \notin late' => a \notin late BY DEF Calls
  <2>4. CASE app[a].runtime # None /\ OwnerMoves(a, app'[a], rt'[app[a].runtime])
    BY <1>0, <1>2, <2>1, <2>2, <2>3, <2>4 DEF OwnerMoves, AppFits
  <2>5. CASE OthersMove(a) /\ (app[a].runtime # None => rt'[app[a].runtime] = rt[app[a].runtime])
    <3>1. CASE app'[a] = app[a] BY <1>0, <2>1, <2>2, <2>3, <2>5, <3>1 DEF AppFits
    <3>2. CASE a \in late' /\ LateMoves(a, app'[a])
      BY <1>0, <2>1, <2>5, <3>2 DEF AppFits, LateMoves
    <3> QED BY <2>5, <3>1, <3>2 DEF OthersMove
  <2> QED BY <2>4, <2>5 DEF Calls
<1>4. ASSUME NEW r \in Runtimes PROVE ObjectFits(rt[r])' /\ RuntimeFits(r)'
  <2>1. RuntimeMoves(r, rt'[r]) BY DEF Calls
  <2>2. CASE rt'[r] = NoRuntime
    BY <2>1, <2>2 DEF RuntimeMoves, RuntimeFits, NoRuntime
  <2>3. CASE rt'[r] # NoRuntime
    <3>1. rt'[r].app = rt[r].app /\ rt'[r].kind = rt[r].kind BY <2>1, <2>3 DEF RuntimeMoves
    <3> DEFINE a == rt[r].app
    <3>2. CASE a = None BY <2>1, <3>1, <3>2 DEF RuntimeMoves, RuntimeFits
    <3>3. CASE a # None
      <4>1. a \in Apps BY <1>0, <3>3
      <4>2. app[a].exists /\ (rt[r].kind = "inproc" <=> Kind(a) = "inproc")
        BY <3>3 DEF AppInv, RuntimeFits
      <4>3. app'[a].runtime # r => Ended(rt'[r])
        <5>1. CASE app[a].runtime = r
          BY <1>0, <1>2, <4>1, <5>1
        <5>2. CASE app[a].runtime # r
          BY <2>1, <3>3, <5>2 DEF RuntimeMoves, Forgotten
        <5> QED BY <5>1, <5>2
      <4> QED BY <1>2, <2>1, <3>1, <4>1, <4>2, <4>3 DEF RuntimeMoves, RuntimeFits, Kind
    <3> QED BY <3>2, <3>3
  <2> QED BY <2>2, <2>3
<1>5. ASSUME NoneCurrent PROVE NoneCurrent'
  BY <1>2, <1>5 DEF NoneCurrent
<1> QED BY <1>1, <1>3, <1>4, <1>5 DEF PairsFit

(* a call that concerns nobody but the runtime's own application comes in time *)
LEMMA InTime ==
    ASSUME AppInv, NEW r \in Runtimes, NEW w, Answered(w, r), Becomes(w), UNCHANGED late
    PROVE  ComesLate(r)
<1>1. {a \in Apps : app[a].runtime # r /\ app'[a] # app[a]} = {} BY DEF Answered, Becomes
<1> QED BY <1>1 DEF ComesLate

(* one call *)
LEMMA OneCall ==
    ASSUME AppInv, NEW r \in Runtimes, NEW w, LateAnswered(w, r), Becomes(w), ComesLate(r)
    PROVE  Calls /\ QuickKept
<1> USE Fields
<1>0. TypeOK BY DEF AppInv
<1>1. app' = w.app /\ rt' = w.rt BY DEF Becomes
<1>2. app' \in [Apps -> Application] /\ rt' \in [Runtimes -> RuntimeObject]
  BY <1>1 DEF LateAnswered, Worlds
<1>3. \A q \in Runtimes : RuntimeMoves(q, rt'[q]) BY <1>1, NothingMoves DEF LateAnswered
<1>4. late \subseteq late' /\ late' \subseteq Apps BY <1>0 DEF ComesLate, TypeOK
<1>5. ASSUME NEW a \in Apps, app[a].runtime # r, app'[a] # app[a]
      PROVE  a \in late' /\ LateMoves(a, app'[a])
  BY <1>1, <1>5 DEF LateAnswered, ComesLate
<1>6. ASSUME NEW a \in late' PROVE a \in late \/ app[a].exists
  BY <1>5, <1>6 DEF ComesLate, LateMoves
<1>7. ASSUME NEW a \in Apps
      PROVE  \/ app[a].runtime # None /\ OwnerMoves(a, app'[a], rt'[app[a].runtime])
             \/ /\ OthersMove(a)
                /\ app[a].runtime # None => rt'[app[a].runtime] = rt[app[a].runtime]
  <2>1. CASE app[a].runtime = r BY <1>0, <1>1, <2>1 DEF LateAnswered
  <2>2. CASE app[a].runtime # r
    <3>1. OthersMove(a) BY <1>5, <2>2 DEF OthersMove
    <3>2. app[a].runtime # None => rt'[app[a].runtime] = rt[app[a].runtime]
      BY <1>0, <1>1, <2>2 DEF LateAnswered
    <3> QED BY <3>1, <3>2
  <2> QED BY <2>1, <2>2
<1> QED BY <1>1, <1>2, <1>3, <1>4, <1>6, <1>7, NothingMoves DEF LateAnswered, Calls, QuickKept

(* one call that comes in time *)
LEMMA OneCallInTime ==
    ASSUME AppInv, NEW r \in Runtimes, NEW w, Answered(w, r), Becomes(w), UNCHANGED late
    PROVE  Calls /\ QuickKept
BY InTime, OneCall DEF Answered

(* the same call on each of a set of runtimes *)
LEMMA ManyCalls ==
    ASSUME AppInv, NEW S \in SUBSET Runtimes, NEW w, \A r \in S : Answered(w[r], r),
           app' = [a \in Apps |-> IF app[a].runtime \in S THEN w[app[a].runtime].app[a]
                                  ELSE app[a]],
           rt' = [r \in Runtimes |-> IF r \in S THEN w[r].rt[r] ELSE rt[r]],
           UNCHANGED late
    PROVE  Calls /\ QuickKept
<1> USE Fields
<1>0. TypeOK BY DEF AppInv
<1>1. \A r \in S : w[r].app \in [Apps -> Application] /\ w[r].rt \in [Runtimes -> RuntimeObject]
  BY DEF Answered, LateAnswered, Worlds
<1>2. app' \in [Apps -> Application] /\ rt' \in [Runtimes -> RuntimeObject]
  BY <1>0, <1>1
<1>3. \A r \in Runtimes : RuntimeMoves(r, rt'[r]) BY NothingMoves DEF Answered, LateAnswered
<1>4. late \subseteq late' /\ late' \subseteq Apps BY <1>0 DEF TypeOK
<1>5. ASSUME NEW a \in Apps
      PROVE  \/ app[a].runtime # None /\ OwnerMoves(a, app'[a], rt'[app[a].runtime])
             \/ /\ OthersMove(a)
                /\ app[a].runtime # None => rt'[app[a].runtime] = rt[app[a].runtime]
  <2>1. CASE app[a].runtime \in S BY <1>0, <2>1 DEF Answered, LateAnswered
  <2>2. CASE app[a].runtime \notin S
    <3>1. app'[a] = app[a] BY <2>2
    <3>2. app[a].runtime # None => rt'[app[a].runtime] = rt[app[a].runtime]
      BY <1>0, <2>2
    <3> QED BY <3>1, <3>2 DEF OthersMove
  <2> QED BY <2>1, <2>2
<1>6. QuickKept BY <1>0 DEF Answered, LateAnswered, QuickKept
<1> QED BY <1>2, <1>3, <1>4, <1>5, <1>6 DEF Calls

-----------------------------------------------------------------------------
(* Kinds of answers *)

(* an application knows one runtime, and that one knows it *)
LEMMA OwnerKnown ==
    ASSUME AppInv, NEW a \in Apps, NEW r \in Runtimes, app[a].runtime = r
    PROVE  /\ rt[r].app = a /\ rt[r].watch = a /\ rt[r].kind # "free" /\ ~Forgotten(r)
           /\ a \notin late => app[a].runState = rt[r].state
           /\ app[a].exists
           /\ app[a].waiting => app[a].runState # "NotRunning"
<1>1. AppFits(a) /\ ObjectFits(rt[r]) /\ None \notin Apps /\ None \notin Runtimes
  BY Fields DEF AppInv
<1>2. rt[r].app = a /\ app[a].exists /\ (a \notin late => app[a].runState = rt[r].state)
  BY <1>1 DEF AppFits
<1>3. rt[r].kind # "free" BY <1>1, <1>2 DEF ObjectFits, NoRuntime
<1> QED BY <1>1, <1>2, <1>3 DEF AppFits, ObjectFits, Forgotten

(* the runtime changes by itself, its state stays *)
LEMMA QuietAnswer ==
    ASSUME AppInv, NEW r \in Runtimes, NEW w, w \in Worlds, w.app = app,
           \A q \in Runtimes : q # r => w.rt[q] = rt[q],
           w.rt[r].state = rt[r].state, w.rt[r].app = rt[r].app, w.rt[r].kind = rt[r].kind,
           w.rt[r].quick = rt[r].quick,
           ObjectFits(w.rt[r]), Live(w.rt[r]) => Live(rt[r]),
           Forgotten(r) => w.rt[r].waits = "no"
    PROVE  Answered(w, r)
<1>1. w.rt[r] \in RuntimeObject BY WorldFields
<1>2. Forgotten(r) => Ended(rt[r]) BY DEF AppInv, RuntimeFits, Forgotten
<1>3. RuntimeMoves(r, w.rt[r]) BY <1>1, <1>2 DEF RuntimeMoves, Ended, Live
<1>4. ASSUME NEW a \in Apps, app[a].runtime = r PROVE OwnerMoves(a, w.app[a], w.rt[r])
  <2>1. app[a] \in Application BY Fields DEF AppInv
  <2> QED BY <1>4, <2>1, OwnerKnown DEF OwnerMoves
<1> QED BY <1>3, <1>4 DEF Answered, LateAnswered

(* the runtime goes on, or on its way down, and tells its application, or the one that
   has forgotten it *)
LEMMA ToldAnswer ==
    ASSUME AppInv, NEW r \in Runtimes, NEW w, NEW s \in RunState, s # "NotRunning",
           NEW v, v \in Worlds, v.app = app, v.rt[r].state = rt[r].state,
           \A q \in Runtimes : q # r => v.rt[q] = rt[q],
           Told(v, w, r, rt[r].watch, s),
           w.rt[r].state = s, w.rt[r].app = rt[r].app, w.rt[r].kind = rt[r].kind,
           w.rt[r].quick = rt[r].quick,
           ObjectFits(w.rt[r]), Live(w.rt[r]) /\ ~Live(rt[r]) => rt[r].waits # "no",
           Forgotten(r) => Ended(w.rt[r])
    PROVE  LateAnswered(w, r) /\ (~Forgotten(r) => Answered(w, r))
<1>0. w \in Worlds /\ \A q \in Runtimes : q # r => w.rt[q] = rt[q] BY DEF Told, Touches
<1>1. w.rt[r] \in RuntimeObject BY <1>0, WorldFields
<1>2. RuntimeMoves(r, w.rt[r]) BY <1>1 DEF RuntimeMoves
<1>3. ObjectFits(rt[r]) /\ RuntimeFits(r) BY DEF AppInv
<1>4. ASSUME NEW a \in Apps, rt[r].watch = a
      PROVE  /\ w.app[a] \in Application
             /\ w.app[a].exists = app[a].exists /\ w.app[a].kind = app[a].kind
             /\ w.app[a].blocked = app[a].blocked /\ w.app[a].runtime = app[a].runtime
             /\ w.app[a].waiting = app[a].waiting
             /\ w.app[a] # app[a] => w.app[a].runState = s
             /\ rt[r].state # s => w.app[a].runState = s
  <2>1. app[a] \in Application /\ a # None BY Fields DEF AppInv
  <2>2. w.app[a] = IF rt[r].state = s THEN app[a] ELSE Report(app[a], s)
    BY <1>4, <2>1 DEF Told
  <2>3. CASE rt[r].state = s BY <2>1, <2>2, <2>3
  <2>4. CASE rt[r].state # s
    <3>1. w.app[a] = Report(app[a], s) BY <2>2, <2>4
    <3>2. app[a].waiting \in BOOLEAN /\ w.app[a].waiting \in BOOLEAN
      BY <2>1, <3>1, ReportTyped DEF Application
    <3>3. w.app[a].waiting = app[a].waiting BY <2>1, <3>1, <3>2, ReportTyped
    <3> QED BY <2>1, <3>1, <3>3, ReportTyped
  <2> QED BY <2>3, <2>4
<1>5. ASSUME NEW a \in Apps, app[a].runtime = r PROVE OwnerMoves(a, w.app[a], w.rt[r])
  <2>1. rt[r].watch = a /\ rt[r].app = a /\ (a \notin late => app[a].runState = rt[r].state)
    BY <1>5, OwnerKnown
  <2>2. a \notin late => w.app[a].runState = s BY <1>4, <2>1
  <2>3. app[a].runState # "NotRunning" => w.app[a].runState # "NotRunning" BY <1>4, <2>1
  <2> QED BY <1>4, <1>5, <2>1, <2>2, <2>3 DEF OwnerMoves
<1>6. ASSUME NEW a \in Apps, rt[r].watch # a PROVE w.app[a] = app[a]
  BY <1>6 DEF Told, Touches
<1>7. ASSUME NEW a \in Apps, app[a].runtime # r, w.app[a] # app[a] PROVE LateMoves(a, w.app[a])
  <2>1. rt[r].watch = a BY <1>6, <1>7
  <2>2. app[a].exists BY <1>3, <2>1, Fields DEF AppInv, ObjectFits, RuntimeFits
  <2> QED BY <1>4, <1>7, <2>1, <2>2 DEF LateMoves
<1>8. ASSUME NEW a \in Apps, app[a].runtime # r, ~Forgotten(r) PROVE w.app[a] = app[a]
  <2>1. a # rt[r].watch BY <1>3, <1>8, Fields DEF AppInv, ObjectFits, Forgotten
  <2> QED BY <1>6, <2>1
<1>9. LateAnswered(w, r) BY <1>0, <1>2, <1>5, <1>7 DEF LateAnswered
<1> QED BY <1>8, <1>9 DEF Answered

(* the runtime has ended, and the application it belonged to has none *)
LEMMA EndAnswer ==
    ASSUME AppInv, NEW r \in Runtimes, NEW w, w \in Worlds,
           \A q \in Runtimes : q # r => w.rt[q] = rt[q],
           \A a \in Apps : app[a].runtime = r => w.app[a] = Forget(app[a]),
           \A a \in Apps : app[a].runtime # r => w.app[a] = app[a] \/ LateMoves(a, w.app[a]),
           Ended(w.rt[r]),
           (w.rt[r].app = rt[r].app /\ w.rt[r].kind = rt[r].kind) \/ w.rt[r] = NoRuntime,
           w.rt[r].quick = rt[r].quick,
           ObjectFits(w.rt[r])
    PROVE  LateAnswered(w, r)
<1>1. w.rt[r] \in RuntimeObject BY WorldFields
<1>2. RuntimeMoves(r, w.rt[r]) BY <1>1 DEF RuntimeMoves, Ended, Live
<1>3. ASSUME NEW a \in Apps, app[a].runtime = r PROVE OwnerMoves(a, w.app[a], w.rt[r])
  <2>1. app[a] \in Application /\ r # None BY Fields DEF AppInv
  <2>2. app[a].waiting => app[a].runState # "NotRunning" BY <1>3, OwnerKnown
  <2> QED BY <1>3, <2>1, <2>2, ForgetTyped DEF OwnerMoves
<1> QED BY <1>2, <1>3 DEF LateAnswered

LEMMA NoRuntimeFits ==
    NoRuntime \in RuntimeObject /\ ObjectFits(NoRuntime) /\ Ended(NoRuntime)
<1>1. <<>> \in Seq({"create", "noRoot", "finish", "stopIfNoVisible"}) BY EmptySeq
<1> QED BY <1>1 DEF NoRuntime, RuntimeObject, ObjectFits, Ended, RunState

(* the destructor, if at most one application knows the runtime *)
LEMMA DestroyIs ==
    ASSUME NEW w \in Worlds, NEW r \in Runtimes, NEW v, v = Destroy(w, r),
           \A a, b \in Apps : w.app[a].runtime = r /\ w.app[b].runtime = r => a = b
    PROVE  /\ v \in Worlds /\ v.rt[r] = NoRuntime
           /\ \A q \in Runtimes : q # r => v.rt[q] = w.rt[q]
           /\ \A a \in Apps :
                 v.app[a] = IF w.app[a].runtime = r THEN Forget(w.app[a]) ELSE w.app[a]
<1> DEFINE u == [w EXCEPT !.rt[r] = NoRuntime]
           owners == {a \in Apps : w.app[a].runtime = r}
<1>1. u \in Worlds /\ u.rt[r] = NoRuntime /\ u.app = w.app
      /\ \A q \in Runtimes : q # r => u.rt[q] = w.rt[q]
  BY NoRuntimeFits DEF Worlds
<1>2. CASE owners = {}
  <2>1. v = u BY <1>2 DEF Destroy
  <2> HIDE DEF u
  <2> QED BY <1>1, <1>2, <2>1
<1>3. CASE owners # {}
  <2>1. PICK a \in Apps : a = CHOOSE b \in owners : TRUE BY <1>3
  <2>2. w.app[a].runtime = r BY <1>3, <2>1
  <2>3. v = SetCurrentRuntime(u, a, None) BY <1>3, <2>1 DEF Destroy
  <2> HIDE DEF u, owners
  <2>4. Touches(u, v, r, a) /\ v.app[a] = Forget(u.app[a]) /\ v.rt = u.rt
    BY <1>1, <2>3, SetNoRuntimeIs
  <2> QED BY <1>1, <2>2, <2>4 DEF Touches
<1> QED BY <1>2, <1>3

LEMMA DestroyAnswered ==
    ASSUME AppInv, NEW r \in Runtimes, NEW w \in Worlds, w.app = app,
           \A q \in Runtimes : q # r => w.rt[q] = rt[q], ~rt[r].quick
    PROVE  Answered(Destroy(w, r), r)
<1>1. PICK v : v = Destroy(w, r) OBVIOUS
<1>2. \A a, b \in Apps : w.app[a].runtime = r /\ w.app[b].runtime = r => a = b BY OwnerKnown
<1>3. /\ v \in Worlds /\ v.rt[r] = NoRuntime
      /\ \A q \in Runtimes : q # r => v.rt[q] = w.rt[q]
      /\ \A a \in Apps : v.app[a] = IF w.app[a].runtime = r THEN Forget(w.app[a]) ELSE w.app[a]
  BY <1>1, <1>2, DestroyIs
<1>4. v.rt[r].quick = FALSE BY <1>3 DEF NoRuntime
<1>5. rt[r].quick = FALSE BY Fields DEF AppInv, RuntimeObject
<1>6. LateAnswered(v, r) BY <1>3, <1>4, <1>5, NoRuntimeFits, EndAnswer
<1> QED BY <1>1, <1>3, <1>6 DEF Answered

-----------------------------------------------------------------------------
(* The answers of native runtimes *)

(* a runtime object that has a process *)
LEMMA ProcessObject ==
    ASSUME AppInv, NEW r \in Runtimes, rt[r].process # "none"
    PROVE  /\ rt[r] \in RuntimeObject /\ rt[r].kind \in NativeKinds
           /\ rt[r].posted = <<>> /\ ~rt[r].surfaces /\ rt[r].waits = "no"
           /\ rt[r].watch = rt[r].app
           /\ Live(rt[r]) => ~Forgotten(r)
           /\ rt[r].link # "no" =>
                 rt[r].process \in {"up", "gone"} /\ rt[r].kind \in {"launcher", "interface"}
           /\ rt[r].link = "ready" /\ rt[r].kind = "launcher" /\ rt[r].process = "up"
              /\ rt[r].app # None => rt[r].told
           /\ rt[r].quick => rt[r].kind = "launcher" /\ rt[r].app = None
<1>1. rt[r] \in RuntimeObject /\ ObjectFits(rt[r]) /\ RuntimeFits(r) BY Fields DEF AppInv
<1>2. rt[r].kind # "free" BY <1>1 DEF ObjectFits, NoRuntime
<1>3. rt[r].kind \in NativeKinds
  BY <1>1, <1>2 DEF RuntimeObject, ObjectFits, AppKinds, NativeKinds
<1>4. Live(rt[r]) => ~Forgotten(r) BY <1>1 DEF RuntimeFits, Forgotten, Ended, Live
<1>5. /\ rt[r].posted = <<>> /\ ~rt[r].surfaces /\ rt[r].waits = "no"
      /\ rt[r].watch = rt[r].app
      /\ rt[r].quick => rt[r].kind = "launcher" /\ rt[r].app = None
  BY <1>1, <1>3 DEF ObjectFits, NativeKinds
<1>6. /\ rt[r].link # "no" =>
            rt[r].process \in {"up", "gone"} /\ rt[r].kind \in {"launcher", "interface"}
      /\ rt[r].link = "ready" /\ rt[r].kind = "launcher" /\ rt[r].process = "up"
         /\ rt[r].app # None => rt[r].told
  BY <1>1 DEF ObjectFits
<1> QED BY <1>1, <1>3, <1>4, <1>5, <1>6

(* what makes an object of a process fit *)
LEMMA ProcessFits ==
    ASSUME NEW x, x.kind \in NativeKinds, x.posted = <<>>, ~x.surfaces,
           x.waits = "no", x.watch = x.app, x.quick => x.kind = "launcher" /\ x.app = None,
           x.link # "no" => x.process \in {"up", "gone"} /\ x.kind \in {"launcher", "interface"},
           x.link = "ready" /\ x.kind = "launcher" /\ x.process = "up" /\ x.app # None => x.told
    PROVE  ObjectFits(x)
BY DEF ObjectFits, NativeKinds

LEMMA NativeShutdownAnswered ==
    ASSUME AppInv, NEW r \in Runtimes, Live(rt[r])
    PROVE  Answered(NativeShutdown(World, r), r)
<1> DEFINE x == rt[r]
           a == x.app
<1>0. World \in Worlds /\ World.app = app /\ World.rt = rt BY WorldTyped DEF AppInv
<1>1. x.process # "none" BY DEF Live
<1>2. x \in RuntimeObject /\ a \in Apps \cup {None} /\ None \notin Apps
  BY Fields DEF AppInv, RuntimeObject
<1>3. PICK y : y = [x EXCEPT !.process = "gone", !.deleted = TRUE, !.sig = "none",
                             !.told = FALSE,
                             !.link = IF @ = "hello" THEN "hello" ELSE "no"] OBVIOUS
<1>4. y \in RuntimeObject
  <2>1. PICK link : link = IF x.link = "hello" THEN "hello" ELSE "no" OBVIOUS
  <2>2. y = [x EXCEPT !.process = "gone", !.deleted = TRUE, !.sig = "none", !.told = FALSE,
                      !.link = link]
    BY <1>2, <1>3, <2>1 DEF RuntimeObject
  <2>3. link \in {"no", "hello"} BY <2>1
  <2> HIDE DEF x
  <2> QED BY <1>2, <2>2, <2>3 DEF RuntimeObject
<1>5. PICK dead : dead = [World EXCEPT !.rt[r] = y] OBVIOUS
<1>6. dead \in Worlds /\ dead.rt[r] = y /\ dead.app = app
      /\ \A q \in Runtimes : q # r => dead.rt[q] = rt[q]
  BY <1>0, <1>4, <1>5 DEF Worlds
<1>8. NativeShutdown(World, r) =
          SetState(IF a = None THEN dead ELSE SetCurrentRuntime(dead, a, None), r, "NotRunning")
  <2>1. dead = [World EXCEPT !.rt[r].process = "gone", !.rt[r].deleted = TRUE,
                             !.rt[r].sig = "none", !.rt[r].told = FALSE,
                             !.rt[r].link = IF @ = "hello" THEN "hello" ELSE "no"]
    BY <1>0, <1>3, <1>5 DEF Worlds
  <2> QED BY <1>0, <2>1 DEF NativeShutdown
<1>9. PICK u : u = IF a = None THEN dead ELSE SetCurrentRuntime(dead, a, None) OBVIOUS
<1>10. PICK v : v = SetState(u, r, "NotRunning") OBVIOUS
<1>11. y.app = a /\ y.watch = a /\ y.kind = x.kind /\ y.quick = x.quick /\ y.posted = x.posted
       /\ y.surfaces = x.surfaces /\ y.waits = x.waits /\ y.process = "gone"
       /\ y.link \in {"no", x.link} /\ y.link # "ready"
  BY <1>1, <1>2, <1>3, ProcessObject DEF RuntimeObject
<1>12. /\ u \in Worlds /\ u.rt = dead.rt
       /\ a = None => u.app = app
       /\ a # None => u.app[a] = Forget(app[a]) /\ \A b \in Apps : b # a => u.app[b] = app[b]
  <2>1. CASE a = None BY <1>6, <1>9, <2>1
  <2>2. CASE a # None
    <3>1. Touches(dead, u, r, a) /\ u.app[a] = Forget(dead.app[a]) /\ u.rt = dead.rt
      BY <1>2, <1>6, <1>9, <2>2, SetNoRuntimeIs
    <3> QED BY <1>6, <2>2, <3>1 DEF Touches
  <2> QED BY <2>1, <2>2
<1>13. /\ Touches(u, v, r, a)
       /\ v.rt[r] = [y EXCEPT !.state = "NotRunning"]
       /\ a # None => v.app[a] = IF u.rt[r].state = "NotRunning" THEN u.app[a]
                                 ELSE Report(u.app[a], "NotRunning")
       /\ a = None => v.app = u.app
  <2>1. "NotRunning" \in RunState BY DEF RunState
  <2>2. u.rt[r] = y /\ u.rt[r].watch = a BY <1>6, <1>11, <1>12
  <2> QED BY <1>10, <1>12, <2>1, <2>2, SetStateIs
<1>14. ASSUME NEW b \in Apps, app[b].runtime = r PROVE v.app[b] = Forget(app[b])
  <2>1. a = b /\ a # None BY <1>2, <1>14, OwnerKnown
  <2>2. app[b] \in Application /\ app[b].runtime # None /\ b # None
    BY <1>14, Fields DEF AppInv
  <2>3. Forget(app[b]).runState = "NotRunning" BY <2>2, ForgetTyped
  <2>4. Report(Forget(app[b]), "NotRunning") = Forget(app[b]) BY <2>3 DEF Report
  <2> QED BY <1>12, <1>13, <2>1, <2>4
<1>15. ASSUME NEW b \in Apps, app[b].runtime # r PROVE v.app[b] = app[b]
  <2>1. a = None \/ b # a BY <1>1, <1>15, ProcessObject DEF Forgotten
  <2> QED BY <1>12, <1>13, <2>1 DEF Touches
<1>16. v.rt[r].app = a /\ v.rt[r].quick = x.quick /\ v.rt[r].posted = <<>>
       /\ v.rt[r].state = "NotRunning" /\ v.rt[r].waits = "no" /\ v.rt[r].process = "gone"
       /\ v.rt[r].watch = a /\ v.rt[r].kind = x.kind /\ ~v.rt[r].surfaces
       /\ v.rt[r].link \in {"no", x.link} /\ v.rt[r].link # "ready"
  BY <1>1, <1>4, <1>11, <1>13, ProcessObject DEF RuntimeObject
<1>17. Ended(v.rt[r]) /\ ObjectFits(v.rt[r])
  BY <1>1, <1>16, ProcessObject, ProcessFits DEF Ended
<1>18. v \in Worlds /\ \A q \in Runtimes : q # r => v.rt[q] = rt[q]
  BY <1>6, <1>12, <1>13 DEF Touches
<1>19. LateAnswered(v, r) BY <1>14, <1>15, <1>16, <1>17, <1>18, EndAnswer
<1> QED BY <1>8, <1>9, <1>10, <1>15, <1>19 DEF Answered

(* an edit of the object of a process that is not reported to anybody *)
LEMMA ProcessEdited ==
    ASSUME AppInv, NEW r \in Runtimes, rt[r].process # "none", NEW x \in RuntimeObject,
           NEW w, w = [World EXCEPT !.rt[r] = x],
           x.kind = rt[r].kind, x.posted = rt[r].posted, x.surfaces = rt[r].surfaces,
           x.waits = rt[r].waits, x.watch = rt[r].watch, x.app = rt[r].app,
           x.quick = rt[r].quick, x.state = rt[r].state, Live(x) => Live(rt[r]),
           x.link # "no" => x.process \in {"up", "gone"} /\ x.kind \in {"launcher", "interface"},
           x.link = "ready" /\ x.kind = "launcher" /\ x.process = "up" /\ x.app # None => x.told
    PROVE  /\ ObjectFits(x) /\ w \in Worlds /\ w.app = app /\ w.rt[r] = x
           /\ \A q \in Runtimes : q # r => w.rt[q] = rt[q]
           /\ Answered(w, r)
<1>0. World \in Worlds /\ World.app = app /\ World.rt = rt BY WorldTyped DEF AppInv
<1>2. ObjectFits(x) BY ProcessObject, ProcessFits
<1>3. w \in Worlds /\ w.app = app /\ w.rt[r] = x
      /\ \A q \in Runtimes : q # r => w.rt[q] = rt[q]
  BY <1>0 DEF Worlds
<1>4. x.waits = "no" BY ProcessObject
<1>5. Answered(w, r) BY <1>2, <1>3, <1>4, QuietAnswer
<1> QED BY <1>2, <1>3, <1>5

LEMMA NativeQuitTimerAnswered ==
    ASSUME AppInv, NEW r \in Runtimes, NativeQuitTimer(r), ComesLate(r)
    PROVE  Calls /\ QuickKept
<1> DEFINE x == [rt[r] EXCEPT !.sig = "term"]
<1>0. World \in Worlds /\ World.app = app /\ World.rt = rt BY WorldTyped DEF AppInv
<1>1. rt[r] \in RuntimeObject /\ ObjectFits(rt[r]) BY Fields DEF AppInv
<1>2. x \in RuntimeObject BY <1>1 DEF RuntimeObject
<1>3. /\ x.kind = rt[r].kind /\ x.quick = rt[r].quick /\ x.app = rt[r].app
      /\ x.watch = rt[r].watch /\ x.state = rt[r].state /\ x.slow = rt[r].slow
      /\ x.waits = rt[r].waits /\ x.process = rt[r].process /\ x.link = rt[r].link
      /\ x.told = rt[r].told /\ x.surfaces = rt[r].surfaces /\ x.posted = rt[r].posted
  BY <1>1 DEF RuntimeObject
<1>4. PICK w : w = [World EXCEPT !.rt[r] = x] OBVIOUS
<1>5. Becomes(w) BY <1>0, <1>4 DEF NativeQuitTimer
<1>6. rt[r].kind # "free" BY DEF NativeQuitTimer, NativeKinds
<1> HIDE DEF x
<1>7. w \in Worlds /\ w.app = app /\ w.rt[r] = x
      /\ \A q \in Runtimes : q # r => w.rt[q] = rt[q]
  BY <1>0, <1>2, <1>4 DEF Worlds
<1>8. ObjectFits(x) BY <1>1, <1>3, <1>6 DEF ObjectFits
<1>9. Forgotten(r) => x.waits = "no"
  BY <1>3 DEF AppInv, RuntimeFits, Forgotten, Ended
<1>10. Answered(w, r) BY <1>3, <1>7, <1>8, <1>9, QuietAnswer DEF Live
<1> QED BY <1>5, <1>10, OneCall DEF Answered

LEMMA OnProcessStartedAnswered ==
    ASSUME AppInv, NEW r \in Runtimes, OnProcessStarted(r), ComesLate(r)
    PROVE  Calls /\ QuickKept
<1> DEFINE x == [rt[r] EXCEPT !.process = "up"]
<1>0. World \in Worlds /\ World.app = app /\ World.rt = rt BY WorldTyped DEF AppInv
<1>1. rt[r].process = "starting" /\ Live(rt[r]) /\ rt[r].process # "none"
  BY DEF OnProcessStarted, Live
<1>2. rt[r] \in RuntimeObject BY Fields DEF AppInv
<1>3. x \in RuntimeObject BY <1>2 DEF RuntimeObject
<1>4. /\ x.kind = rt[r].kind /\ x.quick = rt[r].quick /\ x.app = rt[r].app
      /\ x.watch = rt[r].watch /\ x.state = rt[r].state /\ x.process = "up"
      /\ x.waits = rt[r].waits /\ x.link = rt[r].link
      /\ x.told = rt[r].told /\ x.surfaces = rt[r].surfaces /\ x.posted = rt[r].posted
  BY <1>2 DEF RuntimeObject
<1>5. PICK w : w = [World EXCEPT !.rt[r] = x] OBVIOUS
<1>6. Becomes(IF rt[r].kind = "native" THEN SetState(w, r, "Running") ELSE w)
  BY <1>0, <1>5 DEF OnProcessStarted
<1> HIDE DEF x
<1>7. /\ ObjectFits(x) /\ w \in Worlds /\ w.app = app /\ w.rt[r] = x
      /\ \A q \in Runtimes : q # r => w.rt[q] = rt[q]
      /\ Answered(w, r)
  <2>1. x.link = "no" BY <1>1, <1>4, ProcessObject
  <2>2. Answered(w, r) /\ ObjectFits(x) BY <1>1, <1>3, <1>4, <1>5, <2>1, ProcessEdited
  <2> QED BY <1>0, <1>3, <1>5, <2>2 DEF Worlds
<1>8. CASE rt[r].kind # "native" BY <1>6, <1>7, <1>8, OneCall DEF Answered
<1>9. CASE rt[r].kind = "native"
  <2>1. PICK v : v = SetState(w, r, "Running") OBVIOUS
  <2>2. Told(w, v, r, rt[r].watch, "Running") /\ v.rt[r] = [x EXCEPT !.state = "Running"]
    <3>1. "Running" \in RunState BY DEF RunState
    <3> QED BY <1>4, <1>7, <2>1, <3>1, SetStateIs DEF Told
  <2>3. /\ v.rt[r].kind = x.kind /\ v.rt[r].quick = x.quick /\ v.rt[r].app = x.app
        /\ v.rt[r].watch = x.watch /\ v.rt[r].state = "Running" /\ v.rt[r].process = "up"
        /\ v.rt[r].waits = x.waits /\ v.rt[r].link = x.link
        /\ v.rt[r].told = x.told /\ v.rt[r].surfaces = x.surfaces /\ v.rt[r].posted = x.posted
    BY <1>3, <1>4, <2>2 DEF RuntimeObject
  <2>4. ObjectFits(v.rt[r]) BY <1>1, <1>4, <2>3, ProcessObject, ProcessFits
  <2>5. ~Forgotten(r) BY <1>1, ProcessObject
  <2>6. "Running" \in RunState BY DEF RunState
  <2>7. v.rt[r].quick = rt[r].quick /\ v.rt[r].app = rt[r].app /\ v.rt[r].kind = rt[r].kind
    BY <1>4, <2>3
  <2>8. w.rt[r].state = rt[r].state BY <1>4, <1>7
  <2>9. Answered(v, r)
    <3>1. w \in Worlds /\ w.app = app BY <1>7
    <3>2. \A q \in Runtimes : q # r => w.rt[q] = rt[q] BY <1>7
    <3>3. v.rt[r].state = "Running" BY <2>3
    <3>4. Live(v.rt[r]) /\ ~Live(rt[r]) => rt[r].waits # "no" BY <1>1
    <3> QED BY <3>1, <3>2, <3>3, <3>4, <2>2, <2>4, <2>5, <2>6, <2>7, <2>8, ToldAnswer
  <2> QED BY <1>6, <1>9, <2>1, <2>9, OneCall DEF Answered
<1> QED BY <1>8, <1>9

LEMMA OnProcessErrorAnswered ==
    ASSUME AppInv, NEW r \in Runtimes, OnProcessError(r), ComesLate(r)
    PROVE  Calls /\ QuickKept
<1> DEFINE x == [rt[r] EXCEPT !.process = "gone", !.sig = "none"]
<1>0. World \in Worlds /\ World.app = app /\ World.rt = rt BY WorldTyped DEF AppInv
<1>1. rt[r].process = "starting" /\ Live(rt[r]) /\ rt[r].process # "none"
  BY DEF OnProcessError, Live
<1>2. rt[r] \in RuntimeObject BY Fields DEF AppInv
<1>3. x \in RuntimeObject BY <1>2 DEF RuntimeObject
<1>4. /\ x.kind = rt[r].kind /\ x.quick = rt[r].quick /\ x.app = rt[r].app
      /\ x.watch = rt[r].watch /\ x.state = rt[r].state
      /\ x.waits = rt[r].waits /\ x.link = rt[r].link
      /\ x.told = rt[r].told /\ x.surfaces = rt[r].surfaces /\ x.posted = rt[r].posted
  BY <1>2 DEF RuntimeObject
<1>5. rt[r].link = "no" BY <1>1, ProcessObject
<1>6. PICK w : w = [World EXCEPT !.rt[r] = x] OBVIOUS
<1>7. Becomes(w) \/ Becomes(NativeShutdown(World, r))
  <2>1. w = [World EXCEPT !.rt[r].process = "gone", !.rt[r].sig = "none"]
    BY <1>0, <1>6 DEF Worlds
  <2> QED BY <2>1 DEF OnProcessError
<1> HIDE DEF x
<1>8. Answered(w, r) BY <1>1, <1>3, <1>4, <1>5, <1>6, ProcessObject, ProcessEdited
<1>9. Answered(NativeShutdown(World, r), r) BY <1>1, NativeShutdownAnswered
<1> QED BY <1>7, <1>8, <1>9, OneCall DEF Answered

LEMMA OnDBusPeerConnectionAnswered ==
    ASSUME AppInv, NEW r \in Runtimes, OnDBusPeerConnection(r) \/ FinishedInitialization(r),
           ComesLate(r)
    PROVE  Calls /\ QuickKept
<1>0. World \in Worlds /\ World.app = app /\ World.rt = rt BY WorldTyped DEF AppInv
<1>1. PICK s \in {"bus", "hello"} : Becomes([World EXCEPT !.rt[r].link = s])
  BY DEF OnDBusPeerConnection, FinishedInitialization
<1> DEFINE x == [rt[r] EXCEPT !.link = s]
<1>2. rt[r].process = "up" /\ Live(rt[r]) /\ rt[r].process # "none"
  BY DEF OnDBusPeerConnection, FinishedInitialization, Live
<1>3. rt[r] \in RuntimeObject BY Fields DEF AppInv
<1>4. x \in RuntimeObject BY <1>3 DEF RuntimeObject
<1>5. /\ x.kind = rt[r].kind /\ x.quick = rt[r].quick /\ x.app = rt[r].app
      /\ x.watch = rt[r].watch /\ x.state = rt[r].state /\ x.process = rt[r].process
      /\ x.waits = rt[r].waits /\ x.link = s
      /\ x.told = rt[r].told /\ x.surfaces = rt[r].surfaces /\ x.posted = rt[r].posted
  BY <1>3 DEF RuntimeObject
<1>6. PICK w : w = [World EXCEPT !.rt[r] = x] OBVIOUS
<1>7. Becomes(w) BY <1>0, <1>1, <1>6
<1>8. rt[r].kind \in {"launcher", "interface"}
  BY <1>2, ProcessObject DEF OnDBusPeerConnection, FinishedInitialization
<1> HIDE DEF x
<1>9. Answered(w, r) BY <1>2, <1>4, <1>5, <1>6, <1>8, ProcessEdited
<1> QED BY <1>7, <1>9, OneCall DEF Answered

LEMMA ApplicationFinishedInitializationAnswered ==
    ASSUME AppInv, NEW r \in Runtimes, ApplicationFinishedInitialization(r), ComesLate(r)
    PROVE  Calls /\ QuickKept
<1>0. World \in Worlds /\ World.app = app /\ World.rt = rt BY WorldTyped DEF AppInv
<1>1. rt[r].link = "hello" BY DEF ApplicationFinishedInitialization
<1>2. rt[r] \in RuntimeObject /\ ObjectFits(rt[r]) BY Fields DEF AppInv
<1>3. /\ rt[r].process \in {"up", "gone"} /\ rt[r].process # "none"
      /\ rt[r].kind \in {"launcher", "interface"}
  BY <1>1, <1>2 DEF ObjectFits
<1>4. PICK w : w = [World EXCEPT !.rt[r].link = "ready"] OBVIOUS
<1>5. CASE rt[r].app = None
  <2> DEFINE x == [rt[r] EXCEPT !.link = "ready"]
  <2>1. x \in RuntimeObject BY <1>2 DEF RuntimeObject
  <2>2. /\ x.kind = rt[r].kind /\ x.quick = rt[r].quick /\ x.app = rt[r].app
        /\ x.watch = rt[r].watch /\ x.state = rt[r].state /\ x.process = rt[r].process
        /\ x.waits = rt[r].waits
        /\ x.told = rt[r].told /\ x.surfaces = rt[r].surfaces /\ x.posted = rt[r].posted
    BY <1>2 DEF RuntimeObject
  <2>3. w = [World EXCEPT !.rt[r] = x] BY <1>0, <1>4
  <2>4. Becomes(w) BY <1>4, <1>5 DEF ApplicationFinishedInitialization
  <2> HIDE DEF x
  <2>5. Answered(w, r) BY <1>3, <1>5, <2>1, <2>2, <2>3, ProcessEdited DEF Live
  <2> QED BY <2>4, <2>5, OneCall DEF Answered
<1>6. CASE rt[r].app # None
  <2> DEFINE x == [rt[r] EXCEPT !.link = "ready", !.told = @ \/ rt[r].kind = "launcher"]
  <2>1. x \in RuntimeObject BY <1>2 DEF RuntimeObject
  <2>2. /\ x.kind = rt[r].kind /\ x.quick = rt[r].quick /\ x.app = rt[r].app
        /\ x.watch = rt[r].watch /\ x.state = rt[r].state /\ x.process = rt[r].process
        /\ x.waits = rt[r].waits /\ (rt[r].kind = "launcher" => x.told)
        /\ x.surfaces = rt[r].surfaces /\ x.posted = rt[r].posted
    BY <1>2 DEF RuntimeObject
  <2>3. PICK t : t = [World EXCEPT !.rt[r] = x] OBVIOUS
  <2>4. t = StartApplicationViaLauncher(w, r)
    <3>1. w.rt[r].link = "ready" /\ w.rt[r].kind = rt[r].kind /\ w.rt[r].told = rt[r].told
          /\ w.rt[r] = [rt[r] EXCEPT !.link = "ready"]
      BY <1>0, <1>2, <1>4 DEF Worlds, RuntimeObject
    <3>2. PICK told : told = (rt[r].told \/ rt[r].kind = "launcher") OBVIOUS
    <3>3. (w.rt[r].told \/ (w.rt[r].kind = "launcher" /\ w.rt[r].link = "ready")) = told
      BY Zenon, <3>1, <3>2
    <3>4. StartApplicationViaLauncher(w, r) = [w EXCEPT !.rt[r].told = told]
      BY Zenon, <3>3 DEF StartApplicationViaLauncher
    <3>5. x = [rt[r] EXCEPT !.link = "ready", !.told = told] BY Zenon, <3>2
    <3> HIDE DEF x
    <3>6. x = [w.rt[r] EXCEPT !.told = told] BY <1>2, <3>1, <3>5 DEF RuntimeObject
    <3>7. t = [w EXCEPT !.rt[r] = x] BY <1>0, <1>4, <2>3 DEF Worlds
    <3> QED BY <3>4, <3>6, <3>7
  <2>5. PICK v : v = SetState(t, r, "Running") OBVIOUS
  <2>6. Becomes(v) BY <1>4, <1>6, <2>4, <2>5 DEF ApplicationFinishedInitialization
  <2> HIDE DEF x
  <2>7. /\ t \in Worlds /\ t.app = app /\ t.rt[r] = x
        /\ \A q \in Runtimes : q # r => t.rt[q] = rt[q]
    BY <1>0, <2>1, <2>3 DEF Worlds
  <2>8. "Running" \in RunState BY DEF RunState
  <2>9. Told(t, v, r, rt[r].watch, "Running") /\ v.rt[r] = [x EXCEPT !.state = "Running"]
    BY <2>2, <2>5, <2>7, <2>8, SetStateIs DEF Told
  <2>10. /\ v.rt[r].kind = x.kind /\ v.rt[r].quick = x.quick /\ v.rt[r].app = x.app
         /\ v.rt[r].watch = x.watch /\ v.rt[r].state = "Running"
         /\ v.rt[r].process = x.process /\ v.rt[r].waits = x.waits
         /\ v.rt[r].told = x.told /\ v.rt[r].surfaces = x.surfaces /\ v.rt[r].posted = x.posted
    BY <2>1, <2>9 DEF RuntimeObject
  <2>11. ObjectFits(v.rt[r])
    <3>2. v.rt[r].kind = "launcher" => v.rt[r].told BY <2>2, <2>10
    <3>3. v.rt[r].posted = <<>> /\ ~v.rt[r].surfaces /\ v.rt[r].waits = "no"
      BY <1>3, <2>2, <2>10, ProcessObject
    <3>4. v.rt[r].quick => v.rt[r].kind = "launcher" /\ v.rt[r].app = None
      BY <1>3, <2>2, <2>10, ProcessObject
    <3>5. v.rt[r].watch = v.rt[r].app /\ v.rt[r].process \in {"up", "gone"}
          /\ v.rt[r].kind \in {"launcher", "interface"}
      BY <1>3, <2>2, <2>10, ProcessObject
    <3> QED BY <3>2, <3>3, <3>4, <3>5, ProcessFits DEF NativeKinds
  <2>12. Forgotten(r) => Ended(v.rt[r])
    BY <2>2, <2>10 DEF AppInv, RuntimeFits, Forgotten, Ended
  <2>13. v.rt[r].quick = rt[r].quick /\ v.rt[r].app = rt[r].app /\ v.rt[r].kind = rt[r].kind
    BY <2>2, <2>10
  <2>14. t.rt[r].state = rt[r].state BY <2>2, <2>7
  <2>15. LateAnswered(v, r)
    <3>1. t \in Worlds /\ t.app = app BY <2>7
    <3>2. \A q \in Runtimes : q # r => t.rt[q] = rt[q] BY <2>7
    <3>3. v.rt[r].state = "Running" BY <2>10
    <3>4. Live(v.rt[r]) => Live(rt[r]) BY <2>2, <2>10 DEF Live
    <3> QED BY <3>1, <3>2, <3>3, <3>4, <2>8, <2>9, <2>11, <2>12, <2>13, <2>14, ToldAnswer
  <2> QED BY <2>6, <2>15, OneCall
<1> QED BY <1>5, <1>6

-----------------------------------------------------------------------------
(* The answers of in-process runtimes *)

LEMMA InProcObject ==
    ASSUME AppInv, NEW r \in Runtimes, rt[r].kind = "inproc"
    PROVE  /\ rt[r] \in RuntimeObject /\ rt[r].posted \in Seq(Lambdas)
           /\ rt[r].process = "none" /\ ~rt[r].slow /\ rt[r].link = "no" /\ rt[r].waits = "no"
           /\ rt[r].watch = rt[r].app /\ ~rt[r].quick /\ rt[r].quick = FALSE
           /\ ~Live(rt[r]) /\ Ended(rt[r])
<1>1. rt[r] \in RuntimeObject /\ ObjectFits(rt[r]) BY Fields DEF AppInv
<1>2. rt[r].posted \in Seq(Lambdas) BY <1>1 DEF RuntimeObject, Lambdas
<1>3. rt[r].process = "none" /\ ~rt[r].slow /\ rt[r].link = "no" /\ rt[r].waits = "no"
      /\ rt[r].watch = rt[r].app /\ ~rt[r].quick
  BY <1>1 DEF ObjectFits, NativeKinds
<1>4. rt[r].quick = FALSE BY <1>1, <1>3 DEF RuntimeObject
<1> QED BY <1>1, <1>2, <1>3, <1>4 DEF Live, Ended

LEMMA InProcFits ==
    ASSUME NEW x, x.kind = "inproc", x.process = "none", ~x.slow, x.link = "no",
           x.waits = "no", x.watch = x.app, ~x.quick
    PROVE  ObjectFits(x)
BY DEF ObjectFits

(* an edit of an in-process runtime that is not reported to anybody *)
LEMMA InProcEdited ==
    ASSUME AppInv, NEW r \in Runtimes, rt[r].kind = "inproc", NEW w, w \in Worlds, w.app = app,
           \A q \in Runtimes : q # r => w.rt[q] = rt[q],
           w.rt[r].kind = "inproc", w.rt[r].process = "none", w.rt[r].slow = rt[r].slow,
           w.rt[r].link = "no", w.rt[r].waits = "no", w.rt[r].watch = rt[r].watch,
           w.rt[r].app = rt[r].app, w.rt[r].quick = rt[r].quick, w.rt[r].state = rt[r].state
    PROVE  Answered(w, r)
<1>1. ~w.rt[r].slow /\ ~w.rt[r].quick /\ w.rt[r].watch = w.rt[r].app BY InProcObject
<1>2. ObjectFits(w.rt[r]) BY <1>1, InProcFits
<1>3. ~Live(w.rt[r]) BY DEF Live
<1> QED BY <1>2, <1>3, QuietAnswer

(* a stopped runtime fits, and a stop is answered *)
LEMMA StoppedFits ==
    ASSUME AppInv, NEW r \in Runtimes, NEW x, Stopped(rt[r], x),
           rt[r].kind = "inproc" \/ rt[r].process # "none"
    PROVE  ObjectFits(x)
<1>1. CASE rt[r].kind = "inproc"
  <2>1. x.kind = "inproc" /\ x.process = "none" /\ ~x.slow /\ x.link = "no" /\ x.waits = "no"
        /\ x.watch = x.app /\ ~x.quick
    BY <1>1, InProcObject DEF Stopped
  <2> QED BY <2>1, InProcFits
<1>2. CASE rt[r].kind # "inproc" /\ rt[r].process # "none"
  <2>1. x.kind \in NativeKinds /\ x.posted = <<>> /\ ~x.surfaces /\ x.waits = "no"
        /\ x.watch = x.app
    BY <1>2, ProcessObject DEF Stopped
  <2>2. x.quick => x.kind = "launcher" /\ x.app = None BY <1>2, ProcessObject DEF Stopped
  <2>3. x.link # "no" => x.process \in {"up", "gone"} /\ x.kind \in {"launcher", "interface"}
    BY <1>2, ProcessObject DEF Stopped
  <2>4. x.link = "ready" /\ x.kind = "launcher" /\ x.process = "up" /\ x.app # None => x.told
    BY <1>2, ProcessObject DEF Stopped
  <2> QED BY <2>1, <2>2, <2>3, <2>4, ProcessFits
<1> QED BY <1>1, <1>2

LEMMA StoppedAnswer ==
    ASSUME AppInv, NEW r \in Runtimes, ~Forgotten(r), NEW v, v \in Worlds, v.app = app,
           \A q \in Runtimes : q # r => v.rt[q] = rt[q], v.rt[r].state = rt[r].state,
           NEW w, Stopped(rt[r], w.rt[r]), Told(v, w, r, rt[r].watch, "ShuttingDown"),
           rt[r].kind = "inproc" \/ rt[r].process # "none"
    PROVE  Answered(w, r)
<1>1. ObjectFits(w.rt[r]) BY StoppedFits
<1>2. w.rt[r].state = "ShuttingDown" /\ w.rt[r].app = rt[r].app /\ w.rt[r].quick = rt[r].quick
      /\ w.rt[r].process = rt[r].process /\ w.rt[r].kind = rt[r].kind
  BY DEF Stopped
<1>3. Live(w.rt[r]) /\ ~Live(rt[r]) => rt[r].waits # "no" BY <1>2 DEF Live
<1>4. "ShuttingDown" \in RunState BY DEF RunState
<1> QED BY <1>1, <1>2, <1>3, <1>4, ToldAnswer

LEMMA NothingAnswered == ASSUME AppInv, NEW r \in Runtimes PROVE Answered(World, r)
BY NothingMoves, WorldTyped, OwnerKnown, Fields DEF Answered, LateAnswered, AppInv

LEMMA StopAnswered ==
    ASSUME AppInv, NEW r \in Runtimes, ~Forgotten(r), NEW forceKill \in BOOLEAN
    PROVE  Answered(Stop(World, r, forceKill), r) /\ Answered(NativeStop(World, r, forceKill), r)
<1>0. World \in Worlds /\ World.app = app /\ World.rt = rt BY WorldTyped DEF AppInv
<1>1. PICK w : w = Stop(World, r, forceKill) OBVIOUS
<1>2. w = World \/ /\ rt[r].kind = "inproc" \/ rt[r].process # "none"
                   /\ Stopped(rt[r], w.rt[r]) /\ Told(World, w, r, rt[r].watch, "ShuttingDown")
  BY <1>0, <1>1, StopIs
<1>3. Answered(w, r)
  <2>1. CASE w = World BY <2>1, NothingAnswered
  <2>2. CASE /\ rt[r].kind = "inproc" \/ rt[r].process # "none"
             /\ Stopped(rt[r], w.rt[r]) /\ Told(World, w, r, rt[r].watch, "ShuttingDown")
    BY <1>0, <2>2, StoppedAnswer
  <2> QED BY <1>2, <2>1, <2>2
<1>4. PICK v : v = NativeStop(World, r, forceKill) OBVIOUS
<1>5. v = World \/ /\ rt[r].process # "none"
                   /\ Stopped(rt[r], v.rt[r]) /\ Told(World, v, r, rt[r].watch, "ShuttingDown")
  BY <1>0, <1>4, NativeStopIs
<1>6. Answered(v, r)
  <2>1. CASE v = World BY <2>1, NothingAnswered
  <2>2. CASE /\ rt[r].process # "none"
             /\ Stopped(rt[r], v.rt[r]) /\ Told(World, v, r, rt[r].watch, "ShuttingDown")
    BY <1>0, <2>2, StoppedAnswer
  <2> QED BY <1>5, <2>1, <2>2
<1> QED BY <1>1, <1>3, <1>4, <1>6

LEMMA InProcQuitTimerAnswered ==
    ASSUME AppInv, NEW r \in Runtimes, InProcQuitTimer(r), ComesLate(r)
    PROVE  Calls /\ QuickKept
<1>0. World \in Worlds /\ World.app = app /\ World.rt = rt BY WorldTyped DEF AppInv
<1>1. rt[r].kind = "inproc" BY DEF InProcQuitTimer
<1>2. rt[r] \in RuntimeObject BY <1>1, InProcObject
<1> DEFINE x == [rt[r] EXCEPT !.sig = "none"]
<1>3. x \in RuntimeObject BY <1>2 DEF RuntimeObject
<1>4. /\ x.kind = "inproc" /\ x.process = "none" /\ x.slow = rt[r].slow /\ x.link = "no"
      /\ x.waits = "no" /\ x.watch = rt[r].watch /\ x.app = rt[r].app
      /\ x.quick = rt[r].quick /\ x.state = rt[r].state /\ x.posted = rt[r].posted
  BY <1>1, <1>2, InProcObject DEF RuntimeObject
<1>5. PICK v : v = [World EXCEPT !.rt[r] = x] OBVIOUS
<1>6. Becomes(IF rt[r].state # "NotRunning" THEN Post(v, r, "finish") ELSE v)
  BY <1>0, <1>5 DEF InProcQuitTimer
<1> HIDE DEF x
<1>7. v \in Worlds /\ v.app = app /\ v.rt[r] = x /\ \A q \in Runtimes : q # r => v.rt[q] = rt[q]
  <2>1. /\ v \in Worlds /\ v.app = app /\ v.rt[r] = x
        /\ \A q \in Runtimes : q # r => v.rt[q] = rt[q]
    BY <1>0, <1>3, <1>5 DEF Worlds
  <2> QED BY <2>1
<1>8. CASE rt[r].state = "NotRunning"
  <2>1. Answered(v, r) BY <1>1, <1>4, <1>7, InProcObject, InProcEdited
  <2> QED BY <1>6, <1>8, <2>1, OneCall DEF Answered
<1>9. CASE rt[r].state # "NotRunning"
  <2>1. PICK w : w = Post(v, r, "finish") OBVIOUS
  <2>2. /\ w \in Worlds /\ w.app = app
        /\ \A q \in Runtimes : q # r => w.rt[q] = rt[q]
        /\ w.rt[r] = [x EXCEPT !.posted = Append(@, "finish")]
    <3>1. "finish" \in Lambdas BY DEF Lambdas
    <3> QED BY <1>7, <2>1, <3>1, PostIs
  <2>3. /\ w.rt[r].kind = "inproc" /\ w.rt[r].process = "none" /\ w.rt[r].slow = rt[r].slow
        /\ w.rt[r].link = "no" /\ w.rt[r].waits = "no" /\ w.rt[r].watch = rt[r].watch
        /\ w.rt[r].app = rt[r].app /\ w.rt[r].quick = rt[r].quick
        /\ w.rt[r].state = rt[r].state /\ w.rt[r].posted = Append(rt[r].posted, "finish")
    BY <1>3, <1>4, <2>2 DEF RuntimeObject
  <2>4. Answered(w, r) BY <1>1, <2>2, <2>3, InProcEdited
  <2> QED BY <1>6, <1>9, <2>1, <2>4, OneCall DEF Answered
<1> QED BY <1>8, <1>9

LEMMA PostEdits ==
    ASSUME AppInv, NEW r \in Runtimes, NEW call \in Lambdas, NEW w, w = Post(World, r, call)
    PROVE  /\ w \in Worlds /\ w.app = app
           /\ \A q \in Runtimes : q # r => w.rt[q] = rt[q]
           /\ w.rt[r].kind = rt[r].kind /\ w.rt[r].process = rt[r].process
           /\ w.rt[r].slow = rt[r].slow /\ w.rt[r].link = rt[r].link
           /\ w.rt[r].waits = rt[r].waits /\ w.rt[r].watch = rt[r].watch
           /\ w.rt[r].app = rt[r].app /\ w.rt[r].quick = rt[r].quick
           /\ w.rt[r].state = rt[r].state /\ w.rt[r].posted = Append(rt[r].posted, call)
<1>0. World \in Worlds /\ World.app = app /\ World.rt = rt BY WorldTyped DEF AppInv
<1>1. /\ w \in Worlds /\ w.app = app
      /\ \A q \in Runtimes : q # r => w.rt[q] = rt[q]
      /\ w.rt[r] = [rt[r] EXCEPT !.posted = Append(@, call)]
  BY <1>0, PostIs
<1>2. rt[r] \in RuntimeObject BY Fields DEF AppInv
<1> QED BY <1>1, <1>2 DEF RuntimeObject

(* something is posted to an in-process runtime *)
LEMMA PostAnswered ==
    ASSUME AppInv, NEW r \in Runtimes, rt[r].kind = "inproc", NEW call \in Lambdas
    PROVE  Answered(Post(World, r, call), r)
<1>1. PICK w : w = Post(World, r, call) OBVIOUS
<1>2. /\ w \in Worlds /\ w.app = app
      /\ \A q \in Runtimes : q # r => w.rt[q] = rt[q]
  BY <1>1, PostEdits
<1>3. /\ w.rt[r].kind = "inproc" /\ w.rt[r].process = "none" /\ w.rt[r].slow = rt[r].slow
      /\ w.rt[r].link = "no" /\ w.rt[r].waits = "no" /\ w.rt[r].watch = rt[r].watch
      /\ w.rt[r].app = rt[r].app /\ w.rt[r].quick = rt[r].quick
      /\ w.rt[r].state = rt[r].state
  <2>1. /\ w.rt[r].kind = rt[r].kind /\ w.rt[r].process = rt[r].process
        /\ w.rt[r].slow = rt[r].slow /\ w.rt[r].link = rt[r].link
        /\ w.rt[r].waits = rt[r].waits /\ w.rt[r].watch = rt[r].watch
        /\ w.rt[r].app = rt[r].app /\ w.rt[r].quick = rt[r].quick
        /\ w.rt[r].state = rt[r].state
    BY <1>1, PostEdits
  <2>2. rt[r].process = "none" /\ rt[r].link = "no" /\ rt[r].waits = "no" BY InProcObject
  <2> QED BY <2>1, <2>2
<1>4. Answered(w, r) BY <1>2, <1>3, InProcEdited
<1> QED BY <1>1, <1>4

LEMMA SurfacesMean ==
    ASSUME AppInv, NEW r \in Runtimes, rt[r].surfaces \/ rt[r].posted # <<>>
    PROVE  rt[r].kind = "inproc"
BY DEF AppInv, ObjectFits

LEMMA InProcPosts ==
    ASSUME AppInv, NEW r \in Runtimes,
           InProcAcknowledgeQuit(r) \/ InProcWindowClosed(r), ComesLate(r)
    PROVE  Calls /\ QuickKept
<1>1. CASE InProcAcknowledgeQuit(r)
  <2>1. Answered(Post(World, r, "finish"), r)
    BY <1>1, PostAnswered DEF InProcAcknowledgeQuit, Lambdas
  <2> QED BY <1>1, <2>1, OneCall DEF InProcAcknowledgeQuit, Answered
<1>2. CASE InProcWindowClosed(r)
  <2>1. rt[r].kind = "inproc" BY <1>2, SurfacesMean DEF InProcWindowClosed
  <2>2. Answered(Post(World, r, "stopIfNoVisible"), r)
    BY <2>1, PostAnswered DEF Lambdas
  <2> QED BY <1>2, <2>2, OneCall DEF InProcWindowClosed, Answered
<1> QED BY <1>1, <1>2

LEMMA InProcSurfacesReleasedAnswered ==
    ASSUME AppInv, NEW r \in Runtimes, InProcSurfacesReleased(r), ComesLate(r)
    PROVE  Calls /\ QuickKept
<1>0. World \in Worlds /\ World.app = app /\ World.rt = rt BY WorldTyped DEF AppInv
<1>1. rt[r].kind = "inproc" BY SurfacesMean DEF InProcSurfacesReleased
<1>2. rt[r] \in RuntimeObject BY <1>1, InProcObject
<1> DEFINE deleted == rt[r].deleted \/ rt[r].state = "NotRunning"
           x == [rt[r] EXCEPT !.surfaces = FALSE, !.deleted = deleted]
<1>3. x \in RuntimeObject
  <2>1. deleted \in BOOLEAN OBVIOUS
  <2> HIDE DEF deleted
  <2> QED BY <1>2, <2>1 DEF RuntimeObject
<1>4. /\ x.kind = "inproc" /\ x.process = "none" /\ x.slow = rt[r].slow /\ x.link = "no"
      /\ x.waits = "no" /\ x.watch = rt[r].watch /\ x.app = rt[r].app
      /\ x.quick = rt[r].quick /\ x.state = rt[r].state /\ x.posted = rt[r].posted
  BY <1>1, <1>2, InProcObject DEF RuntimeObject
<1>5. PICK v : v = [World EXCEPT !.rt[r] = x] OBVIOUS
<1>6. Becomes(v)
  BY <1>0, <1>5 DEF InProcSurfacesReleased, Worlds
<1> HIDE DEF x
<1>7. v \in Worlds /\ v.app = app /\ v.rt[r] = x /\ \A q \in Runtimes : q # r => v.rt[q] = rt[q]
  <2>1. /\ v \in Worlds /\ v.app = app /\ v.rt[r] = x
        /\ \A q \in Runtimes : q # r => v.rt[q] = rt[q]
    BY <1>0, <1>3, <1>5 DEF Worlds
  <2> QED BY <2>1
<1>8. Answered(v, r) BY <1>1, <1>4, <1>7, InProcObject, InProcEdited
<1> QED BY <1>6, <1>8, OneCall DEF Answered

(* the event loop takes the first lambda of r *)
Popped(v, r) ==
    /\ v \in Worlds /\ v.app = app
    /\ \A q \in Runtimes : q # r => v.rt[q] = rt[q]
    /\ v.rt[r].kind = "inproc" /\ v.rt[r].process = "none" /\ v.rt[r].slow = rt[r].slow
    /\ v.rt[r].link = "no" /\ v.rt[r].waits = "no" /\ v.rt[r].watch = rt[r].watch
    /\ v.rt[r].app = rt[r].app /\ v.rt[r].quick = rt[r].quick
    /\ v.rt[r].state = rt[r].state /\ v.rt[r].posted = Tail(rt[r].posted)

WithoutHead(r) == [World EXCEPT !.rt[r].posted = Tail(@)]

LEMMA DeliverPops ==
    ASSUME AppInv, NEW r \in Runtimes, rt[r].posted # <<>>, NEW v, v = WithoutHead(r)
    PROVE  rt[r].kind = "inproc" /\ Popped(v, r)
<1>0. World \in Worlds /\ World.app = app /\ World.rt = rt BY WorldTyped DEF AppInv
<1>1. rt[r].kind = "inproc" BY SurfacesMean
<1>2. rt[r] \in RuntimeObject /\ rt[r].posted \in Seq(Lambdas) BY <1>1, InProcObject
<1>3. Tail(rt[r].posted) \in Seq(Lambdas) BY <1>2, HeadTailProperties
<1>4. \A p \in Seq(Lambdas) : [rt[r] EXCEPT !.posted = p] \in RuntimeObject
  BY <1>2 DEF RuntimeObject, Lambdas
<1> DEFINE x == [rt[r] EXCEPT !.posted = Tail(rt[r].posted)]
<1>5. x \in RuntimeObject BY <1>3, <1>4
<1>6. /\ x.kind = rt[r].kind /\ x.process = rt[r].process /\ x.slow = rt[r].slow
      /\ x.link = rt[r].link /\ x.waits = rt[r].waits /\ x.watch = rt[r].watch
      /\ x.app = rt[r].app /\ x.quick = rt[r].quick /\ x.state = rt[r].state
      /\ x.posted = Tail(rt[r].posted)
  BY <1>2 DEF RuntimeObject
<1>7. v = [World EXCEPT !.rt[r] = x] BY <1>0 DEF WithoutHead
<1> HIDE DEF x
<1>8. v \in Worlds /\ v.app = app /\ v.rt[r] = x /\ \A q \in Runtimes : q # r => v.rt[q] = rt[q]
  BY <1>0, <1>5, <1>7 DEF Worlds
<1>9. rt[r].process = "none" /\ rt[r].link = "no" /\ rt[r].waits = "no" BY <1>1, InProcObject
<1>10. Popped(v, r) BY <1>1, <1>6, <1>8, <1>9 DEF Popped
<1> QED BY <1>1, <1>10

LEMMA InProcCreatedAnswered ==
    ASSUME AppInv, NEW r \in Runtimes, rt[r].posted # <<>>, NEW surface \in BOOLEAN,
           InProcCreated(r, surface), ComesLate(r)
    PROVE  Calls /\ QuickKept
<1>1. PICK v : v = WithoutHead(r) OBVIOUS
<1>2. rt[r].kind = "inproc" /\ Popped(v, r) BY <1>1, DeliverPops
<1> DEFINE u == [v EXCEPT !.rt[r].surfaces = surface]
<1>6. Becomes(Post(v, r, "finish")) \/ Becomes(v) \/ Becomes(SetState(u, r, "Running"))
  BY <1>1 DEF InProcCreated, WithoutHead
<1>7. Answered(Post(v, r, "finish"), r)
  <2>1. PICK w : w = Post(v, r, "finish") OBVIOUS
  <2>2. "finish" \in Lambdas BY DEF Lambdas
  <2>3. v \in Worlds /\ v.rt[r] \in RuntimeObject BY <1>2, WorldFields DEF Popped
  <2>4. /\ w \in Worlds /\ w.app = v.app
        /\ \A q \in Runtimes : q # r => w.rt[q] = v.rt[q]
        /\ w.rt[r] = [v.rt[r] EXCEPT !.posted = Append(@, "finish")]
    BY <2>1, <2>2, <2>3, PostIs
  <2>5. /\ w.rt[r].kind = v.rt[r].kind /\ w.rt[r].process = v.rt[r].process
        /\ w.rt[r].slow = v.rt[r].slow /\ w.rt[r].link = v.rt[r].link
        /\ w.rt[r].waits = v.rt[r].waits /\ w.rt[r].watch = v.rt[r].watch
        /\ w.rt[r].app = v.rt[r].app /\ w.rt[r].quick = v.rt[r].quick
        /\ w.rt[r].state = v.rt[r].state
    BY <2>3, <2>4 DEF RuntimeObject
  <2>6. Answered(w, r) BY <1>2, <2>4, <2>5, InProcEdited DEF Popped
  <2> QED BY <2>1, <2>6
<1>8. Answered(v, r) BY <1>2, InProcEdited DEF Popped
<1>9. LateAnswered(SetState(u, r, "Running"), r)
  <2>1. v \in Worlds /\ v.rt[r] \in RuntimeObject BY <1>2, WorldFields DEF Popped
  <2> DEFINE x == [v.rt[r] EXCEPT !.surfaces = surface]
  <2>2. x \in RuntimeObject BY <2>1 DEF RuntimeObject
  <2>3. /\ x.kind = v.rt[r].kind /\ x.process = v.rt[r].process /\ x.slow = v.rt[r].slow
        /\ x.link = v.rt[r].link /\ x.waits = v.rt[r].waits /\ x.watch = v.rt[r].watch
        /\ x.app = v.rt[r].app /\ x.quick = v.rt[r].quick /\ x.state = v.rt[r].state
        /\ x.posted = v.rt[r].posted
    BY <2>1 DEF RuntimeObject
  <2>4. PICK t : t = u OBVIOUS
  <2>5. /\ t \in Worlds /\ t.app = app /\ t.rt[r] = x
        /\ \A q \in Runtimes : q # r => t.rt[q] = rt[q]
    <3>1. t = [v EXCEPT !.rt[r] = x] BY <2>1, <2>4
    <3> HIDE DEF x, u
    <3>2. /\ t \in Worlds /\ t.app = v.app /\ t.rt[r] = x
          /\ \A q \in Runtimes : q # r => t.rt[q] = v.rt[q]
      BY <2>1, <2>2, <3>1 DEF Worlds
    <3> QED BY <1>2, <3>2 DEF Popped
  <2> HIDE DEF x, u
  <2>6. PICK w : w = SetState(t, r, "Running") OBVIOUS
  <2>7. "Running" \in RunState BY DEF RunState
  <2>8. t.rt[r].watch = rt[r].watch /\ t.rt[r].state = rt[r].state
    BY <1>2, <2>3, <2>5 DEF Popped
  <2>9. Told(t, w, r, rt[r].watch, "Running") /\ w.rt[r] = [x EXCEPT !.state = "Running"]
    BY <2>5, <2>6, <2>7, <2>8, SetStateIs DEF Told
  <2>10. /\ w.rt[r].kind = x.kind /\ w.rt[r].process = x.process /\ w.rt[r].slow = x.slow
         /\ w.rt[r].link = x.link /\ w.rt[r].waits = x.waits /\ w.rt[r].watch = x.watch
         /\ w.rt[r].app = x.app /\ w.rt[r].quick = x.quick /\ w.rt[r].state = "Running"
         /\ w.rt[r].posted = x.posted
    BY <2>2, <2>9 DEF RuntimeObject
  <2>11. w.rt[r].quick = rt[r].quick /\ w.rt[r].app = rt[r].app /\ w.rt[r].state = "Running"
         /\ w.rt[r].watch = rt[r].watch /\ w.rt[r].slow = rt[r].slow
         /\ w.rt[r].kind = "inproc" /\ w.rt[r].process = "none" /\ w.rt[r].link = "no"
         /\ w.rt[r].waits = "no" /\ w.rt[r].posted = Tail(rt[r].posted)
    BY <1>2, <2>3, <2>10 DEF Popped
  <2>12. ObjectFits(w.rt[r])
    <3>1. ~w.rt[r].slow /\ w.rt[r].watch = w.rt[r].app /\ ~w.rt[r].quick
      BY <1>2, <2>11, InProcObject
    <3> QED BY <2>11, <3>1, InProcFits
  <2>13. Live(w.rt[r]) /\ ~Live(rt[r]) => rt[r].waits # "no" BY <2>11 DEF Live
  <2>14. /\ w.rt[r].state = "Running" /\ w.rt[r].app = rt[r].app
         /\ w.rt[r].kind = rt[r].kind /\ w.rt[r].quick = rt[r].quick /\ Ended(w.rt[r])
    BY <1>2, <2>11 DEF Ended
  <2>15. /\ t \in Worlds /\ t.app = app /\ t.rt[r].state = rt[r].state
         /\ \A q \in Runtimes : q # r => t.rt[q] = rt[q]
    BY <2>5, <2>8
  <2>16. Told(t, w, r, rt[r].watch, "Running") BY <2>9
  <2>17. LateAnswered(w, r) BY <2>7, <2>12, <2>13, <2>14, <2>15, <2>16, ToldAnswer
  <2> QED BY <2>4, <2>6, <2>17
<1> HIDE DEF u
<1> QED BY <1>6, <1>7, <1>8, <1>9, OneCall DEF Answered

(* a report of an application to which nothing is left to report *)
LEMMA ReportedAlready ==
    ASSUME NEW y, NEW s, y.runState = s
    PROVE  Report(y, s) = y
BY DEF Report

(* the lambda of finish() *)
LEMMA InProcFinishedAnswered ==
    ASSUME AppInv, NEW r \in Runtimes, rt[r].posted # <<>>, InProcFinished(r), ComesLate(r)
    PROVE  Calls /\ QuickKept
<1> DEFINE a == rt[r].app
<1>1. PICK v : v = WithoutHead(r) OBVIOUS
<1>2. rt[r].kind = "inproc" /\ Popped(v, r) BY <1>1, DeliverPops
<1>4. a \in Apps \cup {None} /\ None \notin Apps /\ None \notin Runtimes BY Fields DEF AppInv
<1>5. v \in Worlds /\ v.app = app /\ v.rt[r] \in RuntimeObject /\ v.rt[r].watch = a
  BY <1>2, WorldFields, InProcObject DEF Popped
<1>6. PICK u : u = IF a = None THEN v ELSE SetCurrentRuntime(v, a, None) OBVIOUS
<1>7. /\ u \in Worlds /\ u.rt = v.rt
      /\ a = None => u.app = app
      /\ a # None => u.app[a] = Forget(app[a]) /\ \A b \in Apps : b # a => u.app[b] = app[b]
  <2>1. CASE a = None BY <1>5, <1>6, <2>1
  <2>2. CASE a # None
    <3>1. Touches(v, u, r, a) /\ u.app[a] = Forget(v.app[a]) /\ u.rt = v.rt
      BY <1>4, <1>5, <1>6, <2>2, SetNoRuntimeIs
    <3> QED BY <1>5, <2>2, <3>1 DEF Touches
  <2> QED BY <2>1, <2>2
<1>8. PICK w : w = SetState(u, r, "NotRunning") OBVIOUS
<1>9. /\ Touches(u, w, r, a)
      /\ w.rt[r] = [v.rt[r] EXCEPT !.state = "NotRunning"]
      /\ a # None => w.app[a] = IF v.rt[r].state = "NotRunning" THEN u.app[a]
                                ELSE Report(u.app[a], "NotRunning")
      /\ a = None => w.app = u.app
  <2>1. "NotRunning" \in RunState BY DEF RunState
  <2>2. u.rt[r] = v.rt[r] /\ u.rt[r].watch = a BY <1>5, <1>7
  <2> QED BY <1>7, <1>8, <2>1, <2>2, SetStateIs
<1>10. PICK t : t = [w EXCEPT !.rt[r].deleted = @ \/ ~rt[r].surfaces, !.rt[r].sig = "none"]
  OBVIOUS
<1>11. Becomes(t) BY <1>1, <1>6, <1>8, <1>10 DEF InProcFinished, WithoutHead
<1>12. w \in Worlds /\ w.rt[r] \in RuntimeObject BY <1>9, WorldFields DEF Touches
<1> DEFINE deleted == w.rt[r].deleted \/ ~rt[r].surfaces
           x == [w.rt[r] EXCEPT !.deleted = deleted, !.sig = "none"]
<1>13. /\ x \in RuntimeObject /\ x.state = "NotRunning"
       /\ x.kind = v.rt[r].kind /\ x.process = v.rt[r].process /\ x.slow = v.rt[r].slow
       /\ x.link = v.rt[r].link /\ x.waits = v.rt[r].waits /\ x.watch = v.rt[r].watch
       /\ x.app = v.rt[r].app /\ x.quick = v.rt[r].quick /\ x.posted = v.rt[r].posted
  <2>1. deleted \in BOOLEAN OBVIOUS
  <2> HIDE DEF deleted
  <2>2. x \in RuntimeObject BY <1>12, <2>1 DEF RuntimeObject
  <2>3. /\ x.state = w.rt[r].state
        /\ x.kind = w.rt[r].kind /\ x.process = w.rt[r].process /\ x.slow = w.rt[r].slow
        /\ x.link = w.rt[r].link /\ x.waits = w.rt[r].waits /\ x.watch = w.rt[r].watch
        /\ x.app = w.rt[r].app /\ x.quick = w.rt[r].quick /\ x.posted = w.rt[r].posted
    BY <1>12 DEF RuntimeObject
  <2> HIDE DEF x
  <2> QED BY <1>5, <1>9, <2>2, <2>3 DEF RuntimeObject
<1>14. t.rt[r] = x /\ t.app = w.app /\ t \in Worlds
       /\ \A q \in Runtimes : q # r => t.rt[q] = w.rt[q]
  <2>1. t = [w EXCEPT !.rt[r] = x] BY <1>10, <1>12 DEF Worlds
  <2> HIDE DEF x
  <2> QED BY <1>12, <1>13, <2>1 DEF Worlds
<1> HIDE DEF x
<1>15. ASSUME NEW b \in Apps, app[b].runtime = r PROVE t.app[b] = Forget(app[b])
  <2>1. a = b /\ a # None BY <1>4, <1>15, OwnerKnown
  <2>2. app[b] \in Application /\ app[b].runtime # None BY <1>4, <1>15, Fields DEF AppInv
  <2>3. Report(Forget(app[b]), "NotRunning") = Forget(app[b])
    BY <2>2, ForgetTyped, ReportedAlready
  <2> QED BY <1>7, <1>9, <1>14, <2>1, <2>3
<1>16. ASSUME NEW b \in Apps, app[b].runtime # r
       PROVE  t.app[b] = app[b] \/ LateMoves(b, t.app[b])
  <2>1. CASE b # a \/ a = None
    <3>1. u.app[b] = app[b] BY <1>4, <1>7, <2>1
    <3>2. w.app[b] = u.app[b] BY <1>4, <1>9, <2>1 DEF Touches
    <3> QED BY <1>14, <3>1, <3>2
  <2>2. CASE b = a /\ a # None
    <3>1. app[b] \in Application /\ AppFits(b) /\ RuntimeFits(r) BY Fields DEF AppInv
    <3>2. app[b].exists /\ Kind(b) = "inproc" BY <1>2, <2>2, <3>1 DEF RuntimeFits
    <3>3. t.app[b] = u.app[b] \/ t.app[b] = Report(u.app[b], "NotRunning")
      BY <1>9, <1>14, <2>2
    <3>4. CASE app[b].runtime = None
      <4>1. u.app[b] = app[b] BY <1>7, <2>2, <3>4 DEF Forget
      <4>2. "NotRunning" \in RunState BY DEF RunState
      <4>3. app[b].waiting => app[b].runState # "NotRunning" BY <3>1 DEF AppFits
      <4>4. ~Report(app[b], "NotRunning").waiting BY <3>1, <4>2, <4>3, ReportTyped
      <4>5. CASE t.app[b] = app[b] BY <4>5
      <4>6. CASE t.app[b] = Report(app[b], "NotRunning")
        <5>1. /\ t.app[b] \in Application
              /\ t.app[b].exists = app[b].exists /\ t.app[b].kind = app[b].kind
              /\ t.app[b].blocked = app[b].blocked /\ t.app[b].runtime = app[b].runtime
              /\ t.app[b].runState = "NotRunning"
          BY <3>1, <4>2, <4>6, ReportTyped
        <5>2. ~t.app[b].waiting BY <4>4, <4>6
        <5> QED BY <3>2, <3>4, <5>1, <5>2 DEF LateMoves
      <4> QED BY <3>3, <4>1, <4>5, <4>6
    <3>5. CASE app[b].runtime # None
      <4>1. app[b].runtime \in Runtimes BY <3>5, Fields DEF AppInv
      <4>2. rt[app[b].runtime].app = b BY <3>1, <3>5 DEF AppFits
      <4>3. rt[app[b].runtime].kind = "inproc"
        BY <1>4, <3>2, <4>1, <4>2 DEF AppInv, RuntimeFits
      <4>4. Ended(rt[app[b].runtime]) BY <4>1, <4>3, InProcObject
      <4>5. app[b].waiting => app[b].runState # "NotRunning" BY <3>1 DEF AppFits
      <4>6. t.app[b] = Forget(app[b])
        BY <1>7, <2>2, <3>1, <3>3, <3>5, ForgetTyped, ReportedAlready
      <4>7. /\ t.app[b] \in Application
            /\ t.app[b].exists = app[b].exists /\ t.app[b].kind = app[b].kind
            /\ t.app[b].blocked = app[b].blocked /\ t.app[b].runtime = None
            /\ t.app[b].runState = "NotRunning"
        BY <3>1, <3>5, <4>6, ForgetTyped
      <4>8. ~t.app[b].waiting BY <3>1, <3>5, <4>5, <4>6, ForgetTyped
      <4> QED BY <3>2, <4>4, <4>7, <4>8 DEF LateMoves
    <3> QED BY <3>4, <3>5
  <2> QED BY <2>1, <2>2
<1>17. /\ t.rt[r].state = "NotRunning" /\ t.rt[r].kind = "inproc" /\ t.rt[r].process = "none"
       /\ t.rt[r].slow = rt[r].slow /\ t.rt[r].link = "no" /\ t.rt[r].waits = "no"
       /\ t.rt[r].watch = rt[r].watch /\ t.rt[r].app = rt[r].app
       /\ t.rt[r].quick = rt[r].quick
  BY <1>2, <1>13, <1>14 DEF Popped
<1>18. Ended(t.rt[r]) BY <1>17 DEF Ended
<1>19. ObjectFits(t.rt[r])
  <2>1. ~t.rt[r].slow /\ t.rt[r].watch = t.rt[r].app /\ ~t.rt[r].quick
    BY <1>2, <1>17, InProcObject
  <2> QED BY <1>17, <2>1, InProcFits
<1>20. \A q \in Runtimes : q # r => t.rt[q] = rt[q]
  BY <1>2, <1>7, <1>9, <1>14 DEF Popped, Touches
<1>21. LateAnswered(t, r)
  BY <1>2, <1>14, <1>15, <1>16, <1>17, <1>18, <1>19, <1>20, EndAnswer
<1> QED BY <1>11, <1>21, OneCall

(* the queued stopIfNoVisibleSurfaces() *)
LEMMA InProcStopIfNoVisibleAnswered ==
    ASSUME AppInv, NEW r \in Runtimes, rt[r].posted # <<>>,
           InProcStopIfNoVisible(r), ComesLate(r)
    PROVE  Calls /\ QuickKept
<1>1. PICK v : v = WithoutHead(r) OBVIOUS
<1>2. rt[r].kind = "inproc" /\ Popped(v, r) BY <1>1, DeliverPops
<1>5. PICK w : w = InProcStop(v, r, FALSE) OBVIOUS
<1>6. Becomes(w) BY <1>1, <1>5 DEF InProcStopIfNoVisible, WithoutHead
<1>7. /\ v \in Worlds /\ v.app = app /\ v.rt[r].kind = "inproc"
      /\ v.rt[r].watch = rt[r].watch /\ v.rt[r].state = rt[r].state
      /\ \A q \in Runtimes : q # r => v.rt[q] = rt[q]
  BY <1>2 DEF Popped
<1>8. Stopped(v.rt[r], w.rt[r]) /\ Told(v, w, r, rt[r].watch, "ShuttingDown")
  <2>1. FALSE \in BOOLEAN OBVIOUS
  <2> QED BY <1>5, <1>7, <2>1, InProcStopIs
<1>9. ObjectFits(w.rt[r])
  <2>1. /\ w.rt[r].kind = "inproc" /\ w.rt[r].process = "none" /\ w.rt[r].slow = rt[r].slow
        /\ w.rt[r].link = "no" /\ w.rt[r].waits = "no" /\ w.rt[r].watch = rt[r].watch
        /\ w.rt[r].app = rt[r].app /\ w.rt[r].quick = rt[r].quick
        /\ w.rt[r].state = "ShuttingDown"
    BY <1>2, <1>8 DEF Popped, Stopped
  <2>4. ~w.rt[r].slow /\ w.rt[r].watch = w.rt[r].app /\ ~w.rt[r].quick
    BY <1>2, <2>1, InProcObject
  <2> QED BY <2>1, <2>4, InProcFits
<1>10. /\ w.rt[r].state = "ShuttingDown" /\ w.rt[r].app = rt[r].app
       /\ w.rt[r].quick = rt[r].quick /\ w.rt[r].kind = rt[r].kind
       /\ w.rt[r].process = "none" /\ w.rt[r].waits = "no"
  BY <1>2, <1>8 DEF Popped, Stopped
<1>11. Live(w.rt[r]) /\ ~Live(rt[r]) => rt[r].waits # "no" BY <1>10 DEF Live
<1>12. "ShuttingDown" \in RunState BY DEF RunState
<1>13. Told(v, w, r, rt[r].watch, "ShuttingDown") BY <1>8
<1>14. Ended(w.rt[r]) BY <1>10 DEF Ended
<1>15. LateAnswered(w, r) BY <1>7, <1>9, <1>10, <1>11, <1>12, <1>13, <1>14, ToldAnswer
<1> QED BY <1>6, <1>15, OneCall

LEMMA InProcDeliverAnswered ==
    ASSUME AppInv, NEW r \in Runtimes, InProcDeliver(r), ComesLate(r)
    PROVE  Calls /\ QuickKept
<1>1. rt[r].posted # <<>> BY DEF InProcDeliver
<1>2. CASE /\ Head(rt[r].posted) \in {"create", "noRoot"}
           /\ \E surface \in BOOLEAN : InProcCreated(r, surface)
  <2>1. PICK surface \in BOOLEAN : InProcCreated(r, surface) BY <1>2
  <2> QED BY <1>1, <1>2, <2>1, InProcCreatedAnswered
<1>3. CASE InProcFinished(r) BY <1>1, <1>3, InProcFinishedAnswered
<1>4. CASE Head(rt[r].posted) = "stopIfNoVisible" /\ InProcStopIfNoVisible(r)
  BY <1>1, <1>4, InProcStopIfNoVisibleAnswered
<1> QED BY <1>2, <1>3, <1>4 DEF InProcDeliver

-----------------------------------------------------------------------------
(* Starting *)

(* what TryStart leaves behind: the container is not ready ... *)
StillWaits(w, v, r) ==
    /\ v.app = w.app
    /\ w.rt[r].slow
    /\ v.rt[r] = [w.rt[r] EXCEPT !.waits = "container"]

(* ... or the start failed and the runtime is gone ... *)
StartFailed(w, v, r) ==
    /\ v.rt[r] = NoRuntime
    /\ \A a \in Apps : v.app[a] = IF w.app[a].runtime = r THEN Forget(w.app[a]) ELSE w.app[a]

(* ... or the application is starting up *)
StartsUp(x, x2) ==
    /\ x2 \in RuntimeObject
    /\ x2.kind = x.kind /\ x2.quick = x.quick /\ x2.app = x.app /\ x2.watch = x.watch
    /\ x2.slow = x.slow /\ x2.link = x.link /\ x2.told = x.told /\ x2.surfaces = x.surfaces
    /\ x2.state = "StartingUp" /\ x2.waits = "no" /\ ~x.slow
    /\ x.kind = "inproc" => /\ x2.process = x.process
                            /\ \E call \in Lambdas : x2.posted = Append(x.posted, call)
    /\ x.kind # "inproc" => x2.process = "starting" /\ x2.posted = x.posted

StartedUp(w, v, r, a) ==
    /\ a # None
    /\ StartsUp(w.rt[r], v.rt[r])
    /\ Told(w, v, r, a, "StartingUp")

OneOwner(w, r) == \A b, c \in Apps : w.app[b].runtime = r /\ w.app[c].runtime = r => b = c

LEMMA TryStartIs ==
    ASSUME NEW w \in Worlds, NEW r \in Runtimes, NEW ok \in BOOLEAN, NEW object \in BOOLEAN,
           NEW v, v = TryStart(w, r, ok, object), NEW a, a = w.rt[r].watch, OneOwner(w, r)
    PROVE  /\ v \in Worlds /\ \A q \in Runtimes : q # r => v.rt[q] = w.rt[q]
           /\ \/ StillWaits(w, v, r)
              \/ StartFailed(w, v, r)
              \/ StartedUp(w, v, r, a)
<1>1. w.rt[r] \in RuntimeObject BY WorldFields
<1>2. CASE w.rt[r].slow
  <2> DEFINE x == [w.rt[r] EXCEPT !.waits = "container"]
  <2>1. x \in RuntimeObject BY <1>1 DEF RuntimeObject
  <2>2. v = [w EXCEPT !.rt[r] = x] BY <1>2 DEF TryStart
  <2>3. x = [w.rt[r] EXCEPT !.waits = "container"] OBVIOUS
  <2> HIDE DEF x
  <2>4. v \in Worlds /\ v.rt[r] = x /\ v.app = w.app
        /\ \A q \in Runtimes : q # r => v.rt[q] = w.rt[q]
    BY <2>1, <2>2 DEF Worlds
  <2> QED BY <1>2, <2>3, <2>4 DEF StillWaits
<1>3. CASE ~w.rt[r].slow
  <2> DEFINE x == [w.rt[r] EXCEPT !.waits = "no"]
  <2>1. /\ x \in RuntimeObject /\ x.watch = a /\ x.waits = "no"
        /\ x.kind = w.rt[r].kind /\ x.quick = w.rt[r].quick /\ x.app = w.rt[r].app
        /\ x.state = w.rt[r].state /\ x.slow = w.rt[r].slow /\ x.link = w.rt[r].link
        /\ x.told = w.rt[r].told /\ x.surfaces = w.rt[r].surfaces
        /\ x.process = w.rt[r].process /\ x.posted = w.rt[r].posted
    BY <1>1 DEF RuntimeObject
  <2>2. PICK u : u = [w EXCEPT !.rt[r] = x] OBVIOUS
  <2>3. v = DoStart(u, r, ok, object) BY <1>3, <2>2 DEF TryStart
  <2> HIDE DEF x
  <2>4. u \in Worlds /\ u.rt[r] = x /\ u.app = w.app
        /\ \A q \in Runtimes : q # r => u.rt[q] = w.rt[q]
    BY <2>1, <2>2 DEF Worlds
  <2>5. CASE v = Destroy(u, r)
    <3>1. \A b, c \in Apps : u.app[b].runtime = r /\ u.app[c].runtime = r => b = c
      BY <2>4 DEF OneOwner
    <3>2. /\ v \in Worlds /\ v.rt[r] = NoRuntime
          /\ \A q \in Runtimes : q # r => v.rt[q] = u.rt[q]
          /\ \A b \in Apps : v.app[b] = IF u.app[b].runtime = r THEN Forget(u.app[b]) ELSE u.app[b]
      BY <2>4, <2>5, <3>1, DestroyIs
    <3> QED BY <2>4, <3>2 DEF StartFailed
  <2>6. CASE a # None /\ x.kind = "inproc" /\ ok
    <3>1. PICK t : t = SetState(u, r, "StartingUp") OBVIOUS
    <3>2. PICK call \in Lambdas : v = Post(t, r, call)
      BY <2>1, <2>3, <2>4, <2>6, <3>1 DEF DoStart, InProcStart, Lambdas
    <3>3. Told(u, t, r, a, "StartingUp") /\ t.rt[r] = [x EXCEPT !.state = "StartingUp"]
      <4>1. "StartingUp" \in RunState BY DEF RunState
      <4> QED BY <2>1, <2>4, <3>1, <4>1, SetStateIs DEF Told
    <3>4. t \in Worlds /\ \A q \in Runtimes : q # r => t.rt[q] = u.rt[q]
      BY <3>3 DEF Told, Touches
    <3>5. /\ t.rt[r].kind = x.kind /\ t.rt[r].quick = x.quick /\ t.rt[r].app = x.app
          /\ t.rt[r].watch = x.watch /\ t.rt[r].slow = x.slow /\ t.rt[r].link = x.link
          /\ t.rt[r].told = x.told /\ t.rt[r].surfaces = x.surfaces
          /\ t.rt[r].state = "StartingUp" /\ t.rt[r].waits = x.waits
          /\ t.rt[r].process = x.process /\ t.rt[r].posted = x.posted
          /\ t.rt[r] \in RuntimeObject
      BY <2>1, <3>3, <3>4, WorldFields DEF RuntimeObject
    <3>6. /\ v \in Worlds /\ v.app = t.app
          /\ \A q \in Runtimes : q # r => v.rt[q] = t.rt[q]
          /\ v.rt[r] = [t.rt[r] EXCEPT !.posted = Append(@, call)]
          /\ v.rt[r] \in RuntimeObject
      BY <3>2, <3>4, PostIs
    <3>7. /\ v.rt[r].kind = x.kind /\ v.rt[r].quick = x.quick /\ v.rt[r].app = x.app
          /\ v.rt[r].watch = x.watch /\ v.rt[r].slow = x.slow /\ v.rt[r].link = x.link
          /\ v.rt[r].told = x.told /\ v.rt[r].surfaces = x.surfaces
          /\ v.rt[r].state = "StartingUp" /\ v.rt[r].waits = x.waits
          /\ v.rt[r].process = x.process /\ v.rt[r].posted = Append(x.posted, call)
      BY <3>5, <3>6 DEF RuntimeObject
    <3>8. StartsUp(w.rt[r], v.rt[r])
      <4>1. w.rt[r].kind = "inproc" /\ ~w.rt[r].slow BY <1>3, <2>1, <2>6
      <4>2. v.rt[r] \in RuntimeObject BY <3>6
      <4>3. \E c \in Lambdas : v.rt[r].posted = Append(w.rt[r].posted, c) BY <2>1, <3>7
      <4> QED BY <2>1, <3>7, <4>1, <4>2, <4>3 DEF StartsUp
    <3>9. Told(w, v, r, a, "StartingUp")
      BY <2>1, <2>4, <3>3, <3>4, <3>6 DEF Told, Touches
    <3> QED BY <2>4, <2>6, <3>4, <3>6, <3>8, <3>9 DEF StartedUp
  <2>7. CASE a # None /\ x.kind # "inproc" /\ ok
    <3> DEFINE z == [x EXCEPT !.process = "starting"]
    <3>1. /\ z \in RuntimeObject /\ z.watch = a /\ z.waits = "no" /\ z.process = "starting"
          /\ z.kind = x.kind /\ z.quick = x.quick /\ z.app = x.app
          /\ z.state = x.state /\ z.slow = x.slow /\ z.link = x.link
          /\ z.told = x.told /\ z.surfaces = x.surfaces /\ z.posted = x.posted
      BY <2>1 DEF RuntimeObject
    <3>2. PICK t : t = [u EXCEPT !.rt[r] = z] OBVIOUS
    <3>3. v = SetState(t, r, "StartingUp")
      BY <2>1, <2>3, <2>4, <2>7, <3>2 DEF DoStart, NativeStart, Worlds
    <3> HIDE DEF z
    <3>4. t \in Worlds /\ t.rt[r] = z /\ t.app = u.app
          /\ \A q \in Runtimes : q # r => t.rt[q] = u.rt[q]
      BY <2>4, <3>1, <3>2 DEF Worlds
    <3>5. Told(t, v, r, a, "StartingUp") /\ v.rt[r] = [z EXCEPT !.state = "StartingUp"]
      <4>1. "StartingUp" \in RunState BY DEF RunState
      <4> QED BY <3>1, <3>3, <3>4, <4>1, SetStateIs DEF Told
    <3>6. v \in Worlds /\ \A q \in Runtimes : q # r => v.rt[q] = t.rt[q]
      BY <3>5 DEF Told, Touches
    <3>7. /\ v.rt[r].kind = z.kind /\ v.rt[r].quick = z.quick /\ v.rt[r].app = z.app
          /\ v.rt[r].watch = z.watch /\ v.rt[r].slow = z.slow /\ v.rt[r].link = z.link
          /\ v.rt[r].told = z.told /\ v.rt[r].surfaces = z.surfaces
          /\ v.rt[r].state = "StartingUp" /\ v.rt[r].waits = z.waits
          /\ v.rt[r].process = "starting" /\ v.rt[r].posted = z.posted
          /\ v.rt[r] \in RuntimeObject
      BY <3>1, <3>5, <3>6, WorldFields DEF RuntimeObject
    <3>8. StartsUp(w.rt[r], v.rt[r])
      <4>1. w.rt[r].kind # "inproc" /\ ~w.rt[r].slow BY <1>3, <2>1, <2>7
      <4> QED BY <2>1, <3>1, <3>7, <4>1 DEF StartsUp
    <3>9. Told(w, v, r, a, "StartingUp")
      BY <2>1, <2>4, <3>1, <3>4, <3>5, <3>6 DEF Told, Touches
    <3> QED BY <2>4, <2>7, <3>4, <3>6, <3>8, <3>9 DEF StartedUp
  <2> QED BY <2>1, <2>3, <2>4, <2>5, <2>6, <2>7 DEF DoStart, InProcStart, NativeStart
<1> QED BY <1>2, <1>3

(* a runtime that waits for its container or for the compositor *)
LEMMA WaitingObject ==
    ASSUME AppInv, NEW r \in Runtimes, rt[r].waits # "no"
    PROVE  /\ rt[r] \in RuntimeObject /\ rt[r].kind \in NativeKinds
           /\ rt[r].posted = <<>> /\ ~rt[r].surfaces /\ rt[r].process = "none"
           /\ rt[r].link = "no" /\ rt[r].watch = rt[r].app /\ ~Forgotten(r)
           /\ rt[r].state = "NotRunning" /\ ~rt[r].quick /\ ~Live(rt[r])
<1>1. rt[r] \in RuntimeObject /\ ObjectFits(rt[r]) /\ RuntimeFits(r) BY Fields DEF AppInv
<1>2. rt[r].kind \in NativeKinds /\ rt[r].process = "none"
      /\ rt[r].state = "NotRunning" /\ ~rt[r].quick
  BY <1>1 DEF ObjectFits
<1>3. rt[r].posted = <<>> /\ ~rt[r].surfaces /\ rt[r].watch = rt[r].app /\ rt[r].link = "no"
  BY <1>1, <1>2 DEF ObjectFits, NativeKinds
<1>4. ~Forgotten(r) BY <1>1 DEF RuntimeFits, Forgotten, Ended
<1> QED BY <1>1, <1>2, <1>3, <1>4 DEF Live

(* the start of a runtime that has waited goes on; w differs from the current world in slow
   at most *)
LEMMA TryStartAnswered ==
    ASSUME AppInv, NEW r \in Runtimes, rt[r].waits # "no", NEW ok \in BOOLEAN,
           NEW w \in Worlds, w.app = app, \A q \in Runtimes : q # r => w.rt[q] = rt[q],
           NEW s \in BOOLEAN, w.rt[r] = [rt[r] EXCEPT !.slow = s]
    PROVE  Answered(TryStart(w, r, ok, TRUE), r)
<1>1. PICK v : v = TryStart(w, r, ok, TRUE) OBVIOUS
<1>2. /\ rt[r] \in RuntimeObject /\ rt[r].kind \in NativeKinds
      /\ rt[r].posted = <<>> /\ ~rt[r].surfaces /\ rt[r].process = "none"
      /\ rt[r].link = "no" /\ rt[r].watch = rt[r].app /\ ~Forgotten(r)
      /\ rt[r].state = "NotRunning" /\ ~rt[r].quick /\ ~Live(rt[r])
  BY WaitingObject
<1>3. w.rt[r] \in RuntimeObject BY WorldFields
<1>4. /\ w.rt[r].kind = rt[r].kind /\ w.rt[r].quick = rt[r].quick /\ w.rt[r].app = rt[r].app
      /\ w.rt[r].watch = rt[r].watch /\ w.rt[r].state = rt[r].state
      /\ w.rt[r].link = rt[r].link /\ w.rt[r].told = rt[r].told
      /\ w.rt[r].surfaces = rt[r].surfaces /\ w.rt[r].process = rt[r].process
      /\ w.rt[r].posted = rt[r].posted
  BY <1>2 DEF RuntimeObject
<1>5. OneOwner(w, r) BY OwnerKnown DEF OneOwner
<1>6. /\ v \in Worlds /\ \A q \in Runtimes : q # r => v.rt[q] = w.rt[q]
      /\ \/ StillWaits(w, v, r)
         \/ StartFailed(w, v, r)
         \/ StartedUp(w, v, r, rt[r].watch)
  <2>1. TRUE \in BOOLEAN OBVIOUS
  <2>2. PICK a : a = w.rt[r].watch OBVIOUS
  <2>3. /\ v \in Worlds /\ \A q \in Runtimes : q # r => v.rt[q] = w.rt[q]
        /\ \/ StillWaits(w, v, r)
           \/ StartFailed(w, v, r)
           \/ StartedUp(w, v, r, a)
    <3>1. \A object \in BOOLEAN : \A u, b :
              u = TryStart(w, r, ok, object) /\ b = w.rt[r].watch /\ OneOwner(w, r) =>
              /\ u \in Worlds /\ \A q \in Runtimes : q # r => u.rt[q] = w.rt[q]
              /\ \/ StillWaits(w, u, r)
                 \/ StartFailed(w, u, r)
                 \/ StartedUp(w, u, r, b)
      BY TryStartIs
    <3> QED BY <1>1, <1>5, <2>2, <3>1
  <2>4. a = rt[r].watch BY <1>4, <2>2
  <2> QED BY <2>3, <2>4
<1>7. v \in Worlds /\ \A q \in Runtimes : q # r => v.rt[q] = rt[q] BY <1>6
<1>8. CASE StillWaits(w, v, r)
  <2>1. /\ v.rt[r].kind = rt[r].kind /\ v.rt[r].quick = rt[r].quick /\ v.rt[r].app = rt[r].app
        /\ v.rt[r].watch = rt[r].watch /\ v.rt[r].state = rt[r].state
        /\ v.rt[r].link = rt[r].link /\ v.rt[r].told = rt[r].told
        /\ v.rt[r].surfaces = rt[r].surfaces /\ v.rt[r].process = rt[r].process
        /\ v.rt[r].posted = rt[r].posted /\ v.rt[r].waits = "container"
    BY <1>3, <1>4, <1>8 DEF StillWaits, RuntimeObject
  <2>2. ObjectFits(v.rt[r]) BY <1>2, <2>1 DEF ObjectFits, NativeKinds
  <2>3. ~Live(v.rt[r]) BY <1>2, <2>1 DEF Live
  <2>4. v.app = app BY <1>8 DEF StillWaits
  <2>5. v.rt[r].state = rt[r].state /\ v.rt[r].app = rt[r].app /\ v.rt[r].quick = rt[r].quick
        /\ v.rt[r].kind = rt[r].kind
    BY <2>1
  <2>6. Answered(v, r) BY <1>2, <1>7, <2>2, <2>3, <2>4, <2>5, QuietAnswer
  <2> QED BY <1>1, <2>6
<1>9. CASE StartFailed(w, v, r)
  <2>1. v.rt[r] = NoRuntime BY <1>9 DEF StartFailed
  <2>2. v.rt[r].quick = FALSE BY <2>1 DEF NoRuntime
  <2>3. rt[r].quick = FALSE BY <1>2 DEF RuntimeObject
  <2>4. \A a \in Apps : v.app[a] = IF app[a].runtime = r THEN Forget(app[a]) ELSE app[a]
    BY <1>9 DEF StartFailed
  <2>5. LateAnswered(v, r) BY <1>7, <2>1, <2>2, <2>3, <2>4, NoRuntimeFits, EndAnswer
  <2> QED BY <1>1, <2>4, <2>5 DEF Answered
<1>10. CASE StartedUp(w, v, r, rt[r].watch)
  <2>1. Told(w, v, r, rt[r].watch, "StartingUp") BY <1>10 DEF StartedUp
  <2>2. /\ v.rt[r].kind = rt[r].kind /\ v.rt[r].quick = rt[r].quick /\ v.rt[r].app = rt[r].app
        /\ v.rt[r].watch = rt[r].watch /\ v.rt[r].state = "StartingUp"
        /\ v.rt[r].link = rt[r].link /\ v.rt[r].surfaces = rt[r].surfaces
        /\ v.rt[r].posted = rt[r].posted /\ v.rt[r].waits = "no"
    <3>1. /\ w.rt[r].kind = rt[r].kind /\ w.rt[r].quick = rt[r].quick
          /\ w.rt[r].app = rt[r].app /\ w.rt[r].watch = rt[r].watch
          /\ w.rt[r].link = rt[r].link /\ w.rt[r].surfaces = rt[r].surfaces
          /\ w.rt[r].posted = rt[r].posted
      BY <1>2, <1>4 DEF RuntimeObject
    <3>2. w.rt[r].kind # "inproc" BY <1>2, <3>1 DEF NativeKinds
    <3>3. StartsUp(w.rt[r], v.rt[r]) BY <1>10 DEF StartedUp
    <3> QED BY <3>1, <3>2, <3>3 DEF StartsUp
  <2>3. ObjectFits(v.rt[r]) BY <1>2, <2>2, ProcessFits
  <2>4. Live(v.rt[r]) /\ ~Live(rt[r]) => rt[r].waits # "no" OBVIOUS
  <2>5. "StartingUp" \in RunState BY DEF RunState
  <2>6. w.rt[r].state = rt[r].state BY <1>4
  <2>7. v.rt[r].state = "StartingUp" /\ v.rt[r].app = rt[r].app /\ v.rt[r].quick = rt[r].quick
        /\ v.rt[r].kind = rt[r].kind
    BY <2>2
  <2>8. ~Forgotten(r) BY <1>2
  <2>9. Answered(v, r) BY <2>1, <2>3, <2>4, <2>5, <2>6, <2>7, <2>8, ToldAnswer
  <2> QED BY <1>1, <2>9
<1> QED BY <1>6, <1>8, <1>9, <1>10

-----------------------------------------------------------------------------
(* Steps that are calls *)

(* the pool changes its counters and its timer at most *)
QuickCounts ==
    /\ ql' \in QuickLaunchEntry
    /\ ql'.pool = ql.pool
    /\ ql'.shuttingDown = ql.shuttingDown

LEMMA UnchangedCounts == ASSUME TypeOK, ql' = ql PROVE QuickCounts
BY DEF TypeOK, QuickTypeOK, QuickCounts

(* calls that leave the pool and the shutdown as they are keep the invariant *)
LEMMA CallStep ==
    ASSUME AppInv, Calls, QuickKept, QuickCounts, am' = am
    PROVE  AppInv'
<1>1. PairsFit' /\ (NoneCurrent => NoneCurrent') BY CallsFit
<1>2. Pooled' = Pooled BY DEF QuickCounts, Pooled
<1>3. PoolFits' BY <1>2 DEF AppInv, PoolFits, QuickCounts, QuickKept
<1>4. DownFits' BY <1>1 DEF AppInv, DownFits, QuickCounts
<1>5. TypeOK' BY <1>1 DEF AppInv, PairsFit, Calls, QuickCounts, TypeOK, QuickTypeOK
<1> QED BY <1>1, <1>3, <1>4, <1>5 DEF AppInv, PairsFit

(* the pool after the failures have been counted *)
LEMMA CheckFailedStartsTyped ==
    ASSUME NEW q \in QuickLaunchEntry, NEW n \in Nat, NEW kept \in 0 .. n,
           n <= IF FailedStartLimit = 0 THEN 0 ELSE q.failures + 1
    PROVE  /\ CheckFailedStarts(q, kept) \in QuickLaunchEntry
           /\ CheckFailedStarts(q, kept).pool = q.pool
           /\ CheckFailedStarts(q, kept).timer = q.timer
           /\ CheckFailedStarts(q, kept).shuttingDown = q.shuttingDown
<1>1. FailedStartLimit \in Nat /\ q.failures \in 0 .. FailedStartLimit
  BY PoolAssumption DEF QuickLaunchEntry
<1>2. CASE q.disabled BY <1>2 DEF CheckFailedStarts
<1>3. CASE ~q.disabled /\ FailedStartLimit > 0 /\ kept >= FailedStartLimit
  <2>1. CheckFailedStarts(q, kept) = [q EXCEPT !.disabled = TRUE, !.failures = 0]
    BY <1>3 DEF CheckFailedStarts
  <2>2. 0 \in 0 .. FailedStartLimit BY <1>1
  <2> QED BY <2>1, <2>2 DEF QuickLaunchEntry
<1>4. CASE ~q.disabled /\ ~(FailedStartLimit > 0 /\ kept >= FailedStartLimit)
  <2>1. CheckFailedStarts(q, kept) = [q EXCEPT !.failures = kept]
    BY <1>4 DEF CheckFailedStarts
  <2>2. kept \in 0 .. FailedStartLimit BY <1>1, <1>4
  <2> QED BY <2>1, <2>2 DEF QuickLaunchEntry
<1> QED BY <1>2, <1>3, <1>4

LEMMA OnProcessFinishedAnswered ==
    ASSUME AppInv, NEW r \in Runtimes, NEW failed \in BOOLEAN,
           OnProcessFinished(r, failed), ComesLate(r)
    PROVE  Calls /\ QuickKept /\ QuickCounts
<1>1. Live(rt[r]) BY DEF OnProcessFinished, Live
<1>2. Becomes(NativeShutdown(World, r)) BY DEF OnProcessFinished
<1>3. Calls /\ QuickKept BY <1>1, <1>2, NativeShutdownAnswered, OneCall DEF Answered
<1>4. QuickCounts
  <2>1. TypeOK BY DEF AppInv
  <2>2. CASE ql' = ql BY <2>1, <2>2, UnchangedCounts
  <2>3. CASE \E kept \in Kept(AddFailure) : ql' = CheckFailedStarts(ql, kept)
    <3>1. PICK kept \in 0 .. AddFailure : ql' = CheckFailedStarts(ql, kept)
      BY <2>3 DEF Kept
    <3>2. ql \in QuickLaunchEntry BY <2>1 DEF TypeOK, QuickTypeOK
    <3>3. ql.failures \in Nat BY <3>2, PoolAssumption DEF QuickLaunchEntry
    <3>4. AddFailure = (IF FailedStartLimit = 0 THEN 0 ELSE ql.failures + 1) /\ AddFailure \in Nat
      BY <3>3 DEF AddFailure
    <3>5. AddFailure <= IF FailedStartLimit = 0 THEN 0 ELSE ql.failures + 1 BY <3>3, <3>4
    <3> QED BY <3>1, <3>2, <3>4, <3>5, CheckFailedStartsTyped DEF QuickCounts
  <2> QED BY <2>2, <2>3 DEF OnProcessFinished
<1> QED BY <1>3, <1>4

LEMMA RuntimeEventAnswered ==
    ASSUME AppInv, NEW r \in Runtimes, RuntimeEvent(r)
    PROVE  Calls /\ QuickKept /\ QuickCounts /\ am' = am
<1>0. TypeOK /\ am' = am /\ ComesLate(r) BY DEF AppInv, RuntimeEvent
<1>1. CASE \E failed \in BOOLEAN : OnProcessFinished(r, failed)
  BY <1>0, <1>1, OnProcessFinishedAnswered
<1>2. CASE ql' = ql /\ OnProcessStarted(r)
  BY <1>0, <1>2, OnProcessStartedAnswered, UnchangedCounts
<1>3. CASE ql' = ql /\ OnProcessError(r)
  BY <1>0, <1>3, OnProcessErrorAnswered, UnchangedCounts
<1>4. CASE ql' = ql /\ NativeQuitTimer(r)
  BY <1>0, <1>4, NativeQuitTimerAnswered, UnchangedCounts
<1>5. CASE ql' = ql /\ (OnDBusPeerConnection(r) \/ FinishedInitialization(r))
  BY <1>0, <1>5, OnDBusPeerConnectionAnswered, UnchangedCounts
<1>6. CASE ql' = ql /\ ApplicationFinishedInitialization(r)
  BY <1>0, <1>6, ApplicationFinishedInitializationAnswered, UnchangedCounts
<1>7. CASE ql' = ql /\ InProcDeliver(r)
  BY <1>0, <1>7, InProcDeliverAnswered, UnchangedCounts
<1>8. CASE ql' = ql /\ InProcQuitTimer(r)
  BY <1>0, <1>8, InProcQuitTimerAnswered, UnchangedCounts
<1>9. CASE ql' = ql /\ (InProcAcknowledgeQuit(r) \/ InProcWindowClosed(r))
  BY <1>0, <1>9, InProcPosts, UnchangedCounts
<1>10. CASE ql' = ql /\ InProcSurfacesReleased(r)
  BY <1>0, <1>10, InProcSurfacesReleasedAnswered, UnchangedCounts
<1> QED
  BY <1>1, <1>2, <1>3, <1>4, <1>5, <1>6, <1>7, <1>8, <1>9, <1>10 DEF RuntimeEvent

(* the runtime that an application knows has not been forgotten *)
LEMMA CurrentKnown ==
    ASSUME AppInv
    PROVE  /\ \A a \in Apps : app[a].runtime # None =>
                  app[a].runtime \in CurrentRuntimes /\ app[a].runtime \in Runtimes
           /\ CurrentRuntimes \in SUBSET Runtimes
           /\ \A r \in CurrentRuntimes : ~Forgotten(r)
           /\ NoneCurrent <=> CurrentRuntimes = {}
<1>1. TypeOK BY DEF AppInv
<1>2. ASSUME NEW a \in Apps, app[a].runtime # None
      PROVE  app[a].runtime \in CurrentRuntimes /\ app[a].runtime \in Runtimes
  BY <1>1, <1>2, Fields DEF CurrentRuntimes
<1>3. ASSUME NEW r \in CurrentRuntimes PROVE r \in Runtimes /\ ~Forgotten(r)
  <2>1. PICK a \in Apps : r = app[a].runtime /\ r # None BY DEF CurrentRuntimes
  <2>2. r \in Runtimes BY <1>1, <2>1, Fields
  <2> QED BY <2>1, <2>2, OwnerKnown
<1>4. NoneCurrent <=> CurrentRuntimes = {} BY DEF CurrentRuntimes, NoneCurrent
<1> QED BY <1>2, <1>3, <1>4

LEMMA StopApplicationAnswered ==
    ASSUME AppInv, NEW a \in Apps, NEW forceKill \in BOOLEAN, StopApplication(a, forceKill)
    PROVE  Calls /\ QuickKept /\ QuickCounts /\ am' = am
<1>0. TypeOK /\ am' = am /\ ql' = ql BY DEF AppInv, StopApplication
<1>1. PICK r \in Runtimes : r = app[a].runtime BY Fields, <1>0 DEF StopApplication
<1>2. ~Forgotten(r) BY <1>1, OwnerKnown
<1>3. Answered(Stop(World, r, forceKill), r) BY <1>2, StopAnswered
<1>4. Becomes(Stop(World, r, forceKill)) /\ late' = late BY <1>1 DEF StopApplication
<1> QED BY <1>0, <1>3, <1>4, OneCallInTime, UnchangedCounts

LEMMA StopAllApplicationsAnswered ==
    ASSUME AppInv, NEW forceKill \in BOOLEAN, StopAllApplications(forceKill)
    PROVE  Calls /\ QuickKept /\ QuickCounts /\ am' = am
<1>0. TypeOK /\ am' = am /\ ql' = ql /\ late' = late BY DEF AppInv, StopAllApplications
<1> DEFINE S == CurrentRuntimes
           w == [r \in S |-> Stop(World, r, forceKill)]
<1>1. S \in SUBSET Runtimes BY CurrentKnown
<1>2. \A r \in S : Answered(Stop(World, r, forceKill), r) BY <1>1, CurrentKnown, StopAnswered
<1>3. /\ app' = [a \in Apps |-> IF app[a].runtime \in S
                                THEN Stop(World, app[a].runtime, forceKill).app[a] ELSE app[a]]
      /\ rt' = [r \in Runtimes |-> IF r \in S THEN Stop(World, r, forceKill).rt[r] ELSE rt[r]]
  BY DEF StopAllApplications, Becomes, Together
<1> HIDE DEF S
<1>4. \A r \in S : w[r] = Stop(World, r, forceKill) OBVIOUS
<1>5. \A r \in S : Answered(w[r], r) BY <1>2, <1>4
<1> HIDE DEF w
<1>6. /\ app' = [a \in Apps |-> IF app[a].runtime \in S THEN w[app[a].runtime].app[a]
                                ELSE app[a]]
      /\ rt' = [r \in Runtimes |-> IF r \in S THEN w[r].rt[r] ELSE rt[r]]
  BY <1>3, <1>4
<1>7. Calls /\ QuickKept BY <1>0, <1>1, <1>5, <1>6, ManyCalls
<1> QED BY <1>0, <1>7, UnchangedCounts

LEMMA SetWindowManagerCompositorReadyAnswered ==
    ASSUME AppInv, SetWindowManagerCompositorReady
    PROVE  Calls /\ QuickKept /\ QuickCounts
<1>0. TypeOK /\ ql' = ql /\ late' = late BY DEF AppInv, SetWindowManagerCompositorReady
<1> DEFINE S == {r \in Runtimes : rt[r].waits = "compositor"}
<1>1. PICK ok \in BOOLEAN :
          /\ app' = [a \in Apps |-> IF app[a].runtime \in S
                                    THEN TryStart(World, app[a].runtime, ok, TRUE).app[a]
                                    ELSE app[a]]
          /\ rt' = [r \in Runtimes |-> IF r \in S THEN TryStart(World, r, ok, TRUE).rt[r]
                                       ELSE rt[r]]
  BY DEF SetWindowManagerCompositorReady, Becomes, Together, Outcomes
<1> DEFINE w == [r \in S |-> TryStart(World, r, ok, TRUE)]
<1>2. S \in SUBSET Runtimes OBVIOUS
<1>3. ASSUME NEW r \in S PROVE Answered(TryStart(World, r, ok, TRUE), r)
  <2>1. rt[r] \in RuntimeObject /\ rt[r].waits # "no" /\ r \in Runtimes
    BY Fields, <1>0
  <2>2. PICK s \in BOOLEAN : s = rt[r].slow BY <2>1 DEF RuntimeObject
  <2>3. rt[r] = [rt[r] EXCEPT !.slow = s] BY <2>1, <2>2 DEF RuntimeObject
  <2>4. World \in Worlds /\ World.app = app /\ World.rt = rt BY <1>0, WorldTyped
  <2> QED BY <2>1, <2>3, <2>4, TryStartAnswered
<1> HIDE DEF S
<1>4. \A r \in S : w[r] = TryStart(World, r, ok, TRUE) OBVIOUS
<1>5. \A r \in S : Answered(w[r], r) BY <1>3, <1>4
<1> HIDE DEF w
<1>6. /\ app' = [a \in Apps |-> IF app[a].runtime \in S THEN w[app[a].runtime].app[a]
                                ELSE app[a]]
      /\ rt' = [r \in Runtimes |-> IF r \in S THEN w[r].rt[r] ELSE rt[r]]
  BY <1>1, <1>4
<1>7. Calls /\ QuickKept BY <1>0, <1>2, <1>5, <1>6, ManyCalls
<1> QED BY <1>0, <1>7, UnchangedCounts

LEMMA ContainerReadyAnswered ==
    ASSUME AppInv, NEW r \in Runtimes, ContainerReady(r)
    PROVE  Calls /\ QuickKept /\ QuickCounts /\ am' = am
<1>0. TypeOK /\ am' = am /\ ql' = ql /\ late' = late BY DEF AppInv, ContainerReady
<1> DEFINE x == [rt[r] EXCEPT !.slow = FALSE]
<1>1. World \in Worlds /\ World.app = app /\ World.rt = rt BY <1>0, WorldTyped
<1>2. rt[r] \in RuntimeObject /\ ObjectFits(rt[r]) /\ RuntimeFits(r) BY Fields DEF AppInv
<1>3. /\ x \in RuntimeObject
      /\ x.kind = rt[r].kind /\ x.quick = rt[r].quick /\ x.app = rt[r].app
      /\ x.watch = rt[r].watch /\ x.state = rt[r].state /\ x.slow = FALSE
      /\ x.waits = rt[r].waits /\ x.process = rt[r].process /\ x.link = rt[r].link
      /\ x.told = rt[r].told /\ x.surfaces = rt[r].surfaces /\ x.posted = rt[r].posted
  BY <1>2 DEF RuntimeObject
<1>4. x = [rt[r] EXCEPT !.slow = FALSE] OBVIOUS
<1>5. PICK w : w = [World EXCEPT !.rt[r] = x] OBVIOUS
<1>6. IF rt[r].waits = "container" THEN \E ok \in BOOLEAN : Becomes(TryStart(w, r, ok, TRUE))
      ELSE Becomes(w)
  BY <1>1, <1>5 DEF ContainerReady, Outcomes
<1> HIDE DEF x
<1>7. w \in Worlds /\ w.app = app /\ w.rt[r] = x /\ \A q \in Runtimes : q # r => w.rt[q] = rt[q]
  BY <1>1, <1>3, <1>5 DEF Worlds
<1>8. CASE rt[r].waits = "container"
  <2>1. PICK ok \in BOOLEAN : Becomes(TryStart(w, r, ok, TRUE)) BY <1>6, <1>8
  <2>2. rt[r].waits # "no" BY <1>8
  <2>3. Answered(TryStart(w, r, ok, TRUE), r) BY <1>4, <1>7, <2>2, TryStartAnswered
  <2> QED BY <1>0, <2>1, <2>3, OneCallInTime, UnchangedCounts
<1>9. CASE rt[r].waits # "container"
  <2>1. rt[r].slow = TRUE BY <1>2 DEF ContainerReady, RuntimeObject
  <2>2. rt[r].kind # "free" BY <1>2, <2>1 DEF ObjectFits, NoRuntime
  <2>3. ObjectFits(x) BY <1>2, <1>3, <2>2 DEF ObjectFits
  <2>4. Forgotten(r) => x.waits = "no" BY <1>2, <1>3 DEF RuntimeFits, Forgotten, Ended
  <2>5. Live(x) => Live(rt[r]) BY <1>3 DEF Live
  <2>6. Answered(w, r) BY <1>3, <1>7, <2>3, <2>4, <2>5, QuietAnswer
  <2> QED BY <1>0, <1>6, <1>9, <2>6, OneCallInTime, UnchangedCounts
<1> QED BY <1>8, <1>9

-----------------------------------------------------------------------------
(* The least number of a set, and the pool as a sequence without repetitions *)

LEMMA LeastNumber ==
    ASSUME NEW S, S \subseteq Nat, S # {}
    PROVE  \E x \in S : \A y \in S : x <= y
<1> DEFINE R == OpToRel(<, Nat)
<1>1. IsWellFoundedOn(R, Nat) BY NatLessThanWellFounded
<1>2. R = {ss \in Nat \X Nat : ss[1] < ss[2]} BY DEF OpToRel
<1>3. \A x, y \in Nat : <<x, y>> \in R <=> x < y BY <1>2
<1> HIDE DEF R
<1>4. PICK x \in S : \A y \in S : ~(<<y, x>> \in R) BY <1>1, WFMin
<1>5. \A y \in S : ~(y < x) BY <1>3, <1>4
<1>6. x \in Nat /\ \A y \in S : y \in Nat OBVIOUS
<1>7. \A y \in S : x <= y BY <1>5, <1>6
<1> QED BY <1>7

LEMMA FreshIsFree ==
    ASSUME Free # {}
    PROVE  Fresh \in Runtimes /\ rt[Fresh].kind = "free"
<1>1. Free \subseteq Nat BY DEF Free, Runtimes
<1>2. \E r \in Free : \A q \in Free : r <= q BY <1>1, LeastNumber
<1>3. Fresh \in Free BY <1>2 DEF Fresh
<1> QED BY <1>3 DEF Free, Exists

Once(s) == \A i, j \in DOMAIN s : s[i] = s[j] => i = j

Elements(s) == {s[i] : i \in DOMAIN s}

LEMMA RemovedAt ==
    ASSUME NEW S, NEW s \in Seq(S), NEW i \in 1 .. Len(s)
    PROVE  /\ RemoveAt(s, i) \in Seq(S) /\ Len(RemoveAt(s, i)) = Len(s) - 1
           /\ \A j \in 1 .. Len(s) - 1 : RemoveAt(s, i)[j] = IF j < i THEN s[j] ELSE s[j + 1]
<1> DEFINE n == Len(s)
           front == SubSeq(s, 1, i - 1)
           back == SubSeq(s, i + 1, n)
<1>1. n \in Nat /\ i \in 1 .. n OBVIOUS
<1>2. front \in Seq(S) /\ Len(front) = i - 1 /\ \A j \in 1 .. i - 1 : front[j] = s[j]
  BY <1>1, SubSeqProperties
<1>3. back \in Seq(S) /\ Len(back) = n - i /\ \A j \in 1 .. n - i : back[j] = s[i + j]
  BY <1>1, SubSeqProperties
<1>4. RemoveAt(s, i) = front \o back BY DEF RemoveAt
<1> HIDE DEF front, back
<1>5. (front \o back) \in Seq(S) /\ Len(front \o back) = Len(front) + Len(back)
      /\ \A j \in 1 .. Len(front) + Len(back) :
            (front \o back)[j] = IF j <= Len(front) THEN front[j] ELSE back[j - Len(front)]
  BY <1>2, <1>3, ConcatProperties
<1>6. ASSUME NEW j \in 1 .. n - 1 PROVE (front \o back)[j] = IF j < i THEN s[j] ELSE s[j + 1]
  <2>1. CASE j < i BY <1>1, <1>2, <1>3, <1>5, <2>1
  <2>2. CASE ~(j < i)
    <3>0. i \in Nat /\ j \in Nat /\ n \in Nat /\ i >= 1 /\ j <= n - 1 BY <1>1
    <3> HIDE DEF n
    <3>1. j - (i - 1) \in 1 .. n - i /\ i + (j - (i - 1)) = j + 1 /\ ~(j <= i - 1)
      BY <2>2, <3>0
    <3> QED BY <1>1, <1>2, <1>3, <1>5, <2>2, <3>1
  <2> QED BY <2>1, <2>2
<1> QED BY <1>1, <1>2, <1>3, <1>4, <1>5, <1>6

(* what removeEntry leaves of a pool *)
LEMMA RemovedFirst ==
    ASSUME NEW S, NEW s \in Seq(S), Once(s), NEW e, NEW t, t = RemoveFirst(s, e)
    PROVE  /\ t \in Seq(S) /\ Once(t) /\ Elements(t) = Elements(s) \ {e}
           /\ Len(t) = IF e \in Elements(s) THEN Len(s) - 1 ELSE Len(s)
<1> DEFINE n == Len(s)
           I == {i \in 1 .. n : s[i] = e}
<1>1. n \in Nat /\ DOMAIN s = 1 .. n BY LenProperties
<1>2. CASE I = {}
  <2>1. t = s BY <1>2 DEF RemoveFirst
  <2>2. e \notin Elements(s) BY <1>1, <1>2 DEF Elements
  <2> QED BY <2>1, <2>2
<1>3. CASE I # {}
  <2>1. \E i \in 1 .. n : s[i] = e BY <1>3
  <2>2. t = RemoveAt(s, CHOOSE x \in I : \A y \in I : x =< y)
    BY <1>3, <2>1 DEF RemoveFirst, SelectInSeq, Min
  <2>3. \E x \in I : \A y \in I : x =< y
    <3>1. I \subseteq Nat BY <1>1
    <3> HIDE DEF I
    <3> QED BY <1>3, <3>1, LeastNumber
  <2>4. PICK k \in 1 .. n : s[k] = e /\ t = RemoveAt(s, k) BY <2>2, <2>3
  <2> HIDE DEF I
  <2>5. /\ t \in Seq(S) /\ Len(t) = n - 1
        /\ \A j \in 1 .. n - 1 : t[j] = IF j < k THEN s[j] ELSE s[j + 1]
    BY <1>1, <2>4, RemovedAt
  <2>6. DOMAIN t = 1 .. n - 1 BY <2>5, LenProperties
  <2> HIDE DEF n
  <2>7. Once(t)
    <3> SUFFICES ASSUME NEW i \in 1 .. n - 1, NEW j \in 1 .. n - 1, t[i] = t[j] PROVE i = j
      BY <2>6 DEF Once
    <3> DEFINE old(x) == IF x < k THEN x ELSE x + 1
    <3>1. t[i] = s[old(i)] /\ t[j] = s[old(j)] BY <2>5
    <3>2. old(i) \in 1 .. n /\ old(j) \in 1 .. n BY <1>1, <2>4
    <3>3. old(i) = old(j)
      <4> HIDE DEF old
      <4> QED BY <1>1, <3>1, <3>2 DEF Once
    <3> QED BY <1>1, <2>4, <3>3
  <2>8. ASSUME NEW x \in Elements(t) PROVE x \in Elements(s) \ {e}
    <3>1. PICK i \in 1 .. n - 1 : x = t[i] BY <2>6 DEF Elements
    <3> DEFINE old == IF i < k THEN i ELSE i + 1
    <3>2. x = s[old] /\ old \in 1 .. n /\ old # k BY <1>1, <2>4, <2>5, <3>1
    <3> HIDE DEF old
    <3> QED BY <1>1, <2>4, <3>2 DEF Elements, Once
  <2>9. ASSUME NEW x \in Elements(s), x # e PROVE x \in Elements(t)
    <3>1. PICK i \in 1 .. n : x = s[i] BY <1>1 DEF Elements
    <3>2. i # k BY <2>4, <2>9, <3>1
    <3>3. CASE i < k
      <4>1. i \in 1 .. n - 1 /\ t[i] = x BY <1>1, <2>4, <2>5, <3>1, <3>3
      <4> QED BY <2>6, <4>1 DEF Elements
    <3>4. CASE i > k
      <4>1. i - 1 \in 1 .. n - 1 /\ ~(i - 1 < k) /\ (i - 1) + 1 = i BY <1>1, <2>4, <3>4
      <4>2. t[i - 1] = x BY <2>5, <3>1, <4>1
      <4> QED BY <2>6, <4>1, <4>2 DEF Elements
    <3> QED BY <1>1, <2>4, <3>2, <3>3, <3>4
  <2>10. e \in Elements(s) BY <1>1, <2>4 DEF Elements
  <2> QED BY <2>5, <2>7, <2>8, <2>9, <2>10 DEF n
<1> QED BY <1>2, <1>3

LEMMA AppendedOnce ==
    ASSUME NEW S, NEW s \in Seq(S), Once(s), NEW e \in S, e \notin Elements(s),
           NEW t, t = Append(s, e)
    PROVE  t \in Seq(S) /\ Once(t) /\ Elements(t) = Elements(s) \cup {e} /\ Len(t) = Len(s) + 1
<1> DEFINE n == Len(s)
<1>1. n \in Nat /\ DOMAIN s = 1 .. n BY LenProperties
<1>2. /\ t \in Seq(S) /\ Len(t) = n + 1 /\ t[n + 1] = e
      /\ \A i \in 1 .. n : t[i] = s[i]
  BY AppendProperties
<1>3. DOMAIN t = 1 .. n + 1 BY <1>2, LenProperties
<1> HIDE DEF n
<1>4. \A i \in 1 .. n + 1 : i = n + 1 \/ i \in 1 .. n BY <1>1
<1>5. \A i \in 1 .. n : s[i] # e BY <1>1 DEF Elements
<1>6. Once(t) BY <1>1, <1>2, <1>3, <1>4, <1>5 DEF Once
<1>7. ASSUME NEW x \in Elements(t) PROVE x \in Elements(s) \cup {e}
  BY <1>1, <1>2, <1>3, <1>4 DEF Elements
<1>8. ASSUME NEW x \in Elements(s) \cup {e} PROVE x \in Elements(t)
  <2>1. n + 1 \in 1 .. n + 1 /\ \A i \in 1 .. n : i \in 1 .. n + 1 BY <1>1
  <2> QED BY <1>1, <1>2, <1>3, <2>1 DEF Elements
<1> QED BY <1>2, <1>6, <1>7, <1>8 DEF n

LEMMA TailOnce ==
    ASSUME NEW S, NEW s \in Seq(S), Once(s), s # <<>>, NEW t, t = Tail(s)
    PROVE  /\ t \in Seq(S) /\ Once(t) /\ Elements(t) = Elements(s) \ {Head(s)}
           /\ Len(t) = Len(s) - 1 /\ Head(s) \in Elements(s)
<1> DEFINE n == Len(s)
<1>1. n \in Nat /\ DOMAIN s = 1 .. n BY LenProperties
<1>2. n # 0 BY EmptySeq
<1>3. /\ t \in Seq(S) /\ Len(t) = n - 1
      /\ \A i \in 1 .. n - 1 : t[i] = s[i + 1]
      /\ Head(s) = s[1]
  BY HeadTailProperties
<1>4. DOMAIN t = 1 .. n - 1 BY <1>3, LenProperties
<1> HIDE DEF n
<1>5. \A i \in 1 .. n - 1 : i + 1 \in 1 .. n /\ i + 1 # 1 BY <1>1
<1>6. Once(t) BY <1>1, <1>3, <1>4, <1>5 DEF Once
<1>7. ASSUME NEW x \in Elements(t) PROVE x \in Elements(s) \ {Head(s)}
  <2>1. PICK i \in 1 .. n - 1 : x = s[i + 1] BY <1>3, <1>4 DEF Elements
  <2>2. 1 \in 1 .. n BY <1>1, <1>2
  <2> QED BY <1>1, <1>3, <1>5, <2>1, <2>2 DEF Elements, Once
<1>8. ASSUME NEW x \in Elements(s) \ {Head(s)} PROVE x \in Elements(t)
  <2>1. PICK i \in 1 .. n : x = s[i] BY <1>1 DEF Elements
  <2>2. i # 1 BY <1>3, <2>1
  <2>3. i - 1 \in 1 .. n - 1 /\ (i - 1) + 1 = i BY <1>1, <2>2
  <2>4. t[i - 1] = x BY <1>3, <2>1, <2>3
  <2> QED BY <1>4, <2>3, <2>4 DEF Elements
<1>9. Head(s) \in Elements(s)
  <2>1. 1 \in 1 .. n BY <1>1, <1>2
  <2> QED BY <1>1, <1>3, <2>1 DEF Elements
<1> QED BY <1>3, <1>6, <1>7, <1>8, <1>9 DEF n

-----------------------------------------------------------------------------
(* What every step has to do: keep the invariant, start no process in a shutdown, and move
   the applications the way AppLifeCycle allows *)

NoNewProcess ==
    am.shuttingDown =>
        \A r \in Runtimes : Alive(r)' /\ ~Alive(r) => rt[r].waits # "no"

LifeOf(a) == [phase |-> Phase(a), blocked |-> app[a].blocked, late |-> a \in late]

LivesOn == \A a \in Apps : LifeOf(a)' \in Life!Moves(LifeOf(a))

Step == AppInv' /\ NoNewProcess /\ LivesOn

LEMMA LifeTyped ==
    ASSUME TypeOK, NEW a \in Apps
    PROVE  /\ LifeOf(a) \in Life!Lives
           /\ LifeOf(a).phase = Phase(a) /\ LifeOf(a).blocked = app[a].blocked
           /\ LifeOf(a).late = (a \in late)
<1>1. app[a] \in Application BY Fields
<1> QED BY <1>1 DEF LifeOf, Phase, Life!Lives, Life!Phases, Application

(* an application keeps its block and its phase, or makes progress, or looks running once
   more *)
LEMMA LifeGoesOn ==
    ASSUME TypeOK, NEW a \in Apps, app'[a] \in Application,
           app'[a].blocked = app[a].blocked, a \in late => a \in late',
           \/ Phase(a)' = Phase(a)
           \/ <<Phase(a), Phase(a)'>> \in Life!Progress
           \/ ~app[a].blocked /\ <<Phase(a), Phase(a)'>> \in Life!Begin
           \/ a \in late' /\ <<Phase(a), Phase(a)'>> = <<"NotRunning", "Running">>
    PROVE  LifeOf(a)' \in Life!Moves(LifeOf(a))
<1>1. LifeOf(a)' \in Life!Lives
  BY DEF LifeOf, Phase, Life!Lives, Life!Phases, Application
<1>2. LifeOf(a)'.phase = Phase(a)' /\ LifeOf(a)'.blocked = app'[a].blocked
      /\ LifeOf(a)'.late = (a \in late')
  BY DEF LifeOf
<1> QED BY <1>1, <1>2, LifeTyped DEF Life!Moves

(* an application that is left alone *)
LEMMA SameLife ==
    ASSUME TypeOK, NEW a \in Apps, app'[a] = app[a], a \in late => a \in late'
    PROVE  LifeOf(a)' \in Life!Moves(LifeOf(a))
<1>1. app[a] \in Application BY Fields
<1>2. Phase(a)' = Phase(a) BY DEF Phase
<1> QED BY <1>1, <1>2, LifeGoesOn

LEMMA CallsMove ==
    ASSUME AppInv, Calls
    PROVE  NoNewProcess /\ LivesOn
<1>0. TypeOK BY DEF AppInv
<1>1. NoNewProcess BY DEF Calls, RuntimeMoves, NoNewProcess, Alive, Live
<1>2. ASSUME NEW a \in Apps PROVE LifeOf(a)' \in Life!Moves(LifeOf(a))
  <2>1. a \in late => a \in late' BY DEF Calls
  <2>2. CASE app'[a] = app[a] BY <1>0, <2>1, <2>2, SameLife
  <2>3. CASE \/ app[a].runtime # None /\ OwnerMoves(a, app'[a], rt'[app[a].runtime])
             \/ a \in late' /\ LateMoves(a, app'[a])
    <3>1. app[a] \in Application /\ app'[a] \in Application
      BY <1>0, <2>3, Fields DEF OwnerMoves, LateMoves
    <3>2. app[a].exists /\ app'[a].exists = TRUE /\ app'[a].blocked = app[a].blocked
      BY <2>3, <3>1 DEF AppInv, AppFits, OwnerMoves, LateMoves, Application
    <3>3. \/ /\ app'[a].runtime = app[a].runtime
             /\ app'[a].waiting = app[a].waiting
             /\ app[a].runState # "NotRunning" => app'[a].runState # "NotRunning"
             /\ (a \in late' /\ app'[a].runState # "NotRunning") \/ app[a].runtime # None
          \/ app'[a].runtime = None /\ app'[a].runState = "NotRunning" /\ ~app'[a].waiting
      BY <2>3 DEF OwnerMoves, LateMoves
    <3>4. \/ Phase(a)' = "NotRunning"
             /\ Phase(a) \in {"NotRunning", "Pending", "Running", "ShuttingDown"}
          \/ Phase(a)' = Phase(a)
          \/ Phase(a) = "Pending" /\ Phase(a)' = "Running"
          \/ a \in late' /\ Phase(a) = "NotRunning" /\ Phase(a)' = "Running"
      BY <3>2, <3>3 DEF Phase
    <3>5. \/ Phase(a)' = Phase(a)
          \/ <<Phase(a), Phase(a)'>> \in Life!Progress
          \/ a \in late' /\ <<Phase(a), Phase(a)'>> = <<"NotRunning", "Running">>
      BY <3>4 DEF Life!Progress
    <3> QED BY <1>0, <2>1, <3>1, <3>2, <3>5, LifeGoesOn
  <2> QED BY <2>2, <2>3 DEF Calls, OthersMove
<1> QED BY <1>1, <1>2 DEF LivesOn

-----------------------------------------------------------------------------
(* The steps *)

LEMMA CallsStep ==
    ASSUME AppInv, Calls, QuickKept, QuickCounts, am' = am
    PROVE  Step
BY CallStep, CallsMove DEF Step

(* the parts that have reported *)
LEMMA ReportedIs ==
    ASSUME am \in Manager, am.exit = "no", NEW parts \in SUBSET Parts
    PROVE  /\ Reported(parts) \in Manager
           /\ Reported(parts).down = am.down \cup parts
           /\ Reported(parts).compositor = am.compositor
           /\ Reported(parts).shuttingDown = am.shuttingDown
           /\ Reported(parts).awaited = am.awaited
           /\ Reported(parts).exit = "clean" => am.down \cup parts = Parts
<1> DEFINE exit == IF am.down \cup parts = Parts THEN "clean" ELSE am.exit
           down == am.down \cup parts
<1>1. exit \in {"no", "clean", "timer"} OBVIOUS
<1>2. exit = "clean" => down = Parts OBVIOUS
<1>3. down \in SUBSET Parts BY DEF Manager
<1>4. Reported(parts) = [am EXCEPT !.down = down, !.exit = exit] BY DEF Reported, Manager
<1> HIDE DEF exit, down
<1>5. /\ Reported(parts) \in Manager
      /\ Reported(parts).down = down
      /\ Reported(parts).compositor = am.compositor
      /\ Reported(parts).shuttingDown = am.shuttingDown
      /\ Reported(parts).awaited = am.awaited
      /\ Reported(parts).exit = exit
  BY <1>1, <1>3, <1>4 DEF Manager
<1> QED BY <1>2, <1>5 DEF down

LEMMA CompositorStep ==
    ASSUME AppInv, SetWindowManagerCompositorReady
    PROVE  Step
<1>1. Calls /\ QuickKept /\ QuickCounts BY SetWindowManagerCompositorReadyAnswered
<1>2. PairsFit' /\ (NoneCurrent => NoneCurrent') BY <1>1, CallsFit
<1>3. am \in Manager BY DEF AppInv, TypeOK
<1>4. /\ am' \in Manager /\ am'.shuttingDown = am.shuttingDown /\ am'.awaited = am.awaited
      /\ am'.down = am.down /\ am'.exit = am.exit
  BY <1>3 DEF SetWindowManagerCompositorReady, Manager
<1>5. Pooled' = Pooled BY <1>1 DEF QuickCounts, Pooled
<1>6. PoolFits' BY <1>1, <1>5 DEF AppInv, PoolFits, QuickCounts, QuickKept
<1>7. DownFits' BY <1>1, <1>2, <1>4 DEF AppInv, DownFits, QuickCounts
<1>8. TypeOK' BY <1>1, <1>2, <1>4 DEF Calls, PairsFit, QuickCounts, TypeOK, QuickTypeOK
<1>9. AppInv' BY <1>2, <1>6, <1>7, <1>8 DEF AppInv, PairsFit
<1> QED BY <1>1, <1>9, CallsMove DEF Step

LEMMA ShutDownStep ==
    ASSUME AppInv, ShutDown
    PROVE  Step
<1>0. TypeOK BY DEF AppInv
<1> DEFINE C == CurrentRuntimes
           S == C \cup Pooled
           w == [r \in S |-> IF r \in Pooled THEN NativeStop(World, r, FALSE)
                             ELSE Stop(World, r, FALSE)]
<1>1. \A r \in Runtimes : r \in Pooled => rt[r].quick /\ rt[r].app = None /\ ~Forgotten(r)
  BY DEF AppInv, PoolFits, ObjectFits, Forgotten
<1>2. Pooled \in SUBSET Runtimes
  BY <1>0 DEF Pooled, TypeOK, QuickTypeOK, QuickLaunchEntry
<1>3. S \in SUBSET Runtimes BY <1>2, CurrentKnown
<1>4. /\ app' = [a \in Apps |-> IF app[a].runtime \in C
                                THEN Stop(World, app[a].runtime, FALSE).app[a] ELSE app[a]]
      /\ rt' = [r \in Runtimes |->
                  IF r \in Pooled THEN NativeStop(World, r, FALSE).rt[r]
                  ELSE IF r \in C THEN Stop(World, r, FALSE).rt[r] ELSE rt[r]]
  BY DEF ShutDown, Becomes, Together
<1>5. \A r \in C : r \notin Pooled
  <2> SUFFICES ASSUME NEW r \in C, r \in Pooled PROVE FALSE OBVIOUS
  <2>1. PICK a \in Apps : r = app[a].runtime /\ r # None BY DEF CurrentRuntimes
  <2>2. r \in Runtimes /\ a # None BY <1>0, <2>1, Fields
  <2>3. rt[r].app = a BY <2>1, <2>2, OwnerKnown
  <2> QED BY <1>1, <2>2, <2>3
<1>6. \A a \in Apps : app[a].runtime \in S <=> app[a].runtime \in C
  <2> SUFFICES ASSUME NEW a \in Apps, app[a].runtime \in Pooled PROVE app[a].runtime \in C
    OBVIOUS
  <2>1. app[a].runtime \in Runtimes BY <1>2
  <2>2. app[a].runtime # None BY <1>0, <2>1, Fields
  <2> QED BY <2>2, CurrentKnown
<1>7. \A r \in S : Answered(w[r], r)
  <2>1. FALSE \in BOOLEAN OBVIOUS
  <2>2. ASSUME NEW r \in S
        PROVE  Answered(Stop(World, r, FALSE), r) /\ Answered(NativeStop(World, r, FALSE), r)
    <3>1. r \in Runtimes /\ ~Forgotten(r) BY <1>1, <1>3, CurrentKnown
    <3> QED BY <2>1, <3>1, StopAnswered
  <2> QED BY <2>2
<1>8. \A r \in S : w[r] = IF r \in Pooled THEN NativeStop(World, r, FALSE)
                          ELSE Stop(World, r, FALSE)
  OBVIOUS
<1>9. \A r \in Runtimes : r \in S <=> r \in C \/ r \in Pooled OBVIOUS
<1>10. \A a \in Apps : app[a].runtime \in C =>
           app[a].runtime \in S /\ app[a].runtime \notin Pooled
  BY <1>5
<1> HIDE DEF w, S, C
<1>11. app' = [a \in Apps |-> IF app[a].runtime \in S THEN w[app[a].runtime].app[a]
                              ELSE app[a]]
  BY <1>4, <1>6, <1>8, <1>10
<1>12. rt' = [r \in Runtimes |-> IF r \in S THEN w[r].rt[r] ELSE rt[r]]
  BY <1>4, <1>8, <1>9
<1>13. Calls /\ QuickKept
  <2>1. late' = late BY DEF ShutDown
  <2> QED BY <1>3, <1>7, <1>11, <1>12, <2>1, ManyCalls
<1>14. PairsFit' /\ (NoneCurrent => NoneCurrent') BY <1>13, CallsFit
<1>15. ql' \in QuickLaunchEntry /\ ql'.pool = ql.pool /\ ql'.shuttingDown = TRUE
  BY <1>0 DEF ShutDown, TypeOK, QuickTypeOK, QuickLaunchEntry
<1>16. Pooled' = Pooled BY <1>15 DEF Pooled
<1>17. PoolFits' BY <1>13, <1>15, <1>16 DEF AppInv, PoolFits, QuickKept
<1>18. am \in Manager /\ am.exit = "no" /\ ~am.shuttingDown /\ am.down = {}
  BY <1>0 DEF ShutDown, TypeOK, AppInv, DownFits
<1> DEFINE parts == IF C = {} THEN {"applications"} ELSE {}
<1>19. am' = [Reported(parts) EXCEPT !.shuttingDown = TRUE, !.awaited = C]
  BY DEF ShutDown, C
<1>20. parts \in SUBSET Parts /\ ("applications" \in parts => NoneCurrent)
       /\ "quickLaunchers" \notin parts
  BY CurrentKnown DEF Parts, C
<1>21. C \in SUBSET Runtimes BY CurrentKnown DEF C
<1> HIDE DEF parts
<1>22. /\ Reported(parts) \in Manager /\ Reported(parts).down = parts
       /\ Reported(parts).exit = "clean" => parts = Parts
  <2>1. am.down \cup parts = parts BY <1>18
  <2> QED BY <1>18, <1>20, <2>1, ReportedIs
<1>23. /\ am' \in Manager /\ am'.shuttingDown = TRUE /\ am'.down = parts
       /\ am'.exit = "clean" => parts = Parts
  BY <1>19, <1>21, <1>22 DEF Manager
<1>24. DownFits' BY <1>14, <1>15, <1>20, <1>23 DEF DownFits
<1>25. TypeOK' BY <1>13, <1>14, <1>15, <1>23 DEF Calls, PairsFit, TypeOK, QuickTypeOK
<1>26. AppInv' BY <1>14, <1>17, <1>24, <1>25 DEF AppInv, PairsFit
<1> QED BY <1>13, <1>26, CallsMove DEF Step

LEMMA EmptyPoolShutDownStep ==
    ASSUME AppInv, EmptyPoolShutDown
    PROVE  Step
<1>0. TypeOK /\ app' = app /\ rt' = rt /\ ql' = ql /\ late' = late
  BY DEF AppInv, EmptyPoolShutDown
<1>1. am \in Manager /\ am.exit = "no" /\ am.shuttingDown = TRUE /\ ql.pool = <<>>
  BY <1>0 DEF TypeOK, Manager, EmptyPoolShutDown, AppInv, DownFits
<1>2. {"quickLaunchers"} \in SUBSET Parts BY DEF Parts
<1>3. am' = Reported({"quickLaunchers"}) BY DEF EmptyPoolShutDown
<1>4. /\ am' \in Manager /\ am'.down = am.down \cup {"quickLaunchers"}
      /\ am'.shuttingDown = TRUE /\ (am'.exit = "clean" => am'.down = Parts)
  BY <1>1, <1>2, <1>3, ReportedIs
<1>5. DownFits' BY <1>0, <1>1, <1>4 DEF AppInv, DownFits, NoneCurrent
<1>6. PoolFits' BY <1>0 DEF AppInv, PoolFits, Pooled
<1>7. TypeOK' BY <1>0, <1>4 DEF TypeOK, RuntimeTypeOK, QuickTypeOK
<1>8. \A r \in Runtimes : ObjectFits(rt[r])' /\ RuntimeFits(r)'
  BY <1>0 DEF AppInv, RuntimeFits, Kind
<1>9. \A a \in Apps : AppFits(a)' BY <1>0 DEF AppInv, AppFits
<1>10. NoNewProcess BY <1>0 DEF NoNewProcess, Alive
<1>11. LivesOn BY <1>0, SameLife DEF LivesOn
<1> QED BY <1>5, <1>6, <1>7, <1>8, <1>9, <1>10, <1>11 DEF AppInv, Step

(* what is left of an application that is gone *)
LEMMA GoneIs == Life!Gone = [phase |-> "gone", blocked |-> FALSE, late |-> FALSE]
<1>1. PICK f : f = FALSE OBVIOUS
<1>2. Life!Unstarted = [phase |-> "NotRunning", blocked |-> f, late |-> f]
  BY Zenon, <1>1 DEF Life!Unstarted
<1>3. [phase |-> "gone", blocked |-> FALSE, late |-> FALSE]
          = [phase |-> "gone", blocked |-> f, late |-> f]
  BY Zenon, <1>1
<1>4. Life!Gone = [phase |-> "gone", blocked |-> f, late |-> f] BY <1>2 DEF Life!Gone
<1> QED BY Zenon, <1>3, <1>4

LEMMA ShutDownTimerStep ==
    ASSUME AppInv, ShutDownTimer
    PROVE  /\ AppInv' /\ NoNewProcess
           /\ \A a \in Apps : LifeOf(a)' = Life!Gone
<1>0. TypeOK BY DEF AppInv
<1>1. /\ app' = [a \in Apps |-> Unregistered] /\ rt' = [r \in Runtimes |-> NoRuntime]
      /\ late' = {}
      /\ ql' = [ql EXCEPT !.pool = <<>>]
      /\ am' = [am EXCEPT !.exit = "timer", !.awaited = {}, !.down = {}]
      /\ am.shuttingDown
  BY DEF ShutDownTimer
<1>2. Unregistered \in Application
  BY DEF Unregistered, Application, RunState, AppKinds, NativeKinds
<1>3. RuntimeTypeOK' BY <1>1, <1>2, NoRuntimeFits DEF RuntimeTypeOK
<1>4. ql' \in QuickLaunchEntry /\ ql'.pool = <<>> /\ ql'.shuttingDown = ql.shuttingDown
  <2>1. <<>> \in Seq(Runtimes) BY EmptySeq
  <2> QED BY <1>0, <1>1, <2>1 DEF TypeOK, QuickTypeOK, QuickLaunchEntry
<1>5. /\ am' \in Manager /\ am'.exit = "timer" /\ am'.awaited = {} /\ am'.down = {}
      /\ am'.shuttingDown = am.shuttingDown
  BY <1>0, <1>1 DEF TypeOK, Manager
<1>6. Pooled' = {} /\ DOMAIN ql'.pool = {} /\ Len(ql'.pool) = 0
  BY <1>4 DEF Pooled
<1>7. PoolFits'
  <2>1. \A r \in Runtimes : rt'[r].quick = FALSE BY <1>1 DEF NoRuntime
  <2> QED BY <1>4, <1>6, <2>1, PoolAssumption DEF PoolFits
<1>8. DownFits' BY <1>1, <1>4, <1>5 DEF AppInv, DownFits
<1>9. \A r \in Runtimes : ObjectFits(rt[r])' /\ RuntimeFits(r)'
  BY <1>1, NoRuntimeFits DEF RuntimeFits, NoRuntime
<1>10. \A a \in Apps : AppFits(a)' BY <1>1 DEF AppFits, Unregistered
<1>11. NoNewProcess BY <1>1 DEF NoNewProcess, Alive, NoRuntime
<1>12. ASSUME NEW a \in Apps PROVE LifeOf(a)' = Life!Gone
  <2>1. app'[a].exists = FALSE /\ app'[a].blocked = FALSE /\ a \notin late'
    BY <1>1 DEF Unregistered
  <2>2. Phase(a)' = "gone" BY <2>1 DEF Phase
  <2>3. (a \in late') = FALSE BY <2>1
  <2> QED BY Zenon, <2>1, <2>2, <2>3, GoneIs DEF LifeOf
<1> QED BY <1>1, <1>3, <1>4, <1>5, <1>7, <1>8, <1>9, <1>10, <1>11, <1>12
      DEF AppInv, TypeOK, QuickTypeOK

(* a runtime is destroyed *)
LEMMA DestroyCalls ==
    ASSUME AppInv, NEW r \in Runtimes, Becomes(Destroy(World, r)), UNCHANGED late
    PROVE  Calls /\ rt' = [rt EXCEPT ![r] = NoRuntime]
<1>0. TypeOK BY DEF AppInv
<1>1. World \in Worlds /\ World.app = app /\ World.rt = rt BY <1>0, WorldTyped
<1>2. PICK v : v = Destroy(World, r) OBVIOUS
<1>3. app' = v.app /\ rt' = v.rt BY <1>2 DEF Becomes
<1>4. \A a, b \in Apps : World.app[a].runtime = r /\ World.app[b].runtime = r => a = b
  BY <1>1, OwnerKnown
<1>5. /\ v \in Worlds /\ v.rt[r] = NoRuntime
      /\ \A q \in Runtimes : q # r => v.rt[q] = World.rt[q]
      /\ \A a \in Apps : v.app[a] = IF World.app[a].runtime = r THEN Forget(World.app[a])
                                    ELSE World.app[a]
  BY <1>1, <1>2, <1>4, DestroyIs
<1>6. /\ app' \in [Apps -> Application] /\ rt' \in [Runtimes -> RuntimeObject]
      /\ rt'[r] = NoRuntime /\ \A q \in Runtimes : q # r => rt'[q] = rt[q]
      /\ \A a \in Apps : app'[a] = IF app[a].runtime = r THEN Forget(app[a]) ELSE app[a]
  BY <1>1, <1>3, <1>5, WorldFields
<1>7. rt' = [rt EXCEPT ![r] = NoRuntime] BY <1>0, <1>6, Fields
<1>8. ASSUME NEW q \in Runtimes PROVE RuntimeMoves(q, rt'[q])
  <2>1. CASE q # r BY <1>6, <2>1, NothingMoves
  <2>2. CASE q = r
    <3>1. ~Live(NoRuntime) BY DEF NoRuntime, Live
    <3> QED BY <1>6, <2>2, <3>1, NoRuntimeFits DEF RuntimeMoves
  <2> QED BY <2>1, <2>2
<1>9. ASSUME NEW a \in Apps
      PROVE  \/ app[a].runtime # None /\ OwnerMoves(a, app'[a], rt'[app[a].runtime])
             \/ /\ OthersMove(a)
                /\ app[a].runtime # None => rt'[app[a].runtime] = rt[app[a].runtime]
  <2>1. r # None /\ app[a] \in Application BY <1>0, Fields
  <2>2. CASE app[a].runtime = r
    <3>1. app[a].waiting => app[a].runState # "NotRunning" BY <2>2, OwnerKnown
    <3>2. app'[a] = Forget(app[a]) /\ rt'[r] = NoRuntime BY <1>6, <2>2
    <3> QED BY <2>1, <2>2, <3>1, <3>2, ForgetTyped, NoRuntimeFits DEF OwnerMoves
  <2>3. CASE app[a].runtime # r
    <3>1. app'[a] = app[a] BY <1>6, <2>3
    <3>2. app[a].runtime # None => rt'[app[a].runtime] = rt[app[a].runtime]
      BY <1>0, <1>6, <2>3, Fields
    <3> QED BY <3>1, <3>2 DEF OthersMove
  <2> QED BY <2>2, <2>3
<1>10. late' \subseteq Apps BY <1>0 DEF TypeOK
<1> QED BY <1>6, <1>7, <1>8, <1>9, <1>10 DEF Calls

LEMMA DeleteRuntimeStep ==
    ASSUME AppInv, NEW r \in Runtimes, DeleteRuntime(r)
    PROVE  Step
<1>0. TypeOK BY DEF AppInv
<1>1. Becomes(Destroy(World, r)) /\ late' = late BY DEF DeleteRuntime
<1>2. Calls /\ rt' = [rt EXCEPT ![r] = NoRuntime] BY <1>1, DestroyCalls
<1>3. PairsFit' /\ (NoneCurrent => NoneCurrent') BY <1>2, CallsFit
<1>4. ql \in QuickLaunchEntry /\ ql.pool \in Seq(Runtimes) /\ Once(ql.pool)
      /\ Elements(ql.pool) = Pooled /\ Len(ql.pool) \in Nat
  BY <1>0, LenProperties
     DEF TypeOK, QuickTypeOK, QuickLaunchEntry, AppInv, PoolFits, Once, Elements, Pooled
<1>5. PICK t : t = RemoveFirst(ql.pool, r) OBVIOUS
<1>6. /\ t \in Seq(Runtimes) /\ Once(t) /\ Elements(t) = Pooled \ {r}
      /\ Len(t) = IF r \in Pooled THEN Len(ql.pool) - 1 ELSE Len(ql.pool)
  BY <1>4, <1>5, RemovedFirst
<1>7. ql' = [ql EXCEPT !.pool = t] BY <1>5 DEF DeleteRuntime, Removed
<1>8. ql' \in QuickLaunchEntry /\ ql'.pool = t /\ ql'.shuttingDown = ql.shuttingDown
  BY <1>4, <1>6, <1>7 DEF QuickLaunchEntry
<1>9. Pooled' = Pooled \ {r} BY <1>6, <1>8 DEF Pooled, Elements
<1>10. PoolFits'
  <2>1. Len(ql'.pool) <= PoolMax
    BY <1>4, <1>6, <1>8, PoolAssumption DEF AppInv, PoolFits
  <2>2. \A q \in Runtimes : rt'[q].quick <=> q \in Pooled'
    <3>1. rt'[r].quick = FALSE BY <1>0, <1>2, Fields DEF NoRuntime
    <3>2. \A q \in Runtimes : q # r => rt'[q] = rt[q] BY <1>0, <1>2, Fields
    <3> QED BY <1>9, <3>1, <3>2 DEF AppInv, PoolFits
  <2>3. \A i, j \in DOMAIN ql'.pool : ql'.pool[i] = ql'.pool[j] => i = j
    BY <1>6, <1>8 DEF Once
  <2> QED BY <2>1, <2>2, <2>3 DEF PoolFits
<1> DEFINE apps == IF r \in am.awaited /\ \A a \in Apps : app'[a].runtime = None
                   THEN {"applications"} ELSE {}
           last == IF ql.shuttingDown /\ r \in Pooled /\ Len(ql.pool) = 1
                   THEN {"quickLaunchers"} ELSE {}
           parts == apps \cup last
<1>11. am' = [Reported(parts) EXCEPT !.awaited = @ \ {r}]
  BY <1>1 DEF DeleteRuntime, Becomes
<1>12. am \in Manager /\ am.exit = "no" BY <1>0 DEF DeleteRuntime, TypeOK
<1>13. /\ parts \in SUBSET Parts
       /\ "applications" \in parts => NoneCurrent' /\ am.awaited # {}
       /\ "quickLaunchers" \in parts => ql.shuttingDown /\ ql'.pool = <<>>
  <2>1. parts \in SUBSET Parts BY DEF Parts
  <2>2. "applications" \in parts => NoneCurrent' /\ am.awaited # {} BY DEF NoneCurrent
  <2>3. ASSUME "quickLaunchers" \in parts PROVE ql.shuttingDown /\ ql'.pool = <<>>
    <3>1. ql.shuttingDown /\ r \in Pooled /\ Len(ql.pool) = 1 BY <2>3
    <3>2. Len(t) = 0 BY <1>6, <3>1
    <3> QED BY <1>6, <1>8, <3>1, <3>2, EmptySeq
  <2> QED BY <2>1, <2>2, <2>3
<1>14. ql.pool = <<>> => ql'.pool = <<>>
  <2>1. ASSUME ql.pool = <<>> PROVE ql'.pool = <<>>
    <3>1. DOMAIN ql.pool = {} BY <2>1
    <3>2. r \notin Pooled BY <3>1 DEF Pooled
    <3>3. Len(t) = 0 BY <1>6, <2>1, <3>2
    <3> QED BY <1>6, <1>8, <3>3, EmptySeq
  <2> QED BY <2>1
<1> HIDE DEF parts
<1>15. /\ Reported(parts) \in Manager
       /\ Reported(parts).down = am.down \cup parts
       /\ Reported(parts).shuttingDown = am.shuttingDown
       /\ Reported(parts).awaited = am.awaited
       /\ Reported(parts).exit = "clean" => am.down \cup parts = Parts
  BY <1>12, <1>13, ReportedIs
<1>16. /\ am' \in Manager /\ am'.down = am.down \cup parts
       /\ am'.shuttingDown = am.shuttingDown /\ am'.awaited = am.awaited \ {r}
       /\ am'.exit = "clean" => am.down \cup parts = Parts
  BY <1>11, <1>15 DEF Manager
<1>17. DownFits'
  <2>1. am'.shuttingDown = ql'.shuttingDown BY <1>8, <1>16 DEF AppInv, DownFits
  <2>2. am'.down # {} \/ am'.awaited # {} => am'.shuttingDown
    <3>1. parts # {} => "applications" \in parts \/ "quickLaunchers" \in parts
      BY <1>13 DEF Parts
    <3> QED BY <1>13, <1>16, <3>1 DEF AppInv, DownFits
  <2>3. "applications" \in am'.down => NoneCurrent'
    BY <1>3, <1>13, <1>16 DEF AppInv, DownFits
  <2>4. "quickLaunchers" \in am'.down => ql'.pool = <<>>
    BY <1>13, <1>14, <1>16 DEF AppInv, DownFits
  <2>5. am'.exit = "clean" => am'.down = Parts BY <1>16
  <2> QED BY <2>1, <2>2, <2>3, <2>4, <2>5 DEF DownFits
<1>18. TypeOK' BY <1>2, <1>3, <1>8, <1>16 DEF Calls, PairsFit, TypeOK, QuickTypeOK
<1>19. AppInv' BY <1>3, <1>10, <1>17, <1>18 DEF AppInv, PairsFit
<1> QED BY <1>2, <1>19, CallsMove DEF Step

(* a step that changes blocks and states, but no connection between application and runtime *)
LEMMA EditStep ==
    ASSUME AppInv, ql' = ql, am' = am, late' = late, app' \in [Apps -> Application],
           rt' \in [Runtimes -> RuntimeObject],
           \A a \in Apps : app'[a].runtime = app[a].runtime /\ AppFits(a)',
           \A a \in Apps : app[a].exists => app'[a].exists /\ app'[a].kind = app[a].kind,
           \A r \in Runtimes : /\ rt'[r].app = rt[r].app /\ rt'[r].kind = rt[r].kind
                               /\ rt'[r].quick = rt[r].quick
                               /\ ObjectFits(rt'[r])
                               /\ Forgotten(r) => rt'[r] = rt[r]
    PROVE  AppInv'
<1>0. TypeOK BY DEF AppInv
<1>1. TypeOK' BY <1>0 DEF TypeOK, RuntimeTypeOK, QuickTypeOK
<1>2. PoolFits' BY DEF AppInv, PoolFits, Pooled
<1>3. DownFits' BY DEF AppInv, DownFits, NoneCurrent
<1>4. ASSUME NEW r \in Runtimes PROVE RuntimeFits(r)'
  <2>1. RuntimeFits(r) /\ (rt[r].app # None => rt[r].app \in Apps)
    BY <1>0, Fields DEF AppInv
  <2>2. CASE Forgotten(r) BY <2>1, <2>2 DEF RuntimeFits, Forgotten, Kind
  <2>3. CASE ~Forgotten(r) BY <2>1, <2>3 DEF RuntimeFits, Forgotten, Kind
  <2> QED BY <2>2, <2>3
<1> QED BY <1>1, <1>2, <1>3, <1>4 DEF AppInv

LEMMA BlockStep ==
    ASSUME AppInv, NEW a \in Apps, Block(a)
    PROVE  Step
<1>0. TypeOK /\ ql' = ql /\ am' = am /\ late' = late /\ app[a].exists /\ ~app[a].blocked
  BY DEF AppInv, Block
<1>1. World \in Worlds /\ World.app = app /\ World.rt = rt BY <1>0, WorldTyped
<1>2. app[a] \in Application /\ AppFits(a) BY <1>0, Fields DEF AppInv
<1> DEFINE waits == app[a].runState # "NotRunning"
           y == [app[a] EXCEPT !.blocked = TRUE, !.waiting = waits]
<1>3. waits \in BOOLEAN OBVIOUS
<1>4. PICK v : v = [World EXCEPT !.app[a] = y] OBVIOUS
<1>5. Becomes(IF ~waits \/ app[a].runtime = None THEN v ELSE Stop(v, app[a].runtime, TRUE))
  <2>1. v = [World EXCEPT !.app[a].blocked = TRUE,
                          !.app[a].waiting = app[a].runState # "NotRunning"]
    <3>1. PICK b : b = waits OBVIOUS
    <3>2. y = [app[a] EXCEPT !.blocked = TRUE, !.waiting = b] BY Zenon, <3>1
    <3>3. (app[a].runState # "NotRunning") = b BY Zenon, <3>1
    <3> HIDE DEF waits, y
    <3>4. v = [World EXCEPT !.app[a].blocked = TRUE, !.app[a].waiting = b]
      BY <1>1, <1>2, <1>4, <3>2 DEF Worlds, Application
    <3> QED BY Zenon, <3>3, <3>4
  <2>2. PICK free : free = (app[a].runState = "NotRunning" \/ app[a].runtime = None) OBVIOUS
  <2>3. Becomes(IF free THEN v ELSE Stop(v, app[a].runtime, TRUE))
    BY Zenon, <2>1, <2>2 DEF Block
  <2>4. free <=> ~waits \/ app[a].runtime = None BY Zenon, <2>2
  <2> HIDE DEF waits
  <2>5. CASE free BY Zenon, <2>3, <2>4, <2>5
  <2>6. CASE ~free BY Zenon, <2>3, <2>4, <2>6
  <2> QED BY <2>5, <2>6
<1>6. waits <=> app[a].runState # "NotRunning" OBVIOUS
<1>7. ~app[a].waiting BY <1>0, <1>2 DEF AppFits
<1> HIDE DEF waits
<1>8. /\ y \in Application /\ y.exists = TRUE /\ y.blocked = TRUE /\ y.waiting = waits
      /\ y.runtime = app[a].runtime /\ y.runState = app[a].runState /\ y.kind = app[a].kind
  BY <1>0, <1>2, <1>3 DEF Application
<1> HIDE DEF y
<1>9. v \in Worlds /\ v.app[a] = y /\ v.rt = rt /\ \A b \in Apps : b # a => v.app[b] = app[b]
  BY <1>1, <1>4, <1>8 DEF Worlds
<1>10. LifeOf(a).phase = Phase(a) /\ LifeOf(a).blocked = FALSE
       /\ LifeOf(a)'.phase = Phase(a)' /\ LifeOf(a)'.blocked = app'[a].blocked
       /\ LifeOf(a)'.late = LifeOf(a).late
  BY <1>0, <1>2 DEF LifeOf, Application
<1>11. CASE ~waits \/ app[a].runtime = None
  <2>1. app' = v.app /\ rt' = rt BY <1>5, <1>9, <1>11 DEF Becomes
  <2>3. app' \in [Apps -> Application] /\ rt' \in [Runtimes -> RuntimeObject]
    BY <1>0, <1>9, <2>1, WorldFields, Fields
  <2>4. AppFits(a)' BY <1>0, <1>2, <1>6, <1>8, <1>9, <2>1 DEF AppFits
  <2>5. ASSUME NEW b \in Apps
        PROVE  /\ app'[b].runtime = app[b].runtime /\ AppFits(b)'
               /\ app[b].exists => app'[b].exists /\ app'[b].kind = app[b].kind
    <3>1. CASE b = a BY <1>8, <1>9, <2>1, <2>4, <3>1
    <3>2. CASE b # a BY <1>0, <1>9, <2>1, <3>2 DEF AppInv, AppFits
    <3> QED BY <3>1, <3>2
  <2>6. AppInv' BY <1>0, <2>1, <2>3, <2>5, EditStep DEF AppInv
  <2>7. LifeOf(a)' \in Life!Moves(LifeOf(a))
    <3>1. \/ Phase(a)' = Phase(a) /\ Phase(a) \in {"NotRunning", "Pending"}
          \/ Phase(a) = "Running" /\ Phase(a)' = "ShuttingDown"
      BY <1>0, <1>6, <1>7, <1>8, <1>9, <2>1 DEF Phase
    <3>2. LifeOf(a)' \in Life!Lives
      BY <2>3 DEF LifeOf, Phase, Life!Lives, Life!Phases, Application
    <3> QED BY <1>8, <1>9, <1>10, <2>1, <3>1, <3>2 DEF Life!Moves
  <2>8. LivesOn BY <1>0, <1>9, <2>1, <2>7, SameLife DEF LivesOn
  <2>9. NoNewProcess BY <2>1 DEF NoNewProcess, Alive
  <2> QED BY <2>6, <2>8, <2>9 DEF Step
<1>12. CASE waits /\ app[a].runtime # None
  <2>1. PICK r \in Runtimes : r = app[a].runtime BY <1>0, <1>12, Fields
  <2>2. /\ rt[r].watch = a /\ rt[r].app = a /\ ~Forgotten(r)
        /\ a \notin late => app[a].runState = rt[r].state
    BY <2>1, OwnerKnown
  <2>3. PICK w : w = Stop(v, r, TRUE) OBVIOUS
  <2>4. app' = w.app /\ rt' = w.rt BY <1>5, <1>12, <2>1, <2>3 DEF Becomes
  <2>5. \/ w = v
        \/ /\ rt[r].kind = "inproc" \/ rt[r].process # "none"
           /\ Stopped(rt[r], w.rt[r])
           /\ Told(v, w, r, a, "ShuttingDown")
    <3>1. TRUE \in BOOLEAN /\ a = v.rt[r].watch BY <1>9, <2>2
    <3> QED BY <1>9, <2>3, <3>1, StopIs
  <2>6. /\ w \in Worlds
        /\ \A q \in Runtimes : q # r => w.rt[q] = rt[q]
        /\ \A b \in Apps : b # a => w.app[b] = app[b]
    BY <1>9, <2>5 DEF Told, Touches
  <2>7. /\ w.rt[r].app = a /\ w.rt[r].quick = rt[r].quick /\ ObjectFits(w.rt[r])
        /\ w.rt[r].process = rt[r].process /\ w.rt[r].kind = rt[r].kind
    <3>1. CASE w = v BY <1>9, <2>2, <3>1 DEF AppInv
    <3>2. CASE /\ rt[r].kind = "inproc" \/ rt[r].process # "none"
               /\ Stopped(rt[r], w.rt[r])
      BY <2>2, <3>2, StoppedFits DEF Stopped
    <3> QED BY <2>5, <3>1, <3>2
  <2>8. /\ w.app[a] \in Application /\ w.app[a].exists = TRUE /\ w.app[a].blocked = TRUE
        /\ w.app[a].waiting = TRUE /\ w.app[a].runtime = r /\ w.app[a].kind = app[a].kind
        /\ a \notin late => w.app[a].runState = w.rt[r].state
        /\ w.app[a].runState # "NotRunning"
    <3>1. CASE w = v BY <1>6, <1>8, <1>9, <1>12, <2>1, <2>2, <3>1
    <3>2. CASE Stopped(rt[r], w.rt[r]) /\ Told(v, w, r, a, "ShuttingDown")
      <4>1. a # None BY <1>0, Fields
      <4>2. w.app[a] = IF rt[r].state = "ShuttingDown" THEN y ELSE Report(y, "ShuttingDown")
        BY <1>9, <3>2, <4>1 DEF Told
      <4>3. w.rt[r].state = "ShuttingDown" BY <3>2 DEF Stopped
      <4>4. "ShuttingDown" \in RunState BY DEF RunState
      <4>5. CASE rt[r].state = "ShuttingDown"
        <5>1. w.app[a] = y BY <4>2, <4>5
        <5>2. a \notin late => app[a].runState = rt[r].state
          BY <1>2, <1>12, <2>1, <4>1 DEF AppFits
        <5> QED BY <1>3, <1>6, <1>8, <1>12, <2>1, <4>3, <4>5, <5>1, <5>2
      <4>6. CASE rt[r].state # "ShuttingDown"
        <5>1. w.app[a] = Report(y, "ShuttingDown") /\ y.waiting = TRUE
          BY <1>3, <1>8, <1>12, <4>2, <4>6
        <5>2. Report(y, "ShuttingDown") \in Application
              /\ Report(y, "ShuttingDown").waiting
          BY <1>8, <4>4, <5>1, ReportTyped
        <5>3. Report(y, "ShuttingDown").waiting = TRUE BY <5>2 DEF Application
        <5> QED BY <1>8, <2>1, <4>3, <4>4, <5>1, <5>2, <5>3, ReportTyped
      <4> QED BY <4>5, <4>6
    <3> QED BY <2>5, <3>1, <3>2
  <2>9. app' \in [Apps -> Application] /\ rt' \in [Runtimes -> RuntimeObject]
    BY <2>4, <2>6, WorldFields
  <2>10. AppFits(a)'
    <3>1. r # None BY <1>0, Fields
    <3> QED BY <1>0, <2>4, <2>7, <2>8, <3>1 DEF AppFits
  <2>11. ASSUME NEW b \in Apps
         PROVE  /\ app'[b].runtime = app[b].runtime /\ AppFits(b)'
                /\ app[b].exists => app'[b].exists /\ app'[b].kind = app[b].kind
    <3>1. CASE b = a BY <2>1, <2>4, <2>8, <2>10, <3>1
    <3>2. CASE b # a
      <4>1. app'[b] = app[b] /\ AppFits(b) BY <2>4, <2>6, <3>2 DEF AppInv
      <4>2. app[b].runtime # r BY <3>2, <2>2, OwnerKnown
      <4>3. app[b].runtime # None => rt'[app[b].runtime] = rt[app[b].runtime]
        BY <1>0, <2>4, <2>6, <4>2, Fields
      <4> QED BY <1>0, <4>1, <4>3 DEF AppFits
    <3> QED BY <3>1, <3>2
  <2>12. ASSUME NEW q \in Runtimes
         PROVE  /\ rt'[q].app = rt[q].app /\ rt'[q].quick = rt[q].quick
                /\ ObjectFits(rt'[q]) /\ (Forgotten(q) => rt'[q] = rt[q])
                /\ rt'[q].process = rt[q].process /\ rt'[q].kind = rt[q].kind
    <3>1. CASE q = r BY <2>2, <2>4, <2>7, <3>1
    <3>2. CASE q # r BY <2>4, <2>6, <3>2 DEF AppInv
    <3> QED BY <3>1, <3>2
  <2>13. AppInv' BY <1>0, <2>9, <2>11, <2>12, EditStep
  <2>14. LifeOf(a)' \in Life!Moves(LifeOf(a))
    <3>1. Phase(a)' = "ShuttingDown" /\ Phase(a) = "Running" /\ app'[a].blocked = TRUE
      <4>1. app'[a].exists = TRUE /\ app'[a].waiting = TRUE /\ app'[a].blocked = TRUE
        BY <2>4, <2>8
      <4>2. Phase(a)' = "ShuttingDown" BY <4>1 DEF Phase
      <4>3. Phase(a) = "Running" BY <1>0, <1>6, <1>7, <1>12 DEF Phase
      <4> QED BY <4>1, <4>2, <4>3
    <3>2. LifeOf(a)' \in Life!Lives
      BY <2>9 DEF LifeOf, Phase, Life!Lives, Life!Phases, Application
    <3> QED BY <1>10, <3>1, <3>2 DEF Life!Moves
  <2>15. LivesOn BY <1>0, <2>4, <2>6, <2>14, SameLife DEF LivesOn
  <2>16. NoNewProcess BY <2>12 DEF NoNewProcess, Alive
  <2> QED BY <2>13, <2>15, <2>16 DEF Step
<1> QED BY <1>11, <1>12

LEMMA UnblockStep ==
    ASSUME AppInv, NEW a \in Apps, Unblock(a)
    PROVE  Step
<1>0. TypeOK /\ ql' = ql /\ am' = am /\ late' = late /\ app[a].blocked
  BY DEF AppInv, Unblock
<1>1. World \in Worlds /\ World.app = app /\ World.rt = rt BY <1>0, WorldTyped
<1>2. app[a] \in Application /\ AppFits(a) BY <1>0, Fields DEF AppInv
<1> DEFINE y == [app[a] EXCEPT !.blocked = FALSE, !.waiting = FALSE]
<1>3. /\ y \in Application /\ y.exists = TRUE /\ y.blocked = FALSE /\ y.waiting = FALSE
      /\ y.runtime = app[a].runtime /\ y.runState = app[a].runState /\ y.kind = app[a].kind
  BY <1>0, <1>2 DEF Application, AppFits
<1>4. PICK w : w = [World EXCEPT !.app[a] = y] OBVIOUS
<1>5. app' = w.app /\ rt' = w.rt BY <1>1, <1>4 DEF Unblock, Becomes
<1> HIDE DEF y
<1>6. /\ app' \in [Apps -> Application] /\ rt' = rt /\ rt' \in [Runtimes -> RuntimeObject]
      /\ app'[a] = y /\ \A b \in Apps : b # a => app'[b] = app[b]
  <2>1. w \in Worlds /\ w.app[a] = y /\ w.rt = rt /\ \A b \in Apps : b # a => w.app[b] = app[b]
    BY <1>1, <1>3, <1>4 DEF Worlds
  <2> QED BY <1>5, <2>1, WorldFields
<1>7. ASSUME NEW b \in Apps
      PROVE  /\ app'[b].runtime = app[b].runtime /\ AppFits(b)'
             /\ app[b].exists => app'[b].exists /\ app'[b].kind = app[b].kind
  <2>1. CASE b = a BY <1>0, <1>2, <1>3, <1>6, <2>1 DEF AppFits
  <2>2. CASE b # a BY <1>0, <1>6, <2>2 DEF AppInv, AppFits
  <2> QED BY <2>1, <2>2
<1>8. AppInv' BY <1>0, <1>6, <1>7, EditStep DEF AppInv
<1>9. LifeOf(a)' \in Life!Moves(LifeOf(a))
  <2>1. app[a].exists BY <1>0, <1>2 DEF AppFits
  <2>2. app[a].waiting => app[a].runState # "NotRunning" BY <1>2 DEF AppFits
  <2>3. Phase(a)' = IF Phase(a) = "ShuttingDown" THEN "Running" ELSE Phase(a)
    <3>1. CASE app[a].waiting
      <4>1. Phase(a) = "ShuttingDown" BY <2>1, <3>1 DEF Phase
      <4>2. Phase(a)' = "Running" BY <1>3, <1>6, <2>2, <3>1 DEF Phase
      <4> QED BY <4>1, <4>2
    <3>2. CASE ~app[a].waiting
      <4>1. Phase(a) # "ShuttingDown" BY <3>2 DEF Phase
      <4>2. Phase(a)' = Phase(a) BY <1>3, <1>6, <2>1, <3>2 DEF Phase
      <4> QED BY <4>1, <4>2
    <3> QED BY <3>1, <3>2
  <2>4. LifeOf(a)' \in Life!Lives
    BY <1>6 DEF LifeOf, Phase, Life!Lives, Life!Phases, Application
  <2>5. LifeOf(a).phase = Phase(a) /\ LifeOf(a).blocked = TRUE
        /\ LifeOf(a)'.phase = Phase(a)' /\ LifeOf(a)'.blocked = FALSE
        /\ LifeOf(a)'.late = LifeOf(a).late
    BY <1>0, <1>2, <1>3, <1>6 DEF LifeOf, Application
  <2> QED BY <2>3, <2>4, <2>5 DEF Life!Moves
<1>10. LivesOn BY <1>0, <1>6, <1>9, SameLife DEF LivesOn
<1>11. NoNewProcess BY <1>6 DEF NoNewProcess, Alive
<1> QED BY <1>8, <1>10, <1>11 DEF Step

LEMMA RemoveApplicationStep ==
    ASSUME AppInv, NEW a \in Apps, RemoveApplication(a)
    PROVE  Step
<1>0. /\ TypeOK /\ ql' = ql /\ am' = am /\ app[a].blocked /\ ~app[a].waiting
      /\ late' = late \ {a}
  BY DEF AppInv, RemoveApplication
<1>1. app[a] \in Application /\ AppFits(a) /\ None \notin Apps /\ None \notin Runtimes
  BY <1>0, Fields DEF AppInv
<1>2. app'[a] = Unregistered /\ \A b \in Apps : b # a => app'[b] = app[b]
  BY <1>0, Fields DEF RemoveApplication
<1>3. Unregistered \in Application /\ Unregistered.runtime = None
  BY DEF Unregistered, Application, RunState, AppKinds, NativeKinds
<1>4. app' \in [Apps -> Application] BY <1>0, <1>3, Fields DEF RemoveApplication
<1>5. ASSUME NEW r \in Runtimes
      PROVE  /\ rt'[r] \in RuntimeObject /\ ObjectFits(rt'[r])
             /\ rt'[r].quick = rt[r].quick /\ rt'[r].process = rt[r].process
             /\ rt'[r].state = rt[r].state
             /\ rt'[r].app = IF rt[r].app = a THEN None ELSE rt[r].app
             /\ rt[r].app # a => rt'[r] = rt[r]
  <2>1. rt[r] \in RuntimeObject /\ ObjectFits(rt[r]) BY <1>0, Fields DEF AppInv
  <2>2. rt'[r] = [rt[r] EXCEPT !.app = IF @ = a THEN None ELSE @,
                               !.watch = IF @ = a THEN None ELSE @]
    BY DEF RemoveApplication
  <2>3. CASE rt[r].app = a
    <3>1. rt'[r] = [rt[r] EXCEPT !.app = None, !.watch = None]
      BY <2>1, <2>2, <2>3 DEF RuntimeObject, ObjectFits
    <3>2. /\ rt'[r] \in RuntimeObject
          /\ rt'[r].kind = rt[r].kind /\ rt'[r].quick = rt[r].quick /\ rt'[r].app = None
          /\ rt'[r].watch = None /\ rt'[r].state = rt[r].state /\ rt'[r].slow = rt[r].slow
          /\ rt'[r].waits = rt[r].waits /\ rt'[r].process = rt[r].process
          /\ rt'[r].link = rt[r].link /\ rt'[r].told = rt[r].told
          /\ rt'[r].surfaces = rt[r].surfaces /\ rt'[r].posted = rt[r].posted
      BY <2>1, <3>1 DEF RuntimeObject
    <3>3. rt[r].kind # "free" BY <1>1, <2>1, <2>3 DEF ObjectFits, NoRuntime
    <3>4. ObjectFits(rt'[r]) BY <2>1, <3>2, <3>3 DEF ObjectFits
    <3> QED BY <2>3, <3>2, <3>4
  <2>4. CASE rt[r].app # a
    <3>1. rt[r].watch = rt[r].app BY <2>1 DEF ObjectFits
    <3>2. rt'[r] = [rt[r] EXCEPT !.app = rt[r].app, !.watch = rt[r].watch]
      BY <2>2, <2>4, <3>1
    <3>3. rt'[r] = rt[r] BY <2>1, <3>2 DEF RuntimeObject
    <3> QED BY <2>1, <2>4, <3>3
  <2> QED BY <2>3, <2>4
<1>6. rt' \in [Runtimes -> RuntimeObject]
  <2>1. rt' = [r \in Runtimes |-> rt'[r]] BY DEF RemoveApplication
  <2> QED BY <1>5, <2>1
<1>7. TypeOK' BY <1>0, <1>4, <1>6 DEF TypeOK, RuntimeTypeOK, QuickTypeOK
<1>8. PoolFits' BY <1>0, <1>5 DEF AppInv, PoolFits, Pooled
<1>9. DownFits' BY <1>0, <1>2, <1>3 DEF AppInv, DownFits, NoneCurrent
<1>10. ASSUME NEW r \in Runtimes PROVE RuntimeFits(r)'
  <2>1. CASE rt[r].app = a BY <1>1, <1>5, <2>1 DEF RuntimeFits
  <2>2. CASE rt[r].app # a
    <3>1. rt'[r] = rt[r] /\ (rt[r].app # None => rt[r].app \in Apps)
      BY <1>0, <1>5, <2>2, Fields
    <3>2. rt[r].app # None => app'[rt[r].app] = app[rt[r].app] BY <1>2, <2>2, <3>1
    <3> QED BY <3>1, <3>2 DEF AppInv, RuntimeFits, Kind
  <2> QED BY <2>1, <2>2
<1>11. ASSUME NEW b \in Apps PROVE AppFits(b)'
  <2>1. CASE b = a BY <1>0, <1>2, <2>1 DEF AppFits, Unregistered
  <2>2. CASE b # a
    <3>1. app'[b] = app[b] /\ AppFits(b) BY <1>2, <2>2 DEF AppInv
    <3>2. app[b].runtime # None => rt'[app[b].runtime] = rt[app[b].runtime]
      <4>1. ASSUME app[b].runtime # None PROVE rt'[app[b].runtime] = rt[app[b].runtime]
        <5>1. app[b].runtime \in Runtimes /\ rt[app[b].runtime].app = b
          BY <1>0, <3>1, <4>1, Fields DEF AppFits
        <5> QED BY <1>5, <2>2, <5>1
      <4> QED BY <4>1
    <3> QED BY <1>0, <2>2, <3>1, <3>2 DEF AppFits
  <2> QED BY <2>1, <2>2
<1>12. AppInv' BY <1>5, <1>7, <1>8, <1>9, <1>10, <1>11 DEF AppInv
<1>13. LifeOf(a)' \in Life!Moves(LifeOf(a))
  <2>1. LifeOf(a)' = Life!Gone
    <3>1. app'[a].exists = FALSE /\ app'[a].blocked = FALSE
      BY <1>0, <1>2 DEF Unregistered
    <3>2. Phase(a)' = "gone" /\ a \notin late' BY <1>0, <1>2, <3>1 DEF Phase
    <3>3. (a \in late') = FALSE BY <3>2
    <3> QED BY Zenon, <3>1, <3>2, <3>3, GoneIs DEF LifeOf
  <2>2. LifeOf(a).phase # "ShuttingDown" /\ LifeOf(a).blocked = TRUE
    BY <1>0, <1>1 DEF LifeOf, Phase, Application
  <2> QED BY <2>1, <2>2
          DEF Life!Moves, Life!Lives, Life!Phases, Life!Gone, Life!Unstarted
<1>14. LivesOn BY <1>0, <1>2, <1>13, SameLife DEF LivesOn
<1>15. NoNewProcess BY <1>5 DEF NoNewProcess, Alive
<1> QED BY <1>12, <1>14, <1>15 DEF Step

(* a registered application is one *)
LEMMA RegisteredTyped ==
    ASSUME NEW kind \in AppKinds
    PROVE  /\ Registered(kind) \in Application /\ Registered(kind).exists = TRUE
           /\ Registered(kind).kind = kind
           /\ Registered(kind).blocked = FALSE /\ Registered(kind).waiting = FALSE
           /\ Registered(kind).runtime = None /\ Registered(kind).runState = "NotRunning"
BY DEF Registered, Unregistered, Application, RunState

LEMMA AddApplicationStep ==
    ASSUME AppInv, NEW a \in Apps, AddApplication(a)
    PROVE  Step
<1>0. TypeOK /\ rt' = rt /\ ql' = ql /\ am' = am /\ late' = late /\ ~app[a].exists
  BY DEF AppInv, AddApplication
<1>1. app[a] \in Application /\ AppFits(a) BY <1>0, Fields DEF AppInv
<1>2. PICK kind \in AppKinds : app' = [app EXCEPT ![a] = Registered(kind)]
  BY RuntimeAssumption DEF AddApplication
<1>3. /\ Registered(kind) \in Application /\ Registered(kind).exists = TRUE
      /\ Registered(kind).blocked = FALSE /\ Registered(kind).waiting = FALSE
      /\ Registered(kind).runtime = None /\ Registered(kind).runState = "NotRunning"
  BY RegisteredTyped
<1>4. /\ app' \in [Apps -> Application] /\ rt' \in [Runtimes -> RuntimeObject]
      /\ app'[a] = Registered(kind) /\ \A b \in Apps : b # a => app'[b] = app[b]
  BY <1>0, <1>2, <1>3, Fields
<1>5. app[a].runtime = None /\ app[a].blocked = FALSE /\ a \notin late
  BY <1>0, <1>1 DEF AppFits, Application
<1>6. ASSUME NEW b \in Apps
      PROVE  /\ app'[b].runtime = app[b].runtime /\ AppFits(b)'
             /\ app[b].exists => app'[b].exists /\ app'[b].kind = app[b].kind
  <2>1. CASE b = a BY <1>0, <1>3, <1>4, <1>5, <2>1 DEF AppFits
  <2>2. CASE b # a BY <1>0, <1>4, <2>2 DEF AppInv, AppFits
  <2> QED BY <2>1, <2>2
<1>7. AppInv' BY <1>0, <1>4, <1>6, EditStep DEF AppInv
<1>8. LifeOf(a)' \in Life!Moves(LifeOf(a))
  <2>1. LifeOf(a)' = Life!Unstarted
    <3>1. Phase(a)' = "NotRunning" BY <1>3, <1>4 DEF Phase, Application
    <3>2. app'[a].blocked = FALSE /\ a \notin late' BY <1>0, <1>3, <1>4, <1>5
    <3>3. (a \in late') = FALSE BY <3>2
    <3> QED BY Zenon, <3>1, <3>2, <3>3 DEF LifeOf, Life!Unstarted
  <2>2. LifeOf(a).phase = "gone" BY <1>0 DEF LifeOf, Phase
  <2> QED BY <2>1, <2>2 DEF Life!Moves, Life!Lives, Life!Phases, Life!Unstarted
<1>9. LivesOn BY <1>0, <1>4, <1>8, SameLife DEF LivesOn
<1>10. NoNewProcess BY <1>0 DEF NoNewProcess, Alive
<1> QED BY <1>7, <1>9, <1>10 DEF Step

-----------------------------------------------------------------------------
(* A start: the application gets a runtime that nobody had *)

Started(a, r) ==
    /\ app' \in [Apps -> Application] /\ rt' \in [Runtimes -> RuntimeObject]
    /\ \A q \in Runtimes : q # r => rt'[q] = rt[q]
    /\ \A b \in Apps : b # a => app'[b] = app[b]
    /\ app'[a].exists = TRUE /\ app'[a].blocked = FALSE /\ app'[a].waiting = FALSE
    /\ app'[a].kind = app[a].kind /\ app'[a].runtime = r
    /\ a \notin late => app'[a].runState = rt'[r].state
    /\ app[a].runState # "NotRunning" => app'[a].runState # "NotRunning"
    /\ rt'[r].kind = "inproc" <=> Kind(a) = "inproc"
    /\ rt'[r].app = a /\ rt'[r].quick = FALSE /\ ObjectFits(rt'[r])

(* the pool after it gave r away, or the same pool if r was never in it *)
PoolWithout(r) ==
    /\ ql' \in QuickLaunchEntry /\ ql'.shuttingDown = ql.shuttingDown
    /\ Len(ql'.pool) <= PoolMax /\ Once(ql'.pool)
    /\ Pooled' = Pooled \ {r}

(* the application that may be started *)
LEMMA MayStartMeans ==
    ASSUME AppInv, NEW a \in Apps, MayStart(a)
    PROVE  /\ app[a] \in Application
           /\ app[a].exists = TRUE /\ app[a].blocked = FALSE /\ app[a].waiting = FALSE
           /\ app[a].runtime = None /\ (a \notin late => app[a].runState = "NotRunning")
           /\ am.shuttingDown = FALSE /\ am.down = {} /\ am.exit = "no"
           /\ \A q \in Runtimes : rt[q].app = a => Ended(rt[q])
<1>1. TypeOK /\ AppFits(a) BY DEF AppInv
<1>2. app[a] \in Application /\ None \notin Runtimes /\ None \notin Apps BY <1>1, Fields
<1>3. app[a].exists = TRUE /\ app[a].blocked = FALSE /\ app[a].runtime = None
  BY <1>2 DEF MayStart, Application
<1>4. app[a].waiting = FALSE /\ (a \notin late => app[a].runState = "NotRunning")
  BY <1>1, <1>2, <1>3 DEF AppFits, Application
<1>5. am.shuttingDown = FALSE /\ am.down = {} /\ am.exit = "no"
  BY <1>1 DEF MayStart, TypeOK, Manager, AppInv, DownFits
<1>6. ASSUME NEW q \in Runtimes, rt[q].app = a PROVE Ended(rt[q])
  <2>1. RuntimeFits(q) BY DEF AppInv
  <2> QED BY <1>2, <1>3, <1>6, <2>1 DEF RuntimeFits
<1> QED BY <1>2, <1>3, <1>4, <1>5, <1>6

LEMMA StartedStep ==
    ASSUME AppInv, NEW a \in Apps, MayStart(a), NEW r \in Runtimes,
           \A b \in Apps : app[b].runtime # r, Started(a, r), PoolWithout(r),
           am' = am, late' = late
    PROVE  Step
<1>0. TypeOK /\ None \notin Runtimes /\ None \notin Apps BY Fields DEF AppInv
<1>1. /\ app[a] \in Application
      /\ app[a].exists = TRUE /\ app[a].blocked = FALSE /\ app[a].waiting = FALSE
      /\ app[a].runtime = None
      /\ am.shuttingDown = FALSE /\ am.down = {} /\ am.exit = "no"
      /\ \A q \in Runtimes : rt[q].app = a => Ended(rt[q])
  BY MayStartMeans
<1>2. TypeOK' BY <1>0 DEF Started, PoolWithout, TypeOK, RuntimeTypeOK, QuickTypeOK
<1>3. PoolFits'
  <2>1. \A q \in Runtimes : rt'[q].quick <=> q \in Pooled'
    BY DEF Started, PoolWithout, AppInv, PoolFits
  <2> QED BY <2>1 DEF PoolFits, PoolWithout, Once
<1>4. DownFits' BY <1>1 DEF DownFits, AppInv, PoolWithout
<1>5. ASSUME NEW q \in Runtimes PROVE ObjectFits(rt'[q]) /\ RuntimeFits(q)'
  <2>1. CASE q = r
    <3>1. ObjectFits(rt'[q]) BY <2>1 DEF Started
    <3>2. RuntimeFits(q)' BY <2>1 DEF Started, RuntimeFits, Kind
    <3> QED BY <3>1, <3>2
  <2>2. CASE q # r
    <3>1. rt'[q] = rt[q] /\ ObjectFits(rt[q]) /\ RuntimeFits(q)
      BY <2>2 DEF Started, AppInv
    <3>2. rt[q].app \in Apps \cup {None} BY <1>0, Fields
    <3>3. CASE rt[q].app = a
      BY <1>1, <3>1, <3>3 DEF RuntimeFits, Started, Kind
    <3>4. CASE rt[q].app # a
      <4>1. rt[q].app # None => app'[rt[q].app] = app[rt[q].app]
        BY <3>2, <3>4 DEF Started
      <4> QED BY <3>1, <4>1 DEF RuntimeFits, Kind
    <3> QED BY <3>3, <3>4
  <2> QED BY <2>1, <2>2
<1>6. ASSUME NEW b \in Apps PROVE AppFits(b)'
  <2>1. CASE b = a BY <1>0, <2>1 DEF Started, AppFits
  <2>2. CASE b # a
    <3>1. app'[b] = app[b] /\ AppFits(b) /\ app[b].runtime # r
      BY <2>2 DEF Started, AppInv
    <3>2. app[b].runtime # None => rt'[app[b].runtime] = rt[app[b].runtime]
      BY <1>0, <3>1, Fields DEF Started
    <3> QED BY <3>1, <3>2 DEF AppFits
  <2> QED BY <2>1, <2>2
<1>7. AppInv' BY <1>2, <1>3, <1>4, <1>5, <1>6 DEF AppInv
<1>8. NoNewProcess BY <1>1 DEF NoNewProcess
<1>9. LifeOf(a)' \in Life!Moves(LifeOf(a))
  <2>1. Phase(a) = IF app[a].runState # "NotRunning" THEN "Running" ELSE "NotRunning"
    BY <1>1 DEF Phase
  <2>2. Phase(a)' = IF app'[a].runState # "NotRunning" THEN "Running" ELSE "Pending"
    BY <1>0 DEF Started, Phase
  <2>3. app[a].runState # "NotRunning" => app'[a].runState # "NotRunning" BY DEF Started
  <2>4. Phase(a)' = Phase(a) \/ <<Phase(a), Phase(a)'>> \in Life!Begin
    BY <2>1, <2>2, <2>3 DEF Life!Begin
  <2>5. app'[a] \in Application /\ app'[a].blocked = app[a].blocked BY <1>1 DEF Started
  <2> QED BY <1>0, <1>1, <2>4, <2>5, LifeGoesOn
<1>10. LivesOn BY <1>0, <1>9, SameLife DEF LivesOn, Started
<1> QED BY <1>7, <1>8, <1>10 DEF Step

(* nothing happens to applications and runtimes *)
LEMMA NothingStep ==
    ASSUME AppInv, app' = app, rt' = rt, QuickCounts, am' = am, late' = late
    PROVE  Step
<1>1. Calls
  <2>1. TypeOK BY DEF AppInv
  <2> QED BY <2>1, NothingMoves, Fields DEF Calls, OthersMove, TypeOK
<1>2. QuickKept BY DEF QuickKept
<1> QED BY <1>1, <1>2, CallsStep

(* a start that fails at once: the application is not running, if it looked like it *)
StartFails(a) ==
    /\ rt' = rt
    /\ app' \in [Apps -> Application]
    /\ app'[a] = Report(app[a], "NotRunning")
    /\ \A b \in Apps : b # a => app'[b] = app[b]

LEMMA FailedStep ==
    ASSUME AppInv, NEW a \in Apps, MayStart(a), StartFails(a), QuickCounts, am' = am,
           late' = late
    PROVE  Step
<1>0. TypeOK BY DEF AppInv
<1>1. /\ app[a] \in Application
      /\ app[a].exists = TRUE /\ app[a].waiting = FALSE
      /\ app[a].runtime = None /\ (a \notin late => app[a].runState = "NotRunning")
  BY MayStartMeans
<1>2. /\ app'[a] \in Application
      /\ app'[a].exists = app[a].exists /\ app'[a].kind = app[a].kind
      /\ app'[a].blocked = app[a].blocked /\ app'[a].runtime = None
      /\ app'[a].runState = "NotRunning" /\ ~app'[a].waiting
  <2>1. "NotRunning" \in RunState BY DEF RunState
  <2> QED BY <1>1, <2>1, ReportTyped DEF StartFails
<1>3. OthersMove(a)
  <2>1. CASE a \in late BY <1>1, <1>2, <2>1 DEF OthersMove, LateMoves
  <2>2. CASE a \notin late BY <1>1, <2>2 DEF OthersMove, StartFails, Report
  <2> QED BY <2>1, <2>2
<1>4. \A b \in Apps : OthersMove(b) BY <1>3 DEF OthersMove, StartFails
<1>5. late' \subseteq Apps BY <1>0 DEF TypeOK
<1>6. rt' \in [Runtimes -> RuntimeObject] BY <1>0, Fields DEF StartFails
<1>7. Calls
  <2>1. rt' = rt /\ app' \in [Apps -> Application] BY DEF StartFails
  <2> QED BY <1>4, <1>5, <1>6, <2>1, NothingMoves DEF Calls
<1>8. QuickKept BY DEF QuickKept, StartFails
<1> QED BY <1>7, <1>8, CallsStep

(* the launcher that take() returns *)
LEMMA PooledObject ==
    ASSUME AppInv, ql.pool # <<>>, NEW r, r = Head(ql.pool)
    PROVE  /\ r \in Runtimes /\ rt[r] \in RuntimeObject /\ rt[r].quick = TRUE
           /\ rt[r].kind = "launcher" /\ rt[r].app = None /\ rt[r].waits = "no"
           /\ rt[r].posted = <<>> /\ ~rt[r].surfaces
           /\ rt[r].link # "no" => rt[r].process \in {"up", "gone"}
           /\ \A b \in Apps : app[b].runtime # r
           /\ ql \in QuickLaunchEntry /\ ql.pool \in Seq(Runtimes) /\ Once(ql.pool)
           /\ Elements(ql.pool) = Pooled
<1>0. TypeOK BY DEF AppInv
<1>1. ql \in QuickLaunchEntry /\ ql.pool \in Seq(Runtimes)
  BY <1>0 DEF TypeOK, QuickTypeOK, QuickLaunchEntry
<1>2. Once(ql.pool) BY DEF AppInv, PoolFits, Once
<1>3. Elements(ql.pool) = Pooled BY DEF Elements, Pooled
<1>4. r \in Pooled
  <2>1. PICK t : t = Tail(ql.pool) OBVIOUS
  <2> QED BY <1>1, <1>2, <1>3, <2>1, TailOnce
<1>5. r \in Runtimes
  <2>1. \A i \in DOMAIN ql.pool : ql.pool[i] \in Runtimes BY <1>1, ElementOfSeq, LenProperties
  <2> QED BY <1>4, <2>1 DEF Pooled
<1>6. rt[r] \in RuntimeObject /\ ObjectFits(rt[r]) BY <1>0, <1>5, Fields DEF AppInv
<1>7. rt[r].quick = TRUE BY <1>4, <1>5, <1>6 DEF AppInv, PoolFits, RuntimeObject
<1>8. \A b \in Apps : app[b].runtime # r
  <2>1. SUFFICES ASSUME NEW b \in Apps, app[b].runtime = r PROVE FALSE OBVIOUS
  <2>2. rt[r].app = b BY <1>5, <2>1, OwnerKnown
  <2> QED BY <1>0, <1>6, <1>7, <2>2, Fields DEF ObjectFits
<1> QED BY <1>1, <1>2, <1>3, <1>5, <1>6, <1>7, <1>8 DEF ObjectFits, NativeKinds

(* what becomes of a launcher that gets its application *)
Attached(x, x2, a) ==
    /\ x2 \in RuntimeObject
    /\ x2.kind = x.kind /\ x2.watch = x.watch /\ x2.waits = x.waits
    /\ x2.process = x.process /\ x2.link = x.link
    /\ x2.surfaces = x.surfaces /\ x2.posted = x.posted
    /\ x2.quick = FALSE /\ x2.app = a /\ x2.state = "Running"
    /\ x.link = "ready" /\ x.kind = "launcher" /\ x.process # "gone" => x2.told

LEMMA AttachIs ==
    ASSUME NEW w \in Worlds, NEW r \in Runtimes, NEW a \in Apps, w.app[a].runtime = None,
           w.rt[r].watch = a, NEW v, v = Attach(w, r, a)
    PROVE  /\ v \in Worlds
           /\ \A q \in Runtimes : q # r => v.rt[q] = w.rt[q]
           /\ \A b \in Apps : b # a => v.app[b] = w.app[b]
           /\ v.app[a].exists = w.app[a].exists /\ v.app[a].blocked = w.app[a].blocked
           /\ v.app[a].kind = w.app[a].kind
           /\ v.app[a].waiting => w.app[a].waiting
           /\ v.app[a].runtime = r /\ v.app[a].runState = "Running"
           /\ Attached(w.rt[r], v.rt[r], a)
<1>0. /\ w.rt[r] \in RuntimeObject /\ w.app[a] \in Application
      /\ a # None /\ "StartingUp" \in RunState /\ "Running" \in RunState
  BY WorldFields, RuntimeAssumption DEF RunState
<1> DEFINE x1 == [w.rt[r] EXCEPT !.quick = FALSE, !.app = a]
<1>1. PICK u1 : u1 = [w EXCEPT !.rt[r] = x1] OBVIOUS
<1>2. x1 \in RuntimeObject /\ x1.watch = a /\ x1.link = w.rt[r].link
  BY <1>0 DEF RuntimeObject
<1>3. u1 \in Worlds /\ u1.app = w.app /\ u1.rt[r] = x1 /\ Touches(w, u1, r, a)
  <2> HIDE DEF x1
  <2> QED BY <1>1, <1>2 DEF Worlds, Touches
<1>4. PICK u2 : u2 = SetCurrentRuntime(u1, a, r) OBVIOUS
<1>5. /\ Touches(u1, u2, r, a) /\ u2.app[a] = [w.app[a] EXCEPT !.runtime = r]
      /\ u2.rt = u1.rt
  <2>1. u1.app[a].runtime = None BY <1>3
  <2> QED BY <1>3, <1>4, <2>1, SetCurrentRuntimeIs
<1>6. u2.rt[r] = x1 /\ u2 \in Worlds BY <1>3, <1>5 DEF Touches
<1>7. PICK u3 : u3 = SetState(u2, r, "StartingUp") OBVIOUS
<1>8. /\ Touches(u2, u3, r, a) /\ u3.rt[r] = [x1 EXCEPT !.state = "StartingUp"]
      /\ u3.app[a] = IF x1.state = "StartingUp" THEN u2.app[a]
                     ELSE Report(u2.app[a], "StartingUp")
  <2>1. a = u2.rt[r].watch BY <1>2, <1>6
  <2> HIDE DEF x1
  <2> QED BY <1>0, <1>6, <1>7, <2>1, SetStateIs
<1> DEFINE silent == w.rt[r].link = "no" \/ w.rt[r].process = "gone"
<1>9. PICK u4 : u4 = IF silent THEN u3 ELSE StartApplicationViaLauncher(u3, r)
  OBVIOUS
<1>10. v = SetState(u4, r, "Running")
  <2>1. u1 = [w EXCEPT !.rt[r].quick = FALSE, !.rt[r].app = a] BY <1>1, <1>0 DEF Worlds
  <2> QED BY <2>1, <1>4, <1>7, <1>9 DEF Attach
<1>11. u3 \in Worlds /\ u3.rt[r] \in RuntimeObject /\ u3.rt[r].link = w.rt[r].link
       /\ u3.rt[r].kind = w.rt[r].kind
       /\ u3.rt[r].told = w.rt[r].told /\ u3.rt[r].watch = a
  <2>1. u3 \in Worlds BY <1>8 DEF Touches
  <2>2. u3.rt[r] \in RuntimeObject BY <2>1, WorldFields
  <2> QED BY <1>0, <1>2, <1>8, <2>1, <2>2 DEF RuntimeObject
<1> DEFINE ready == w.rt[r].link = "ready" /\ w.rt[r].kind = "launcher"
                    /\ w.rt[r].process # "gone"
<1>12. \E told \in BOOLEAN :
          /\ ready => told
          /\ u4.rt[r] = [u3.rt[r] EXCEPT !.told = told]
          /\ Touches(u3, u4, r, a) /\ u4.app = u3.app
  <2>1. CASE silent
    <3>1. u4 = u3 BY <1>9, <2>1
    <3>2. u3.rt[r] = [u3.rt[r] EXCEPT !.told = u3.rt[r].told] BY <1>11 DEF RuntimeObject
    <3>3. u3.rt[r].told \in BOOLEAN BY <1>11 DEF RuntimeObject
    <3>4. Touches(u3, u4, r, a) BY <1>11, <3>1 DEF Touches
    <3> QED BY <2>1, <3>1, <3>2, <3>3, <3>4
  <2>2. CASE ~silent
    <3> DEFINE hears == u3.rt[r].kind = "launcher" /\ u3.rt[r].link = "ready"
               told == u3.rt[r].told \/ hears
               x4 == [u3.rt[r] EXCEPT !.told = told]
    <3>1. told \in BOOLEAN /\ (ready => told)
      BY <1>11 DEF RuntimeObject
    <3>2. u4 = [u3 EXCEPT !.rt[r] = [u3.rt[r] EXCEPT !.told = @ \/ hears]]
      BY <1>9, <1>11, <2>2 DEF StartApplicationViaLauncher, Worlds
    <3>3. u4 = [u3 EXCEPT !.rt[r] = x4]
      <4>1. [u3.rt[r] EXCEPT !.told = @ \/ hears] = x4
        <5> HIDE DEF hears
        <5> QED BY <1>11 DEF RuntimeObject
      <4> QED BY <3>2, <4>1
    <3>4. x4 \in RuntimeObject
      <4> HIDE DEF told
      <4> QED BY <1>11, <3>1 DEF RuntimeObject
    <3>5. u4.rt[r] = x4 /\ Touches(u3, u4, r, a) /\ u4.app = u3.app
      <4> HIDE DEF x4
      <4> QED BY <1>11, <3>3, <3>4 DEF Worlds, Touches
    <3> HIDE DEF told
    <3> QED BY <3>1, <3>5
  <2> QED BY <2>1, <2>2
<1>13. PICK told \in BOOLEAN :
          /\ ready => told
          /\ u4.rt[r] = [u3.rt[r] EXCEPT !.told = told]
          /\ Touches(u3, u4, r, a) /\ u4.app = u3.app
  BY <1>12
<1>14. u4 \in Worlds /\ u4.rt[r].watch = a /\ u4.rt[r].state = "StartingUp"
  <2>1. u4 \in Worlds BY <1>13 DEF Touches
  <2>2. u3.rt[r].state = "StartingUp" BY <1>2, <1>8 DEF RuntimeObject
  <2> QED BY <1>11, <1>13, <2>1, <2>2 DEF RuntimeObject
<1>15. /\ Touches(u4, v, r, a) /\ v.rt[r] = [u4.rt[r] EXCEPT !.state = "Running"]
       /\ v.app[a] = Report(u4.app[a], "Running")
  <2>1. "StartingUp" # "Running" OBVIOUS
  <2> QED BY <1>0, <1>10, <1>14, <2>1, SetStateIs
<1>16. Touches(w, v, r, a)
  <2>1. Touches(w, u2, r, a) BY <1>3, <1>5, TouchesTransitive
  <2>2. Touches(w, u3, r, a) BY <1>8, <2>1, TouchesTransitive
  <2>3. Touches(w, u4, r, a) BY <1>13, <2>2, TouchesTransitive
  <2> QED BY <1>15, <2>3, TouchesTransitive
<1>17. Attached(w.rt[r], v.rt[r], a)
  <2>1. u3.rt[r] = [w.rt[r] EXCEPT !.quick = FALSE, !.app = a, !.state = "StartingUp"]
    BY <1>0, <1>8 DEF RuntimeObject
  <2>2. PICK y : y = w.rt[r] OBVIOUS
  <2>3. u4.rt[r] = [y EXCEPT !.quick = FALSE, !.app = a, !.state = "StartingUp", !.told = told]
    BY <1>0, <1>13, <2>1, <2>2 DEF RuntimeObject
  <2>4. PICK y4 : y4 = u4.rt[r] OBVIOUS
  <2>5. /\ y4 \in RuntimeObject
        /\ y4.kind = y.kind /\ y4.watch = y.watch /\ y4.waits = y.waits
        /\ y4.process = y.process /\ y4.link = y.link
        /\ y4.surfaces = y.surfaces /\ y4.posted = y.posted
        /\ y4.quick = FALSE /\ y4.app = a /\ y4.told = told
    <3>1. y \in RuntimeObject BY <1>0, <2>2
    <3>2. y4 \in RuntimeObject BY <1>14, <2>4, WorldFields
    <3>3. y4 = [y EXCEPT !.quick = FALSE, !.app = a, !.state = "StartingUp", !.told = told]
      BY <2>3, <2>4
    <3>4. /\ y4.kind = y.kind /\ y4.watch = y.watch /\ y4.waits = y.waits
          /\ y4.process = y.process /\ y4.link = y.link
          /\ y4.surfaces = y.surfaces /\ y4.posted = y.posted
      BY <3>1, <3>3 DEF RuntimeObject
    <3>5. y4.quick = FALSE /\ y4.app = a /\ y4.told = told BY <3>1, <3>3 DEF RuntimeObject
    <3> QED BY <3>2, <3>4, <3>5
  <2>6. v.rt[r] = [y4 EXCEPT !.state = "Running"] BY <1>15, <2>4
  <2>7. y.link = "ready" /\ y.kind = "launcher" /\ y.process # "gone" => told
    BY <1>13, <2>2
  <2>8. Attached(y, v.rt[r], a)
    BY <2>5, <2>6, <2>7 DEF Attached, RuntimeObject, RunState
  <2> QED BY <2>2, <2>8
<1>18. /\ u4.app[a] \in Application /\ u4.app[a].runtime = r
       /\ u4.app[a].exists = w.app[a].exists /\ u4.app[a].blocked = w.app[a].blocked
       /\ u4.app[a].kind = w.app[a].kind
       /\ u4.app[a].waiting => w.app[a].waiting
  <2>1. /\ u2.app[a] \in Application /\ u2.app[a].runtime = r
        /\ u2.app[a].exists = w.app[a].exists /\ u2.app[a].blocked = w.app[a].blocked
        /\ u2.app[a].kind = w.app[a].kind
        /\ u2.app[a].waiting = w.app[a].waiting
    BY <1>0, <1>5, <1>6 DEF Application
  <2>2. /\ u3.app[a] \in Application /\ u3.app[a].runtime = r
        /\ u3.app[a].exists = w.app[a].exists /\ u3.app[a].blocked = w.app[a].blocked
        /\ u3.app[a].kind = w.app[a].kind
        /\ u3.app[a].waiting => w.app[a].waiting
    BY <1>0, <1>8, <2>1, ReportTyped
  <2> QED BY <1>13, <2>2
<1>19. /\ v.app[a].exists = w.app[a].exists /\ v.app[a].blocked = w.app[a].blocked
       /\ v.app[a].kind = w.app[a].kind
       /\ v.app[a].waiting => w.app[a].waiting
       /\ v.app[a].runtime = r /\ v.app[a].runState = "Running"
  BY <1>0, <1>15, <1>18, ReportTyped
<1> QED BY <1>16, <1>17, <1>19 DEF Touches

LEMMA StartFromPoolStep ==
    ASSUME AppInv, NEW a \in Apps, StartFromPool(a)
    PROVE  Step
<1>0. TypeOK /\ World \in Worlds /\ World.app = app /\ World.rt = rt
  BY WorldTyped DEF AppInv
<1>1. /\ MayStart(a) /\ Kind(a) = "launcher" /\ ql.pool # <<>>
      /\ am' = am /\ late' = late
  BY DEF StartFromPool
<1>2. /\ app[a] \in Application
      /\ app[a].exists = TRUE /\ app[a].blocked = FALSE /\ app[a].waiting = FALSE
      /\ app[a].runtime = None
  BY <1>1, MayStartMeans
<1>3. PICK r : r = Head(ql.pool) OBVIOUS
<1>4. /\ r \in Runtimes /\ rt[r] \in RuntimeObject /\ rt[r].quick = TRUE
      /\ rt[r].kind = "launcher" /\ rt[r].app = None /\ rt[r].waits = "no"
      /\ rt[r].posted = <<>> /\ ~rt[r].surfaces
      /\ rt[r].link # "no" => rt[r].process \in {"up", "gone"}
      /\ \A b \in Apps : app[b].runtime # r
      /\ ql \in QuickLaunchEntry /\ ql.pool \in Seq(Runtimes) /\ Once(ql.pool)
      /\ Elements(ql.pool) = Pooled
  BY <1>1, <1>3, PooledObject
<1> DEFINE x == [rt[r] EXCEPT !.watch = a]
<1>5. PICK w : w = [World EXCEPT !.rt[r] = x] OBVIOUS
<1>6. x \in RuntimeObject /\ x.watch = a BY <1>4 DEF RuntimeObject
<1>7. /\ w \in Worlds /\ w.app = app /\ w.rt[r] = x
      /\ \A q \in Runtimes : q # r => w.rt[q] = rt[q]
  <2> HIDE DEF x
  <2> QED BY <1>0, <1>4, <1>5, <1>6 DEF Worlds
<1>8. PICK v : v = Attach(w, r, a) OBVIOUS
<1>9. app' = v.app /\ rt' = v.rt
  <2>1. w = [World EXCEPT !.rt[r].watch = a] BY <1>0, <1>5 DEF Worlds
  <2> QED BY <1>3, <1>8, <2>1 DEF StartFromPool, Becomes
<1>10. /\ v \in Worlds
       /\ \A q \in Runtimes : q # r => v.rt[q] = w.rt[q]
       /\ \A b \in Apps : b # a => v.app[b] = w.app[b]
       /\ v.app[a].exists = w.app[a].exists /\ v.app[a].blocked = w.app[a].blocked
       /\ v.app[a].kind = w.app[a].kind
       /\ v.app[a].waiting => w.app[a].waiting
       /\ v.app[a].runtime = r /\ v.app[a].runState = "Running"
       /\ Attached(w.rt[r], v.rt[r], a)
  <2>1. w.app[a].runtime = None /\ w.rt[r].watch = a BY <1>2, <1>6, <1>7
  <2> HIDE DEF x
  <2> QED BY <1>4, <1>7, <1>8, <2>1, AttachIs
<1>11. /\ x.kind = "launcher" /\ x.waits = "no" /\ x.process = rt[r].process
       /\ x.link = rt[r].link /\ ~x.surfaces /\ x.posted = <<>>
  BY <1>4 DEF RuntimeObject
<1>12. /\ v.rt[r].quick = FALSE /\ v.rt[r].app = a /\ v.rt[r].state = "Running"
       /\ v.rt[r].kind = "launcher" /\ ObjectFits(v.rt[r])
  <2>1. /\ v.rt[r].kind = "launcher" /\ v.rt[r].quick = FALSE /\ v.rt[r].app = a
        /\ v.rt[r].watch = a /\ v.rt[r].state = "Running" /\ v.rt[r].waits = "no"
        /\ v.rt[r].process = rt[r].process /\ v.rt[r].link = rt[r].link
        /\ ~v.rt[r].surfaces /\ v.rt[r].posted = <<>>
        /\ v.rt[r].link = "ready" /\ v.rt[r].process # "gone" => v.rt[r].told
    BY <1>6, <1>7, <1>10, <1>11 DEF Attached
  <2>2. v.rt[r].kind \in NativeKinds BY <2>1 DEF NativeKinds
  <2>3. v.rt[r].watch = v.rt[r].app BY <2>1
  <2>4. v.rt[r].quick => v.rt[r].kind = "launcher" /\ v.rt[r].app = None BY <2>1
  <2>5. v.rt[r].link # "no" => /\ v.rt[r].process \in {"up", "gone"}
                               /\ v.rt[r].kind \in {"launcher", "interface"}
    BY <1>4, <2>1
  <2>6. v.rt[r].link = "ready" /\ v.rt[r].kind = "launcher" /\ v.rt[r].process = "up"
        /\ v.rt[r].app # None => v.rt[r].told
    BY <2>1
  <2>7. ObjectFits(v.rt[r]) BY <2>1, <2>2, <2>3, <2>4, <2>5, <2>6, ProcessFits
  <2> QED BY <2>1, <2>7
<1>13. Started(a, r)
  <2>1. v.app \in [Apps -> Application] /\ v.rt \in [Runtimes -> RuntimeObject]
    BY <1>10, WorldFields
  <2>2. v.app[a].exists = TRUE /\ v.app[a].blocked = FALSE /\ ~v.app[a].waiting
    BY <1>2, <1>7, <1>10
  <2>3. v.app[a].waiting = FALSE BY <2>1, <2>2 DEF Application
  <2>4. v.app[a].kind = app[a].kind /\ v.rt[r].kind # "inproc" /\ Kind(a) # "inproc"
    BY <1>1, <1>7, <1>10, <1>12
  <2> QED BY <1>7, <1>9, <1>10, <1>12, <2>1, <2>2, <2>3, <2>4 DEF Started
<1>14. PoolWithout(r)
  <2>1. PICK t : t = Tail(ql.pool) OBVIOUS
  <2>2. t \in Seq(Runtimes) /\ Once(t) /\ Elements(t) = Elements(ql.pool) \ {r}
        /\ Len(t) = Len(ql.pool) - 1
    BY <1>1, <1>3, <1>4, <2>1, TailOnce
  <2>3. ql' = [ql EXCEPT !.pool = t, !.timer = TRUE]
    BY <2>1 DEF StartFromPool, Taken
  <2>4. /\ ql' \in QuickLaunchEntry /\ ql'.pool = t /\ ql'.shuttingDown = ql.shuttingDown
    BY <1>4, <2>2, <2>3 DEF QuickLaunchEntry
  <2>5. Pooled' = Pooled \ {r} BY <1>4, <2>2, <2>4 DEF Pooled, Elements
  <2>6. Len(t) <= PoolMax
    <3>1. Len(ql.pool) \in Nat BY <1>4, LenProperties
    <3> QED BY <2>2, <3>1, PoolAssumption DEF AppInv, PoolFits
  <2> QED BY <2>2, <2>4, <2>5, <2>6 DEF PoolWithout
<1> QED BY <1>1, <1>4, <1>13, <1>14, StartedStep

(* a runtime object that has just been constructed for an application *)
New(x, a) ==
    /\ x \in RuntimeObject
    /\ x.kind \in AppKinds /\ x.kind = Kind(a)
    /\ x.quick = FALSE /\ x.app = a /\ x.watch = a /\ x.state = "NotRunning"
    /\ x.kind = "inproc" => ~x.slow
    /\ x.waits = "no" /\ x.process = "none" /\ x.link = "no" /\ ~x.surfaces /\ x.posted = <<>>

LEMMA NewObject ==
    ASSUME TypeOK, NEW a \in Apps, NEW slow \in BOOLEAN, Kind(a) = "inproc" => ~slow,
           NEW x, x = [NoRuntime EXCEPT !.kind = Kind(a), !.app = a, !.watch = a, !.slow = slow]
    PROVE  New(x, a)
<1>1. NoRuntime \in RuntimeObject BY NoRuntimeFits
<1>2. Kind(a) \in AppKinds BY Fields DEF Kind, Application
<1>3. PICK k : k = Kind(a) OBVIOUS
<1>4. x = [NoRuntime EXCEPT !.kind = k, !.app = a, !.watch = a, !.slow = slow] BY <1>3
<1>5. x \in RuntimeObject BY <1>1, <1>2, <1>3, <1>4 DEF RuntimeObject
<1>6. /\ x.kind = k /\ x.app = a /\ x.watch = a /\ x.slow = slow
      /\ x.quick = FALSE /\ x.state = "NotRunning" /\ x.waits = "no"
      /\ x.process = "none" /\ x.link = "no" /\ x.surfaces = FALSE /\ x.posted = <<>>
  BY <1>4 DEF NoRuntime
<1> QED BY <1>2, <1>3, <1>5, <1>6 DEF New

(* the world in which runtime r has just been constructed for application a *)
NewWorld(u, r, a) ==
    /\ u \in Worlds
    /\ \A q \in Runtimes : q # r => u.rt[q] = rt[q]
    /\ \A b \in Apps : b # a => u.app[b] = app[b]
    /\ u.app[a] = [app[a] EXCEPT !.runtime = r]
    /\ New(u.rt[r], a)

LEMMA NewRuntimeIs ==
    ASSUME TypeOK, NEW a \in Apps, NEW r \in Runtimes, app[a].runtime = None,
           NEW u, u = NewRuntime(r, a)
    PROVE  NewWorld(u, r, a)
<1>0. World \in Worlds /\ World.app = app /\ World.rt = rt BY WorldTyped
<1> DEFINE waits == /\ a \in SlowContainer
                    /\ Kind(a) # "inproc"
<1>1. PICK slow \in BOOLEAN : slow = waits OBVIOUS
<1>2. Kind(a) = "inproc" => ~slow BY <1>1
<1> HIDE DEF waits
<1>3. PICK x : x = [NoRuntime EXCEPT !.kind = Kind(a), !.app = a, !.watch = a, !.slow = slow]
  OBVIOUS
<1>4. New(x, a)
  <2>1. PICK k : k = Kind(a) OBVIOUS
  <2> QED BY Zenon, <1>2, <1>3, NewObject
<1>5. PICK w : w = [World EXCEPT !.rt[r] = x] OBVIOUS
<1>6. u = SetCurrentRuntime(w, a, r)
  <2>1. u = SetCurrentRuntime([World EXCEPT !.rt[r] = [NoRuntime EXCEPT !.kind = Kind(a),
                    !.app = a, !.watch = a, !.slow = waits]], a, r)
    BY DEF NewRuntime, waits
  <2>2. x = [NoRuntime EXCEPT !.kind = Kind(a), !.app = a, !.watch = a, !.slow = waits]
    BY Zenon, <1>1, <1>3
  <2> QED BY Zenon, <1>5, <2>1, <2>2
<1>7. /\ w \in Worlds /\ w.app = app /\ w.rt[r] = x
      /\ \A q \in Runtimes : q # r => w.rt[q] = rt[q]
  <2>1. x \in RuntimeObject BY <1>4 DEF New
  <2> QED BY <1>0, <1>5, <2>1 DEF Worlds
<1>8. Touches(w, u, r, a) /\ u.app[a] = [w.app[a] EXCEPT !.runtime = r] /\ u.rt = w.rt
  <2>1. w.app[a].runtime = None BY <1>7
  <2> QED BY <1>6, <1>7, <2>1, SetCurrentRuntimeIs
<1> QED BY <1>4, <1>7, <1>8 DEF Touches, NewWorld

Waiting(x, x2) == \E s \in {"compositor", "container"} : x2 = [x EXCEPT !.waits = s]

(* the object fits, whether its start waits or has begun *)
LEMMA NewWaits ==
    ASSUME NEW x, NEW a \in Apps, New(x, a), x.kind # "inproc", NEW x2, Waiting(x, x2)
    PROVE  /\ x2.quick = FALSE /\ x2.app = a /\ x2.state = "NotRunning" /\ ObjectFits(x2)
           /\ x2 \in RuntimeObject /\ x2.kind = x.kind
<1>1. /\ x2 \in RuntimeObject /\ x2.kind = x.kind
      /\ x2.quick = FALSE /\ x2.app = a /\ x2.watch = a
      /\ x2.state = "NotRunning" /\ x2.process = "none" /\ x2.link = "no"
      /\ x2.surfaces = x.surfaces /\ x2.posted = <<>>
  BY DEF New, RuntimeObject, Waiting
<1>2. x2.kind \in NativeKinds /\ ~x2.surfaces BY <1>1 DEF New, AppKinds
<1> QED BY <1>1, <1>2 DEF ObjectFits, NativeKinds

LEMMA NewStartsUp ==
    ASSUME NEW x, NEW a \in Apps, New(x, a), NEW x2, StartsUp(x, x2)
    PROVE  /\ x2.quick = FALSE /\ x2.app = a /\ x2.state = "StartingUp" /\ ObjectFits(x2)
           /\ x2 \in RuntimeObject /\ x2.kind = x.kind
<1>1. /\ x2 \in RuntimeObject /\ x2.kind = x.kind /\ x2.quick = FALSE
      /\ x2.app = a /\ x2.watch = a /\ x2.state = "StartingUp" /\ x2.waits = "no"
      /\ x2.link = "no" /\ ~x2.surfaces /\ ~x2.slow
      /\ x.kind \in AppKinds /\ x.posted = <<>>
  BY DEF New, StartsUp
<1>2. CASE x.kind = "inproc"
  <2>1. x2.process = "none" BY <1>2 DEF StartsUp, New
  <2> QED BY <1>1, <1>2, <2>1 DEF ObjectFits
<1>3. CASE x.kind # "inproc"
  <2>1. x2.process = "starting" /\ x2.posted = <<>> BY <1>1, <1>3 DEF StartsUp
  <2> QED BY <1>1, <1>3, <2>1 DEF ObjectFits, AppKinds, NativeKinds
<1> QED BY <1>2, <1>3

(* what becomes of the start of a new runtime *)
LEMMA NewTryStart ==
    ASSUME AppInv, NEW a \in Apps, MayStart(a), NEW r \in Runtimes,
           rt[r].kind = "free", \A b \in Apps : app[b].runtime # r,
           NEW u, NewWorld(u, r, a), NEW o \in [ok : BOOLEAN, object : BOOLEAN],
           Becomes(TryStart(u, r, o.ok, o.object))
    PROVE  Started(a, r) \/ StartFails(a)
<1>0. TypeOK /\ a # None /\ r # None BY Fields DEF AppInv
<1>1. /\ app[a] \in Application
      /\ app[a].exists = TRUE /\ app[a].blocked = FALSE /\ app[a].waiting = FALSE
      /\ app[a].runtime = None /\ (a \notin late => app[a].runState = "NotRunning")
  BY MayStartMeans
<1>2. PICK v : v = TryStart(u, r, o.ok, o.object) OBVIOUS
<1>3. app' = v.app /\ rt' = v.rt BY <1>2 DEF Becomes
<1>4. /\ u.app[a] \in Application /\ u.app[a].exists = TRUE /\ u.app[a].blocked = FALSE
      /\ u.app[a].waiting = FALSE /\ u.app[a].runtime = r /\ u.app[a].kind = app[a].kind
      /\ u.app[a].runState = app[a].runState
  <2>1. u.app[a] = [app[a] EXCEPT !.runtime = r] /\ u \in Worlds BY DEF NewWorld
  <2>2. u.app[a] \in Application BY <2>1, WorldFields
  <2> QED BY <1>1, <2>1, <2>2 DEF Application
<1>5. OneOwner(u, r)
  <2>1. \A b \in Apps : u.app[b].runtime = r => b = a BY DEF NewWorld
  <2> QED BY <2>1 DEF OneOwner
<1>6. /\ u \in Worlds /\ New(u.rt[r], a) /\ u.rt[r].watch = a
      /\ \A q \in Runtimes : q # r => u.rt[q] = rt[q]
      /\ \A b \in Apps : b # a => u.app[b] = app[b]
  BY DEF NewWorld, New
<1>7. /\ v \in Worlds /\ \A q \in Runtimes : q # r => v.rt[q] = u.rt[q]
      /\ \/ StillWaits(u, v, r)
         \/ StartFailed(u, v, r)
         \/ StartedUp(u, v, r, a)
  <2>1. \A ok \in BOOLEAN : \A object \in BOOLEAN : \A t, b :
            t = TryStart(u, r, ok, object) /\ b = u.rt[r].watch /\ OneOwner(u, r) =>
            /\ t \in Worlds /\ \A q \in Runtimes : q # r => t.rt[q] = u.rt[q]
            /\ \/ StillWaits(u, t, r)
               \/ StartFailed(u, t, r)
               \/ StartedUp(u, t, r, b)
    BY <1>6, TryStartIs
  <2>2. PICK ok \in BOOLEAN, object \in BOOLEAN : ok = o.ok /\ object = o.object OBVIOUS
  <2>3. v = TryStart(u, r, ok, object) /\ a = u.rt[r].watch BY <1>2, <1>6, <2>2
  <2> QED BY <1>5, <2>1, <2>3
<1>8. v.app \in [Apps -> Application] /\ v.rt \in [Runtimes -> RuntimeObject]
  BY <1>7, WorldFields
<1>9. CASE StillWaits(u, v, r)
  <2>1. u.rt[r].slow /\ v.rt[r] = [u.rt[r] EXCEPT !.waits = "container"] /\ v.app = u.app
    BY <1>9 DEF StillWaits
  <2>2. u.rt[r].kind # "inproc" BY <1>6, <2>1 DEF New
  <2>3. Waiting(u.rt[r], v.rt[r]) BY <2>1 DEF Waiting
  <2>4. /\ v.rt[r].quick = FALSE /\ v.rt[r].app = a /\ v.rt[r].state = "NotRunning"
        /\ v.rt[r].kind = Kind(a) /\ ObjectFits(v.rt[r])
    <3>1. \A x, x2 : New(x, a) /\ x.kind # "inproc" /\ Waiting(x, x2) =>
              /\ x2.quick = FALSE /\ x2.app = a /\ x2.state = "NotRunning" /\ ObjectFits(x2)
              /\ x2 \in RuntimeObject /\ x2.kind = x.kind
      BY NewWaits
    <3>2. u.rt[r].kind = Kind(a) BY <1>6 DEF New
    <3> QED BY <1>6, <2>2, <2>3, <3>1, <3>2
  <2>5. v.app[a] = u.app[a] BY <2>1
  <2> QED BY <1>1, <1>3, <1>4, <1>6, <1>7, <1>8, <2>1, <2>4, <2>5 DEF Started
<1>10. CASE StartedUp(u, v, r, a)
  <2>1. StartsUp(u.rt[r], v.rt[r]) /\ Told(u, v, r, a, "StartingUp")
    BY <1>10 DEF StartedUp
  <2>2. /\ v.rt[r].quick = FALSE /\ v.rt[r].app = a /\ v.rt[r].state = "StartingUp"
        /\ v.rt[r].kind = Kind(a) /\ ObjectFits(v.rt[r])
    <3>1. \A x, x2 : New(x, a) /\ StartsUp(x, x2) =>
              /\ x2.quick = FALSE /\ x2.app = a /\ x2.state = "StartingUp" /\ ObjectFits(x2)
              /\ x2 \in RuntimeObject /\ x2.kind = x.kind
      BY NewStartsUp
    <3>2. u.rt[r].kind = Kind(a) BY <1>6 DEF New
    <3> QED BY <1>6, <2>1, <3>1, <3>2
  <2>3. v.app[a] = Report(u.app[a], "StartingUp")
    <3>1. u.rt[r].state = "NotRunning" BY <1>6 DEF New
    <3>2. v.app[a] = IF u.rt[r].state = "StartingUp" THEN u.app[a]
                     ELSE Report(u.app[a], "StartingUp")
      BY <1>0, <2>1 DEF Told
    <3> QED BY <3>1, <3>2
  <2>4. /\ v.app[a].exists = TRUE /\ v.app[a].blocked = FALSE /\ v.app[a].waiting = FALSE
        /\ v.app[a].kind = app[a].kind
        /\ v.app[a].runtime = r /\ v.app[a].runState = "StartingUp"
    <3>1. "StartingUp" \in RunState BY DEF RunState
    <3>2. /\ v.app[a].exists = TRUE /\ v.app[a].blocked = FALSE /\ ~v.app[a].waiting
          /\ v.app[a].kind = app[a].kind
          /\ v.app[a].runtime = r /\ v.app[a].runState = "StartingUp"
      BY <1>4, <2>3, <3>1, ReportTyped
    <3>3. v.app[a] \in Application BY <1>8
    <3> QED BY <3>2, <3>3 DEF Application
  <2>5. \A b \in Apps : b # a => v.app[b] = u.app[b] BY <2>1 DEF Told, Touches
  <2> QED BY <1>3, <1>6, <1>7, <1>8, <2>2, <2>4, <2>5 DEF Started
<1>11. CASE StartFailed(u, v, r)
  <2>1. /\ v.rt[r] = NoRuntime
        /\ \A b \in Apps : v.app[b] = IF u.app[b].runtime = r THEN Forget(u.app[b]) ELSE u.app[b]
    BY <1>11 DEF StartFailed
  <2>2. rt[r] = NoRuntime BY DEF AppInv, ObjectFits
  <2>3. v.rt = rt
    <3>1. \A q \in Runtimes : v.rt[q] = rt[q] BY <1>6, <1>7, <2>1, <2>2
    <3> QED BY <1>0, <1>8, <3>1, Fields
  <2>4. v.app[a] = Report(app[a], "NotRunning")
    <3>1. v.app[a] = Forget(u.app[a]) BY <1>4, <2>1
    <3>2. Forget(u.app[a]) = Report([u.app[a] EXCEPT !.runtime = None], "NotRunning")
      BY <1>0, <1>4 DEF Forget
    <3>3. PICK y : y = app[a] OBVIOUS
    <3>4. [u.app[a] EXCEPT !.runtime = None] = y
      BY <1>1, <3>3 DEF Application, NewWorld
    <3> QED BY <3>1, <3>2, <3>3, <3>4
  <2>5. \A b \in Apps : b # a => v.app[b] = app[b] BY <1>5, <1>6, <2>1 DEF NewWorld
  <2> QED BY <1>3, <1>8, <2>3, <2>4, <2>5 DEF StartFails
<1> QED BY <1>7, <1>9, <1>10, <1>11

LEMMA StartFreshStep ==
    ASSUME AppInv, NEW a \in Apps, StartFresh(a)
    PROVE  Step
<1>0. TypeOK BY DEF AppInv
<1>1. MayStart(a) /\ ql' = ql /\ am' = am /\ late' = late /\ Free # {} BY DEF StartFresh
<1>2. PICK r : r = Fresh OBVIOUS
<1>3. r \in Runtimes /\ rt[r].kind = "free" BY <1>1, <1>2, FreshIsFree
<1>4. rt[r] = NoRuntime BY <1>3 DEF AppInv, ObjectFits
<1>5. \A b \in Apps : app[b].runtime # r BY <1>3, OwnerKnown
<1>6. /\ app[a] \in Application
      /\ app[a].exists = TRUE /\ app[a].blocked = FALSE /\ app[a].waiting = FALSE
      /\ app[a].runtime = None /\ (a \notin late => app[a].runState = "NotRunning")
  BY <1>1, MayStartMeans
<1>7. PICK u : u = NewRuntime(r, a) OBVIOUS
<1>8. NewWorld(u, r, a) BY <1>0, <1>3, <1>6, <1>7, NewRuntimeIs
<1>9. PoolWithout(r)
  <2>1. r \notin Pooled
    <3>1. rt[r].quick = FALSE BY <1>4 DEF NoRuntime
    <3> QED BY <1>3, <3>1 DEF AppInv, PoolFits
  <2>2. Pooled' = Pooled BY <1>1 DEF Pooled
  <2> QED BY <1>0, <1>1, <2>1, <2>2
          DEF PoolWithout, AppInv, PoolFits, Once, TypeOK, QuickTypeOK
<1>10. ASSUME Started(a, r) PROVE Step
  BY <1>1, <1>3, <1>5, <1>9, <1>10, StartedStep
<1>11. CASE Kind(a) = "inproc" \/ am.compositor
  <2>1. PICK o \in Outcomes(Kind(a)) : Becomes(TryStart(u, r, o.ok, o.object))
    BY <1>2, <1>7, <1>11 DEF StartFresh
  <2>2. o \in [ok : BOOLEAN, object : BOOLEAN] BY <2>1 DEF Outcomes
  <2>3. Started(a, r) \/ StartFails(a)
    BY <1>1, <1>3, <1>5, <1>8, <2>1, <2>2, NewTryStart
  <2>4. QuickCounts BY <1>0, <1>1, UnchangedCounts
  <2> QED BY <1>1, <1>10, <2>3, <2>4, FailedStep
<1>12. CASE Kind(a) # "inproc" /\ ~am.compositor
  <2>1. Becomes([u EXCEPT !.rt[r].waits = "compositor"])
    BY <1>2, <1>7, <1>12 DEF StartFresh
  <2> DEFINE x2 == [u.rt[r] EXCEPT !.waits = "compositor"]
  <2>2. PICK w : w = [u EXCEPT !.rt[r] = x2] OBVIOUS
  <2>3. app' = w.app /\ rt' = w.rt BY <1>8, <2>1, <2>2 DEF Becomes, Worlds, NewWorld
  <2>4. /\ x2.quick = FALSE /\ x2.app = a /\ x2.state = "NotRunning" /\ ObjectFits(x2)
        /\ x2 \in RuntimeObject /\ x2.kind = Kind(a)
    <3>1. New(u.rt[r], a) BY <1>8 DEF NewWorld
    <3>2. u.rt[r].kind # "inproc" /\ u.rt[r].kind = Kind(a) BY <1>12, <3>1 DEF New
    <3>3. Waiting(u.rt[r], x2) BY DEF Waiting
    <3> HIDE DEF x2
    <3>4. PICK x : x = u.rt[r] OBVIOUS
    <3>5. New(x, a) /\ x.kind # "inproc" /\ x.kind = Kind(a) /\ Waiting(x, x2)
      BY Zenon, <3>1, <3>2, <3>3, <3>4
    <3> QED BY <3>5, NewWaits
  <2> HIDE DEF x2
  <2>5. w \in Worlds /\ w.app = u.app /\ w.rt[r] = x2
        /\ \A q \in Runtimes : q # r => w.rt[q] = u.rt[q]
    BY <1>3, <1>8, <2>2, <2>4 DEF Worlds, NewWorld
  <2>6. app' \in [Apps -> Application] /\ rt' \in [Runtimes -> RuntimeObject]
    BY <2>3, <2>5, WorldFields
  <2>7. /\ app'[a].exists = TRUE /\ app'[a].blocked = FALSE /\ app'[a].waiting = FALSE
        /\ app'[a].kind = app[a].kind
        /\ app'[a].runtime = r /\ app'[a].runState = app[a].runState
    <3>1. app'[a] = [app[a] EXCEPT !.runtime = r] BY <1>8, <2>3, <2>5 DEF NewWorld
    <3> QED BY <1>6, <3>1 DEF Application
  <2>8. Started(a, r) BY <1>6, <1>8, <2>3, <2>4, <2>5, <2>6, <2>7 DEF Started, NewWorld
  <2> QED BY <1>10, <2>8
<1> QED BY <1>11, <1>12

-----------------------------------------------------------------------------
(* The pool is filled up *)

(* a launcher that has just been started *)
LaunchedObject == [NewLauncher EXCEPT !.process = "starting", !.state = "StartingUp"]

LEMMA LaunchedFits ==
    /\ LaunchedObject \in RuntimeObject /\ ObjectFits(LaunchedObject)
    /\ LaunchedObject.quick = TRUE /\ LaunchedObject.app = None
<1>1. /\ LaunchedObject.kind = "launcher" /\ LaunchedObject.quick = TRUE
      /\ LaunchedObject.app = None /\ LaunchedObject.watch = None
      /\ LaunchedObject.waits = "no" /\ LaunchedObject.link = "no"
      /\ LaunchedObject.surfaces = FALSE /\ LaunchedObject.posted = <<>>
  BY DEF LaunchedObject, NewLauncher, NoRuntime
<1>2. LaunchedObject \in RuntimeObject
  BY NoRuntimeFits DEF LaunchedObject, NewLauncher, RuntimeObject, RunState, AppKinds,
     NativeKinds
<1>3. LaunchedObject.kind \in NativeKinds /\ ~LaunchedObject.surfaces
  BY <1>1 DEF NativeKinds
<1>4. LaunchedObject.watch = LaunchedObject.app BY <1>1
<1>5. LaunchedObject.quick => LaunchedObject.kind = "launcher" /\ LaunchedObject.app = None
  BY <1>1
<1>6. LaunchedObject.link # "no" =>
          /\ LaunchedObject.process \in {"up", "gone"}
          /\ LaunchedObject.kind \in {"launcher", "interface"}
  BY <1>1
<1>7. LaunchedObject.link = "ready" /\ LaunchedObject.kind = "launcher"
      /\ LaunchedObject.process = "up" /\ LaunchedObject.app # None => LaunchedObject.told
  BY <1>1
<1>8. ObjectFits(LaunchedObject) BY <1>1, <1>3, <1>4, <1>5, <1>6, <1>7, ProcessFits
<1> QED BY <1>1, <1>2, <1>8

LEMMA LauncherStartIs ==
    ASSUME TypeOK, NEW r \in Runtimes,
           Becomes(NativeStart([World EXCEPT !.rt[r] = NewLauncher], r, TRUE))
    PROVE  app' = app /\ rt' = [rt EXCEPT ![r] = LaunchedObject]
<1>0. World \in Worlds /\ World.app = app /\ World.rt = rt BY WorldTyped
<1>1. PICK x : x = [NewLauncher EXCEPT !.process = "starting"] OBVIOUS
<1>2. x \in RuntimeObject /\ x.watch = None
  BY <1>1, NoRuntimeFits
     DEF NewLauncher, NoRuntime, RuntimeObject, AppKinds, NativeKinds
<1>3. PICK w : w = [World EXCEPT !.rt[r] = x] OBVIOUS
<1>4. Becomes(SetState(w, r, "StartingUp"))
  BY <1>0, <1>1, <1>3 DEF NativeStart, Worlds
<1>5. w \in Worlds /\ w.app = app /\ w.rt[r] = x
      /\ \A q \in Runtimes : q # r => w.rt[q] = rt[q]
  BY <1>0, <1>2, <1>3 DEF Worlds
<1>6. PICK v : v = SetState(w, r, "StartingUp") OBVIOUS
<1>7. /\ v.rt[r] = [x EXCEPT !.state = "StartingUp"] /\ v.app = app /\ v \in Worlds
      /\ \A q \in Runtimes : q # r => v.rt[q] = rt[q]
  <2>1. PICK a : a = w.rt[r].watch OBVIOUS
  <2>2. "StartingUp" \in RunState /\ a = None BY <1>2, <1>5, <2>1 DEF RunState
  <2>3. /\ Touches(w, v, r, a) /\ v.rt[r] = [w.rt[r] EXCEPT !.state = "StartingUp"]
        /\ a = None => v.app = w.app
    <3>1. "StartingUp" \in RunState BY <2>2
    <3>2. \A u, b : u = SetState(w, r, "StartingUp") /\ b = w.rt[r].watch =>
              /\ Touches(w, u, r, b)
              /\ u.rt[r] = [w.rt[r] EXCEPT !.state = "StartingUp"]
              /\ b # None =>
                    u.app[b] = IF w.rt[r].state = "StartingUp" THEN w.app[b]
                               ELSE Report(w.app[b], "StartingUp")
              /\ b = None => u.app = w.app
      BY <1>5, <3>1, SetStateIs
    <3> QED BY <1>6, <2>1, <3>2
  <2> QED BY <1>5, <2>2, <2>3 DEF Touches
<1>8. [x EXCEPT !.state = "StartingUp"] = LaunchedObject
  BY <1>1 DEF LaunchedObject, NewLauncher, NoRuntime
<1>9. app' = v.app /\ rt' = v.rt BY <1>4, <1>6 DEF Becomes
<1>10. rt' \in [Runtimes -> RuntimeObject] /\ rt'[r] = LaunchedObject
       /\ \A q \in Runtimes : q # r => rt'[q] = rt[q]
  BY <1>7, <1>8, <1>9, WorldFields
<1>11. rt' = [rt EXCEPT ![r] = LaunchedObject]
  <2>1. PICK x2 : x2 = LaunchedObject OBVIOUS
  <2>2. rt \in [Runtimes -> RuntimeObject] BY Fields
  <2> QED BY <1>10, <2>1, <2>2
<1> QED BY <1>7, <1>9, <1>11

(* the pool after a launcher has been added *)
PoolWith(r) ==
    /\ ql' \in QuickLaunchEntry /\ ql'.shuttingDown = ql.shuttingDown
    /\ Len(ql'.pool) <= PoolMax /\ Once(ql'.pool)
    /\ Pooled' = Pooled \cup {r}

LEMMA LaunchedStep ==
    ASSUME AppInv, NEW r \in Runtimes, rt[r].kind = "free", ~ql.shuttingDown,
           app' = app, rt' = [rt EXCEPT ![r] = LaunchedObject], PoolWith(r), am' = am,
           late' = late
    PROVE  Step
<1>0. TypeOK /\ None \notin Runtimes BY Fields DEF AppInv
<1>1. am.shuttingDown = FALSE /\ am.down = {} BY <1>0 DEF AppInv, DownFits, TypeOK, Manager
<1>2. /\ rt' \in [Runtimes -> RuntimeObject] /\ rt'[r] = LaunchedObject
      /\ \A q \in Runtimes : q # r => rt'[q] = rt[q]
  <2>1. rt \in [Runtimes -> RuntimeObject] BY <1>0, Fields
  <2> QED BY <2>1, LaunchedFits
<1>3. TypeOK' BY <1>0, <1>2 DEF TypeOK, RuntimeTypeOK, QuickTypeOK, PoolWith
<1>4. PoolFits'
  <2>1. \A q \in Runtimes : rt'[q].quick <=> q \in Pooled'
    BY <1>2, LaunchedFits DEF AppInv, PoolFits, PoolWith
  <2> QED BY <2>1 DEF PoolFits, PoolWith, Once
<1>5. DownFits' BY <1>1 DEF AppInv, DownFits, PoolWith
<1>6. ASSUME NEW q \in Runtimes PROVE ObjectFits(rt'[q]) /\ RuntimeFits(q)'
  <2>1. CASE q = r
    <3>1. rt'[q] = LaunchedObject BY <1>2, <2>1
    <3>2. RuntimeFits(q)' BY <3>1, LaunchedFits DEF RuntimeFits
    <3> QED BY <3>1, <3>2, LaunchedFits
  <2>2. CASE q # r
    <3>1. rt'[q] = rt[q] BY <1>2, <2>2
    <3> QED BY <3>1 DEF AppInv, RuntimeFits, Kind
  <2> QED BY <2>1, <2>2
<1>7. ASSUME NEW a \in Apps PROVE AppFits(a)'
  <2>1. app[a].runtime # r /\ app[a].runtime \in Runtimes \cup {None}
    BY <1>0, OwnerKnown, Fields
  <2>2. app[a].runtime # None => rt'[app[a].runtime] = rt[app[a].runtime] BY <1>2, <2>1
  <2> QED BY <2>2 DEF AppInv, AppFits
<1>8. AppInv' BY <1>3, <1>4, <1>5, <1>6, <1>7 DEF AppInv
<1>9. NoNewProcess BY <1>1 DEF NoNewProcess
<1>10. LivesOn BY <1>0, SameLife DEF LivesOn
<1> QED BY <1>8, <1>9, <1>10 DEF Step

(* what checkFailedStarts leaves of a pool that is otherwise the one of q *)
LEMMA CountsAfter ==
    ASSUME TypeOK, NEW q \in QuickLaunchEntry, q.failures = ql.failures,
           NEW n, n = ql.failures \/ n = AddFailure, NEW kept \in Kept(n)
    PROVE  /\ CheckFailedStarts(q, kept) \in QuickLaunchEntry
           /\ CheckFailedStarts(q, kept).pool = q.pool
           /\ CheckFailedStarts(q, kept).shuttingDown = q.shuttingDown
<1>1. ql.failures \in 0 .. FailedStartLimit /\ FailedStartLimit \in Nat
  BY PoolAssumption DEF TypeOK, QuickTypeOK, QuickLaunchEntry
<1>2. AddFailure = (IF FailedStartLimit = 0 THEN 0 ELSE ql.failures + 1) /\ AddFailure \in Nat
  BY <1>1 DEF AddFailure
<1>3. n \in Nat /\ kept \in 0 .. n BY <1>1, <1>2 DEF Kept
<1>4. n <= IF FailedStartLimit = 0 THEN 0 ELSE q.failures + 1 BY <1>1, <1>2
<1> QED BY <1>3, <1>4, CheckFailedStartsTyped

(* the pool with one more launcher, before the failures are counted *)
Appended(r, timer) == [ql EXCEPT !.pool = Append(@, r), !.timer = timer]

LEMMA AppendedPool ==
    ASSUME AppInv, NEW r \in Runtimes, rt[r].kind = "free", NEW timer \in BOOLEAN,
           Len(ql.pool) < PoolMax, NEW q, q = Appended(r, timer)
    PROVE  /\ q \in QuickLaunchEntry /\ q.failures = ql.failures
           /\ q.shuttingDown = ql.shuttingDown
           /\ Len(q.pool) <= PoolMax /\ Once(q.pool)
           /\ Elements(q.pool) = Pooled \cup {r}
<1>0. TypeOK BY DEF AppInv
<1>1. ql \in QuickLaunchEntry /\ ql.pool \in Seq(Runtimes)
  BY <1>0 DEF TypeOK, QuickTypeOK, QuickLaunchEntry
<1>2. Once(ql.pool) /\ Elements(ql.pool) = Pooled
  BY DEF AppInv, PoolFits, Once, Elements, Pooled
<1>3. r \notin Elements(ql.pool)
  <2>1. rt[r].quick = FALSE BY DEF AppInv, ObjectFits, NoRuntime
  <2> QED BY <1>2, <2>1 DEF AppInv, PoolFits
<1>4. PICK t : t = Append(ql.pool, r) OBVIOUS
<1>5. /\ t \in Seq(Runtimes) /\ Once(t) /\ Elements(t) = Elements(ql.pool) \cup {r}
      /\ Len(t) = Len(ql.pool) + 1
  <2>1. PICK p \in Seq(Runtimes) : p = ql.pool BY <1>1
  <2>2. Once(p) /\ r \notin Elements(p) /\ t = Append(p, r) BY <1>2, <1>3, <1>4, <2>1
  <2>3. /\ t \in Seq(Runtimes) /\ Once(t) /\ Elements(t) = Elements(p) \cup {r}
        /\ Len(t) = Len(p) + 1
    <3>1. \A S, e, u : \A z \in Seq(S) :
              Once(z) /\ e \in S /\ e \notin Elements(z) /\ u = Append(z, e) =>
              u \in Seq(S) /\ Once(u) /\ Elements(u) = Elements(z) \cup {e} /\ Len(u) = Len(z) + 1
      BY Zenon, AppendedOnce
    <3> QED BY Zenon, <2>2, <3>1
  <2> QED BY <2>1, <2>3
<1>6. q = [ql EXCEPT !.pool = t, !.timer = timer] BY <1>4 DEF Appended
<1>7. /\ q \in QuickLaunchEntry /\ q.failures = ql.failures
      /\ q.shuttingDown = ql.shuttingDown /\ q.pool = t
  BY <1>1, <1>5, <1>6 DEF QuickLaunchEntry
<1>8. Len(t) <= PoolMax
  <2>1. Len(ql.pool) \in Nat BY <1>1, LenProperties
  <2> QED BY <1>5, <2>1, PoolAssumption
<1> QED BY <1>2, <1>5, <1>7, <1>8

LEMMA PoolEventStep ==
    ASSUME AppInv, PoolEvent
    PROVE  Step
<1>0. TypeOK BY DEF AppInv
<1>1. RebuildEntry /\ am' = am /\ late' = late BY DEF PoolEvent, Rebuild, TimerEvent
<1>2. ql \in QuickLaunchEntry BY <1>0 DEF TypeOK, QuickTypeOK
<1>3. PICK waited : waited = [ql EXCEPT !.timer = FALSE] OBVIOUS
<1>4. /\ waited \in QuickLaunchEntry /\ waited.pool = ql.pool
      /\ waited.shuttingDown = ql.shuttingDown /\ waited.failures = ql.failures
  BY <1>2, <1>3 DEF QuickLaunchEntry
<1>5. Len(ql.pool) \in Nat /\ PoolMax \in Nat /\ Len(ql.pool) <= PoolMax
  <2>1. ql.pool \in Seq(Runtimes) BY <1>2 DEF QuickLaunchEntry
  <2> QED BY <2>1, LenProperties, PoolAssumption DEF AppInv, PoolFits
<1>6. CASE ql.shuttingDown \/ ql.disabled
  <2>1. app' = app /\ rt' = rt /\ ql' = waited BY <1>1, <1>3, <1>6 DEF RebuildEntry
  <2>2. QuickCounts BY <1>4, <2>1 DEF QuickCounts
  <2> QED BY <1>1, <2>1, <2>2, NothingStep
<1>7. CASE ~(ql.shuttingDown \/ ql.disabled)
  <2> DEFINE todo == PoolMax - Len(ql.pool)
  <2>1. \/ /\ app' = app /\ rt' = rt
           /\ \E kept \in Kept(ql.failures) : ql' = CheckFailedStarts(waited, kept)
        \/ /\ todo > 0 /\ Free # {}
           /\ Becomes(NativeStart([World EXCEPT !.rt[Fresh] = NewLauncher], Fresh, TRUE))
           /\ \E kept \in Kept(ql.failures) :
                  ql' = CheckFailedStarts(Appended(Fresh, todo > 1), kept)
        \/ /\ app' = app /\ rt' = rt
           /\ \E kept \in Kept(AddFailure) :
                  ql' = CheckFailedStarts([ql EXCEPT !.timer = TRUE], kept)
    BY <1>1, <1>3, <1>7 DEF RebuildEntry, Appended
  <2>2. CASE /\ app' = app /\ rt' = rt
             /\ \E kept \in Kept(ql.failures) : ql' = CheckFailedStarts(waited, kept)
    <3>1. PICK kept \in Kept(ql.failures) : ql' = CheckFailedStarts(waited, kept) BY <2>2
    <3>2. QuickCounts BY <1>0, <1>4, <3>1, CountsAfter DEF QuickCounts
    <3> QED BY <1>1, <2>2, <3>2, NothingStep
  <2>3. CASE /\ app' = app /\ rt' = rt
             /\ \E kept \in Kept(AddFailure) :
                    ql' = CheckFailedStarts([ql EXCEPT !.timer = TRUE], kept)
    <3>1. PICK again : again = [ql EXCEPT !.timer = TRUE] OBVIOUS
    <3>2. /\ again \in QuickLaunchEntry /\ again.pool = ql.pool
          /\ again.shuttingDown = ql.shuttingDown /\ again.failures = ql.failures
      BY <1>2, <3>1 DEF QuickLaunchEntry
    <3>3. PICK kept \in Kept(AddFailure) : ql' = CheckFailedStarts(again, kept)
      BY <2>3, <3>1
    <3>4. QuickCounts BY <1>0, <3>2, <3>3, CountsAfter DEF QuickCounts
    <3> QED BY <1>1, <2>3, <3>4, NothingStep
  <2>4. CASE /\ todo > 0 /\ Free # {}
             /\ Becomes(NativeStart([World EXCEPT !.rt[Fresh] = NewLauncher], Fresh, TRUE))
             /\ \E kept \in Kept(ql.failures) :
                    ql' = CheckFailedStarts(Appended(Fresh, todo > 1), kept)
    <3>1. PICK r : r = Fresh OBVIOUS
    <3>2. r \in Runtimes /\ rt[r].kind = "free" BY <2>4, <3>1, FreshIsFree
    <3>3. app' = app /\ rt' = [rt EXCEPT ![r] = LaunchedObject]
      <4>1. Becomes(NativeStart([World EXCEPT !.rt[r] = NewLauncher], r, TRUE))
        BY <2>4, <3>1
      <4> QED BY <1>0, <3>2, <4>1, LauncherStartIs
    <3>4. PICK timer \in BOOLEAN : timer = (todo > 1)
      <4>1. CASE todo > 1
        <5>1. TRUE = (todo > 1) /\ TRUE \in BOOLEAN BY <4>1
        <5> QED BY Zenon, <5>1
      <4>2. CASE ~(todo > 1)
        <5>1. FALSE = (todo > 1) /\ FALSE \in BOOLEAN BY <4>2
        <5> QED BY Zenon, <5>1
      <4> QED BY <4>1, <4>2
    <3>5. PICK q : q = Appended(r, timer) OBVIOUS
    <3>6. Len(ql.pool) < PoolMax BY <1>5, <2>4
    <3>7. /\ q \in QuickLaunchEntry /\ q.failures = ql.failures
          /\ q.shuttingDown = ql.shuttingDown
          /\ Len(q.pool) <= PoolMax /\ Once(q.pool)
          /\ Elements(q.pool) = Pooled \cup {r}
      BY <3>2, <3>5, <3>6, AppendedPool
    <3>8. PICK kept \in Kept(ql.failures) : ql' = CheckFailedStarts(q, kept)
      BY Zenon, <2>4, <3>1, <3>4, <3>5
    <3>9. /\ ql' \in QuickLaunchEntry /\ ql'.pool = q.pool
          /\ ql'.shuttingDown = q.shuttingDown
      BY <1>0, <3>7, <3>8, CountsAfter
    <3>10. PoolWith(r) BY <3>7, <3>9 DEF PoolWith, Pooled, Elements
    <3>11. ~ql.shuttingDown BY <1>7
    <3> QED BY <1>1, <3>2, <3>3, <3>10, <3>11, LaunchedStep
  <2> QED BY <2>1, <2>2, <2>3, <2>4
<1> QED BY <1>6, <1>7

-----------------------------------------------------------------------------
(* The invariant *)

LEMMA AppInit == ASSUME Init PROVE AppInv
<1>0. PICK kinds \in [Apps -> AppKinds] : app = [a \in Apps |-> Registered(kinds[a])]
  BY DEF Init
<1>1. /\ rt = [r \in Runtimes |-> NoRuntime] /\ late = {}
      /\ ql = [pool |-> <<>>, disabled |-> FALSE, failures |-> 0, timer |-> PoolMax > 0,
               shuttingDown |-> FALSE]
      /\ am = [compositor |-> FALSE, shuttingDown |-> FALSE, awaited |-> {}, down |-> {},
               exit |-> "no"]
  BY DEF Init, QuickInit
<1>2. app \in [Apps -> Application] BY <1>0, RegisteredTyped
<1>3. RuntimeTypeOK BY <1>1, <1>2, NoRuntimeFits DEF RuntimeTypeOK
<1>4. ql \in QuickLaunchEntry /\ ql.pool = <<>> /\ ql.shuttingDown = FALSE
  <2>1. <<>> \in Seq(Runtimes) BY EmptySeq
  <2>2. 0 \in 0 .. FailedStartLimit BY PoolAssumption
  <2>3. (PoolMax > 0) \in BOOLEAN OBVIOUS
  <2> DEFINE some == PoolMax > 0
  <2>4. some \in BOOLEAN BY <2>3
  <2>5. ql = [pool |-> <<>>, disabled |-> FALSE, failures |-> 0, timer |-> some,
              shuttingDown |-> FALSE]
    BY <1>1
  <2> HIDE DEF some
  <2> QED BY <2>1, <2>2, <2>4, <2>5 DEF QuickLaunchEntry
<1>5. am \in Manager BY <1>1 DEF Manager
<1>6. DOMAIN ql.pool = {} /\ Pooled = {} /\ Len(ql.pool) = 0 BY <1>4 DEF Pooled
<1>7. PoolFits
  <2>1. \A r \in Runtimes : rt[r].quick = FALSE BY <1>1 DEF NoRuntime
  <2> QED BY <1>6, <2>1, PoolAssumption DEF PoolFits
<1>8. DownFits BY <1>1, <1>4 DEF DownFits
<1>9. \A r \in Runtimes : ObjectFits(rt[r]) /\ RuntimeFits(r)
  BY <1>1, NoRuntimeFits DEF RuntimeFits, NoRuntime
<1>10. ASSUME NEW a \in Apps PROVE AppFits(a)
  <2>1. /\ app[a].runtime = None /\ app[a].runState = "NotRunning"
        /\ app[a].waiting = FALSE /\ app[a].blocked = FALSE
    BY <1>0, RegisteredTyped
  <2> QED BY <1>1, <2>1 DEF AppFits
<1> QED BY <1>1, <1>3, <1>4, <1>5, <1>7, <1>8, <1>9, <1>10 DEF AppInv, TypeOK, QuickTypeOK

(* the process exits and takes everything with it *)
Exits == \A a \in Apps : LifeOf(a)' = Life!Gone

LEMMA NextStep ==
    ASSUME AppInv, [Next]_vars
    PROVE  AppInv' /\ NoNewProcess /\ (LivesOn \/ Exits)
<1>1. CASE UNCHANGED vars
  <2>1. app' = app /\ rt' = rt /\ ql' = ql /\ am' = am /\ late' = late BY <1>1 DEF vars
  <2>2. QuickCounts BY <2>1, UnchangedCounts DEF AppInv
  <2> QED BY <2>1, <2>2, NothingStep DEF Step
<1>2. ASSUME NEW a \in Apps, StartApplication(a) PROVE Step
  BY <1>2, StartFromPoolStep, StartFreshStep DEF StartApplication
<1>3. ASSUME NEW a \in Apps,
             Block(a) \/ Unblock(a) \/ RemoveApplication(a) \/ AddApplication(a)
      PROVE  Step
  BY <1>3, BlockStep, UnblockStep, RemoveApplicationStep, AddApplicationStep
<1>4. ASSUME NEW a \in Apps, NEW forceKill \in BOOLEAN, StopApplication(a, forceKill)
      PROVE  Step
  BY <1>4, StopApplicationAnswered, CallsStep
<1>5. ASSUME NEW forceKill \in BOOLEAN, StopAllApplications(forceKill) PROVE Step
  BY <1>5, StopAllApplicationsAnswered, CallsStep
<1>6. ASSUME NEW r \in Runtimes, ContainerReady(r) PROVE Step
  BY <1>6, ContainerReadyAnswered, CallsStep
<1>7. ASSUME NEW r \in Runtimes, RuntimeEvent(r) PROVE Step
  BY <1>7, RuntimeEventAnswered, CallsStep
<1>8. ASSUME NEW r \in Runtimes, DeleteRuntime(r) PROVE Step BY <1>8, DeleteRuntimeStep
<1>9. CASE SetWindowManagerCompositorReady BY <1>9, CompositorStep DEF Step
<1>10. CASE PoolEvent BY <1>10, PoolEventStep DEF Step
<1>11. CASE ShutDown BY <1>11, ShutDownStep DEF Step
<1>12. CASE EmptyPoolShutDown BY <1>12, EmptyPoolShutDownStep DEF Step
<1>13. CASE ShutDownTimer BY <1>13, ShutDownTimerStep DEF Exits
<1> QED BY <1>1, <1>2, <1>3, <1>4, <1>5, <1>6, <1>7, <1>8, <1>9, <1>10, <1>11, <1>12, <1>13
        DEF Next, Step

(* For any number of applications and runtimes, whatever fails and in whatever order the
   events come, the invariant above is kept. *)
THEOREM AppInvariance == Spec => []AppInv
<1>1. Init => AppInv BY AppInit
<1>2. AppInv /\ [Next]_vars => AppInv' BY NextStep
<1> QED BY <1>1, <1>2, PTL DEF Spec

(* The records of applications, runtimes, pool and manager have their types: the queue of
   a runtime holds lambdas, the pool holds runtimes, the failures stay below the limit. *)
THEOREM ApplicationTypesAreCorrect == Spec => []TypeOK
<1>1. AppInv => TypeOK BY DEF AppInv
<1> QED BY <1>1, AppInvariance, PTL

(* An Application and its AbstractRuntime agree about each other, through starts, stops,
   blocks, ends of processes and shutdown; about the run state they differ only after an
   event of a runtime the application had before; and only a running application keeps
   its package waiting. *)
THEOREM RunStatesAgree == Spec => []RunStateAgrees
<1>1. AppInv => RunStateAgrees BY DEF AppInv, AppFits, RunStateAgrees
<1> QED BY <1>1, AppInvariance, PTL

(* No process is lost: it belongs to the pool, to its application, or to one that has been
   removed. *)
THEOREM ProcessesHaveOwners == Spec => []ProcessHasOwner
<1>1. ASSUME AppInv, NEW r \in Runtimes, Alive(r)
      PROVE  /\ rt[r].quick => r \in Pooled
             /\ rt[r].app # None => app[rt[r].app].runtime = r
  <2>1. rt[r].quick => r \in Pooled BY <1>1 DEF AppInv, PoolFits
  <2>2. rt[r].app # None => app[rt[r].app].runtime = r
    BY <1>1 DEF AppInv, RuntimeFits, Ended, Alive
  <2> QED BY <2>1, <2>2
<1>2. AppInv => ProcessHasOwner BY <1>1 DEF ProcessHasOwner
<1> QED BY <1>2, AppInvariance, PTL

(* a launcher is in the pool once, so the pool has as many launchers as entries *)
LEMMA PoolCounted == ASSUME AppInv PROVE Cardinality(Pooled) = Len(ql.pool)
<1>1. PICK n \in Nat : n = Len(ql.pool) /\ DOMAIN ql.pool = 1 .. n
                       /\ ql.pool \in [1 .. n -> Runtimes]
  <2>1. ql.pool \in Seq(Runtimes) BY DEF AppInv, TypeOK, QuickTypeOK, QuickLaunchEntry
  <2> QED BY <2>1, LenProperties
<1>2. ql.pool \in Bijection(1 .. n, Pooled)
  BY <1>1 DEF AppInv, PoolFits, Pooled, Bijection, Injection, Surjection, IsInjective
<1>3. ExistsBijection(1 .. n, Pooled) BY <1>2 DEF ExistsBijection
<1> QED BY <1>1, <1>3, FS_CountingElements

(* What QuickLauncher::take hands out is a launcher nobody has got, and the pool is never
   larger than configured. *)
THEOREM ThePoolIsUnattached == Spec => []PoolIsUnattached
<1>1. ASSUME AppInv PROVE PoolIsUnattached
  <2>1. Len(ql.pool) <= PoolMax BY <1>1 DEF AppInv, PoolFits
  <2>2. ASSUME NEW r \in Pooled
        PROVE  rt[r].quick /\ rt[r].app = None /\ r \notin CurrentRuntimes
    <3>1. r \in Runtimes
      <4>1. ql.pool \in Seq(Runtimes)
        BY <1>1 DEF AppInv, TypeOK, QuickTypeOK, QuickLaunchEntry
      <4> QED BY <4>1, ElementOfSeq, LenProperties DEF Pooled
    <3>2. rt[r].quick /\ rt[r].app = None
      BY <1>1, <2>2, <3>1 DEF AppInv, PoolFits, ObjectFits
    <3>3. ASSUME r \in CurrentRuntimes PROVE FALSE
      <4>1. PICK a \in Apps : app[a].runtime = r BY <3>3 DEF CurrentRuntimes
      <4>2. rt[r].app = a BY <1>1, <3>1, <4>1, OwnerKnown
      <4> QED BY <1>1, <3>2, <4>2, Fields DEF AppInv
    <3> QED BY <3>2, <3>3
  <2> QED BY <1>1, <2>1, <2>2, PoolCounted DEF PoolIsUnattached
<1> QED BY <1>1, AppInvariance, PTL

(* Whether a launcher gets its application before or after it has finished its
   initialization, it is told to start it. *)
THEOREM ReadyLaunchersWereTold == Spec => []ReadyLauncherWasTold
<1>1. AppInv => ReadyLauncherWasTold BY DEF AppInv, ObjectFits, ReadyLauncherWasTold, Alive
<1> QED BY <1>1, AppInvariance, PTL

(* When the shutdown ends because all parts have reported, no application has a runtime and
   no launcher is left in the pool. *)
THEOREM ExitsAreClean == Spec => []CleanExit
<1>1. ASSUME AppInv PROVE CleanExit
  <2>1. NoneCurrent => CurrentRuntimes = {} BY DEF NoneCurrent, CurrentRuntimes
  <2> QED BY <1>1, <2>1 DEF AppInv, DownFits, CleanExit, Parts
<1> QED BY <1>1, AppInvariance, PTL

(* Once the shutdown has begun, a process comes into being only for a start that was
   waiting already. *)
THEOREM NoNewProcessesInShutDown == Spec => NoNewProcessInShutDown
<1>1. AppInv /\ [Next]_vars =>
          [am.shuttingDown =>
               \A r \in Runtimes : Alive(r)' /\ ~Alive(r) => rt[r].waits # "no"]_vars
  BY NextStep DEF NoNewProcess
<1> QED BY <1>1, AppInvariance, PTL DEF Spec, NoNewProcessInShutDown

(* Applications start, run, stop and go the way the package manager assumes when it blocks
   them, whatever the order of the events: the application manager implements
   AppLifeCycle, in which a late event may make an application look running once more. *)
THEOREM AppLifeCycleIsImplemented == Spec => ImplementsAppLifeCycle
<1>1. Init => Life!Init
  <2>1. SUFFICES ASSUME Init PROVE Life!Init OBVIOUS
  <2>2. PICK kinds \in [Apps -> AppKinds] : app = [a \in Apps |-> Registered(kinds[a])]
    BY <2>1 DEF Init
  <2>3. late = {} BY <2>1 DEF Init
  <2>4. ASSUME NEW a \in Apps
        PROVE  [phase |-> Phase(a), blocked |-> app[a].blocked, late |-> a \in late]
                   = Life!Unstarted
    <3>1. /\ app[a].exists = TRUE /\ app[a].waiting = FALSE
          /\ app[a].runState = "NotRunning" /\ app[a].runtime = None
          /\ app[a].blocked = FALSE
      BY <2>2, RegisteredTyped
    <3>2. Phase(a) = "NotRunning" BY <3>1 DEF Phase
    <3>3. (a \in late) = FALSE BY <2>3
    <3> QED BY Zenon, <3>1, <3>2, <3>3 DEF Life!Unstarted
  <2> QED BY <2>4 DEF Life!Init
<1>2. LivesOn => Life!Move BY DEF LivesOn, LifeOf, Life!Move
<1>3. Exits => Life!Exit BY DEF Exits, LifeOf, Life!Exit
<1>4. AppInv /\ [Next]_vars =>
          [Life!Next]_([a \in Apps |-> [phase |-> Phase(a), blocked |-> app[a].blocked,
                                        late |-> a \in late]])
  BY <1>2, <1>3, NextStep DEF Life!Next
<1> QED BY <1>1, <1>4, AppInvariance, PTL DEF Spec, ImplementsAppLifeCycle, Life!Spec

============================================================================
