--------------------------- MODULE NativeRuntime ---------------------------
(***************************************************************************)
(* NativeRuntime: an application, or a quick launcher without one yet, in  *)
(* a process of its own inside a container.  The process and its peer      *)
(* D-Bus connection report to the event loop, the object reacts.           *)
(***************************************************************************)
EXTENDS Runtime

-----------------------------------------------------------------------------
(* Calls *)

(* emits startApplication on the runtime interface, which only launchers have; one that has
   not finished its initialization may miss the signal *)
StartApplicationViaLauncher(w, r) ==
    [w EXCEPT !.rt[r].told = @ \/ (w.rt[r].kind = "launcher" /\ w.rt[r].link = "ready")]

(* attachApplicationToQuickLauncher: without a D-Bus connection, or when it is gone with
   the process, "hope for the best" *)
Attach(w, r, a) ==
    LET owned == SetCurrentRuntime([w EXCEPT !.rt[r].quick = FALSE, !.rt[r].app = a], a, r)
        starting == SetState(owned, r, "StartingUp")
    IN  SetState(IF w.rt[r].link = "no" \/ w.rt[r].process = "gone" THEN starting
                 ELSE StartApplicationViaLauncher(starting, r), r, "Running")

(* a start that finds no program to run fails, and the caller deletes the runtime *)
NativeStart(w, r, ok) ==
    IF ok THEN SetState([w EXCEPT !.rt[r].process = "starting"], r, "StartingUp")
    ELSE Destroy(w, r)

(* mutant: stopping twice is taken for a mistake *)
NativeStopMutant(w, r, forceKill) ==
    IF w.rt[r].process = "none" \/ w.rt[r].state = "ShuttingDown" THEN w
    ELSE LET v == SetState(w, r, "ShuttingDown")
         IN  [v EXCEPT !.rt[r].sig = IF forceKill THEN "kill"
                                     ELSE IF w.rt[r].link = "ready" THEN "quit" ELSE "term"]

(* Without a process there is nothing to stop: a start that waits for its container, or
   for the compositor, is not canceled.  A process that is connected gets its quit time
   before SIGTERM; a process that is gone does not receive anything. *)
NativeStop(w, r, forceKill) ==
    IF w.rt[r].process = "none" THEN w
    ELSE LET v == SetState(w, r, "ShuttingDown")
             sent == IF forceKill THEN "kill"
                     ELSE IF w.rt[r].link = "ready" THEN "quit" ELSE "term"
         IN  CASE w.rt[r].process = "gone"     -> v
               [] w.rt[r].sig = "kill"         -> v
               [] w.rt[r].sig = "term" /\ sent = "quit" -> v
               [] OTHER -> [v EXCEPT !.rt[r].sig = sent]

(* shutdown: the connection is given up, but a call the process has sent before it ended
   is still in the queue *)
NativeShutdown(w, r) ==
    LET dead == [w EXCEPT !.rt[r].process = "gone", !.rt[r].deleted = TRUE,
                          !.rt[r].sig = "none", !.rt[r].told = FALSE,
                          !.rt[r].link = IF @ = "hello" THEN "hello" ELSE "no"]
        a == w.rt[r].app
    IN  SetState(IF a = None THEN dead ELSE SetCurrentRuntime(dead, a, None),
                 r, "NotRunning")

-----------------------------------------------------------------------------
(* Events *)

(* quitTime is over *)
NativeQuitTimer(r) ==
    /\ rt[r].kind \in NativeKinds
    /\ rt[r].sig = "quit"
    /\ Becomes([World EXCEPT !.rt[r].sig = "term"])

(* a native application that does not support the ApplicationInterface is Running as soon
   as its process is; whether it has been told to stop meanwhile is not asked *)
OnProcessStarted(r) ==
    /\ rt[r].process = "starting"
    /\ LET up == [World EXCEPT !.rt[r].process = "up"]
       IN  Becomes(IF rt[r].kind = "native" THEN SetState(up, r, "Running") ELSE up)

(* exec failed: there is only errorOccurred, never finished.  Quick launchers, and runtimes
   that are already being stopped, ignore it. *)
OnProcessError(r) ==
    /\ rt[r].process = "starting"
    /\ IF rt[r].quick
       THEN "execPool" \in Faults
       ELSE IF rt[r].state = "StartingUp" THEN "exec" \in Faults ELSE "execStop" \in Faults
    /\ Becomes(IF ~rt[r].quick /\ rt[r].state \notin {"Running", "ShuttingDown"}
               THEN NativeShutdown(World, r)
               ELSE [World EXCEPT !.rt[r].process = "gone", !.rt[r].sig = "none"])

(* the launcher, or an application that supports the ApplicationInterface, connects ... *)
OnDBusPeerConnection(r) ==
    /\ rt[r].kind \in {"launcher", "interface"}
    /\ rt[r].process = "up" /\ rt[r].link = "no"
    /\ Becomes([World EXCEPT !.rt[r].link = "bus"])

(* ... and calls finishedInitialization *)
FinishedInitialization(r) ==
    /\ rt[r].process = "up" /\ rt[r].link = "bus"
    /\ Becomes([World EXCEPT !.rt[r].link = "hello"])

(* mutant: only a runtime that is starting up looks for its application *)
ApplicationFinishedInitializationMutant(r) ==
    /\ rt[r].link = "hello"
    /\ LET ready == [World EXCEPT !.rt[r].link = "ready"]
       IN  Becomes(IF rt[r].app = None \/ rt[r].state # "StartingUp" THEN ready
                   ELSE SetState(StartApplicationViaLauncher(ready, r), r, "Running"))

(* the call reaches the object, which asks neither for its state nor whether the
   application has forgotten it *)
ApplicationFinishedInitialization(r) ==
    /\ rt[r].link = "hello"
    /\ LET ready == [World EXCEPT !.rt[r].link = "ready"]
       IN  Becomes(IF rt[r].app = None THEN ready
                   ELSE SetState(StartApplicationViaLauncher(ready, r), r, "Running"))

============================================================================
