-------------------------- MODULE QmlInProcRuntime --------------------------
(***************************************************************************)
(* QmlInProcRuntime: an application inside the process of the System UI.   *)
(* There is no process to wait for; instead most of a start and of a stop  *)
(* is posted to the event loop, and the System UI keeps the surfaces of an *)
(* application for as long as it likes.                                    *)
(***************************************************************************)
EXTENDS Runtime

CONSTANT MaxPosted    \* bound: lambdas queued for one runtime by its own events

ASSUME MaxPostedAssumption == MaxPosted \in Nat

Post(w, r, call) == [w EXCEPT !.rt[r].posted = Append(@, call)]

HasRoom(r) == Len(rt[r].posted) < MaxPosted

(* a stop from outside may add one more *)
MayStop(r) == Len(rt[r].posted) <= MaxPosted

-----------------------------------------------------------------------------
(* Calls *)

(* ok: the component could be loaded; object: it has a root object *)
InProcStart(w, r, ok, object) ==
    IF ok THEN Post(SetState(w, r, "StartingUp"), r, IF object THEN "create" ELSE "noRoot")
    ELSE Destroy(w, r)

(* mutant: the quit timer is not started *)
InProcStopMutant(w, r, forceKill) ==
    LET v == SetState(w, r, "ShuttingDown")
    IN  IF forceKill THEN Post(v, r, "finish") ELSE v

(* The surfaces become invisible.  The root object goes with the last of them; nothing
   depends on it. *)
InProcStop(w, r, forceKill) ==
    LET v == SetState(w, r, "ShuttingDown")
    IN  IF forceKill THEN Post(v, r, "finish") ELSE [v EXCEPT !.rt[r].sig = "quit"]

-----------------------------------------------------------------------------
(* Events *)

(* the lambda posted by start() *)
InProcCreated(r, surface) ==
    /\ LET v == [World EXCEPT !.rt[r].posted = Tail(@)]
       IN  IF Head(rt[r].posted) = "noRoot"
           THEN ~surface /\ Becomes(Post(v, r, "finish"))
           ELSE IF rt[r].state = "ShuttingDown"
                THEN ~surface /\ Becomes(v)
                ELSE Becomes(SetState([v EXCEPT !.rt[r].surfaces = surface], r, "Running"))

(* the lambda posted by finish(): it does not ask whether the application has a newer
   runtime.  A quit timer that is still running will find it NotRunning. *)
InProcFinished(r) ==
    LET v == [World EXCEPT !.rt[r].posted = Tail(@)]
        a == rt[r].app
        left == SetState(IF a = None THEN v ELSE SetCurrentRuntime(v, a, None), r, "NotRunning")
    IN  Becomes([left EXCEPT !.rt[r].deleted = @ \/ ~rt[r].surfaces, !.rt[r].sig = "none"])

(* the queued stopIfNoVisibleSurfaces(); the surface the application closed was its last *)
InProcStopIfNoVisible(r) ==
    Becomes(InProcStop([World EXCEPT !.rt[r].posted = Tail(@)], r, FALSE))

InProcDeliver(r) ==
    /\ rt[r].posted # <<>>
    /\ \/ /\ Head(rt[r].posted) \in {"create", "noRoot"}
          /\ \E surface \in BOOLEAN : InProcCreated(r, surface)
       \/ Head(rt[r].posted) = "finish" /\ InProcFinished(r)
       \/ Head(rt[r].posted) = "stopIfNoVisible" /\ InProcStopIfNoVisible(r)

InProcQuitTimer(r) ==
    /\ rt[r].kind = "inproc" /\ rt[r].sig = "quit"
    /\ LET v == [World EXCEPT !.rt[r].sig = "none"]
       IN  Becomes(IF rt[r].state # "NotRunning" THEN Post(v, r, "finish") ELSE v)

(* acknowledgeQuit, called by the application, or at once if it does not handle quit() *)
InProcAcknowledgeQuit(r) ==
    /\ rt[r].kind = "inproc" /\ rt[r].state = "ShuttingDown" /\ rt[r].sig = "quit"
    /\ HasRoom(r)
    /\ Becomes(Post(World, r, "finish"))

(* the application, or the System UI, closes its last visible window: as long as there is
   one, whatever has become of the runtime *)
InProcWindowClosed(r) ==
    /\ rt[r].surfaces /\ HasRoom(r)
    /\ Becomes(Post(World, r, "stopIfNoVisible"))

(* the System UI lets go of the last surface *)
InProcSurfacesReleased(r) ==
    /\ rt[r].surfaces
    /\ Becomes([World EXCEPT !.rt[r].surfaces = FALSE,
                             !.rt[r].deleted = @ \/ rt[r].state = "NotRunning"])

============================================================================
