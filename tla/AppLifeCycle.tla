---------------------------- MODULE AppLifeCycle ----------------------------
(***************************************************************************)
(* What the package manager relies on when it blocks an application: the   *)
(* life of an application as PackageManager sees it.  A start may take     *)
(* effect later; an application that runs when its package is blocked has  *)
(* to stop, and is reported to the package when it has.  An application    *)
(* that was started before may be late: it looks running once more because *)
(* of a call that was still under way.                                     *)
(***************************************************************************)
CONSTANT Apps

VARIABLE life    \* a phase, a block and lateness for each application

Phases == {"gone", "NotRunning", "Pending", "Running", "ShuttingDown"}

Lives == [phase : Phases, blocked : BOOLEAN, late : BOOLEAN]

Unstarted == [phase |-> "NotRunning", blocked |-> FALSE, late |-> FALSE]

Gone == [Unstarted EXCEPT !.phase = "gone"]

(* a start begins, takes effect or fails, and an application ends by itself *)
Progress ==
    {<<"Pending", "Running">>, <<"Pending", "NotRunning">>, <<"Running", "NotRunning">>,
     <<"ShuttingDown", "NotRunning">>}

Begin == {<<"NotRunning", "Pending">>, <<"NotRunning", "Running">>}

(* ShuttingDown is the stop on behalf of a block: it ends with the application, or with
   the block *)
Moves(l) ==
    {m \in Lives :
        \/ /\ m.blocked = l.blocked
           /\ l.late => m.late
           /\ \/ m.phase = l.phase
              \/ <<l.phase, m.phase>> \in Progress
              \/ ~l.blocked /\ <<l.phase, m.phase>> \in Begin
              \/ m.late /\ <<l.phase, m.phase>> = <<"NotRunning", "Running">>
        \/ /\ ~l.blocked /\ m.blocked /\ l.phase # "gone" /\ m.late = l.late
           /\ m.phase = IF l.phase = "Running" THEN "ShuttingDown" ELSE l.phase
        \/ /\ l.blocked /\ ~m.blocked /\ m.late = l.late
           /\ m.phase = IF l.phase = "ShuttingDown" THEN "Running" ELSE l.phase
        \/ l.blocked /\ l.phase # "ShuttingDown" /\ m = Gone
        \/ l.phase = "gone" /\ m = Unstarted}

Init == life = [a \in Apps |-> Unstarted]

(* a call, or an event, can concern several applications *)
Move == \A a \in Apps : life'[a] \in Moves(life[a])

(* the process exits without waiting any longer *)
Exit == life' = [a \in Apps |-> Gone]

Next == Move \/ Exit

Spec == Init /\ [][Next]_life

=============================================================================
