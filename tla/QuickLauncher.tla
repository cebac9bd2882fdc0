--------------------------- MODULE QuickLauncher ---------------------------
(***************************************************************************)
(* QuickLauncher: a pool of launcher processes that were started before an *)
(* application asks for one.  The model has one pool entry, for one        *)
(* container and one runtime.                                              *)
(***************************************************************************)
EXTENDS NativeRuntime, SequencesExt

CONSTANTS
    PoolMax,            \* runtimesPerContainer
    FailedStartLimit,
    IdleLoad            \* quicklaunch/idleLoad is configured

ASSUME PoolAssumption ==
    /\ PoolMax \in Nat
    /\ FailedStartLimit \in Nat
    /\ IdleLoad \in BOOLEAN

VARIABLE ql

QuickLaunchEntry ==
    [pool : Seq(Runtimes),                  \* m_containersAndRuntimes
     disabled : BOOLEAN,
     failures : 0..FailedStartLimit,        \* m_failedTimeStamps
     timer : BOOLEAN,                       \* a rebuild is scheduled
     shuttingDown : BOOLEAN]

QuickTypeOK == ql \in QuickLaunchEntry

QuickInit ==
    ql = [pool |-> <<>>, disabled |-> FALSE, failures |-> 0, timer |-> PoolMax > 0,
          shuttingDown |-> FALSE]

Pooled == {ql.pool[i] : i \in DOMAIN ql.pool}

NewLauncher == [NoRuntime EXCEPT !.kind = "launcher", !.quick = TRUE]

-----------------------------------------------------------------------------
(* mutant: the failures are counted, and nothing comes of it *)
CheckFailedStartsMutant(q, kept) == IF q.disabled THEN q ELSE [q EXCEPT !.failures = kept]

(* checkFailedStarts: time stamps older than the interval are dropped, the entry is
   disabled when there are still too many; kept is what is left of them *)
CheckFailedStarts(q, kept) ==
    IF q.disabled THEN q
    ELSE IF FailedStartLimit > 0 /\ kept >= FailedStartLimit
         THEN [q EXCEPT !.disabled = TRUE, !.failures = 0]
         ELSE [q EXCEPT !.failures = kept]

(* without a limit the time stamps are never looked at *)
AddFailure == IF FailedStartLimit = 0 THEN 0 ELSE ql.failures + 1

Kept(n) == 0..n

(* mutant: the pool is topped up even when it was disabled *)
RebuildEntryMutant ==
    LET todo == PoolMax - Len(ql.pool)
    IN  IF todo = 0 THEN UNCHANGED <<app, rt>> /\ ql' = [ql EXCEPT !.timer = FALSE]
        ELSE /\ Free # {}
             /\ Becomes(NativeStart([World EXCEPT !.rt[Fresh] = NewLauncher], Fresh, TRUE))
             /\ ql' = [ql EXCEPT !.pool = Append(@, Fresh), !.timer = todo > 1]

(* One rebuild() creates at most one launcher; it comes back in a second if that is not
   enough, and also if the creation failed. *)
RebuildEntry ==
    LET todo == PoolMax - Len(ql.pool)
        waited == [ql EXCEPT !.timer = FALSE]
    IN  IF ql.shuttingDown \/ ql.disabled
        THEN UNCHANGED <<app, rt>> /\ ql' = waited
        ELSE \/ /\ todo = 0
                /\ UNCHANGED <<app, rt>>
                /\ \E kept \in Kept(ql.failures) : ql' = CheckFailedStarts(waited, kept)
             \/ /\ todo > 0 /\ Free # {}
                /\ Becomes(NativeStart([World EXCEPT !.rt[Fresh] = NewLauncher], Fresh, TRUE))
                /\ \E kept \in Kept(ql.failures) :
                       ql' = CheckFailedStarts([ql EXCEPT !.pool = Append(@, Fresh),
                                                          !.timer = todo > 1], kept)
             \/ /\ todo > 0 /\ "start" \in Faults
                /\ UNCHANGED <<app, rt>>
                /\ \E kept \in Kept(AddFailure) :
                       ql' = CheckFailedStarts([ql EXCEPT !.timer = TRUE], kept)

(* triggerRebuild(): the timer fires *)
Rebuild == ql.timer /\ RebuildEntry

(* timerEvent(): the system has become idle *)
TimerEvent == IdleLoad /\ ~ql.timer /\ RebuildEntry

(* mutant: the launcher stays in the pool *)
TakenMutant(q) == [q EXCEPT !.timer = TRUE]

(* take(): the first launcher, and the next one is ordered *)
Taken(q) == [q EXCEPT !.pool = Tail(@), !.timer = TRUE]

(* The process of a native runtime ends.  The runtime shuts down first, then the launcher
   counts the failure, if the pair is still one of its own. *)
OnProcessFinished(r, failed) ==
    /\ rt[r].process = "up"
    /\ Becomes(NativeShutdown(World, r))
    /\ IF failed /\ r \in Pooled
       THEN \E kept \in Kept(AddFailure) : ql' = CheckFailedStarts(ql, kept)
       ELSE UNCHANGED ql

(* removeEntry(): the pool has a runtime at most once; no rebuild is triggered *)
Removed(r) == [ql EXCEPT !.pool = RemoveFirst(@, r)]

============================================================================
