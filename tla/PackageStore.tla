----------------------------- MODULE PackageStore -----------------------------
(***************************************************************************)
(* What PackageManager promises its clients: a store of packages that      *)
(* changes in one step per task, and only when the task succeeds; the      *)
(* death of the process touches only packages a task was working on.       *)
(***************************************************************************)
CONSTANTS Packages, BuiltIn, Tasks, Version, Base, None

VARIABLES
    store,    \* the version of each package clients can use, or None
    request,  \* what each task was asked to do, or None
    outcome   \* "open", "done", "failed", or "lost" in a restart

vars == <<store, request, outcome>>

Request == [pkg : Packages, kind : {"install", "remove"}]

(* what is left of a package without its installed version *)
Fallback(p) == IF p \in BuiltIn THEN Base ELSE None

Init ==
    /\ store \in [Packages -> Version \cup {None}]
    /\ request = [t \in Tasks |-> None]
    /\ outcome = [t \in Tasks |-> "open"]

Open(t) == request[t] # None /\ outcome[t] = "open"
Result(t) == IF request[t].kind = "install" THEN t ELSE Fallback(request[t].pkg)

Submit(t, r) ==
    /\ request[t] = None
    /\ request' = [request EXCEPT ![t] = r]
    /\ UNCHANGED <<store, outcome>>

Succeed(t) ==
    /\ Open(t)
    /\ outcome' = [outcome EXCEPT ![t] = "done"]
    /\ store' = [store EXCEPT ![request[t].pkg] = Result(t)]
    /\ UNCHANGED request

Fail(t) ==
    /\ Open(t)
    /\ outcome' = [outcome EXCEPT ![t] = "failed"]
    /\ UNCHANGED <<store, request>>

(* A package an open task was working on may be as it was, as the task wanted it, or
   (in the middle of an update) without its installed version. *)
Restart ==
    /\ \E lost \in SUBSET {t \in Tasks : Open(t)} :
          /\ lost # {}
          /\ outcome' = [t \in Tasks |-> IF t \in lost THEN "lost" ELSE outcome[t]]
          /\ \A p \in Packages :
                \/ store'[p] = store[p]
                \/ \E t \in lost : request[t].pkg = p /\ store'[p] \in {Result(t), Fallback(p)}
          /\ DOMAIN store' = Packages
    /\ UNCHANGED request

Next ==
    \/ \E t \in Tasks :
          \/ Succeed(t) \/ Fail(t)
          \/ \E r \in Request : Submit(t, r)
    \/ Restart

Spec == Init /\ [][Next]_vars
===============================================================================
