---------------------------- MODULE IntentServer ----------------------------
(***************************************************************************)
(* The intent broker of the system process: IntentServer with its request  *)
(* objects and queues, the posted calls of the main event loop, the        *)
(* timeouts of each stage, the System UI that disambiguates, and the IPC   *)
(* connections of the applications.                                        *)
(*                                                                         *)
(* A request (IntentServerRequest) goes from the request queue to one of   *)
(* the three waiting queues and back, until a reply has been forwarded to  *)
(* the application that sent it.  Nothing blocks: every step runs in the   *)
(* event loop, and posts processRequestQueue when there may be more to do. *)
(* Applications are the environment of this module: they call the server   *)
(* as they like, and "sent" is what the last step sent to one of them.     *)
(*                                                                         *)
(* All intents here have the id that is requested; what they differ in is  *)
(* who handles them and who may use them.                                  *)
(***************************************************************************)
EXTENDS Naturals, Sequences, FiniteSets, Functions

CONSTANTS
    Requests,        \* request ids (UUIDs); each one is used once (bounds the run)
    Addresses,       \* where a request object can live: reused after a delete
    Apps, SystemUi,  \* applications, the System UI being one of them
    PackageOf,       \* PackageOf[a]: the package of an application
    Intents,         \* intents that packages declare
    Handler,         \* Handler[i]: the application that handles an intent
    Private,         \* intents with Intent::Private visibility
    Capable,         \* <<a, i>>: a has the capabilities that intent i requires
    OnlyWhenRunning, \* intents with handleOnlyWhenRunning set
    Timed,           \* stages with a timeout > 0
    Disambiguates,   \* the System UI has connected to disambiguationRequest
    SlotAnswers,     \* what the System UI may answer within that slot
    AnyApp,          \* requestToSystem without an application id
    Broadcast,       \* requestToSystem with application id ":broadcast:"
    None

Stages == {"disambiguation", "startApplication", "replyFromApplication"}

ASSUME IntentConstantsAssumption ==
    /\ IsFiniteSet(Requests) /\ IsFiniteSet(Intents)
    /\ SystemUi \in Apps
    /\ Handler \in Injection(Intents, Apps)  \* one intent of an id for each application
    /\ Timed \subseteq Stages /\ SlotAnswers \subseteq {"acknowledge", "reject"}
    /\ Disambiguates \in BOOLEAN
    /\ AnyApp \notin Apps /\ Broadcast \notin Apps
    /\ None \notin Intents \cup Addresses

VARIABLES
    req,           \* the IntentServerRequest objects
    requestQueue,  \* m_requestQueue
    waiting,       \* m_disambiguationQueue, m_startingAppQueue, m_sentToAppQueue
    timers,        \* running single-shot timers of each stage, the oldest first
    triggers,      \* number of posted calls of processRequestQueue
    ipc,           \* applications with an IPC connection that is ready
    started,       \* applications with a posted call of applicationWasStarted
    sent           \* the message the last step sent to an application, or None

queues == <<requestQueue, waiting, timers, triggers>>
connections == <<ipc, started>>
vars == <<req, queues, connections, sent>>

-----------------------------------------------------------------------------
(* Types *)

WaitingStates ==
    [disambiguation |-> "WaitingForDisambiguation",
     startApplication |-> "WaitingForApplicationStart",
     replyFromApplication |-> "WaitingForReplyFromApplication"]

QueuedStates ==
    {"ReceivedRequest", "Disambiguated", "StartedApplication", "ReceivedReplyFromApplication"}

States == {"unused", "refused", "deleted"} \cup QueuedStates \cup Range(WaitingStates)

Request ==
    [state : States, from : Apps, broadcast : BOOLEAN, potential : SUBSET Intents,
     selected : Intents \cup {None}, ok : BOOLEAN, at : Addresses \cup {None},
     deleteLater : BOOLEAN]

NoObject(state) ==
    [state |-> state, from |-> SystemUi, broadcast |-> FALSE, potential |-> {},
     selected |-> None, ok |-> FALSE, at |-> None, deleteLater |-> FALSE]

Live(object) == object.state \notin {"unused", "refused", "deleted"}

Timer == [at : Addresses \cup {None}, req : Requests]

Message == [kind : {"reply", "request"}, ok : BOOLEAN, req : Requests, to : Apps]

(* what the constructor of IntentServerRequest asserts, and its users rely on *)
Constructed(object) ==
    IF Live(object)
    THEN /\ object.at # None /\ object.potential # {}
         /\ object.selected \in object.potential \cup {None}
         /\ object.broadcast => object.potential = {object.selected}
    ELSE object = NoObject(object.state)

(* Every variable has its type, and every request object is one the constructor makes:
   it has candidates for its handler, exactly one if it is a broadcast. *)
TypeOK ==
    /\ req \in [Requests -> Request]
    /\ \A r \in Requests : Constructed(req[r])
    /\ requestQueue \in Seq(Requests)
    /\ waiting \in [Stages -> SUBSET Requests]
    /\ timers \in [Stages -> Seq(Timer)]
    /\ triggers \in Nat
    /\ ipc \subseteq Apps /\ started \subseteq Apps
    /\ sent \in Message \cup {None}

-----------------------------------------------------------------------------
(* Reading the state *)

Unused(r) == req[r].state = "unused"
Free(at) == \A r \in Requests : req[r].at # at

(* filterByRequestingApplicationId *)
Accessible(a, i) ==
    PackageOf[Handler[i]] = PackageOf[a] \/ (i \notin Private /\ <<a, i>> \in Capable)

(* filterByIntentId, applicationIntent *)
Matching(registered, target) ==
    {i \in registered : target \in {AnyApp, Broadcast} \/ Handler[i] = target}

(* mutant: a request for a certain application is not filtered *)
CandidatesMutant(registered, a, target) ==
    {i \in Matching(registered, target) : target \in Apps \/ Accessible(a, i)}

Candidates(registered, a, target) ==
    {i \in Matching(registered, target) : Accessible(a, i)}

-----------------------------------------------------------------------------
(* The event loop.  It runs posted calls in the order in which they were posted; here
   any of them may be the next one. *)

(* A step works on a copy of the queues: "pass" is what they are after the part of the
   step that has already run. *)
Pass == [queue |-> requestQueue, timers |-> timers, triggers |-> triggers]

Trigger(pass) == [pass EXCEPT !.triggers = @ + 1]

(* mutant: nothing is triggered *)
EnqueueMutant(pass, r) == [pass EXCEPT !.queue = Append(@, r)]

Enqueue(pass, r) == Trigger([pass EXCEPT !.queue = Append(@, r)])

(* mutant: only the handler's answer is timed *)
StartTimerMutant(pass, stage, r) ==
    IF stage \in Timed \ {"startApplication"}
    THEN [pass EXCEPT !.timers[stage] = Append(@, [at |-> req[r].at, req |-> r])]
    ELSE pass

StartTimer(pass, stage, r) ==
    IF stage \in Timed
    THEN [pass EXCEPT !.timers[stage] = Append(@, [at |-> req[r].at, req |-> r])]
    ELSE pass

End(pass) ==
    /\ requestQueue' = pass.queue
    /\ timers' = pass.timers
    /\ triggers' = pass.triggers

Put(r, object) == req' = [req EXCEPT ![r] = object]
Wait(stage, r) == waiting' = [waiting EXCEPT ![stage] = @ \cup {r}]
Leave(stage, r) == waiting' = [waiting EXCEPT ![stage] = @ \ {r}]

(* setRequestFailed, setRequestSucceeded *)
Replied(object, ok) == [object EXCEPT !.ok = ok, !.state = "ReceivedReplyFromApplication"]

Dying(object) == [object EXCEPT !.deleteLater = TRUE, !.state = "ReceivedReplyFromApplication"]

Send(kind, r, ok, a) == sent' = [kind |-> kind, ok |-> ok, req |-> r, to |-> a]
Silent == sent' = None

-----------------------------------------------------------------------------
(* processRequestQueue: what one pass does with a request *)

(* step 5: the reply goes to the sender, if it is still connected, and the request
   object deletes itself *)
ForwardReply(r, object, pass) ==
    /\ Put(r, Dying(object))
    /\ End(Trigger(pass))
    /\ IF ~object.broadcast /\ object.from \in ipc
       THEN Send("reply", r, object.ok, object.from)
       ELSE Silent
    /\ UNCHANGED waiting

(* step 3: the request is sent out; there are no replies for broadcasts *)
SendToHandler(r, object, pass) ==
    LET handler == Handler[object.selected] IN
    /\ handler \in ipc
    /\ Send("request", r, TRUE, handler)
    /\ \/ /\ object.broadcast
          /\ Put(r, Dying(object)) /\ UNCHANGED waiting
          /\ End(Trigger(pass))
       \/ /\ ~object.broadcast
          /\ Put(r, [object EXCEPT !.state = "WaitingForReplyFromApplication"])
          /\ Wait("replyFromApplication", r)
          /\ End(Trigger(StartTimer(pass, "replyFromApplication", r)))

(* step 2: the handler is not running.  Starting it may fail, which nobody notices. *)
StartHandler(r, object, pass) ==
    /\ object.state = "Disambiguated"
    /\ Handler[object.selected] \notin ipc /\ object.selected \notin OnlyWhenRunning
    /\ Put(r, [object EXCEPT !.state = "WaitingForApplicationStart"])
    /\ Wait("startApplication", r)
    /\ End(Trigger(StartTimer(pass, "startApplication", r)))
    /\ Silent

(* a request that has a selected intent: the steps 2, 3 and, if these fail, 5 *)
Deliver(r, object, pass) ==
    \/ SendToHandler(r, object, pass)
    \/ StartHandler(r, object, pass)
    \/ /\ Handler[object.selected] \notin ipc
       /\ object.state = "StartedApplication" \/ object.selected \in OnlyWhenRunning
       /\ ForwardReply(r, Replied(object, FALSE), pass)

Select(object, i) == [object EXCEPT !.selected = i, !.state = "Disambiguated"]

(* step 1: the System UI is asked.  It may answer later, or within the slot: then the
   request is back in the queue, and processRequestQueue goes on with it as well. *)
Disambiguate(r, pass) ==
    LET timed == StartTimer(pass, "disambiguation", r) IN
    \/ /\ Put(r, [req[r] EXCEPT !.state = "WaitingForDisambiguation"])
       /\ Wait("disambiguation", r)
       /\ End(Trigger(timed))
       /\ Silent
    \/ /\ "acknowledge" \in SlotAnswers
       /\ \E i \in req[r].potential : Deliver(r, Select(req[r], i), Enqueue(timed, r))
    \/ /\ "reject" \in SlotAnswers
       /\ ForwardReply(r, Replied(req[r], FALSE), Enqueue(timed, r))

(* the handler was determined by the sender, has been selected by the System UI, or is
   just the first match *)
Resolved(r) ==
    IF req[r].state # "ReceivedRequest" THEN {req[r]}
    ELSE IF req[r].selected # None THEN {Select(req[r], req[r].selected)}
    ELSE {Select(req[r], i) : i \in req[r].potential}

Ambiguous(r) == req[r].state = "ReceivedRequest" /\ req[r].selected = None /\ Disambiguates

ProcessRequest(r, pass) ==
    \/ Ambiguous(r) /\ Disambiguate(r, pass)
    \/ /\ req[r].state \in QueuedStates \ {"ReceivedReplyFromApplication"} /\ ~Ambiguous(r)
       /\ \E object \in Resolved(r) : Deliver(r, object, pass)
    \/ /\ req[r].state = "ReceivedReplyFromApplication"
       /\ ForwardReply(r, req[r], pass)
    \/ \* it is in the queue a second time
       /\ req[r].state \in Range(WaitingStates)
       /\ End(Trigger(pass))
       /\ Silent /\ UNCHANGED <<req, waiting>>

(* the pass begins with taking the first request *)
FirstTaken ==
    [queue |-> Tail(requestQueue), timers |-> timers, triggers |-> triggers - 1]

ProcessRequestQueue ==
    /\ triggers > 0
    /\ IF requestQueue = <<>>
       THEN /\ triggers' = triggers - 1
            /\ Silent /\ UNCHANGED <<req, requestQueue, waiting, timers>>
       ELSE ProcessRequest(Head(requestQueue), FirstTaken)
    /\ UNCHANGED connections

-----------------------------------------------------------------------------
(* The other slots of the server *)

(* QObject::deleteLater: the address may be used again.  A request that is in the queue
   as well is processed first: its pass was posted before its deletion. *)
DeleteLater(r) ==
    /\ req[r].deleteLater /\ r \notin Range(requestQueue)
    /\ Put(r, NoObject("deleted"))
    /\ Silent /\ UNCHANGED <<queues, connections>>

(* the order in which requests wait for the same application is not modelled *)
ApplicationWasStarted(a) ==
    LET woken == {r \in waiting["startApplication"] : Handler[req[r].selected] = a} IN
    /\ a \in started /\ started' = started \ {a}
    /\ \E order \in Bijection(1 .. Cardinality(woken), woken) :
          requestQueue' = requestQueue \o order
    /\ req' = [r \in Requests |-> IF r \in woken
                                  THEN [req[r] EXCEPT !.state = "StartedApplication"]
                                  ELSE req[r]]
    /\ waiting' = [waiting EXCEPT !["startApplication"] = @ \ woken]
    /\ triggers' = IF woken = {} THEN triggers ELSE triggers + 1
    /\ Silent /\ UNCHANGED <<timers, ipc>>

(* the request leaves its waiting queue, and the request queue takes it further *)
Resume(stage, r, object, pass) ==
    /\ r \in waiting[stage]
    /\ Leave(stage, r)
    /\ Put(r, object)
    /\ End(Enqueue(pass, r))
    /\ Silent /\ UNCHANGED connections

(* the lambda of QTimer::singleShot: removeOne compares pointers, and the timer may be
   older than the request object at that address *)
Timeout(stage) ==
    LET hit == {r \in waiting[stage] : req[r].at = Head(timers[stage]).at}
        fired == [queue |-> requestQueue, timers |-> [timers EXCEPT ![stage] = Tail(@)],
                  triggers |-> triggers]
    IN  /\ timers[stage] # <<>>
        /\ \/ \E r \in hit : Resume(stage, r, Replied(req[r], FALSE), fired)
           \/ /\ hit = {} /\ End(fired)
              /\ Silent /\ UNCHANGED <<req, waiting, connections>>

AcknowledgeDisambiguationRequest(r, i) ==
    Resume("disambiguation", r,
           IF i \in req[r].potential THEN Select(req[r], i) ELSE Replied(req[r], FALSE), Pass)

RejectDisambiguationRequest(r) ==
    Resume("disambiguation", r, Replied(req[r], FALSE), Pass)

(* mutant: the request stays in m_sentToAppQueue *)
ReplyFromApplicationMutant(a, r, ok) ==
    /\ r \in waiting["replyFromApplication"] /\ Live(req[r])
    /\ Put(r, Replied(req[r], ok /\ a = Handler[req[r].selected]))
    /\ End(Enqueue(Pass, r))
    /\ Silent /\ UNCHANGED <<waiting, connections>>

(* a reply of the wrong application is an error, one that nobody waits for is ignored *)
ReplyFromApplication(a, r, ok) ==
    \/ Resume("replyFromApplication", r,
              Replied(req[r], ok /\ a = Handler[req[r].selected]), Pass)
    \/ /\ r \notin waiting["replyFromApplication"]
       /\ Silent /\ UNCHANGED <<req, queues, connections>>

(* mutant: a single match is not selected *)
NewRequestMutant(a, potential, broadcast, at) ==
    [NoObject("ReceivedRequest") EXCEPT
        !.from = a, !.broadcast = broadcast, !.potential = potential, !.at = at]

NewRequest(a, potential, broadcast, at) ==
    [state |-> "ReceivedRequest", from |-> a, broadcast |-> broadcast,
     potential |-> potential,
     selected |-> IF \E i \in potential : potential = {i}
                  THEN CHOOSE i \in potential : TRUE ELSE None,
     ok |-> FALSE, at |-> at, deleteLater |-> FALSE]

(* the call returns the request, whose id the sender gets, or nothing: also to a sender
   that is connected already but has not finished its initialization *)
RequestToSystem(registered, r, a, target) ==
    LET potential == Candidates(registered, a, target) IN
    /\ Unused(r)
    /\ \/ /\ a \in ipc /\ potential # {}
          /\ \E at \in Addresses : Free(at) /\ Put(r, NewRequest(a, potential, FALSE, at))
          /\ End(Enqueue(Pass, r))
       \/ /\ a \notin ipc \/ potential = {}
          /\ Put(r, NoObject("refused"))
          /\ UNCHANGED <<requestQueue, timers, triggers>>
    /\ Silent /\ UNCHANGED <<waiting, connections>>

(* a request object of its own for every matching intent *)
BroadcastToSystem(registered, a) ==
    LET potential == Candidates(registered, a, Broadcast)
        n == Cardinality(potential)
    IN  /\ a \in ipc /\ n > 0
        /\ \E new \in SUBSET {r \in Requests : Unused(r)} :
           \E to \in Bijection(new, potential), order \in Bijection(1 .. n, new),
              at \in Injection(new, {x \in Addresses : Free(x)}) :
              /\ req' = [r \in Requests |->
                            IF r \in new THEN NewRequest(a, {to[r]}, TRUE, at[r]) ELSE req[r]]
              /\ requestQueue' = requestQueue \o order
        /\ triggers' = triggers + n
        /\ Silent /\ UNCHANGED <<waiting, timers, connections>>

(* IntentServerIpcConnection::setReady.  Bound: an application does not restart while
   its last start is still in the event queue. *)
ApplicationIsReady(a) ==
    /\ a \notin ipc /\ a \notin started
    /\ ipc' = ipc \cup {a} /\ started' = started \cup {a}
    /\ Silent /\ UNCHANGED <<req, queues>>

ApplicationGone(a) ==
    /\ a \in ipc \ {SystemUi}
    /\ ipc' = ipc \ {a}
    /\ Silent /\ UNCHANGED <<req, queues, started>>

-----------------------------------------------------------------------------
Init ==
    /\ req = [r \in Requests |-> NoObject("unused")]
    /\ requestQueue = <<>>
    /\ waiting = [stage \in Stages |-> {}]
    /\ timers = [stage \in Stages |-> <<>>]
    /\ triggers = 0
    /\ ipc = {SystemUi} /\ started = {}
    /\ sent = None

SystemUiAnswers(r) ==
    \/ \E i \in Intents : AcknowledgeDisambiguationRequest(r, i)
    \/ RejectDisambiguationRequest(r)

(* Packages are installed and removed between any two requests; a request keeps copies
   of the intents that matched when it was made. *)
Application(a) ==
    \/ \E registered \in SUBSET Intents :
          \/ \E r \in Requests, target \in Apps \cup {AnyApp} :
                RequestToSystem(registered, r, a, target)
          \/ BroadcastToSystem(registered, a)
    \/ \E r \in Requests, ok \in BOOLEAN : a \in ipc /\ ReplyFromApplication(a, r, ok)
    \/ ApplicationIsReady(a) \/ ApplicationGone(a)

Next ==
    \/ ProcessRequestQueue
    \/ \E r \in Requests : DeleteLater(r)
    \/ \E a \in Apps : ApplicationWasStarted(a)
    \/ \E stage \in Stages : Timeout(stage)
    \/ \E r \in Requests : SystemUiAnswers(r)
    \/ \E a \in Apps : Application(a)

Spec == Init /\ [][Next]_vars

(* The event loop comes to every call posted to it, and single-shot timers fire.  Nothing
   is assumed of the System UI or of the applications. *)
FairSpec ==
    /\ Spec
    /\ WF_vars(ProcessRequestQueue)
    /\ \A r \in Requests : WF_vars(DeleteLater(r))
    /\ \A a \in Apps : WF_vars(ApplicationWasStarted(a))
    /\ \A stage \in Stages : WF_vars(Timeout(stage))

-----------------------------------------------------------------------------
(* Safety *)

(* A request is where its state says, and in one place only: in the request queue
   between two steps, in the waiting queue of its stage, or on its way to deletion. *)
QueuesMatchStates ==
    /\ \A r \in Requests :
          /\ r \in Range(requestQueue) <=> req[r].state \in QueuedStates /\ ~req[r].deleteLater
          /\ \A stage \in Stages : r \in waiting[stage] <=> req[r].state = WaitingStates[stage]
    /\ IsInjective(requestQueue)

(* No wake-up is lost: something in the request queue has a posted processRequestQueue
   to look at it, and what waits in a stage with a timeout has a running timer of its
   own. *)
NobodyIsForgotten ==
    /\ requestQueue # <<>> => triggers > 0
    /\ \A stage \in Timed : \A r \in waiting[stage] :
          \E timer \in Range(timers[stage]) : timer.req = r

(* A request is only ever sent to an application that handles an intent its sender may
   use, whatever the System UI chose and whatever was uninstalled meanwhile. *)
HandlersMayBeUsed ==
    sent # None /\ sent.kind = "request" =>
        LET object == req[sent.req] IN
        Handler[object.selected] = sent.to /\ Accessible(object.from, object.selected)

(* intentserver.cpp:684: a request gets one reply, which its last step sends to its
   sender. *)
RepliedOnce ==
    [][sent' # None /\ sent'.kind = "reply" =>
          LET object == req[sent'.req] IN
          /\ object.from = sent'.to
          /\ Live(object) /\ ~object.deleteLater /\ req'[sent'.req].deleteLater]_vars

(* configuration.qdoc:777: what a timeout cancels is the request whose stage it was
   started for. *)
CanceledByItsTimeout ==
    [][\A stage \in Stages : \A r \in waiting[stage] \ waiting'[stage] :
         timers[stage] # <<>> /\ timers'[stage] = Tail(timers[stage]) =>
            Head(timers[stage]).req = r]_vars

-----------------------------------------------------------------------------
(* Liveness *)

(* With a timeout for every stage each request comes to its end, whether or not the
   System UI answers, or the handler starts, replies or dies. *)
RequestsEnd == \A r \in Requests : Live(req[r]) ~> req[r].state = "deleted"

=============================================================================
