---------------------------- MODULE IntentClient ----------------------------
(***************************************************************************)
(* IntentClient and IntentClientRequest: the applications at both ends of  *)
(* an intent, composed with the server between them.  An application sends *)
(* a request, learns its id, and waits for the reply; the handling one     *)
(* answers, in time, too late, twice or never.  The peer D-Bus connection  *)
(* of an application (for the System UI: the event loop) keeps the order   *)
(* of the messages of one direction, and a process that dies takes its     *)
(* objects and what was on its way to it along.                            *)
(***************************************************************************)
EXTENDS IntentServer

CONSTANTS
    ClientTimed,    \* "replyFromSystem", "replyFromApplication": timeouts > 0 in the client
    MaxInFlight     \* bound: messages of one application on their way to the server

ASSUME ClientAssumption ==
    /\ ClientTimed \subseteq {"replyFromSystem", "replyFromApplication"}
    /\ MaxInFlight \in Nat
    /\ None \notin Apps \cup Message

VARIABLES
    ask,        \* outgoing request objects, by the id the server will give them
    job,        \* incoming request objects, by their id
    answered,   \* history: the first answer an application gave to a request
    toSystem,   \* messages on their way to the server
    toApp,      \* messages on their way to an application
    up          \* applications whose process is connected and alive

ends == <<ask, job, answered>>
wires == <<toSystem, toApp, up>>
allVars == <<vars, ends, wires>>

Ask ==
    [by : Apps \cup {None},     \* the application that created it
     alive : BOOLEAN,           \* not yet collected by the JavaScript engine
     waiting : BOOLEAN,         \* in m_waiting, with its id
     finished : BOOLEAN, ok : BOOLEAN]

Job == [by : Apps \cup {None}, alive : BOOLEAN, finished : BOOLEAN]

NoAsk == [by |-> None, alive |-> FALSE, waiting |-> FALSE, finished |-> FALSE, ok |-> FALSE]
NoJob == [by |-> None, alive |-> FALSE, finished |-> FALSE]

ToServer ==
    [kind : {"request", "reply"}, req : Requests, target : Apps \cup {AnyApp}, ok : BOOLEAN]
        \cup [kind : {"broadcast"}]

ToClient ==
    [kind : {"accepted", "reply", "request"}, req : Requests, ok : BOOLEAN, broadcast : BOOLEAN]

(* The request objects at both ends, the messages between them, and the server have their
   types. *)
ClientTypeOK ==
    /\ TypeOK
    /\ ask \in [Requests -> Ask] /\ job \in [Requests -> Job]
    /\ answered \in [Requests -> {"no", "ok", "error"}]
    /\ toSystem \in [Apps -> Seq(ToServer)]
    /\ toApp \in [Apps -> Seq(ToClient)]
    /\ up \subseteq Apps

ClientInit ==
    /\ Init
    /\ ask = [r \in Requests |-> NoAsk]
    /\ job = [r \in Requests |-> NoJob]
    /\ answered = [r \in Requests |-> "no"]
    /\ toSystem = [a \in Apps |-> <<>>] /\ toApp = [a \in Apps |-> <<>>]
    /\ up = {SystemUi}

-----------------------------------------------------------------------------
(* The wires *)

Room(a) == Len(toSystem[a]) < MaxInFlight
Transmit(a, m) == toSystem' = [toSystem EXCEPT ![a] = Append(@, m)]

(* what is sent to a process that has died is lost *)
Emit(wire, a, m) == IF a \in up THEN [wire EXCEPT ![a] = Append(@, m)] ELSE wire

Forward(wire) ==
    IF sent' = None THEN wire
    ELSE Emit(wire, sent'.to, [kind |-> sent'.kind, req |-> sent'.req, ok |-> sent'.ok,
                               broadcast |-> req[sent'.req].broadcast])

Arrived(a, kind) == toApp[a] # <<>> /\ Head(toApp[a]).kind = kind
Received(a) == toApp' = [toApp EXCEPT ![a] = Tail(@)]

-----------------------------------------------------------------------------
(* The requesting application *)

(* sendIntentRequest *)
SendIntentRequest(a, r, target) ==
    /\ a \in up /\ a \in ipc /\ Room(a)
    /\ Unused(r) /\ ask[r] = NoAsk
    /\ ask' = [ask EXCEPT ![r] = [NoAsk EXCEPT !.by = a, !.alive = TRUE]]
    /\ Transmit(a, [kind |-> "request", req |-> r, target |-> target, ok |-> TRUE])
    /\ UNCHANGED <<vars, job, answered, toApp, up>>

(* broadcastIntentRequest: the request object goes when the server has answered *)
BroadcastIntentRequest(a) ==
    /\ a \in up /\ a \in ipc /\ Room(a)
    /\ Transmit(a, [kind |-> "broadcast"])
    /\ UNCHANGED <<vars, ends, toApp, up>>

Collected(a) == [NoAsk EXCEPT !.by = a.by]
Finished(a, ok) == [a EXCEPT !.waiting = FALSE, !.finished = TRUE, !.ok = ok]

(* mutant: the request is not added to m_waiting *)
RequestToSystemFinishedMutant(a) ==
    LET m == Head(toApp[a])
        r == m.req
    IN  /\ Arrived(a, "accepted") /\ Received(a)
        /\ ask' = IF ~ask[r].alive \/ m.ok THEN ask
                  ELSE [ask EXCEPT ![r] = Finished(@, FALSE)]
        /\ UNCHANGED <<vars, job, answered, toSystem, up>>

(* a request that has been collected is not waited for; one that has timed out is *)
RequestToSystemFinished(a) ==
    LET m == Head(toApp[a])
        r == m.req
    IN  /\ Arrived(a, "accepted") /\ Received(a)
        /\ ask' = IF ~ask[r].alive THEN ask
                  ELSE IF m.ok THEN [ask EXCEPT ![r].waiting = TRUE]
                  ELSE [ask EXCEPT ![r] = Finished(@, FALSE)]
        /\ UNCHANGED <<vars, job, answered, toSystem, up>>

(* whether the request is finished already is not asked *)
ReplyFromSystem(a) ==
    LET m == Head(toApp[a])
        r == m.req
    IN  /\ Arrived(a, "reply") /\ Received(a)
        /\ ask' = IF ask[r].alive /\ ask[r].waiting
                  THEN [ask EXCEPT ![r] = Finished(@, m.ok)] ELSE ask
        /\ UNCHANGED <<vars, job, answered, toSystem, up>>

(* mutant: the timer does not ask whether there was a reply *)
RequestTimeoutMutant(r) ==
    /\ "replyFromSystem" \in ClientTimed
    /\ ask[r].alive
    /\ ask' = [ask EXCEPT ![r].finished = TRUE, ![r].ok = FALSE]
    /\ UNCHANGED <<vars, job, answered, wires>>

(* the timer of sendIntentRequest *)
RequestTimeout(r) ==
    /\ "replyFromSystem" \in ClientTimed
    /\ ask[r].alive /\ ~ask[r].finished
    /\ ask' = [ask EXCEPT ![r].finished = TRUE, ![r].ok = FALSE]
    /\ UNCHANGED <<vars, job, answered, wires>>

(* the JavaScript engine may collect it at any time *)
RequestCollected(r) ==
    /\ ask[r].alive
    /\ ask' = [ask EXCEPT ![r] = Collected(@)]
    /\ UNCHANGED <<vars, job, answered, wires>>

-----------------------------------------------------------------------------
(* The handling application *)

Answer(a, r, ok) ==
    /\ answered' = [answered EXCEPT ![r] = IF @ # "no" THEN @ ELSE IF ok THEN "ok" ELSE "error"]
    /\ Transmit(a, [kind |-> "reply", req |-> r, target |-> AnyApp, ok |-> ok])

(* requestToApplication: without a matching handler even a broadcast is answered *)
RequestToApplication(a) ==
    LET m == Head(toApp[a])
        r == m.req
    IN  /\ Arrived(a, "request") /\ Received(a)
        /\ \/ /\ job' = IF m.broadcast THEN job
                        ELSE [job EXCEPT ![r] = [by |-> a, alive |-> TRUE, finished |-> FALSE]]
              /\ UNCHANGED <<answered, toSystem>>
           \/ Answer(a, r, FALSE) /\ UNCHANGED job
        /\ UNCHANGED <<vars, ask, up>>

(* sendReply, sendErrorReply: every call is sent to the server *)
Reply(r, ok) ==
    /\ job[r].alive
    /\ Answer(job[r].by, r, ok)
    /\ job' = [job EXCEPT ![r].finished = TRUE]
    /\ UNCHANGED <<vars, ask, toApp, up>>

SendReply(r, ok) == job[r].alive /\ Room(job[r].by) /\ Reply(r, ok)

(* the timer of requestToApplication *)
ReplyTimeout(r) ==
    /\ "replyFromApplication" \in ClientTimed
    /\ ~job[r].finished /\ Reply(r, FALSE)

(* the destructor answers for a request nobody has answered *)
IncomingCollected(r) ==
    /\ job[r].alive
    /\ job' = [job EXCEPT ![r] = NoJob]
    /\ IF job[r].finished THEN UNCHANGED <<answered, toSystem>>
       ELSE Answer(job[r].by, r, FALSE)
    /\ UNCHANGED <<vars, ask, toApp, up>>

-----------------------------------------------------------------------------
(* The server's end of the wire *)

Reserved(r) == ask[r] # NoAsk

(* a request of the System UI that was collected at once is not made *)
RequestArrives(a, m) ==
    IF a = SystemUi /\ ~ask[m.req].alive
    THEN UNCHANGED <<vars, toApp>>
    ELSE /\ \E registered \in SUBSET Intents : RequestToSystem(registered, m.req, a, m.target)
         /\ toApp' = Emit(toApp, a, [kind |-> "accepted", req |-> m.req, broadcast |-> FALSE,
                                     ok |-> req'[m.req].state # "refused"])

BroadcastArrives(a) ==
    \/ UNCHANGED <<vars, toApp>>     \* nobody handles it
    \/ /\ \E registered \in SUBSET Intents : BroadcastToSystem(registered, a)
       /\ \A r \in Requests : Reserved(r) => req'[r] = req[r]
       /\ UNCHANGED toApp

MessageArrives(a) ==
    LET m == Head(toSystem[a])
    IN  /\ toSystem[a] # <<>> /\ a \in ipc
        /\ toSystem' = [toSystem EXCEPT ![a] = Tail(@)]
        /\ \/ m.kind = "request" /\ RequestArrives(a, m)
           \/ m.kind = "broadcast" /\ BroadcastArrives(a)
           \/ m.kind = "reply" /\ ReplyFromApplication(a, m.req, m.ok) /\ UNCHANGED toApp
        /\ UNCHANGED <<ends, up>>

(* a posted call: what the server sends in it goes on the wire *)
Posted(Call) ==
    /\ Call
    /\ toApp' = Forward(toApp)
    /\ UNCHANGED <<ends, toSystem, up>>

ServerStep ==
    \/ Posted(ProcessRequestQueue)
    \/ \E r \in Requests : Posted(DeleteLater(r)) \/ Posted(SystemUiAnswers(r))
    \/ \E a \in Apps : Posted(ApplicationWasStarted(a))
    \/ \E stage \in Stages : Posted(Timeout(stage))

Connects(a) ==
    /\ ApplicationIsReady(a)
    /\ up' = up \cup {a}
    /\ UNCHANGED <<ends, toSystem, toApp>>

(* a crash: the objects are gone without their destructors, and what the application has
   sent before still arrives *)
Dies(a) ==
    /\ a \in up \ {SystemUi}
    /\ up' = up \ {a}
    /\ ask' = [r \in Requests |-> IF ask[r].by = a THEN Collected(ask[r]) ELSE ask[r]]
    /\ job' = [r \in Requests |-> IF job[r].by = a THEN NoJob ELSE job[r]]
    /\ toApp' = [toApp EXCEPT ![a] = <<>>]
    /\ UNCHANGED <<vars, answered, toSystem>>

Disconnects(a) ==
    /\ a \notin up /\ ApplicationGone(a)
    /\ toSystem' = [toSystem EXCEPT ![a] = <<>>]
    /\ UNCHANGED <<ends, toApp, up>>

-----------------------------------------------------------------------------
Client(a) ==
    \/ \E r \in Requests, target \in Apps \cup {AnyApp} : SendIntentRequest(a, r, target)
    \/ BroadcastIntentRequest(a)
    \/ RequestToSystemFinished(a) \/ ReplyFromSystem(a) \/ RequestToApplication(a)
    \/ MessageArrives(a)
    \/ Connects(a) \/ Dies(a) \/ Disconnects(a)

RequestObject(r) ==
    \/ RequestTimeout(r) \/ RequestCollected(r)
    \/ \E ok \in BOOLEAN : SendReply(r, ok)
    \/ ReplyTimeout(r) \/ IncomingCollected(r)

ClientNext ==
    \/ ServerStep
    \/ \E a \in Apps : Client(a)
    \/ \E r \in Requests : RequestObject(r)

ClientSpec == ClientInit /\ [][ClientNext]_allVars

(* The event loops come to what is posted to them, the connections deliver, and the timers
   of the server fire.  Nobody has to answer, and the client's own timers are not needed. *)
ClientFairSpec ==
    /\ ClientSpec
    /\ WF_allVars(Posted(ProcessRequestQueue))
    /\ \A a \in Apps :
          /\ WF_allVars(Posted(ApplicationWasStarted(a)))
          /\ WF_allVars(MessageArrives(a))
          /\ WF_allVars(RequestToSystemFinished(a) \/ ReplyFromSystem(a) \/ RequestToApplication(a))
    /\ \A stage \in Stages : WF_allVars(Posted(Timeout(stage)))

-----------------------------------------------------------------------------
(* Properties *)

OnWire(wire, r, kind) ==
    \E i \in DOMAIN wire : wire[i].kind = kind /\ wire[i].req = r

(* A requesting application that is still waiting does not wait in vain: its request is on
   the way to the server, or the application knows its id (or will, before the reply can
   arrive) and the server either still works on it, or has sent its answer. *)
AnswerWillCome ==
    \A r \in Requests : ask[r].alive /\ ~ask[r].finished =>
        LET sender == ask[r].by
            known == ask[r].waiting \/ OnWire(toApp[sender], r, "accepted")
            handled == \/ Live(req[r]) /\ ~req[r].deleteLater
                       \/ req[r].state = "refused"
                       \/ OnWire(toApp[sender], r, "reply")
        IN  OnWire(toSystem[sender], r, "request") \/ (known /\ handled)

(* intenthandler.cpp:90, "Only the first call to one of these functions will have any
   effect": every call is sent to the server, but a request that succeeds at its sender is
   one whose handler answered it positively in the first place. *)
SuccessIsFirstAnswer ==
    \A r \in Requests : ask[r].finished /\ ask[r].ok => answered[r] = "ok"

(* A request that has succeeded stays so, whatever timer fires or answer arrives later.
   The reverse does not hold: see ReplyFromSystem. *)
SuccessIsFinal ==
    [][\A r \in Requests : ask[r].finished /\ ask[r].ok
            => (ask'[r].finished /\ ask'[r].ok) \/ ~ask'[r].alive]_allVars

(* With the timeouts of the server alone every request ends in the application that sent
   it, though handlers crash, keep silent or answer twice. *)
AsksEnd == \A r \in Requests : ask[r].alive ~> ask[r].finished \/ ~ask[r].alive

=============================================================================
