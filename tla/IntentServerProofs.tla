------------------------- MODULE IntentServerProofs -------------------------
(***************************************************************************)
(* Proofs about IntentServer, for every set of requests, applications and  *)
(* intents and every choice of timeouts, for a System UI that does not     *)
(* answer a disambiguation within the slot of the signal.                  *)
(*                                                                         *)
(* The inductive invariant adds to the properties what the code relies on  *)
(* without saying so: an object that has been given a handler has one its  *)
(* sender may use (ObjectsAreFine), no two objects share an address        *)
(* (OwnAddresses), and a timer knows the address of its request as long as *)
(* that exists (TimersOfRequests).                                         *)
(***************************************************************************)
EXTENDS IntentServer, SequenceTheorems, FiniteSetTheorems, TLAPS

(* states in which the request has a handler *)
Chosen == {"Disambiguated", "StartedApplication", "WaitingForApplicationStart",
           "WaitingForReplyFromApplication"}

Fine(object) ==
    /\ Constructed(object)
    /\ object.deleteLater => object.state = "ReceivedReplyFromApplication"
    /\ object.state \in Chosen => object.selected # None
    /\ \A i \in object.potential : Accessible(object.from, i)

ObjectsAreFine == \A r \in Requests : Fine(req[r])

OwnAddresses == \A r, s \in Requests : req[r].at = req[s].at => r = s \/ req[r].at = None

Fits(timer) ==
    /\ ~Unused(timer.req)
    /\ Live(req[timer.req]) => timer.at = req[timer.req].at

TimersOfRequests == \A stage \in Stages : \A timer \in Range(timers[stage]) : Fits(timer)

Inv ==
    /\ TypeOK
    /\ ObjectsAreFine
    /\ OwnAddresses
    /\ TimersOfRequests
    /\ QueuesMatchStates
    /\ NobodyIsForgotten
    /\ HandlersMayBeUsed

(* the part about the server's data, without the message just sent *)
Types ==
    /\ req \in [Requests -> Request]
    /\ requestQueue \in Seq(Requests)
    /\ waiting \in [Stages -> SUBSET Requests]
    /\ timers \in [Stages -> Seq(Timer)]
    /\ triggers \in Nat

Core ==
    /\ Types
    /\ ObjectsAreFine
    /\ OwnAddresses
    /\ TimersOfRequests
    /\ QueuesMatchStates
    /\ NobodyIsForgotten

-----------------------------------------------------------------------------
(* Sequences *)

LEMMA TailFacts ==
    ASSUME NEW S, NEW q \in Seq(S), q # <<>>
    PROVE  /\ Head(q) \in S /\ Tail(q) \in Seq(S)
           /\ Range(q) = {Head(q)} \cup Range(Tail(q))
           /\ IsInjective(q) => IsInjective(Tail(q)) /\ Head(q) \notin Range(Tail(q))
<1>1. Head(q) \in S /\ Tail(q) \in Seq(S) /\ Len(q) \in Nat /\ Len(q) > 0 /\ DOMAIN q = 1 .. Len(q)
  BY EmptySeq, HeadTailProperties, LenProperties
<1>2. Len(Tail(q)) = Len(q) - 1 /\ \A i \in 1 .. Len(Tail(q)) : Tail(q)[i] = q[i + 1]
  BY HeadTailProperties
<1>3. DOMAIN Tail(q) = 1 .. Len(q) - 1
  BY <1>1, <1>2, LenProperties
<1>4. Head(q) = q[1]
  BY HeadTailProperties
<1>5. Range(q) \subseteq {Head(q)} \cup Range(Tail(q))
  <2> SUFFICES ASSUME NEW i \in 1 .. Len(q), i # 1 PROVE q[i] \in Range(Tail(q))
    BY <1>1, <1>4 DEF Range
  <2>1. i - 1 \in DOMAIN Tail(q) /\ Tail(q)[i - 1] = q[i]
    BY <1>1, <1>2, <1>3
  <2> QED BY <2>1 DEF Range
<1>6. {Head(q)} \cup Range(Tail(q)) \subseteq Range(q)
  <2>1. 1 \in DOMAIN q
    BY <1>1
  <2>2. ASSUME NEW i \in DOMAIN Tail(q) PROVE i + 1 \in DOMAIN q /\ q[i + 1] = Tail(q)[i]
    BY <1>1, <1>2, <1>3
  <2> QED BY <1>4, <2>1, <2>2 DEF Range
<1>7. ASSUME IsInjective(q) PROVE IsInjective(Tail(q))
  <2> SUFFICES ASSUME NEW i \in 1 .. Len(q) - 1, NEW j \in 1 .. Len(q) - 1, Tail(q)[i] = Tail(q)[j]
               PROVE  i = j
    BY <1>3 DEF IsInjective
  <2>1. q[i + 1] = q[j + 1] /\ i + 1 \in DOMAIN q /\ j + 1 \in DOMAIN q
    BY <1>1, <1>2
  <2>2. i + 1 = j + 1
    BY <1>7, <2>1 DEF IsInjective
  <2> QED BY <1>1, <2>2
<1>8. ASSUME IsInjective(q) PROVE Head(q) \notin Range(Tail(q))
  <2> SUFFICES ASSUME NEW i \in 1 .. Len(q) - 1, q[1] = Tail(q)[i] PROVE FALSE
    BY <1>3, <1>4 DEF Range
  <2>1. q[1] = q[i + 1] /\ 1 \in DOMAIN q /\ i + 1 \in DOMAIN q
    BY <1>1, <1>2
  <2>2. 1 = i + 1
    BY <1>8, <2>1 DEF IsInjective
  <2> QED BY <1>1, <2>2
<1> QED BY <1>1, <1>5, <1>6, <1>7, <1>8

LEMMA ConcatFacts ==
    ASSUME NEW S, NEW q \in Seq(S), NEW w \in Seq(S)
    PROVE  /\ q \o w \in Seq(S)
           /\ Range(q \o w) = Range(q) \cup Range(w)
           /\ IsInjective(q) /\ IsInjective(w) /\ Range(q) \cap Range(w) = {}
                 => IsInjective(q \o w)
<1>1. /\ Len(q) \in Nat /\ Len(w) \in Nat /\ DOMAIN q = 1 .. Len(q) /\ DOMAIN w = 1 .. Len(w)
      /\ q \o w \in Seq(S) /\ DOMAIN (q \o w) = 1 .. Len(q) + Len(w)
  BY ConcatProperties, LenProperties
<1>2. \A i \in 1 .. Len(q) + Len(w) :
         (q \o w)[i] = IF i <= Len(q) THEN q[i] ELSE w[i - Len(q)]
  BY ConcatProperties
<1>3. ASSUME NEW i \in 1 .. Len(q) + Len(w)
      PROVE  \/ i \in DOMAIN q /\ (q \o w)[i] = q[i]
             \/ i - Len(q) \in DOMAIN w /\ (q \o w)[i] = w[i - Len(q)]
  BY <1>1, <1>2
<1>4. ASSUME NEW i \in DOMAIN q PROVE i \in DOMAIN (q \o w) /\ (q \o w)[i] = q[i]
  BY <1>1, <1>2
<1>5. ASSUME NEW i \in DOMAIN w
      PROVE  i + Len(q) \in DOMAIN (q \o w) /\ (q \o w)[i + Len(q)] = w[i]
  BY <1>1, <1>2
<1>6. Range(q \o w) = Range(q) \cup Range(w)
  <2>1. Range(q \o w) \subseteq Range(q) \cup Range(w)
    BY <1>1, <1>3 DEF Range
  <2>2. Range(q) \subseteq Range(q \o w)
    BY <1>4 DEF Range
  <2>3. Range(w) \subseteq Range(q \o w)
    BY <1>5 DEF Range
  <2> QED BY <2>1, <2>2, <2>3
<1>7. ASSUME IsInjective(q), IsInjective(w), Range(q) \cap Range(w) = {}
      PROVE  IsInjective(q \o w)
  <2> SUFFICES ASSUME NEW i \in 1 .. Len(q) + Len(w), NEW j \in 1 .. Len(q) + Len(w),
                      (q \o w)[i] = (q \o w)[j]
               PROVE  i = j
    BY <1>1 DEF IsInjective
  <2>1. CASE i \in DOMAIN q /\ (q \o w)[i] = q[i]
    <3>1. CASE j \in DOMAIN q /\ (q \o w)[j] = q[j]
      BY <1>7, <2>1, <3>1 DEF IsInjective
    <3>2. CASE j - Len(q) \in DOMAIN w /\ (q \o w)[j] = w[j - Len(q)]
      BY <1>7, <2>1, <3>2 DEF Range
    <3> QED BY <1>3, <3>1, <3>2
  <2>2. CASE i - Len(q) \in DOMAIN w /\ (q \o w)[i] = w[i - Len(q)]
    <3>1. CASE j \in DOMAIN q /\ (q \o w)[j] = q[j]
      BY <1>7, <2>2, <3>1 DEF Range
    <3>2. CASE j - Len(q) \in DOMAIN w /\ (q \o w)[j] = w[j - Len(q)]
      <4>1. i - Len(q) = j - Len(q)
        BY <1>7, <2>2, <3>2 DEF IsInjective
      <4> QED BY <1>1, <4>1
    <3> QED BY <1>3, <3>1, <3>2
  <2> QED BY <1>3, <2>1, <2>2
<1> QED BY <1>1, <1>6, <1>7

LEMMA AppendFacts ==
    ASSUME NEW S, NEW q \in Seq(S), NEW x \in S
    PROVE  /\ Append(q, x) \in Seq(S)
           /\ Range(Append(q, x)) = Range(q) \cup {x}
           /\ IsInjective(q) /\ x \notin Range(q) => IsInjective(Append(q, x))
<1>1. <<x>> \in Seq(S) /\ Append(q, x) = q \o <<x>>
  BY AppendIsConcat
<1>2. DOMAIN <<x>> = {1} /\ <<x>>[1] = x
  OBVIOUS
<1>3. Range(<<x>>) = {x} /\ IsInjective(<<x>>)
  BY <1>2 DEF Range, IsInjective
<1>4. Range(q) \cap Range(<<x>>) = {} <=> x \notin Range(q)
  BY <1>3
<1>5. /\ q \o <<x>> \in Seq(S)
      /\ Range(q \o <<x>>) = Range(q) \cup Range(<<x>>)
      /\ IsInjective(q) /\ IsInjective(<<x>>) /\ Range(q) \cap Range(<<x>>) = {}
            => IsInjective(q \o <<x>>)
  BY <1>1, ConcatFacts
<1> QED BY <1>1, <1>3, <1>4, <1>5

LEMMA OrderFacts ==
    ASSUME NEW S, IsFiniteSet(S), NEW order \in Bijection(1 .. Cardinality(S), S)
    PROVE  order \in Seq(S) /\ Range(order) = S /\ IsInjective(order)
<1>1. Cardinality(S) \in Nat
  BY FS_CardinalityType
<1>2. order \in [1 .. Cardinality(S) -> S] /\ IsInjective(order)
  BY DEF Bijection, Injection
<1>3. \A t \in S : \E s \in 1 .. Cardinality(S) : order[s] = t
  BY DEF Bijection, Surjection
<1>4. order \in Seq(S)
  BY <1>1, <1>2, SeqDef
<1>5. Range(order) = S
  BY <1>2, <1>3 DEF Range
<1> QED BY <1>2, <1>4, <1>5

-----------------------------------------------------------------------------
(* States and objects *)

LEMMA StageFacts ==
    /\ \A stage \in Stages : /\ WaitingStates[stage] \in Range(WaitingStates)
                             /\ WaitingStates[stage] \notin QueuedStates
    /\ \A stage, other \in Stages : WaitingStates[stage] = WaitingStates[other] => stage = other
    /\ Range(WaitingStates) \cap (QueuedStates \cup {"unused", "refused", "deleted"}) = {}
    /\ QueuedStates \cap {"unused", "refused", "deleted"} = {}
    /\ States = {"unused", "refused", "deleted"} \cup QueuedStates \cup Range(WaitingStates)
<1>1. DOMAIN WaitingStates = Stages
  BY DEF WaitingStates, Stages
<1>2. /\ WaitingStates["disambiguation"] = "WaitingForDisambiguation"
      /\ WaitingStates["startApplication"] = "WaitingForApplicationStart"
      /\ WaitingStates["replyFromApplication"] = "WaitingForReplyFromApplication"
  BY DEF WaitingStates
<1>3. Range(WaitingStates) =
         {"WaitingForDisambiguation", "WaitingForApplicationStart", "WaitingForReplyFromApplication"}
  BY <1>1, <1>2 DEF Range, Stages
<1> QED BY <1>1, <1>2, <1>3 DEF Stages, QueuedStates, States

LEMMA TypesAreTypeOK ==
    Inv <=> Core /\ ipc \subseteq Apps /\ started \subseteq Apps /\ sent \in Message \cup {None}
                 /\ HandlersMayBeUsed
BY DEF Inv, Core, Types, TypeOK, ObjectsAreFine, Fine

(* a live object is replaced by another one at the same address *)
LEMMA ObjectStep ==
    ASSUME Core, NEW r \in Requests, Live(req[r]), NEW object \in Request, Live(object),
           Fine(object), object.at = req[r].at, Put(r, object)
    PROVE  /\ req' \in [Requests -> Request] /\ ObjectsAreFine' /\ OwnAddresses'
           /\ \A timer : timer.req \in Requests /\ Fits(timer) => Fits(timer)'
<1>1. /\ req' = [req EXCEPT ![r] = object] /\ req \in [Requests -> Request]
      /\ req' \in [Requests -> Request]
  BY DEF Core, Types, Put
<1>2. req'[r] = object /\ \A s \in Requests : s # r => req'[s] = req[s]
  BY <1>1
<1>3. ObjectsAreFine'
  BY <1>2 DEF Core, ObjectsAreFine, Fine, Constructed, Live, NoObject, Accessible
<1>4. OwnAddresses'
  BY <1>2 DEF Core, OwnAddresses
<1>5. ASSUME NEW timer, timer.req \in Requests, Fits(timer) PROVE Fits(timer)'
  <2>1. CASE timer.req = r
    BY <1>2, <1>5, <2>1 DEF Fits, Live, Unused
  <2>2. CASE timer.req # r
    BY <1>2, <1>5, <2>2 DEF Fits, Live, Unused
  <2> QED BY <2>1, <2>2
<1> QED BY <1>1, <1>3, <1>4, <1>5

(* one request changes its place *)
LEMMA QueueStep ==
    ASSUME Core, NEW r \in Requests, NEW object \in Request, Put(r, object),
           IsInjective(requestQueue'),
           \A s \in Requests \ {r} : s \in Range(requestQueue') <=> s \in Range(requestQueue),
           r \in Range(requestQueue') <=> object.state \in QueuedStates /\ ~object.deleteLater,
           \A stage \in Stages : /\ waiting'[stage] \ {r} = waiting[stage] \ {r}
                                 /\ r \in waiting'[stage] <=> object.state = WaitingStates[stage]
    PROVE  QueuesMatchStates'
<1>1. req'[r] = object /\ \A s \in Requests : s # r => req'[s] = req[s]
  BY DEF Core, Types, Put
<1>2. ASSUME NEW s \in Requests
      PROVE  /\ s \in Range(requestQueue') <=> req'[s].state \in QueuedStates /\ ~req'[s].deleteLater
             /\ \A stage \in Stages : s \in waiting'[stage] <=> req'[s].state = WaitingStates[stage]
  <2>1. CASE s = r
    BY <1>1, <2>1
  <2>2. CASE s # r
    BY <1>1, <2>2 DEF Core, QueuesMatchStates
  <2> QED BY <2>1, <2>2
<1> QED BY <1>2 DEF QueuesMatchStates, QueuedStates, WaitingStates

(* timers only go with a request that leaves its queue, and a request that comes to a
   stage brings one along *)
TimersFollow(moved) ==
    \A stage \in Stages :
       /\ timers'[stage] \in Seq(Timer)
       /\ \A timer \in Range(timers'[stage]) : Fits(timer)'
       /\ waiting'[stage] \subseteq waiting[stage] \cup moved
       /\ \A timer \in Range(timers[stage]) :
             timer \in Range(timers'[stage])
                \/ timer.req \notin waiting[stage] \/ timer.req \in moved
       /\ \A s \in moved : s \in waiting'[stage] /\ stage \in Timed =>
             \E timer \in Range(timers'[stage]) : timer.req = s

LEMMA TimerStep ==
    ASSUME Core, NEW moved, requestQueue' # <<>> => triggers' > 0, TimersFollow(moved)
    PROVE  NobodyIsForgotten' /\ TimersOfRequests'
<1>1. TimersOfRequests'
  BY DEF TimersOfRequests, TimersFollow
<1>2. ASSUME NEW stage \in Stages, stage \in Timed, NEW s \in waiting'[stage]
      PROVE  \E timer \in Range(timers'[stage]) : timer.req = s
  <2>1. CASE s \in moved
    BY <1>2, <2>1 DEF TimersFollow
  <2>2. CASE s \notin moved
    <3>1. s \in waiting[stage]
      BY <1>2, <2>2 DEF TimersFollow
    <3>2. PICK timer \in Range(timers[stage]) : timer.req = s
      BY <1>2, <3>1 DEF Core, NobodyIsForgotten
    <3> QED BY <2>2, <3>1, <3>2 DEF TimersFollow
  <2> QED BY <2>1, <2>2
<1>3. Timed \subseteq Stages
  BY IntentConstantsAssumption
<1> QED BY <1>1, <1>2, <1>3 DEF NobodyIsForgotten

-----------------------------------------------------------------------------
(* processRequestQueue *)

LEMMA HeadFacts ==
    ASSUME Core, requestQueue # <<>>
    PROVE  /\ triggers \in Nat /\ triggers > 0
           /\ Head(requestQueue) \in Requests /\ Tail(requestQueue) \in Seq(Requests)
           /\ Range(requestQueue) = {Head(requestQueue)} \cup Range(Tail(requestQueue))
           /\ IsInjective(Tail(requestQueue)) /\ Head(requestQueue) \notin Range(Tail(requestQueue))
           /\ Live(req[Head(requestQueue)])
           /\ req[Head(requestQueue)].state \in QueuedStates
           /\ ~req[Head(requestQueue)].deleteLater
           /\ \A stage \in Stages : Head(requestQueue) \notin waiting[stage]
<1>1. triggers \in Nat /\ triggers > 0
  BY DEF Core, Types, NobodyIsForgotten
<1>2. requestQueue \in Seq(Requests) /\ IsInjective(requestQueue)
  BY DEF Core, Types, QueuesMatchStates
<1>3. /\ Head(requestQueue) \in Requests /\ Tail(requestQueue) \in Seq(Requests)
      /\ Range(requestQueue) = {Head(requestQueue)} \cup Range(Tail(requestQueue))
      /\ IsInjective(Tail(requestQueue)) /\ Head(requestQueue) \notin Range(Tail(requestQueue))
  BY <1>2, TailFacts
<1>4. req[Head(requestQueue)].state \in QueuedStates /\ ~req[Head(requestQueue)].deleteLater
  BY <1>3 DEF Core, QueuesMatchStates
<1>5. Live(req[Head(requestQueue)])
  BY <1>4, StageFacts DEF Live
<1>6. \A stage \in Stages : Head(requestQueue) \notin waiting[stage]
  BY <1>3, <1>4, StageFacts DEF Core, QueuesMatchStates
<1> QED BY <1>1, <1>3, <1>4, <1>5, <1>6

(* the request is replied to, or was a broadcast: it is only left to be deleted *)
LEMMA RequestIsDone ==
    ASSUME Core, requestQueue # <<>>, NEW object \in Request, Live(object), Fine(object),
           object.at = req[Head(requestQueue)].at,
           Put(Head(requestQueue), Dying(object)), End(Trigger(FirstTaken)), UNCHANGED waiting
    PROVE  Core'
<1> DEFINE r == Head(requestQueue)
<1>1. Dying(object) \in Request /\ Live(Dying(object)) /\ Fine(Dying(object))
  BY DEF Dying, Request, States, QueuedStates, Live, Fine, Constructed, Chosen
<1>2. Dying(object).at = req[r].at /\ Dying(object).deleteLater
      /\ Dying(object).state = "ReceivedReplyFromApplication"
  BY DEF Dying, Request
<1>3. /\ requestQueue' = Tail(requestQueue) /\ timers' = timers
      /\ triggers' = triggers - 1 + 1
  BY HeadFacts DEF End, Trigger, FirstTaken
<1>4. /\ req' \in [Requests -> Request] /\ ObjectsAreFine' /\ OwnAddresses'
      /\ \A timer : timer.req \in Requests /\ Fits(timer) => Fits(timer)'
  BY <1>1, <1>2, HeadFacts, ObjectStep
<1>5. QueuesMatchStates'
  <2>1. \A stage \in Stages : r \notin waiting'[stage] /\ Dying(object).state # WaitingStates[stage]
    BY <1>2, HeadFacts, StageFacts DEF QueuedStates
  <2> QED BY <1>1, <1>2, <1>3, <2>1, HeadFacts, QueueStep
<1>6. triggers' \in Nat /\ triggers' > 0
  BY <1>3, HeadFacts
<1>7. NobodyIsForgotten' /\ TimersOfRequests'
  <2>1. ASSUME NEW stage \in Stages
        PROVE  /\ timers'[stage] \in Seq(Timer)
               /\ \A timer \in Range(timers'[stage]) : Fits(timer)'
    <3>1. timers[stage] \in Seq(Timer)
      BY DEF Core, Types
    <3>2. \A timer \in Range(timers[stage]) : timer \in Timer
      BY <3>1, LenProperties DEF Range
    <3>3. \A timer \in Timer : timer.req \in Requests
      BY DEF Timer
    <3> QED BY <1>3, <1>4, <3>1, <3>2, <3>3 DEF Core, TimersOfRequests
  <2>2. \A stage \in Stages : waiting'[stage] = waiting[stage]
    OBVIOUS
  <2>3. TimersFollow({})
    BY <1>3, <2>1, <2>2 DEF TimersFollow
  <2> QED BY <1>6, <2>3, TimerStep
<1>8. Types'
  BY <1>3, <1>4, <1>6, HeadFacts DEF Core, Types
<1> QED BY <1>4, <1>5, <1>7, <1>8 DEF Core

(* the request goes to the waiting queue of a stage *)
LEMMA RequestWaits ==
    ASSUME Core, requestQueue # <<>>, NEW object \in Request, Live(object), Fine(object),
           object.at = req[Head(requestQueue)].at, ~object.deleteLater,
           NEW stage \in Stages, object.state = WaitingStates[stage],
           Put(Head(requestQueue), object), Wait(stage, Head(requestQueue)),
           End(Trigger(StartTimer(FirstTaken, stage, Head(requestQueue))))
    PROVE  Core'
<1> DEFINE r == Head(requestQueue)
           timer == [at |-> req[r].at, req |-> r]
<1>1. /\ requestQueue' = Tail(requestQueue) /\ triggers' = triggers - 1 + 1
      /\ timers' = IF stage \in Timed
                   THEN [timers EXCEPT ![stage] = Append(@, timer)] ELSE timers
  BY HeadFacts DEF End, Trigger, FirstTaken, StartTimer
<1>2. /\ req' \in [Requests -> Request] /\ ObjectsAreFine' /\ OwnAddresses'
      /\ \A t : t.req \in Requests /\ Fits(t) => Fits(t)'
  BY HeadFacts, ObjectStep
<1>3. /\ waiting' = [waiting EXCEPT ![stage] = @ \cup {r}]
      /\ waiting \in [Stages -> SUBSET Requests] /\ timers \in [Stages -> Seq(Timer)]
  BY DEF Wait, Core, Types
<1>4. QueuesMatchStates'
  <2>1. ASSUME NEW other \in Stages
        PROVE  /\ waiting'[other] \ {r} = waiting[other] \ {r}
               /\ r \in waiting'[other] <=> object.state = WaitingStates[other]
    <3>1. CASE other = stage
      BY <1>3, <3>1
    <3>2. CASE other # stage
      BY <1>3, <3>2, HeadFacts, StageFacts
    <3> QED BY <3>1, <3>2
  <2>2. object.state \notin QueuedStates
    BY StageFacts
  <2> QED BY <1>1, <2>1, <2>2, HeadFacts, QueueStep
<1>5. timer \in Timer /\ Fits(timer)
  <2>1. timer \in Timer
    BY HeadFacts DEF Timer, Request, Core, Types
  <2>2. Fits(timer)
    BY HeadFacts DEF Fits, Unused, Live
  <2> QED BY <2>1, <2>2
<1>6. ASSUME NEW other \in Stages
      PROVE  /\ timers'[other] \in Seq(Timer)
             /\ Range(timers[other]) \subseteq Range(timers'[other])
             /\ \A t \in Range(timers'[other]) : Fits(t)'
             /\ other = stage /\ stage \in Timed => timer \in Range(timers'[other])
  <2>1. timers[other] \in Seq(Timer) /\ \A t \in Range(timers[other]) : Fits(t)
    BY <1>3 DEF Core, TimersOfRequests
  <2>2. \A t \in Timer : t.req \in Requests
    BY DEF Timer
  <2>3. CASE other = stage /\ stage \in Timed
    <3>1. timers'[other] = Append(timers[other], timer)
      BY <1>1, <1>3, <2>3
    <3>2. timers'[other] \in Seq(Timer) /\ Range(timers'[other]) = Range(timers[other]) \cup {timer}
      BY <1>5, <2>1, <3>1, AppendFacts
    <3>3. \A t \in Range(timers'[other]) : t \in Timer
      BY <3>2, LenProperties DEF Range
    <3> QED BY <1>2, <1>5, <2>1, <2>2, <3>2, <3>3
  <2>4. CASE ~(other = stage /\ stage \in Timed)
    <3>1. timers'[other] = timers[other]
      BY <1>1, <1>3, <2>4
    <3>2. \A t \in Range(timers[other]) : t \in Timer
      BY <2>1, LenProperties DEF Range
    <3> QED BY <1>2, <2>1, <2>2, <2>4, <3>1, <3>2
  <2> QED BY <2>3, <2>4
<1>7. timers' \in [Stages -> Seq(Timer)] /\ waiting' \in [Stages -> SUBSET Requests]
  <2>1. DOMAIN timers' = Stages /\ timers' = [other \in Stages |-> timers'[other]]
    BY <1>1, <1>3
  <2> QED BY <1>3, <1>6, <2>1, HeadFacts
<1>8. triggers' \in Nat /\ triggers' > 0
  BY <1>1, HeadFacts
<1>9. NobodyIsForgotten' /\ TimersOfRequests'
  <2>1. ASSUME NEW other \in Stages
        PROVE  /\ waiting'[other] \subseteq waiting[other] \cup {r}
               /\ r \in waiting'[other] /\ other \in Timed =>
                     \E t \in Range(timers'[other]) : t.req = r
    <3>1. CASE other = stage
      BY <1>3, <1>6, <3>1
    <3>2. CASE other # stage
      BY <1>3, <3>2, HeadFacts
    <3> QED BY <3>1, <3>2
  <2> HIDE DEF r, timer
  <2>2. \A other \in Stages :
           /\ waiting'[other] \subseteq waiting[other] \cup {r}
           /\ \A s \in {r} : s \in waiting'[other] /\ other \in Timed =>
                 \E t \in Range(timers'[other]) : t.req = s
    BY <2>1
  <2>3. TimersFollow({r})
    BY <1>6, <2>2 DEF TimersFollow
  <2> QED BY <1>8, <2>3, TimerStep
<1>10. Types'
  BY <1>1, <1>2, <1>7, <1>8, HeadFacts DEF Types
<1> QED BY <1>2, <1>4, <1>9, <1>10 DEF Core

-----------------------------------------------------------------------------
(* The other slots *)

(* the first timer of a stage has fired *)
Fired(stage) ==
    /\ timers[stage] # <<>>
    /\ timers' = [timers EXCEPT ![stage] = Tail(@)]

LEMMA FiredFacts ==
    ASSUME Core, NEW stage \in Stages, Fired(stage),
           \A timer : timer.req \in Requests /\ Fits(timer) => Fits(timer)'
    PROVE  /\ Fits(Head(timers[stage])) /\ timers' \in [Stages -> Seq(Timer)]
           /\ \A other \in Stages :
                 /\ \A timer \in Range(timers'[other]) : Fits(timer)'
                 /\ \A timer \in Range(timers[other]) :
                       timer \in Range(timers'[other])
                          \/ (other = stage /\ timer = Head(timers[stage]))
<1>1. timers \in [Stages -> Seq(Timer)] /\ timers[stage] # <<>>
  BY DEF Core, Types, Fired
<1>2. /\ Head(timers[stage]) \in Timer /\ Tail(timers[stage]) \in Seq(Timer)
      /\ Range(timers[stage]) = {Head(timers[stage])} \cup Range(Tail(timers[stage]))
  BY <1>1, TailFacts
<1>3. timers'[stage] = Tail(timers[stage]) /\ \A other \in Stages : other # stage => timers'[other] = timers[other]
  BY <1>1 DEF Fired
<1>4. timers' \in [Stages -> Seq(Timer)]
  BY <1>1, <1>2 DEF Fired
<1>5. Fits(Head(timers[stage]))
  BY <1>2 DEF Core, TimersOfRequests
<1>6. ASSUME NEW other \in Stages, NEW timer \in Range(timers[other])
      PROVE  timer.req \in Requests /\ Fits(timer)'
  <2>1. timer \in Timer
    BY <1>1, <1>6, LenProperties DEF Range
  <2>2. timer.req \in Requests /\ Fits(timer)
    BY <1>6, <2>1 DEF Timer, Core, TimersOfRequests
  <2> QED BY <2>2
<1>7. ASSUME NEW other \in Stages
      PROVE  /\ Range(timers'[other]) \subseteq Range(timers[other])
             /\ \A timer \in Range(timers[other]) :
                   timer \in Range(timers'[other])
                      \/ (other = stage /\ timer = Head(timers[stage]))
  <2>1. CASE other = stage
    BY <1>2, <1>3, <2>1
  <2>2. CASE other # stage
    BY <1>3, <2>2
  <2> QED BY <2>1, <2>2
<1> QED BY <1>4, <1>5, <1>6, <1>7

(* a live request is the only one at its address *)
LEMMA WaitingAddress ==
    ASSUME Core, NEW stage \in Stages, NEW r \in waiting[stage], NEW timer,
           timer.req \in waiting[stage], Fits(timer), timer.at = req[r].at
    PROVE  timer.req = r
<1>1. r \in Requests /\ timer.req \in Requests
  BY DEF Core, Types
<1>2. Live(req[r]) /\ Live(req[timer.req])
  BY <1>1, StageFacts DEF Core, QueuesMatchStates, Live
<1>3. req[r].at # None
  BY <1>1, <1>2 DEF Core, ObjectsAreFine, Fine, Constructed
<1> QED BY <1>1, <1>2, <1>3 DEF Core, OwnAddresses, Fits

(* a request leaves the waiting queue of a stage for the request queue *)
LEMMA RequestReturns ==
    ASSUME Core, NEW stage \in Stages, NEW r \in waiting[stage],
           NEW object \in Request, Fine(object), object.at = req[r].at,
           object.state \in QueuedStates, ~object.deleteLater,
           Put(r, object), Leave(stage, r),
           requestQueue' = Append(requestQueue, r), triggers' = triggers + 1,
           \/ timers' = timers
           \/ Fired(stage) /\ Head(timers[stage]).at = req[r].at
    PROVE  Core'
<1>1. /\ r \in Requests /\ waiting \in [Stages -> SUBSET Requests]
      /\ waiting' = [waiting EXCEPT ![stage] = @ \ {r}]
      /\ requestQueue \in Seq(Requests) /\ triggers \in Nat
      /\ timers \in [Stages -> Seq(Timer)]
  BY DEF Core, Types, Leave
<1>2. req[r].state = WaitingStates[stage]
  BY <1>1 DEF Core, QueuesMatchStates
<1>3. r \notin Range(requestQueue) /\ IsInjective(requestQueue)
  BY <1>1, <1>2, StageFacts DEF Core, QueuesMatchStates
<1>4. Live(req[r]) /\ Live(object)
  BY <1>2, StageFacts DEF Live
<1>5. /\ req' \in [Requests -> Request] /\ ObjectsAreFine' /\ OwnAddresses'
      /\ \A t : t.req \in Requests /\ Fits(t) => Fits(t)'
  BY <1>1, <1>4, ObjectStep
<1>6. /\ requestQueue' \in Seq(Requests) /\ IsInjective(requestQueue')
      /\ Range(requestQueue') = Range(requestQueue) \cup {r}
  BY <1>1, <1>3, AppendFacts
<1>7. QueuesMatchStates'
  <2>1. ASSUME NEW other \in Stages
        PROVE  /\ waiting'[other] \ {r} = waiting[other] \ {r}
               /\ r \in waiting'[other] <=> object.state = WaitingStates[other]
    <3>1. r \notin waiting'[other]
      <4>1. CASE other = stage
        BY <1>1, <4>1
      <4>2. CASE other # stage
        BY <1>1, <1>2, <4>2, StageFacts DEF Core, QueuesMatchStates
      <4> QED BY <4>1, <4>2
    <3>2. object.state # WaitingStates[other]
      BY StageFacts
    <3> QED BY <1>1, <3>1, <3>2
  <2> QED BY <1>1, <1>6, <2>1, QueueStep
<1>8. triggers' \in Nat /\ triggers' > 0
  BY <1>1
<1>9. /\ timers' \in [Stages -> Seq(Timer)]
      /\ \A other \in Stages :
            /\ \A timer \in Range(timers'[other]) : Fits(timer)'
            /\ \A timer \in Range(timers[other]) :
                  timer \in Range(timers'[other])
                     \/ timer.req \notin waiting[other] \/ timer.req \in {r}
  <2>1. CASE timers' = timers
    <3>1. ASSUME NEW other \in Stages, NEW timer \in Range(timers[other]) PROVE Fits(timer)'
      <4>1. timer \in Timer /\ Fits(timer)
        BY <1>1, <3>1, LenProperties DEF Range, Core, TimersOfRequests
      <4> QED BY <1>5, <4>1 DEF Timer
    <3> QED BY <1>1, <2>1, <3>1
  <2>2. CASE Fired(stage) /\ Head(timers[stage]).at = req[r].at
    <3>1. Head(timers[stage]).req \in waiting[stage] => Head(timers[stage]).req = r
      BY <1>5, <2>2, FiredFacts, WaitingAddress
    <3> QED BY <1>5, <2>2, <3>1, FiredFacts
  <2> QED BY <2>1, <2>2
<1>10. NobodyIsForgotten' /\ TimersOfRequests'
  <2>1. \A other \in Stages : /\ waiting'[other] \subseteq waiting[other] \cup {r}
                              /\ \A s \in {r} : s \notin waiting'[other]
    <3>1. ASSUME NEW other \in Stages PROVE waiting'[other] \subseteq waiting[other]
      BY <1>1
    <3>2. ASSUME NEW other \in Stages PROVE r \notin waiting'[other]
      <4>1. CASE other = stage
        BY <1>1, <4>1
      <4>2. CASE other # stage
        BY <1>1, <1>2, <4>2, StageFacts DEF Core, QueuesMatchStates
      <4> QED BY <4>1, <4>2
    <3> QED BY <3>1, <3>2
  <2>2. TimersFollow({r})
    BY <1>9, <2>1 DEF TimersFollow
  <2> QED BY <1>8, <2>2, TimerStep
<1>11. Types'
  BY <1>1, <1>5, <1>6, <1>8, <1>9 DEF Types
<1> QED BY <1>5, <1>7, <1>10, <1>11 DEF Core

(* a timer fires and cancels nothing *)
LEMMA TimerPasses ==
    ASSUME Core, NEW stage \in Stages, Fired(stage),
           \A r \in waiting[stage] : req[r].at # Head(timers[stage]).at,
           UNCHANGED <<req, requestQueue, waiting, triggers>>
    PROVE  Core'
<1>1. \A timer : Fits(timer) => Fits(timer)'
  BY DEF Fits, Unused, Live
<1>2. /\ ObjectsAreFine' /\ OwnAddresses' /\ QueuesMatchStates'
  BY DEF Core, ObjectsAreFine, OwnAddresses, QueuesMatchStates
<1>3. Head(timers[stage]).req \notin waiting[stage]
  <2> SUFFICES ASSUME Head(timers[stage]).req \in waiting[stage] PROVE FALSE
    OBVIOUS
  <2>1. Head(timers[stage]).req \in Requests
    BY DEF Core, Types
  <2>2. Live(req[Head(timers[stage]).req])
    BY <2>1, StageFacts DEF Core, QueuesMatchStates, Live
  <2>3. Fits(Head(timers[stage]))
    BY <1>1, FiredFacts
  <2> QED BY <2>2, <2>3 DEF Fits
<1>4. NobodyIsForgotten' /\ TimersOfRequests'
  <2>1. requestQueue' # <<>> => triggers' > 0
    BY DEF Core, NobodyIsForgotten
  <2>2. \A other \in Stages : waiting'[other] \subseteq waiting[other] \cup {}
    OBVIOUS
  <2>3. /\ timers' \in [Stages -> Seq(Timer)]
        /\ \A other \in Stages :
              /\ \A timer \in Range(timers'[other]) : Fits(timer)'
              /\ \A timer \in Range(timers[other]) :
                    timer \in Range(timers'[other]) \/ timer.req \notin waiting[other]
    BY <1>1, <1>3, FiredFacts
  <2>4. TimersFollow({})
    BY <2>2, <2>3 DEF TimersFollow
  <2> QED BY <2>1, <2>4, TimerStep
<1>5. Types'
  BY <1>1, FiredFacts DEF Core, Types
<1> QED BY <1>2, <1>4, <1>5 DEF Core

LEMMA RequestIsDeleted ==
    ASSUME Core, NEW r \in Requests, DeleteLater(r)
    PROVE  Core'
<1>1. /\ req' = [req EXCEPT ![r] = NoObject("deleted")] /\ req \in [Requests -> Request]
      /\ UNCHANGED <<requestQueue, waiting, timers, triggers>>
  BY DEF DeleteLater, Put, queues, Core, Types
<1>2. NoObject("deleted") \in Request
  BY IntentConstantsAssumption DEF NoObject, Request, States
<1>3. req[r].deleteLater /\ req[r].state = "ReceivedReplyFromApplication"
  BY DEF DeleteLater, Core, ObjectsAreFine, Fine
<1>4. req'[r] = NoObject("deleted") /\ \A s \in Requests : s # r => req'[s] = req[s]
  BY <1>1
<1>5. Fine(NoObject("deleted")) /\ NoObject("deleted").state = "deleted"
      /\ NoObject("deleted").at = None
  BY DEF Fine, NoObject, Constructed, Live, Chosen
<1>6. ObjectsAreFine'
  <2>1. \A s \in Requests : Fine(req'[s])
    BY <1>4, <1>5 DEF Core, ObjectsAreFine
  <2> QED BY <2>1 DEF ObjectsAreFine, Fine, Constructed, Live, NoObject, Accessible
<1>7. OwnAddresses'
  BY <1>4, <1>5 DEF Core, OwnAddresses
<1>8. QueuesMatchStates'
  <2>1. r \notin Range(requestQueue) /\ \A stage \in Stages : r \notin waiting[stage]
    BY <1>3, StageFacts DEF Core, QueuesMatchStates, QueuedStates
  <2>2. "deleted" \notin QueuedStates /\ \A stage \in Stages : "deleted" # WaitingStates[stage]
    BY StageFacts
  <2>3. IsInjective(requestQueue')
    BY <1>1 DEF Core, QueuesMatchStates
  <2>4. Put(r, NoObject("deleted"))
    BY <1>1 DEF Put
  <2> QED BY <1>1, <1>2, <1>5, <2>1, <2>2, <2>3, <2>4, QueueStep
<1>9. TimersOfRequests'
  <2> SUFFICES ASSUME NEW stage \in Stages, NEW timer \in Range(timers[stage])
               PROVE  Fits(timer)'
    BY <1>1 DEF TimersOfRequests
  <2>1. Fits(timer) /\ timer \in Timer
    BY LenProperties DEF Core, Types, TimersOfRequests, Range
  <2>2. timer.req \in Requests
    BY <2>1 DEF Timer
  <2> QED BY <1>4, <1>5, <2>1, <2>2 DEF Fits, Unused, Live
<1>10. NobodyIsForgotten'
  BY <1>1 DEF Core, NobodyIsForgotten
<1>11. Types'
  BY <1>1, <1>2 DEF Core, Types
<1> QED BY <1>6, <1>7, <1>8, <1>9, <1>10, <1>11 DEF Core

(* the requests that wait for the application that has started *)
LEMMA ApplicationStarts ==
    ASSUME Core, NEW a \in Apps, ApplicationWasStarted(a)
    PROVE  Core'
<1> DEFINE woken == {r \in waiting["startApplication"] : Handler[req[r].selected] = a}
<1>1. PICK order \in Bijection(1 .. Cardinality(woken), woken) :
         requestQueue' = requestQueue \o order
  BY DEF ApplicationWasStarted
<1>2. /\ req' = [r \in Requests |-> IF r \in woken
                                   THEN [req[r] EXCEPT !.state = "StartedApplication"]
                                   ELSE req[r]]
      /\ waiting' = [waiting EXCEPT !["startApplication"] = @ \ woken]
      /\ triggers' = IF woken = {} THEN triggers ELSE triggers + 1
      /\ timers' = timers
  BY DEF ApplicationWasStarted
<1>3. /\ req \in [Requests -> Request] /\ waiting \in [Stages -> SUBSET Requests]
      /\ requestQueue \in Seq(Requests) /\ triggers \in Nat /\ timers \in [Stages -> Seq(Timer)]
      /\ "startApplication" \in Stages
      /\ WaitingStates["startApplication"] = "WaitingForApplicationStart"
  BY DEF Core, Types, Stages, WaitingStates
<1>4. woken \subseteq Requests /\ woken \subseteq waiting["startApplication"]
  BY <1>3
<1> HIDE DEF woken
<1>5. IsFiniteSet(woken)
  BY <1>4, IntentConstantsAssumption, FS_Subset
<1>6. order \in Seq(woken) /\ Range(order) = woken /\ IsInjective(order)
  BY <1>5, OrderFacts
<1>7. order \in Seq(Requests)
  BY <1>4, <1>6, SeqMonotonic
<1>8. \A r \in woken : req[r].state = "WaitingForApplicationStart"
  BY <1>3, <1>4 DEF Core, QueuesMatchStates
<1>9. ASSUME NEW r \in Requests
      PROVE  /\ req'[r] \in Request /\ Fine(req'[r]) /\ req'[r].at = req[r].at
             /\ Live(req'[r]) <=> Live(req[r])
             /\ Unused(r)' <=> Unused(r)
             /\ req'[r].deleteLater = req[r].deleteLater
             /\ req'[r].state = IF r \in woken THEN "StartedApplication" ELSE req[r].state
  <2>1. CASE r \in woken
    <3>1. req'[r] = [req[r] EXCEPT !.state = "StartedApplication"]
      BY <1>2, <2>1
    <3>2. req[r] \in Request /\ Fine(req[r]) /\ req[r].state = "WaitingForApplicationStart"
      BY <1>3, <1>8, <2>1 DEF Core, ObjectsAreFine
    <3> QED BY <2>1, <3>1, <3>2
            DEF Request, States, QueuedStates, Fine, Constructed, Live, Chosen, Unused
  <2>2. CASE r \notin woken
    <3>1. req'[r] = req[r]
      BY <1>2, <2>2
    <3> QED BY <1>3, <2>2, <3>1 DEF Core, ObjectsAreFine, Unused
  <2> QED BY <2>1, <2>2
<1>10. ObjectsAreFine'
  BY <1>9 DEF ObjectsAreFine, Fine, Constructed, Live, NoObject, Accessible
<1>11. OwnAddresses'
  BY <1>9 DEF Core, OwnAddresses
<1>12. /\ requestQueue' \in Seq(Requests) /\ Range(requestQueue') = Range(requestQueue) \cup woken
       /\ IsInjective(requestQueue')
  <2>1. Range(requestQueue) \cap Range(order) = {} /\ IsInjective(requestQueue)
    BY <1>4, <1>6, <1>8 DEF Core, QueuesMatchStates, QueuedStates
  <2> QED BY <1>1, <1>3, <1>6, <1>7, <2>1, ConcatFacts
<1>13. QueuesMatchStates'
  <2>1. ASSUME NEW r \in Requests
        PROVE  /\ r \in Range(requestQueue') <=> req'[r].state \in QueuedStates /\ ~req'[r].deleteLater
               /\ \A stage \in Stages : r \in waiting'[stage] <=> req'[r].state = WaitingStates[stage]
    <3>1. CASE r \in woken
      <4>1. req'[r].state = "StartedApplication" /\ ~req'[r].deleteLater
        BY <1>8, <1>9, <3>1 DEF Core, ObjectsAreFine, Fine
      <4>2. "StartedApplication" \in QueuedStates
            /\ \A stage \in Stages : WaitingStates[stage] # "StartedApplication"
        BY StageFacts DEF QueuedStates
      <4>3. ASSUME NEW stage \in Stages PROVE r \notin waiting'[stage]
        <5>1. CASE stage = "startApplication"
          BY <1>2, <1>3, <3>1, <5>1
        <5>2. CASE stage # "startApplication"
          <6>1. waiting'[stage] = waiting[stage] /\ WaitingStates[stage] # "WaitingForApplicationStart"
            BY <1>2, <1>3, <5>2, StageFacts
          <6> QED BY <1>8, <3>1, <6>1 DEF Core, QueuesMatchStates
        <5> QED BY <5>1, <5>2
      <4> QED BY <1>12, <3>1, <4>1, <4>2, <4>3
    <3>2. CASE r \notin woken
      <4>1. req'[r].state = req[r].state /\ req'[r].deleteLater = req[r].deleteLater
        BY <1>9, <3>2
      <4>2. ASSUME NEW stage \in Stages PROVE r \in waiting'[stage] <=> r \in waiting[stage]
        <5>1. CASE stage = "startApplication"
          BY <1>2, <1>3, <3>2, <5>1
        <5>2. CASE stage # "startApplication"
          BY <1>2, <1>3, <5>2
        <5> QED BY <5>1, <5>2
      <4> QED BY <1>12, <3>2, <4>1, <4>2 DEF Core, QueuesMatchStates
    <3> QED BY <3>1, <3>2
  <2> QED BY <1>12, <2>1 DEF QueuesMatchStates, QueuedStates, WaitingStates
<1>14. ASSUME NEW stage \in Stages, NEW timer \in Range(timers[stage]) PROVE Fits(timer)'
  <2>1. timer \in Timer /\ Fits(timer)
    BY <1>3, <1>14, LenProperties DEF Core, TimersOfRequests, Range
  <2>2. timer.req \in Requests
    BY <2>1 DEF Timer
  <2>3. Live(req'[timer.req]) <=> Live(req[timer.req])
    BY <1>9, <2>2
  <2> QED BY <1>9, <2>1, <2>2, <2>3 DEF Fits, Live
<1>15. NobodyIsForgotten' /\ TimersOfRequests'
  <2>1. requestQueue' # <<>> => triggers' > 0
    <3>1. CASE woken = {}
      <4>1. requestQueue' = requestQueue
        <5>1. order = <<>>
          BY <1>6, <3>1, SeqDef, LenProperties DEF Range
        <5> QED BY <1>1, <1>3, <5>1, ConcatEmptySeq
      <4> QED BY <1>2, <3>1, <4>1 DEF Core, NobodyIsForgotten
    <3>2. CASE woken # {}
      BY <1>2, <1>3, <3>2
    <3> QED BY <3>1, <3>2
  <2>2. \A stage \in Stages : waiting'[stage] \subseteq waiting[stage] \cup {}
    BY <1>2, <1>3
  <2>3. TimersFollow({})
    BY <1>2, <1>3, <1>14, <2>2 DEF TimersFollow
  <2> QED BY <2>1, <2>3, TimerStep
<1>16. Types'
  <2>1. req' \in [Requests -> Request]
    BY <1>2, <1>9
  <2>2. waiting' \in [Stages -> SUBSET Requests]
    BY <1>2, <1>3
  <2> QED BY <1>2, <1>3, <1>12, <2>1, <2>2 DEF Types
<1> QED BY <1>10, <1>11, <1>13, <1>15, <1>16 DEF Core

-----------------------------------------------------------------------------
(* requestToSystem *)

LEMMA NewRequestFacts ==
    ASSUME NEW a \in Apps, NEW potential \in SUBSET Intents, potential # {},
           \A i \in potential : Accessible(a, i),
           NEW broadcast \in BOOLEAN, broadcast => \E i : potential = {i},
           NEW at \in Addresses
    PROVE  LET object == NewRequest(a, potential, broadcast, at) IN
           /\ object \in Request /\ Fine(object) /\ Live(object)
           /\ object.state = "ReceivedRequest" /\ ~object.deleteLater /\ object.at = at
<1> DEFINE object == NewRequest(a, potential, broadcast, at)
           selected == IF \E i \in potential : potential = {i}
                       THEN CHOOSE i \in potential : TRUE ELSE None
<1>1. object = [state |-> "ReceivedRequest", from |-> a, broadcast |-> broadcast,
                potential |-> potential, selected |-> selected, ok |-> FALSE, at |-> at,
                deleteLater |-> FALSE]
  BY DEF NewRequest
<1>2. selected \in potential \cup {None} /\ (broadcast => potential = {selected})
  BY Zenon
<1>3. at # None /\ "ReceivedRequest" \in States /\ "ReceivedRequest" \notin Chosen
      /\ "ReceivedRequest" \notin {"unused", "refused", "deleted"}
  BY IntentConstantsAssumption DEF States, QueuedStates, Chosen
<1> HIDE DEF selected
<1>4. object \in Request
  BY <1>1, <1>2, <1>3 DEF Request
<1>5. Live(object) /\ Constructed(object)
  BY <1>1, <1>2, <1>3 DEF Live, Constructed
<1>6. Fine(object)
  BY <1>1, <1>3, <1>5 DEF Fine
<1> QED BY <1>1, <1>4, <1>5, <1>6

(* unused requests become objects of their own at free addresses *)
LEMMA RequestsAreMade ==
    ASSUME Core, NEW new \in SUBSET Requests, \A r \in new : Unused(r),
           NEW object, NEW order \in Seq(Requests), Range(order) = new, IsInjective(order),
           \A r \in new :
              /\ object[r] \in Request /\ Fine(object[r]) /\ Live(object[r])
              /\ object[r].state = "ReceivedRequest" /\ ~object[r].deleteLater
              /\ Free(object[r].at)
              /\ \A s \in new : object[r].at = object[s].at => r = s,
           req' = [r \in Requests |-> IF r \in new THEN object[r] ELSE req[r]],
           requestQueue' = requestQueue \o order,
           triggers' \in Nat, triggers' > 0,
           UNCHANGED <<waiting, timers>>
    PROVE  Core'
<1>1. /\ req \in [Requests -> Request] /\ waiting \in [Stages -> SUBSET Requests]
      /\ requestQueue \in Seq(Requests) /\ timers \in [Stages -> Seq(Timer)]
  BY DEF Core, Types
<1>2. \A r \in new : req[r].state = "unused"
  BY DEF Unused
<1>3. /\ \A r \in new : req'[r] = object[r]
      /\ \A r \in Requests \ new : req'[r] = req[r]
  OBVIOUS
<1>4. ObjectsAreFine'
  <2>1. \A r \in Requests : Fine(req'[r])
    BY <1>3 DEF Core, ObjectsAreFine
  <2> QED BY <2>1 DEF ObjectsAreFine, Fine, Constructed, Live, NoObject, Accessible
<1>5. OwnAddresses'
  <2> SUFFICES ASSUME NEW r \in Requests, NEW s \in Requests, req'[r].at = req'[s].at, r # s
               PROVE  req'[r].at = None
    BY DEF OwnAddresses
  <2>1. CASE r \in new
    BY <1>3, <2>1 DEF Free
  <2>2. CASE s \in new
    BY <1>3, <2>2 DEF Free
  <2>3. CASE r \notin new /\ s \notin new
    BY <1>3, <2>3 DEF Core, OwnAddresses
  <2> QED BY <2>1, <2>2, <2>3
<1>6. /\ requestQueue' \in Seq(Requests) /\ Range(requestQueue') = Range(requestQueue) \cup new
      /\ IsInjective(requestQueue')
  <2>1. Range(requestQueue) \cap Range(order) = {} /\ IsInjective(requestQueue)
    BY <1>2, StageFacts DEF Core, QueuesMatchStates
  <2> QED BY <1>1, <2>1, ConcatFacts
<1>7. QueuesMatchStates'
  <2>1. ASSUME NEW r \in Requests
        PROVE  /\ r \in Range(requestQueue') <=> req'[r].state \in QueuedStates /\ ~req'[r].deleteLater
               /\ \A stage \in Stages : r \in waiting'[stage] <=> req'[r].state = WaitingStates[stage]
    <3>1. CASE r \in new
      <4>1. "ReceivedRequest" \in QueuedStates
            /\ \A stage \in Stages : /\ WaitingStates[stage] # "ReceivedRequest"
                                     /\ WaitingStates[stage] # "unused"
        BY StageFacts DEF QueuedStates
      <4>2. \A stage \in Stages : r \notin waiting[stage]
        BY <1>2, <3>1, <4>1 DEF Core, QueuesMatchStates
      <4> QED BY <1>3, <1>6, <3>1, <4>1, <4>2
    <3>2. CASE r \notin new
      BY <1>3, <1>6, <3>2 DEF Core, QueuesMatchStates
    <3> QED BY <3>1, <3>2
  <2> QED BY <1>6, <2>1 DEF QueuesMatchStates, QueuedStates, WaitingStates
<1>8. ASSUME NEW stage \in Stages, NEW timer \in Range(timers[stage]) PROVE Fits(timer)'
  <2>1. timer \in Timer /\ Fits(timer)
    BY <1>1, <1>8, LenProperties DEF Core, TimersOfRequests, Range
  <2>2. timer.req \in Requests /\ timer.req \notin new
    BY <1>2, <2>1 DEF Timer, Fits, Unused
  <2> QED BY <1>3, <2>1, <2>2 DEF Fits, Unused, Live
<1>9. NobodyIsForgotten' /\ TimersOfRequests'
  <2>1. TimersFollow({})
    BY <1>1, <1>8 DEF TimersFollow
  <2> QED BY <2>1, TimerStep
<1>10. Types'
  <2>1. req' \in [Requests -> Request]
    BY <1>1
  <2> QED BY <1>1, <1>6, <2>1 DEF Types
<1> QED BY <1>4, <1>5, <1>7, <1>9, <1>10 DEF Core

LEMMA CandidatesFacts ==
    ASSUME NEW registered \in SUBSET Intents, NEW a, NEW target
    PROVE  /\ Candidates(registered, a, target) \in SUBSET Intents
           /\ \A i \in Candidates(registered, a, target) : Accessible(a, i)
BY DEF Candidates, Matching

LEMMA RequestIsMade ==
    ASSUME Core, NEW registered \in SUBSET Intents, NEW r \in Requests, NEW a \in Apps,
           NEW target, RequestToSystem(registered, r, a, target)
    PROVE  Core'
<1> DEFINE potential == Candidates(registered, a, target)
<1>1. potential \in SUBSET Intents /\ \A i \in potential : Accessible(a, i)
  BY CandidatesFacts
<1>2. Unused(r) /\ UNCHANGED waiting
  BY DEF RequestToSystem
<1>3. CASE a \in ipc /\ potential # {}
  <2>1. PICK at \in Addresses : Free(at) /\ Put(r, NewRequest(a, potential, FALSE, at))
    BY <1>3 DEF RequestToSystem
  <2> DEFINE object == [s \in {r} |-> NewRequest(a, potential, FALSE, at)]
  <2>2. /\ requestQueue' = Append(requestQueue, r) /\ triggers' = triggers + 1
        /\ timers' = timers
    BY <1>3 DEF RequestToSystem, End, Enqueue, Trigger, Pass
  <2>3. /\ NewRequest(a, potential, FALSE, at) \in Request
        /\ Fine(NewRequest(a, potential, FALSE, at)) /\ Live(NewRequest(a, potential, FALSE, at))
        /\ NewRequest(a, potential, FALSE, at).state = "ReceivedRequest"
        /\ ~NewRequest(a, potential, FALSE, at).deleteLater
        /\ NewRequest(a, potential, FALSE, at).at = at
    BY <1>1, <1>3, NewRequestFacts
  <2>4. /\ <<r>> \in Seq(Requests) /\ Range(<<r>>) = {r} /\ IsInjective(<<r>>)
        /\ requestQueue' = requestQueue \o <<r>>
    <3>1. DOMAIN <<r>> = {1} /\ <<r>>[1] = r
      OBVIOUS
    <3>2. Range(<<r>>) = {r} /\ IsInjective(<<r>>)
      BY <3>1 DEF Range, IsInjective
    <3>3. requestQueue' = requestQueue \o <<r>>
      BY <2>2, AppendIsConcat DEF Core, Types
    <3> QED BY <3>2, <3>3
  <2>5. req' = [s \in Requests |-> IF s \in {r} THEN object[s] ELSE req[s]]
    BY <2>1 DEF Put, Core, Types
  <2>6. triggers' \in Nat /\ triggers' > 0
    BY <2>2 DEF Core, Types
  <2>7. \A s \in {r} : object[s] = NewRequest(a, potential, FALSE, at)
    OBVIOUS
  <2>8. {r} \in SUBSET Requests /\ \A s \in {r} : Unused(s)
    BY <1>2
  <2>9. \A s \in {r} :
           /\ object[s] \in Request /\ Fine(object[s]) /\ Live(object[s])
           /\ object[s].state = "ReceivedRequest" /\ ~object[s].deleteLater
           /\ Free(object[s].at)
           /\ \A t \in {r} : object[s].at = object[t].at => s = t
    BY <2>1, <2>3, <2>7
  <2> HIDE DEF object
  <2> QED BY <1>2, <2>2, <2>4, <2>5, <2>6, <2>8, <2>9, RequestsAreMade
<1>4. CASE a \notin ipc \/ potential = {}
  <2>1. /\ req' = [req EXCEPT ![r] = NoObject("refused")] /\ req \in [Requests -> Request]
        /\ UNCHANGED <<requestQueue, timers, triggers>>
    BY <1>4 DEF RequestToSystem, Put, Core, Types
  <2>2. /\ NoObject("refused") \in Request /\ Fine(NoObject("refused"))
        /\ NoObject("refused").state = "refused" /\ NoObject("refused").at = None
    BY IntentConstantsAssumption
       DEF NoObject, Request, States, Fine, Constructed, Live, Chosen
  <2>3. req'[r] = NoObject("refused") /\ \A s \in Requests : s # r => req'[s] = req[s]
    BY <2>1
  <2>4. ObjectsAreFine'
    <3>1. \A s \in Requests : Fine(req'[s])
      BY <2>2, <2>3 DEF Core, ObjectsAreFine
    <3> QED BY <3>1 DEF ObjectsAreFine, Fine, Constructed, Live, NoObject, Accessible
  <2>5. OwnAddresses'
    BY <2>2, <2>3 DEF Core, OwnAddresses
  <2>6. QueuesMatchStates'
    <3>1. "unused" \notin QueuedStates /\ "refused" \notin QueuedStates
          /\ \A stage \in Stages : "unused" # WaitingStates[stage] /\ "refused" # WaitingStates[stage]
      BY StageFacts
    <3>2. r \notin Range(requestQueue) /\ \A stage \in Stages : r \notin waiting[stage]
      BY <1>2, <3>1 DEF Core, QueuesMatchStates, Unused
    <3>3. IsInjective(requestQueue')
      BY <2>1 DEF Core, QueuesMatchStates
    <3>4. Put(r, NoObject("refused"))
      BY <2>1 DEF Put
    <3> QED BY <1>2, <2>1, <2>2, <3>1, <3>2, <3>3, <3>4, QueueStep
  <2>7. TimersOfRequests'
    <3> SUFFICES ASSUME NEW stage \in Stages, NEW timer \in Range(timers[stage])
                 PROVE  Fits(timer)'
      BY <2>1 DEF TimersOfRequests
    <3>1. Fits(timer) /\ timer \in Timer
      BY LenProperties DEF Core, Types, TimersOfRequests, Range
    <3>2. timer.req \in Requests /\ timer.req # r
      BY <1>2, <3>1 DEF Timer, Fits
    <3> QED BY <2>3, <3>1, <3>2 DEF Fits, Unused, Live
  <2>8. NobodyIsForgotten'
    BY <1>2, <2>1 DEF Core, NobodyIsForgotten
  <2>9. Types'
    BY <1>2, <2>1, <2>2 DEF Core, Types
  <2> QED BY <2>4, <2>5, <2>6, <2>7, <2>8, <2>9 DEF Core
<1> QED BY <1>3, <1>4

LEMMA BroadcastIsMade ==
    ASSUME Core, NEW registered \in SUBSET Intents, NEW a \in Apps,
           BroadcastToSystem(registered, a)
    PROVE  Core'
<1> DEFINE potential == Candidates(registered, a, Broadcast)
           n == Cardinality(potential)
<1>1. potential \in SUBSET Intents /\ \A i \in potential : Accessible(a, i)
  BY CandidatesFacts
<1>2. IsFiniteSet(potential) /\ n \in Nat
  BY <1>1, IntentConstantsAssumption, FS_Subset, FS_CardinalityType
<1>3. /\ n > 0 /\ triggers' = triggers + n /\ UNCHANGED <<waiting, timers>>
  BY DEF BroadcastToSystem
<1>4. PICK new \in SUBSET {r \in Requests : Unused(r)} :
      \E to \in Bijection(new, potential), order \in Bijection(1 .. n, new),
         at \in Injection(new, {x \in Addresses : Free(x)}) :
         /\ req' = [r \in Requests |->
                       IF r \in new THEN NewRequest(a, {to[r]}, TRUE, at[r]) ELSE req[r]]
         /\ requestQueue' = requestQueue \o order
  BY DEF BroadcastToSystem
<1>5. PICK to \in Bijection(new, potential), order \in Bijection(1 .. n, new),
           at \in Injection(new, {x \in Addresses : Free(x)}) :
         /\ req' = [r \in Requests |->
                       IF r \in new THEN NewRequest(a, {to[r]}, TRUE, at[r]) ELSE req[r]]
         /\ requestQueue' = requestQueue \o order
  BY <1>4
<1> HIDE DEF n, potential
<1>6. /\ new \in SUBSET Requests /\ \A r \in new : Unused(r)
  BY <1>4
<1>7. order \in Seq(Requests) /\ Range(order) = new /\ IsInjective(order)
  <2>1. order \in [1 .. n -> new] /\ IsInjective(order)
        /\ \A r \in new : \E i \in 1 .. n : order[i] = r
    BY DEF Bijection, Injection, Surjection
  <2>2. order \in Seq(new)
    BY <1>2, <2>1, SeqDef
  <2>3. Range(order) = new
    BY <2>1 DEF Range
  <2> QED BY <1>6, <2>1, <2>2, <2>3, SeqMonotonic
<1>8. ASSUME NEW r \in new
      PROVE  to[r] \in potential /\ at[r] \in Addresses /\ Free(at[r])
             /\ \A s \in new : at[r] = at[s] => r = s
  BY DEF Bijection, Injection, IsInjective
<1> DEFINE object == [r \in new |-> NewRequest(a, {to[r]}, TRUE, at[r])]
<1>9. ASSUME NEW r \in new
      PROVE  /\ object[r] \in Request /\ Fine(object[r]) /\ Live(object[r])
             /\ object[r].state = "ReceivedRequest" /\ ~object[r].deleteLater
             /\ object[r].at = at[r]
  <2>1. object[r] = NewRequest(a, {to[r]}, TRUE, at[r])
    OBVIOUS
  <2>2. /\ {to[r]} \in SUBSET Intents /\ {to[r]} # {} /\ \A i \in {to[r]} : Accessible(a, i)
        /\ at[r] \in Addresses
    BY <1>1, <1>8
  <2>3. PICK broadcast \in BOOLEAN : broadcast
    OBVIOUS
  <2>4. broadcast => \E i : {to[r]} = {i}
    OBVIOUS
  <2>5. NewRequest(a, {to[r]}, TRUE, at[r]) = NewRequest(a, {to[r]}, broadcast, at[r])
    BY <2>3
  <2> HIDE DEF object
  <2>6. LET new1 == NewRequest(a, {to[r]}, broadcast, at[r]) IN
        /\ new1 \in Request /\ Fine(new1) /\ Live(new1)
        /\ new1.state = "ReceivedRequest" /\ ~new1.deleteLater /\ new1.at = at[r]
    BY <2>2, <2>4, NewRequestFacts
  <2> QED BY <2>1, <2>5, <2>6
<1>10. req' = [r \in Requests |-> IF r \in new THEN object[r] ELSE req[r]]
  BY <1>5
<1> HIDE DEF object
<1>11. \A r \in new :
          /\ object[r] \in Request /\ Fine(object[r]) /\ Live(object[r])
          /\ object[r].state = "ReceivedRequest" /\ ~object[r].deleteLater
          /\ Free(object[r].at)
          /\ \A s \in new : object[r].at = object[s].at => r = s
  BY <1>8, <1>9
<1>12. triggers' \in Nat /\ triggers' > 0
  BY <1>2, <1>3 DEF Core, Types
<1>13. requestQueue' = requestQueue \o order /\ UNCHANGED <<waiting, timers>>
  BY <1>3, <1>5
<1> QED BY <1>6, <1>7, <1>10, <1>11, <1>12, <1>13, RequestsAreMade

-----------------------------------------------------------------------------
(* What a step sends *)

SentIsFine == sent \in Message \cup {None} /\ HandlersMayBeUsed

LEMMA NothingSent ==
    ASSUME Silent
    PROVE  SentIsFine'
BY DEF Silent, SentIsFine, HandlersMayBeUsed

LEMMA ReplySent ==
    ASSUME NEW r \in Requests, NEW ok \in BOOLEAN, NEW a \in Apps, Send("reply", r, ok, a)
    PROVE  SentIsFine'
<1>1. sent' = [kind |-> "reply", ok |-> ok, req |-> r, to |-> a]
  BY DEF Send
<1>2. sent' \in Message /\ sent'.kind # "request"
  BY <1>1 DEF Message
<1> QED BY <1>2 DEF SentIsFine, HandlersMayBeUsed

LEMMA RequestSent ==
    ASSUME NEW r \in Requests, NEW a \in Apps, Send("request", r, TRUE, a),
           NEW object \in Request, Fine(object), object.selected \in object.potential,
           Handler[object.selected] = a,
           req'[r].selected = object.selected, req'[r].from = object.from
    PROVE  SentIsFine'
<1>1. sent' = [kind |-> "request", ok |-> TRUE, req |-> r, to |-> a]
  BY DEF Send
<1>2. sent' \in Message /\ sent'.req = r /\ sent'.to = a
  BY <1>1 DEF Message
<1>3. Accessible(object.from, object.selected)
  BY DEF Fine
<1> QED BY <1>2, <1>3 DEF SentIsFine, HandlersMayBeUsed, Accessible

-----------------------------------------------------------------------------
(* What processRequestQueue does with the first request *)

LEMMA ResolvedFacts ==
    ASSUME Core, NEW r \in Requests, Live(req[r]), ~req[r].deleteLater,
           req[r].state \in QueuedStates \ {"ReceivedReplyFromApplication"},
           NEW object \in Resolved(r)
    PROVE  /\ object \in Request /\ Fine(object) /\ Live(object)
           /\ object.at = req[r].at /\ ~object.deleteLater /\ object.from = req[r].from
           /\ object.selected \in object.potential
           /\ object.state \in {"Disambiguated", "StartedApplication"}
<1>1. req[r] \in Request /\ Fine(req[r])
  BY DEF Core, Types, ObjectsAreFine
<1>2. /\ req[r].at # None /\ req[r].potential # {} /\ req[r].potential \subseteq Intents
      /\ req[r].selected \in req[r].potential \cup {None} /\ None \notin Intents
      /\ req[r].broadcast => req[r].potential = {req[r].selected}
  BY <1>1, IntentConstantsAssumption DEF Fine, Constructed, Request
<1>3. CASE req[r].state # "ReceivedRequest"
  <2>1. object = req[r]
    BY <1>3 DEF Resolved
  <2>2. req[r].state \in {"Disambiguated", "StartedApplication"}
    BY <1>3 DEF QueuedStates
  <2>3. req[r].selected # None
    BY <1>1, <2>2 DEF Fine, Chosen
  <2> QED BY <1>1, <1>2, <2>1, <2>2, <2>3
<1>4. CASE req[r].state = "ReceivedRequest"
  <2>1. PICK i \in req[r].potential :
           object = Select(req[r], i) /\ (req[r].selected # None => i = req[r].selected)
    <3>1. CASE req[r].selected # None
      BY <1>2, <1>4, <3>1 DEF Resolved
    <3>2. CASE req[r].selected = None
      BY <1>2, <1>4, <3>2 DEF Resolved
    <3> QED BY <3>1, <3>2
  <2>2. /\ object \in Request /\ object.selected = i /\ object.state = "Disambiguated"
        /\ object.from = req[r].from /\ object.at = req[r].at
        /\ object.potential = req[r].potential /\ object.broadcast = req[r].broadcast
        /\ ~object.deleteLater
    BY <1>1, <1>2, <2>1 DEF Select, Request, States, QueuedStates
  <2>3. req[r].broadcast => req[r].potential = {i}
    BY <1>2, <2>1
  <2>4. Live(object) /\ Constructed(object)
    BY <1>2, <2>2, <2>3 DEF Live, Constructed
  <2>5. Fine(object)
    BY <1>1, <1>2, <2>2, <2>4 DEF Fine
  <2> QED BY <2>2, <2>4, <2>5
<1> QED BY <1>3, <1>4

LEMMA ReplyIsForwarded ==
    ASSUME Core, requestQueue # <<>>, NEW object \in Request, Live(object), Fine(object),
           object.at = req[Head(requestQueue)].at,
           ForwardReply(Head(requestQueue), object, FirstTaken)
    PROVE  Core' /\ SentIsFine'
<1>1. Core'
  BY RequestIsDone DEF ForwardReply
<1>2. object.ok \in BOOLEAN /\ object.from \in Apps /\ Head(requestQueue) \in Requests
  BY HeadFacts DEF Request
<1>3. SentIsFine'
  BY <1>2, NothingSent, ReplySent DEF ForwardReply
<1> QED BY <1>1, <1>3

LEMMA RequestIsDelivered ==
    ASSUME Core, requestQueue # <<>>, NEW object \in Request, Live(object), Fine(object),
           object.at = req[Head(requestQueue)].at, ~object.deleteLater,
           object.selected \in object.potential,
           Deliver(Head(requestQueue), object, FirstTaken)
    PROVE  Core' /\ SentIsFine'
<1> DEFINE r == Head(requestQueue)
<1>1. r \in Requests /\ req \in [Requests -> Request]
  BY HeadFacts DEF Core, Types
<1>2. object.selected \in Intents /\ object.selected # None /\ Handler[object.selected] \in Apps
  <2>1. object.selected \in Intents
    BY DEF Request
  <2> QED BY <2>1, IntentConstantsAssumption DEF Injection
<1>3. CASE SendToHandler(r, object, FirstTaken) /\ object.broadcast
  <2>1. /\ Put(r, Dying(object)) /\ UNCHANGED waiting /\ End(Trigger(FirstTaken))
        /\ Send("request", r, TRUE, Handler[object.selected])
    BY <1>3 DEF SendToHandler
  <2>2. Core'
    BY <2>1, RequestIsDone
  <2>3. req'[r].selected = object.selected /\ req'[r].from = object.from
    BY <1>1, <2>1 DEF Put, Dying, Request
  <2>4. SentIsFine'
    BY <1>1, <1>2, <2>1, <2>3, RequestSent
  <2> QED BY <2>2, <2>4
<1>4. CASE SendToHandler(r, object, FirstTaken) /\ ~object.broadcast
  <2> DEFINE waits == [object EXCEPT !.state = "WaitingForReplyFromApplication"]
  <2>1. /\ Put(r, waits) /\ Wait("replyFromApplication", r)
        /\ End(Trigger(StartTimer(FirstTaken, "replyFromApplication", r)))
        /\ Send("request", r, TRUE, Handler[object.selected])
    BY <1>4 DEF SendToHandler
  <2>2. /\ waits \in Request /\ Live(waits) /\ Fine(waits) /\ waits.at = req[r].at
        /\ ~waits.deleteLater /\ waits.selected = object.selected /\ waits.from = object.from
        /\ waits.state = "WaitingForReplyFromApplication"
        /\ "replyFromApplication" \in Stages
        /\ WaitingStates["replyFromApplication"] = "WaitingForReplyFromApplication"
    BY <1>2, StageFacts DEF Request, States, Range, Live, Fine, Constructed, Stages, WaitingStates
  <2> HIDE DEF waits
  <2>3. Core'
    BY <2>1, <2>2, RequestWaits
  <2>4. req'[r].selected = object.selected /\ req'[r].from = object.from
    BY <1>1, <2>1, <2>2 DEF Put
  <2>5. SentIsFine'
    BY <1>1, <1>2, <2>1, <2>4, RequestSent
  <2> QED BY <2>3, <2>5
<1>5. CASE StartHandler(r, object, FirstTaken)
  <2> DEFINE waits == [object EXCEPT !.state = "WaitingForApplicationStart"]
  <2>1. /\ Put(r, waits) /\ Wait("startApplication", r)
        /\ End(Trigger(StartTimer(FirstTaken, "startApplication", r))) /\ Silent
    BY <1>5 DEF StartHandler
  <2>2. /\ waits \in Request /\ Live(waits) /\ Fine(waits) /\ waits.at = req[r].at
        /\ ~waits.deleteLater /\ waits.state = "WaitingForApplicationStart"
        /\ "startApplication" \in Stages
        /\ WaitingStates["startApplication"] = "WaitingForApplicationStart"
    BY <1>2, StageFacts DEF Request, States, Range, Live, Fine, Constructed, Stages, WaitingStates
  <2> HIDE DEF waits
  <2>3. Core'
    BY <2>1, <2>2, RequestWaits
  <2> QED BY <2>1, <2>3, NothingSent
<1>6. CASE ForwardReply(r, Replied(object, FALSE), FirstTaken)
  <2> DEFINE replied == Replied(object, FALSE)
  <2>1. replied \in Request /\ Live(replied) /\ Fine(replied) /\ replied.at = req[r].at
    BY DEF Replied, Request, States, QueuedStates, Live, Fine, Constructed, Chosen
  <2> HIDE DEF replied
  <2>2. ForwardReply(r, replied, FirstTaken)
    BY <1>6 DEF replied
  <2> QED BY <2>1, <2>2, ReplyIsForwarded
<1> QED BY <1>3, <1>4, <1>5, <1>6 DEF Deliver

LEMMA RequestIsProcessed ==
    ASSUME Core, SlotAnswers = {}, ProcessRequestQueue
    PROVE  Core' /\ SentIsFine'
<1>1. CASE requestQueue = <<>>
  <2>1. /\ triggers' = triggers - 1 /\ triggers > 0 /\ Silent
        /\ UNCHANGED <<req, requestQueue, waiting, timers>>
    BY <1>1 DEF ProcessRequestQueue
  <2>2. Core'
    <3>1. Types' /\ ObjectsAreFine' /\ OwnAddresses' /\ QueuesMatchStates'
      BY <2>1 DEF Core, Types, ObjectsAreFine, OwnAddresses, QueuesMatchStates
    <3>2. TimersOfRequests'
      BY <2>1 DEF Core, TimersOfRequests, Fits, Unused, Live
    <3>3. NobodyIsForgotten'
      BY <1>1, <2>1 DEF Core, NobodyIsForgotten
    <3> QED BY <3>1, <3>2, <3>3 DEF Core
  <2> QED BY <2>1, <2>2, NothingSent
<1>2. CASE requestQueue # <<>>
  <2> DEFINE r == Head(requestQueue)
  <2>1. ProcessRequest(r, FirstTaken)
    BY <1>2 DEF ProcessRequestQueue
  <2>2. /\ r \in Requests /\ Live(req[r]) /\ ~req[r].deleteLater /\ req[r].state \in QueuedStates
        /\ req[r] \in Request /\ Fine(req[r])
    BY <1>2, HeadFacts DEF Core, Types, ObjectsAreFine
  <2>3. CASE Ambiguous(r) /\ Disambiguate(r, FirstTaken)
    <3> DEFINE waits == [req[r] EXCEPT !.state = "WaitingForDisambiguation"]
    <3>1. /\ Put(r, waits) /\ Wait("disambiguation", r)
          /\ End(Trigger(StartTimer(FirstTaken, "disambiguation", r))) /\ Silent
      BY <2>3 DEF Disambiguate
    <3>2. /\ waits \in Request /\ Live(waits) /\ Fine(waits) /\ waits.at = req[r].at
          /\ ~waits.deleteLater /\ waits.state = "WaitingForDisambiguation"
          /\ "disambiguation" \in Stages
          /\ WaitingStates["disambiguation"] = "WaitingForDisambiguation"
      BY <2>2, StageFacts
         DEF Request, States, Range, Live, Fine, Constructed, Chosen, Stages, WaitingStates
    <3> HIDE DEF waits
    <3>3. Core'
      BY <1>2, <3>1, <3>2, RequestWaits
    <3> QED BY <3>1, <3>3, NothingSent
  <2>4. CASE /\ req[r].state \in QueuedStates \ {"ReceivedReplyFromApplication"}
             /\ \E object \in Resolved(r) : Deliver(r, object, FirstTaken)
    <3>1. PICK object \in Resolved(r) : Deliver(r, object, FirstTaken)
      BY <2>4
    <3>2. /\ object \in Request /\ Fine(object) /\ Live(object)
          /\ object.at = req[r].at /\ ~object.deleteLater /\ object.selected \in object.potential
      BY <2>2, <2>4, ResolvedFacts
    <3> QED BY <1>2, <3>1, <3>2, RequestIsDelivered
  <2>5. CASE ForwardReply(r, req[r], FirstTaken)
    BY <1>2, <2>2, <2>5, ReplyIsForwarded
  <2>6. req[r].state \notin Range(WaitingStates)
    BY <2>2, StageFacts
  <2> QED BY <2>1, <2>3, <2>4, <2>5, <2>6 DEF ProcessRequest
<1> QED BY <1>1, <1>2

-----------------------------------------------------------------------------
(* The inductive invariant *)

Unchanging ==
    UNCHANGED <<req, requestQueue, waiting, timers, triggers>>

LEMMA CoreStays ==
    ASSUME Core, Unchanging
    PROVE  Core'
<1>1. Types' /\ ObjectsAreFine' /\ OwnAddresses' /\ QueuesMatchStates' /\ NobodyIsForgotten'
  BY DEF Unchanging, Core, Types, ObjectsAreFine, OwnAddresses, QueuesMatchStates,
         NobodyIsForgotten
<1>2. TimersOfRequests'
  BY DEF Unchanging, Core, TimersOfRequests, Fits, Unused, Live
<1> QED BY <1>1, <1>2 DEF Core

LEMMA WaitingObject ==
    ASSUME Core, NEW stage \in Stages, NEW r \in waiting[stage], NEW ok \in BOOLEAN
    PROVE  /\ r \in Requests /\ req[r] \in Request /\ Fine(req[r]) /\ ~req[r].deleteLater
           /\ Replied(req[r], ok) \in Request /\ Fine(Replied(req[r], ok))
           /\ Replied(req[r], ok).at = req[r].at /\ ~Replied(req[r], ok).deleteLater
           /\ Replied(req[r], ok).state = "ReceivedReplyFromApplication"
           /\ \A i \in req[r].potential :
                 /\ Select(req[r], i) \in Request
                 /\ Fine(Select(req[r], i))
                 /\ Select(req[r], i).at = req[r].at /\ ~Select(req[r], i).deleteLater
                 /\ Select(req[r], i).state = "Disambiguated"
<1>1. /\ r \in Requests /\ req[r] \in Request /\ Fine(req[r])
      /\ req[r].state = WaitingStates[stage]
  BY DEF Core, Types, ObjectsAreFine, QueuesMatchStates
<1>2. Live(req[r]) /\ ~req[r].deleteLater
  BY <1>1, StageFacts DEF Live, Fine, QueuedStates
<1>3. /\ req[r].at # None /\ req[r].potential # {} /\ req[r].potential \subseteq Intents
      /\ req[r].selected \in req[r].potential \cup {None}
      /\ req[r].broadcast => req[r].potential = {req[r].selected}
  BY <1>1, <1>2 DEF Fine, Constructed, Request
<1>4. /\ Replied(req[r], ok) \in Request /\ Fine(Replied(req[r], ok))
      /\ Replied(req[r], ok).at = req[r].at /\ ~Replied(req[r], ok).deleteLater
      /\ Replied(req[r], ok).state = "ReceivedReplyFromApplication"
  BY <1>1, <1>2, <1>3
     DEF Replied, Request, States, QueuedStates, Fine, Constructed, Live, Chosen
<1>5. ASSUME NEW i \in req[r].potential
      PROVE  /\ Select(req[r], i) \in Request
             /\ Fine(Select(req[r], i))
             /\ Select(req[r], i).at = req[r].at /\ ~Select(req[r], i).deleteLater
             /\ Select(req[r], i).state = "Disambiguated"
  <2>1. i # None
    BY <1>3, IntentConstantsAssumption
  <2>2. /\ Select(req[r], i) \in Request /\ Select(req[r], i).selected = i
        /\ Select(req[r], i).state = "Disambiguated" /\ Select(req[r], i).from = req[r].from
        /\ Select(req[r], i).at = req[r].at /\ Select(req[r], i).potential = req[r].potential
        /\ Select(req[r], i).broadcast = req[r].broadcast /\ ~Select(req[r], i).deleteLater
    BY <1>1, <1>2, <1>3 DEF Select, Request, States, QueuedStates
  <2>3. req[r].broadcast => req[r].potential = {i}
    BY <1>3
  <2>4. Fine(Select(req[r], i))
    BY <1>1, <1>3, <2>1, <2>2, <2>3 DEF Fine, Constructed, Live
  <2> QED BY <2>2, <2>4
<1> QED BY <1>1, <1>2, <1>4, <1>5

LEMMA Resumes ==
    ASSUME Core, NEW stage \in Stages, NEW r, NEW object \in Request, Fine(object),
           object.at = req[r].at, object.state \in QueuedStates, ~object.deleteLater,
           Resume(stage, r, object, Pass)
    PROVE  Core' /\ SentIsFine'
<1>1. /\ r \in waiting[stage] /\ Put(r, object) /\ Leave(stage, r) /\ Silent
      /\ requestQueue' = Append(requestQueue, r) /\ triggers' = triggers + 1
      /\ timers' = timers
  BY DEF Resume, End, Enqueue, Trigger, Pass
<1> QED BY <1>1, RequestReturns, NothingSent

LEMMA TimerFires ==
    ASSUME Core, NEW stage \in Stages, Timeout(stage)
    PROVE  Core' /\ SentIsFine' /\ ipc' = ipc /\ started' = started
<1> DEFINE hit == {r \in waiting[stage] : req[r].at = Head(timers[stage]).at}
           fired == [queue |-> requestQueue, timers |-> [timers EXCEPT ![stage] = Tail(@)],
                     triggers |-> triggers]
<1>1. timers[stage] # <<>>
  BY DEF Timeout
<1>2. CASE \E r \in hit : Resume(stage, r, Replied(req[r], FALSE), fired)
  <2>1. PICK r \in hit : Resume(stage, r, Replied(req[r], FALSE), fired)
    BY <1>2
  <2>2. /\ Put(r, Replied(req[r], FALSE)) /\ Leave(stage, r) /\ Silent
        /\ requestQueue' = Append(requestQueue, r) /\ triggers' = triggers + 1
        /\ timers' = [timers EXCEPT ![stage] = Tail(@)]
        /\ ipc' = ipc /\ started' = started
    BY <2>1 DEF Resume, End, Enqueue, Trigger, connections
  <2>3. Fired(stage) /\ Head(timers[stage]).at = req[r].at /\ r \in waiting[stage]
    BY <1>1, <2>1, <2>2 DEF Fired
  <2>4. /\ Replied(req[r], FALSE) \in Request /\ Fine(Replied(req[r], FALSE))
        /\ Replied(req[r], FALSE).at = req[r].at /\ ~Replied(req[r], FALSE).deleteLater
        /\ Replied(req[r], FALSE).state \in QueuedStates
    BY <2>3, WaitingObject DEF QueuedStates
  <2>5. Core'
    BY <2>2, <2>3, <2>4, RequestReturns
  <2> QED BY <2>2, <2>5, NothingSent
<1>3. CASE /\ hit = {} /\ End(fired)
           /\ Silent /\ UNCHANGED <<req, waiting, connections>>
  <2>1. /\ Fired(stage) /\ UNCHANGED <<req, requestQueue, waiting, triggers>>
        /\ ipc' = ipc /\ started' = started
    BY <1>1, <1>3 DEF Fired, End, connections
  <2>2. \A r \in waiting[stage] : req[r].at # Head(timers[stage]).at
    BY <1>3
  <2>3. Core'
    BY <2>1, <2>2, TimerPasses
  <2> QED BY <1>3, <2>1, <2>3, NothingSent
<1> QED BY <1>2, <1>3 DEF Timeout

LEMMA SystemUiAnswersKeepsInv ==
    ASSUME Core, NEW r \in Requests, SystemUiAnswers(r)
    PROVE  Core' /\ SentIsFine' /\ ipc' = ipc /\ started' = started
<1>1. PICK object :
         /\ Resume("disambiguation", r, object, Pass)
         /\ object = Replied(req[r], FALSE)
                \/ \E i \in req[r].potential : object = Select(req[r], i)
  BY DEF SystemUiAnswers, AcknowledgeDisambiguationRequest, RejectDisambiguationRequest
<1>2. /\ r \in waiting["disambiguation"] /\ "disambiguation" \in Stages
      /\ ipc' = ipc /\ started' = started
  BY <1>1 DEF Resume, connections, Stages
<1>3. /\ object \in Request /\ Fine(object) /\ object.at = req[r].at
      /\ object.state \in QueuedStates /\ ~object.deleteLater
  <2>1. CASE object = Replied(req[r], FALSE)
    BY <1>2, <2>1, WaitingObject DEF QueuedStates
  <2>2. CASE \E i \in req[r].potential : object = Select(req[r], i)
    BY <1>2, <2>2, WaitingObject DEF QueuedStates
  <2> QED BY <1>1, <2>1, <2>2
<1> QED BY <1>1, <1>2, <1>3, Resumes

LEMMA ReplyKeepsInv ==
    ASSUME Core, NEW a \in Apps, NEW r \in Requests, NEW ok \in BOOLEAN,
           ReplyFromApplication(a, r, ok)
    PROVE  Core' /\ SentIsFine' /\ ipc' = ipc /\ started' = started
<1> DEFINE stage == "replyFromApplication"
<1>1. CASE Resume(stage, r, Replied(req[r], ok /\ a = Handler[req[r].selected]), Pass)
  <2>1. PICK good \in BOOLEAN : good = (ok /\ a = Handler[req[r].selected])
    OBVIOUS
  <2>2. Resume(stage, r, Replied(req[r], good), Pass)
    BY <1>1, <2>1
  <2>3. /\ r \in waiting[stage] /\ stage \in Stages /\ ipc' = ipc /\ started' = started
    BY <2>2 DEF Resume, connections, Stages
  <2>4. /\ Replied(req[r], good) \in Request /\ Fine(Replied(req[r], good))
        /\ Replied(req[r], good).at = req[r].at /\ ~Replied(req[r], good).deleteLater
        /\ Replied(req[r], good).state \in QueuedStates
    BY <2>3, WaitingObject DEF QueuedStates
  <2> QED BY <2>2, <2>3, <2>4, Resumes
<1>2. CASE Silent /\ UNCHANGED <<req, queues, connections>>
  <2>1. Unchanging /\ ipc' = ipc /\ started' = started
    BY <1>2 DEF queues, connections, Unchanging
  <2> QED BY <1>2, <2>1, CoreStays, NothingSent
<1> QED BY <1>1, <1>2 DEF ReplyFromApplication

LEMMA ApplicationKeepsInv ==
    ASSUME Core, ipc \subseteq Apps, started \subseteq Apps, NEW a \in Apps, Application(a)
    PROVE  Core' /\ SentIsFine' /\ ipc' \subseteq Apps /\ started' \subseteq Apps
<1>1. ASSUME NEW registered \in SUBSET Intents, NEW r \in Requests,
             NEW target \in Apps \cup {AnyApp}, RequestToSystem(registered, r, a, target)
      PROVE  Core' /\ Silent /\ ipc' = ipc /\ started' = started
  <2>1. Silent /\ ipc' = ipc /\ started' = started
    BY <1>1 DEF RequestToSystem, connections
  <2> QED BY <1>1, <2>1, RequestIsMade
<1>2. ASSUME NEW registered \in SUBSET Intents, BroadcastToSystem(registered, a)
      PROVE  Core' /\ Silent /\ ipc' = ipc /\ started' = started
  <2>1. Silent /\ ipc' = ipc /\ started' = started
    BY <1>2 DEF BroadcastToSystem, connections
  <2> QED BY <1>2, <2>1, BroadcastIsMade
<1>3. ASSUME NEW r \in Requests, NEW ok \in BOOLEAN, ReplyFromApplication(a, r, ok)
      PROVE  Core' /\ SentIsFine' /\ ipc' = ipc /\ started' = started
  BY <1>3, ReplyKeepsInv
<1>4. CASE ApplicationIsReady(a) \/ ApplicationGone(a)
  <2>1. /\ Unchanging /\ Silent /\ ipc' \subseteq Apps /\ started' \subseteq Apps
    BY <1>4 DEF ApplicationIsReady, ApplicationGone, Unchanging, queues
  <2> QED BY <2>1, CoreStays, NothingSent
<1> QED BY <1>1, <1>2, <1>3, <1>4, NothingSent DEF Application

LEMMA InitKeepsInv ==
    ASSUME Init
    PROVE  Inv
<1>1. /\ req = [r \in Requests |-> NoObject("unused")] /\ requestQueue = <<>>
      /\ waiting = [stage \in Stages |-> {}] /\ timers = [stage \in Stages |-> <<>>]
      /\ triggers = 0 /\ ipc = {SystemUi} /\ started = {} /\ sent = None
  BY DEF Init
<1>2. /\ NoObject("unused") \in Request /\ Fine(NoObject("unused"))
      /\ NoObject("unused").state = "unused" /\ NoObject("unused").at = None
      /\ SystemUi \in Apps
  BY IntentConstantsAssumption DEF NoObject, Request, States, Fine, Constructed, Live, Chosen
<1>3. \A r \in Requests : req[r] = NoObject("unused")
  BY <1>1
<1>4. Range(<<>>) = {} /\ IsInjective(<<>>)
  BY DEF Range, IsInjective
<1>5. Types
  <2>1. <<>> \in Seq(Requests) /\ <<>> \in Seq(Timer)
    OBVIOUS
  <2> QED BY <1>1, <1>2, <2>1 DEF Types
<1>6. ObjectsAreFine
  <2>1. \A r \in Requests : Fine(req[r])
    BY <1>2, <1>3
  <2> QED BY <2>1 DEF ObjectsAreFine
<1>7. OwnAddresses
  BY <1>2, <1>3 DEF OwnAddresses
<1>8. TimersOfRequests
  BY <1>1, <1>4 DEF TimersOfRequests
<1>9. QueuesMatchStates
  <2>1. "unused" \notin QueuedStates /\ \A stage \in Stages : "unused" # WaitingStates[stage]
    BY StageFacts
  <2>2. \A r \in Requests :
           /\ r \notin Range(requestQueue) /\ req[r].state = "unused"
           /\ \A stage \in Stages : r \notin waiting[stage]
    BY <1>1, <1>2, <1>3, <1>4
  <2> QED BY <1>1, <1>4, <2>1, <2>2 DEF QueuesMatchStates
<1>10. NobodyIsForgotten
  BY <1>1, IntentConstantsAssumption DEF NobodyIsForgotten
<1>11. HandlersMayBeUsed
  BY <1>1 DEF HandlersMayBeUsed
<1> QED BY <1>1, <1>2, <1>5, <1>6, <1>7, <1>8, <1>9, <1>10, <1>11, TypesAreTypeOK DEF Core

LEMMA NextKeepsInv ==
    ASSUME Inv, SlotAnswers = {}, [Next]_vars
    PROVE  Inv'
<1>1. Core /\ ipc \subseteq Apps /\ started \subseteq Apps
      /\ sent \in Message \cup {None} /\ HandlersMayBeUsed
  BY TypesAreTypeOK
<1>2. SUFFICES Core' /\ SentIsFine' /\ ipc' \subseteq Apps /\ started' \subseteq Apps
  <2>1. (Inv <=> Core /\ ipc \subseteq Apps /\ started \subseteq Apps
                     /\ sent \in Message \cup {None} /\ HandlersMayBeUsed)'
    BY TypesAreTypeOK, PTL
  <2> QED BY <2>1 DEF SentIsFine
<1>3. CASE ProcessRequestQueue
  <2>1. ipc' = ipc /\ started' = started
    BY <1>3 DEF ProcessRequestQueue, connections
  <2> QED BY <1>1, <1>3, <2>1, RequestIsProcessed
<1>4. CASE \E r \in Requests : DeleteLater(r)
  <2>1. ipc' = ipc /\ started' = started /\ Silent
    BY <1>4 DEF DeleteLater, connections
  <2> QED BY <1>1, <1>4, <2>1, RequestIsDeleted, NothingSent
<1>5. CASE \E a \in Apps : ApplicationWasStarted(a)
  <2>1. ipc' = ipc /\ started' \subseteq started /\ Silent
    BY <1>5 DEF ApplicationWasStarted
  <2> QED BY <1>1, <1>5, <2>1, ApplicationStarts, NothingSent
<1>6. CASE \E stage \in Stages : Timeout(stage)
  BY <1>1, <1>6, TimerFires
<1>7. CASE \E r \in Requests : SystemUiAnswers(r)
  BY <1>1, <1>7, SystemUiAnswersKeepsInv
<1>8. CASE \E a \in Apps : Application(a)
  BY <1>1, <1>8, ApplicationKeepsInv
<1>9. CASE UNCHANGED vars
  <2>1. Unchanging /\ ipc' = ipc /\ started' = started /\ sent' = sent /\ req' = req
    BY <1>9 DEF vars, queues, connections, Unchanging
  <2>2. SentIsFine'
    BY <1>1, <2>1 DEF SentIsFine, HandlersMayBeUsed, Accessible
  <2> QED BY <1>1, <2>1, <2>2, CoreStays
<1> QED BY <1>3, <1>4, <1>5, <1>6, <1>7, <1>8, <1>9 DEF Next

-----------------------------------------------------------------------------
(* Theorems *)

(* The inductive invariant holds in every state the server can reach. *)
THEOREM Invariance ==
    ASSUME SlotAnswers = {}
    PROVE  Spec => []Inv
<1>1. Init => Inv
  BY InitKeepsInv
<1>2. Inv /\ [Next]_vars => Inv'
  BY NextKeepsInv
<1> QED BY <1>1, <1>2, PTL DEF Spec

(* Every variable has its type, and every request object is one that the constructor of
   IntentServerRequest may be asked for: its assertions never fail. *)
THEOREM TypeCorrect ==
    ASSUME SlotAnswers = {}
    PROVE  Spec => []TypeOK
<1>1. Inv => TypeOK
  BY DEF Inv
<1> QED BY <1>1, Invariance, PTL

(* A request is in exactly the queue that its state says, and only once. *)
THEOREM RequestsAreInTheirQueue ==
    ASSUME SlotAnswers = {}
    PROVE  Spec => []QueuesMatchStates
<1>1. Inv => QueuesMatchStates
  BY DEF Inv
<1> QED BY <1>1, Invariance, PTL

(* As long as a request is queued a pass of processRequestQueue is posted, and every
   request that waits in a stage with a timeout has a timer of its own there, although
   a timer may cancel the request of another. *)
THEOREM NoWakeUpIsLost ==
    ASSUME SlotAnswers = {}
    PROVE  Spec => []NobodyIsForgotten
<1>1. Inv => NobodyIsForgotten
  BY DEF Inv
<1> QED BY <1>1, Invariance, PTL

(* Requests are sent to applications that handle an intent the sender may use. *)
THEOREM AccessIsRespected ==
    ASSUME SlotAnswers = {}
    PROVE  Spec => []HandlersMayBeUsed
<1>1. Inv => HandlersMayBeUsed
  BY DEF Inv
<1> QED BY <1>1, Invariance, PTL

-----------------------------------------------------------------------------
(* One reply for a request *)

OneReply ==
    sent' # None /\ sent'.kind = "reply" =>
        LET object == req[sent'.req] IN
        /\ object.from = sent'.to
        /\ Live(object) /\ ~object.deleteLater /\ req'[sent'.req].deleteLater

LEMMA ForwardedOnce ==
    ASSUME Core, requestQueue # <<>>, NEW object \in Request,
           object.from = req[Head(requestQueue)].from,
           ForwardReply(Head(requestQueue), object, FirstTaken)
    PROVE  OneReply
<1> DEFINE r == Head(requestQueue)
<1>1. r \in Requests /\ Live(req[r]) /\ ~req[r].deleteLater /\ req \in [Requests -> Request]
  BY HeadFacts DEF Core, Types
<1>2. req'[r].deleteLater
  BY <1>1 DEF ForwardReply, Put, Dying, Request
<1>3. CASE Send("reply", r, object.ok, object.from)
  <2>1. sent'.req = r /\ sent'.to = object.from
    BY <1>3 DEF Send
  <2> QED BY <1>1, <1>2, <2>1 DEF OneReply
<1>4. CASE Silent
  BY <1>4 DEF Silent, OneReply
<1> QED BY <1>3, <1>4 DEF ForwardReply

LEMMA DeliveredOnce ==
    ASSUME Core, requestQueue # <<>>, NEW object \in Request,
           object.from = req[Head(requestQueue)].from,
           Deliver(Head(requestQueue), object, FirstTaken)
    PROVE  OneReply
<1> DEFINE r == Head(requestQueue)
<1>1. CASE SendToHandler(r, object, FirstTaken)
  <2>1. sent' = [kind |-> "request", ok |-> TRUE, req |-> r, to |-> Handler[object.selected]]
    BY <1>1 DEF SendToHandler, Send
  <2> QED BY <2>1 DEF OneReply
<1>2. CASE StartHandler(r, object, FirstTaken)
  BY <1>2 DEF StartHandler, Silent, OneReply
<1>3. CASE ForwardReply(r, Replied(object, FALSE), FirstTaken)
  <2> DEFINE replied == Replied(object, FALSE)
  <2>1. replied \in Request /\ replied.from = req[r].from
    BY DEF Replied, Request, States, QueuedStates
  <2> HIDE DEF replied
  <2>2. ForwardReply(r, replied, FirstTaken)
    BY <1>3 DEF replied
  <2> QED BY <2>1, <2>2, ForwardedOnce
<1> QED BY <1>1, <1>2, <1>3 DEF Deliver

LEMMA SilentSteps ==
    ASSUME Next, ~ProcessRequestQueue
    PROVE  sent' = None
<1>1. \A r \in Requests : DeleteLater(r) => sent' = None
  BY DEF DeleteLater, Silent
<1>2. \A a \in Apps : ApplicationWasStarted(a) => sent' = None
  BY DEF ApplicationWasStarted, Silent
<1>3. \A stage \in Stages : Timeout(stage) => sent' = None
  BY DEF Timeout, Resume, Silent
<1>4. \A r \in Requests : SystemUiAnswers(r) => sent' = None
  BY DEF SystemUiAnswers, AcknowledgeDisambiguationRequest, RejectDisambiguationRequest,
         Resume, Silent
<1>5. ASSUME NEW a \in Apps, Application(a) PROVE sent' = None
  BY <1>5 DEF Application, RequestToSystem, BroadcastToSystem, ReplyFromApplication, Resume,
              ApplicationIsReady, ApplicationGone, Silent
<1> QED BY <1>1, <1>2, <1>3, <1>4, <1>5 DEF Next

LEMMA RepliesOnce ==
    ASSUME Inv, SlotAnswers = {}, [Next]_vars
    PROVE  [OneReply]_vars
<1> SUFFICES ASSUME Next PROVE OneReply
  OBVIOUS
<1>1. Core
  BY TypesAreTypeOK
<1>2. CASE ProcessRequestQueue /\ requestQueue = <<>>
  BY <1>2 DEF ProcessRequestQueue, Silent, OneReply
<1>3. CASE ProcessRequestQueue /\ requestQueue # <<>>
  <2> DEFINE r == Head(requestQueue)
  <2>1. ProcessRequest(r, FirstTaken)
    BY <1>3 DEF ProcessRequestQueue
  <2>2. /\ r \in Requests /\ Live(req[r]) /\ ~req[r].deleteLater /\ req[r].state \in QueuedStates
        /\ req[r] \in Request
    BY <1>1, <1>3, HeadFacts DEF Core, Types
  <2>3. CASE Ambiguous(r) /\ Disambiguate(r, FirstTaken)
    BY <2>3 DEF Disambiguate, Silent, OneReply
  <2>4. CASE /\ req[r].state \in QueuedStates \ {"ReceivedReplyFromApplication"}
             /\ \E object \in Resolved(r) : Deliver(r, object, FirstTaken)
    <3>1. PICK object \in Resolved(r) : Deliver(r, object, FirstTaken)
      BY <2>4
    <3>2. object \in Request /\ object.from = req[r].from
      BY <1>1, <2>2, <2>4, ResolvedFacts
    <3> QED BY <1>1, <1>3, <3>1, <3>2, DeliveredOnce
  <2>5. CASE ForwardReply(r, req[r], FirstTaken)
    BY <1>1, <1>3, <2>2, <2>5, ForwardedOnce
  <2>6. req[r].state \notin Range(WaitingStates)
    BY <2>2, StageFacts
  <2> QED BY <2>1, <2>3, <2>4, <2>5, <2>6 DEF ProcessRequest
<1>4. CASE ~ProcessRequestQueue
  BY <1>4, SilentSteps DEF OneReply
<1> QED BY <1>2, <1>3, <1>4

(* A reply is sent to the application that made the request, by a step that leaves the
   request for deletion, and so never again. *)
THEOREM RequestsAreRepliedOnce ==
    ASSUME SlotAnswers = {}
    PROVE  Spec => RepliedOnce
<1>1. Inv /\ [Next]_vars => [OneReply]_vars
  BY RepliesOnce
<1>2. Spec => [][OneReply]_vars
  BY <1>1, Invariance, PTL DEF Spec
<1> QED BY <1>2 DEF RepliedOnce, OneReply
=============================================================================
