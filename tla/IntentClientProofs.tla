------------------------- MODULE IntentClientProofs -------------------------
(***************************************************************************)
(* Proofs about IntentClient, for every set of requests and applications,  *)
(* for a System UI that does not answer within the slot of its signal.     *)
(*                                                                         *)
(* A request has two sides that only meet in the server.  The side that    *)
(* asks (AskFits): the request travels once, its id is known before the    *)
(* reply arrives because the connection keeps the order, and there is one  *)
(* reply.  The side that answers (JobFits): as long as the server waits    *)
(* for the handler, only that one application can have the request or have *)
(* answered it, and the first of its answers on the wire is the first it   *)
(* gave.                                                                   *)
(***************************************************************************)
EXTENDS IntentClient, IntentServerProofs

(* What is on the wires, said of one application and one request at a time *)

InApp(a, r, kind, i) ==
    i \in DOMAIN toApp[a] /\ toApp[a][i].kind = kind /\ toApp[a][i].req = r

InSystem(a, r, kind, i) ==
    i \in DOMAIN toSystem[a] /\ toSystem[a][i].kind = kind /\ toSystem[a][i].req = r

ToldApp(a, r, kind) == \E i \in DOMAIN toApp[a] : InApp(a, r, kind, i)
ToldSystem(a, r, kind) == \E i \in DOMAIN toSystem[a] : InSystem(a, r, kind, i)

(* at most one such message *)
AppOnce(a, r, kind) ==
    \A i, j \in DOMAIN toApp[a] : InApp(a, r, kind, i) /\ InApp(a, r, kind, j) => i = j
SystemOnce(a, r, kind) ==
    \A i, j \in DOMAIN toSystem[a] : InSystem(a, r, kind, i) /\ InSystem(a, r, kind, j) => i = j

(* the application learns the id of its request before it gets the reply *)
IdComesFirst(a, r) ==
    \A i, j \in DOMAIN toApp[a] : InApp(a, r, "accepted", i) /\ InApp(a, r, "reply", j) => i < j

(* a reply that says success, a refusal *)
Success(a, r) == \E i \in DOMAIN toApp[a] : InApp(a, r, "reply", i) /\ toApp[a][i].ok
Refusal(a, r) == \E i \in DOMAIN toApp[a] : InApp(a, r, "accepted", i) /\ ~toApp[a][i].ok

(* the first of an application's answers that are on the way is a positive one *)
FirstIsYes(a, r) ==
    \E i \in DOMAIN toSystem[a] :
       /\ InSystem(a, r, "reply", i) /\ toSystem[a][i].ok
       /\ \A j \in DOMAIN toSystem[a] : InSystem(a, r, "reply", j) => i <= j

-----------------------------------------------------------------------------
(* The invariant *)

(* the reply has been sent, or could have been *)
Past(object) == object.deleteLater \/ object.state = "deleted"

(* no application has got the request *)
Unsent == {"unused", "ReceivedRequest", "WaitingForDisambiguation", "Disambiguated",
           "WaitingForApplicationStart", "StartedApplication"}

Waits(r) == req[r].state = "WaitingForReplyFromApplication"
HandlerOf(r) == Handler[req[r].selected]

AskIsOwned(r) ==
    /\ ask[r].by = None => ask[r] = NoAsk
    /\ ask[r].alive => ask[r].by \in up
    /\ Live(req[r]) =>
          IF req[r].broadcast THEN ask[r] = NoAsk ELSE ask[r].by = req[r].from

RequestTravels(r) ==
    \A a \in Apps : ToldSystem(a, r, "request") =>
        ask[r].by = a /\ Unused(r) /\ SystemOnce(a, r, "request")

AnswersTravel(r) ==
    \A a \in Apps :
       /\ Unused(r) => ~ToldApp(a, r, "accepted")
       /\ ToldApp(a, r, "accepted") => ask[r].by = a
       /\ Refusal(a, r) => req[r].state = "refused"
       /\ ToldApp(a, r, "reply") =>
             ask[r].by = a /\ Past(req[r]) /\ AppOnce(a, r, "reply")
       /\ Success(a, r) => answered[r] = "ok"
       /\ IdComesFirst(a, r)

SuccessIsDue(r) ==
    ask[r].ok => /\ ask[r].finished /\ Past(req[r]) /\ answered[r] = "ok"
                 /\ \A a \in Apps : ~ToldApp(a, r, "reply")

Handled(r) ==
    \/ Live(req[r]) /\ ~req[r].deleteLater
    \/ req[r].state = "refused"
    \/ ToldApp(ask[r].by, r, "reply")

WillHear(r) ==
    ask[r].alive /\ ~ask[r].finished =>
        \/ ToldSystem(ask[r].by, r, "request")
        \/ (ask[r].waiting \/ ToldApp(ask[r].by, r, "accepted")) /\ Handled(r)

AskFits(r) ==
    /\ AskIsOwned(r)
    /\ RequestTravels(r)
    /\ AnswersTravel(r)
    /\ SuccessIsDue(r)
    /\ WillHear(r)

(* before the request has been sent out nobody knows of it *)
Unheard(r) ==
    /\ answered[r] = "no" /\ ~job[r].alive
    /\ \A a \in Apps : ~ToldApp(a, r, "request") /\ ~ToldSystem(a, r, "reply")

(* while the server waits: the request is on its way to the handler, or the handler has
   it, or it has answered (or it has died) *)
HandlerDecides(r) ==
    /\ job[r].alive =>
          /\ job[r].by = HandlerOf(r)
          /\ answered[r] # "no" => ToldSystem(HandlerOf(r), r, "reply")
    /\ \A a \in Apps :
          /\ ToldApp(a, r, "request") =>
                /\ a = HandlerOf(r) /\ AppOnce(a, r, "request")
                /\ ~job[r].alive /\ answered[r] = "no"
          /\ ToldSystem(a, r, "reply") => a = HandlerOf(r) /\ answered[r] # "no"
          /\ FirstIsYes(a, r) => answered[r] = "ok"

JobFits(r) ==
    /\ job[r].alive => job[r].by \in up
    /\ req[r].ok => answered[r] = "ok"
    /\ req[r].state \in Unsent => Unheard(r)
    /\ Waits(r) => HandlerDecides(r)

(* a process that is not alive gets nothing, and one that is alive is connected *)
WiresFit ==
    /\ up \subseteq ipc
    /\ \A a \in Apps \ up : toApp[a] = <<>>

ClientInv ==
    /\ Inv
    /\ ClientTypeOK
    /\ WiresFit
    /\ \A r \in Requests : AskFits(r)
    /\ \A r \in Requests : JobFits(r)

-----------------------------------------------------------------------------
(* One wire *)

LEMMA FirstOfWire ==
    ASSUME NEW S, NEW w \in Seq(S), w # <<>>
    PROVE  /\ 1 \in DOMAIN w /\ w[1] = Head(w) /\ Head(w) \in S
           /\ DOMAIN w \subseteq Nat /\ \A i \in DOMAIN w : i >= 1
           /\ Tail(w) \in Seq(S) /\ \A i \in DOMAIN Tail(w) : i \in Nat /\ i >= 1
           /\ \A i \in DOMAIN Tail(w) : i + 1 \in DOMAIN w /\ Tail(w)[i] = w[i + 1]
           /\ \A i \in DOMAIN w : i = 1 \/ (i - 1 \in DOMAIN Tail(w) /\ Tail(w)[i - 1] = w[i])
           /\ DOMAIN Tail(w) \subseteq Nat
<1>1. /\ Head(w) \in S /\ Tail(w) \in Seq(S) /\ Len(w) \in Nat /\ Len(w) > 0
      /\ DOMAIN w = 1 .. Len(w)
  BY EmptySeq, HeadTailProperties, LenProperties
<1>2. Len(Tail(w)) = Len(w) - 1 /\ \A i \in 1 .. Len(Tail(w)) : Tail(w)[i] = w[i + 1]
  BY HeadTailProperties
<1>3. DOMAIN Tail(w) = 1 .. Len(w) - 1
  BY <1>1, <1>2, LenProperties
<1>4. Head(w) = w[1]
  BY HeadTailProperties
<1> QED BY <1>1, <1>2, <1>3, <1>4

LEMMA LastOfWire ==
    ASSUME NEW S, NEW w \in Seq(S), NEW m \in S
    PROVE  /\ Append(w, m) \in Seq(S) /\ DOMAIN w \subseteq Nat
           /\ DOMAIN Append(w, m) = DOMAIN w \cup {Len(w) + 1} /\ Len(w) \in Nat
           /\ \A i \in DOMAIN w : i < Len(w) + 1 /\ Append(w, m)[i] = w[i]
           /\ Append(w, m)[Len(w) + 1] = m
<1>1. Len(w) \in Nat /\ DOMAIN w = 1 .. Len(w) BY LenProperties
<1>2. /\ Append(w, m) \in Seq(S) /\ Len(Append(w, m)) = Len(w) + 1
      /\ \A i \in 1 .. Len(w) : Append(w, m)[i] = w[i]
      /\ Append(w, m)[Len(w) + 1] = m
  BY AppendProperties
<1>3. DOMAIN Append(w, m) = 1 .. Len(w) + 1 BY <1>1, <1>2, LenProperties
<1> QED BY <1>1, <1>2, <1>3

(* an application takes the first message *)
LEMMA AppReceives ==
    ASSUME ClientTypeOK, NEW a \in Apps, toApp[a] # <<>>, Received(a)
    PROVE  /\ toApp' \in [Apps -> Seq(ToClient)] /\ Head(toApp[a]) \in ToClient
           /\ \A b \in Apps \ {a} : toApp'[b] = toApp[b]
           /\ \A b \in Apps : \A r, kind :
                 /\ ToldApp(b, r, kind)' => ToldApp(b, r, kind)
                 /\ ToldApp(b, r, kind) =>
                       \/ ToldApp(b, r, kind)'
                       \/ b = a /\ Head(toApp[a]).kind = kind /\ Head(toApp[a]).req = r
                 /\ AppOnce(b, r, kind) => AppOnce(b, r, kind)'
           /\ \A b \in Apps : \A r :
                 /\ IdComesFirst(b, r) => IdComesFirst(b, r)'
                 /\ Success(b, r)' => Success(b, r)
                 /\ Refusal(b, r)' => Refusal(b, r)
<1>1. toApp \in [Apps -> Seq(ToClient)] /\ toApp' = [toApp EXCEPT ![a] = Tail(toApp[a])]
  BY DEF ClientTypeOK, Received
<1>2. /\ 1 \in DOMAIN toApp[a] /\ toApp[a][1] = Head(toApp[a]) /\ Head(toApp[a]) \in ToClient
      /\ DOMAIN toApp[a] \subseteq Nat
      /\ Tail(toApp[a]) \in Seq(ToClient)
      /\ \A i \in DOMAIN Tail(toApp[a]) :
            i + 1 \in DOMAIN toApp[a] /\ Tail(toApp[a])[i] = toApp[a][i + 1]
      /\ \A i \in DOMAIN toApp[a] :
            i = 1 \/ (i - 1 \in DOMAIN Tail(toApp[a]) /\ Tail(toApp[a])[i - 1] = toApp[a][i])
      /\ DOMAIN Tail(toApp[a]) \subseteq Nat
  BY <1>1, FirstOfWire
<1>3. toApp'[a] = Tail(toApp[a]) /\ \A b \in Apps \ {a} : toApp'[b] = toApp[b]
  BY <1>1
<1>4. \A r, kind, i : InApp(a, r, kind, i)' => InApp(a, r, kind, i + 1) /\ i \in Nat
  BY <1>2, <1>3 DEF InApp
<1>5. \A r, kind, i : InApp(a, r, kind, i) /\ i # 1 => InApp(a, r, kind, i - 1)'
  BY <1>2, <1>3 DEF InApp
<1>6. ASSUME NEW b \in Apps \ {a}, NEW r, NEW kind
      PROVE  /\ ToldApp(b, r, kind)' <=> ToldApp(b, r, kind)
             /\ AppOnce(b, r, kind) => AppOnce(b, r, kind)'
             /\ IdComesFirst(b, r) => IdComesFirst(b, r)'
             /\ Success(b, r)' => Success(b, r)
             /\ Refusal(b, r)' => Refusal(b, r)
  BY <1>3 DEF ToldApp, AppOnce, IdComesFirst, Success, Refusal, InApp
<1>7. ASSUME NEW r, NEW kind, ToldApp(a, r, kind)' PROVE ToldApp(a, r, kind)
  BY <1>4, <1>7 DEF ToldApp, InApp
<1>8. ASSUME NEW r, NEW kind, ToldApp(a, r, kind)
      PROVE  ToldApp(a, r, kind)' \/ (Head(toApp[a]).kind = kind /\ Head(toApp[a]).req = r)
  <2>1. PICK i : InApp(a, r, kind, i) BY <1>8 DEF ToldApp
  <2>2. CASE i = 1 BY <1>2, <2>1, <2>2 DEF InApp
  <2>3. CASE i # 1
    <3>1. InApp(a, r, kind, i - 1)' BY <1>5, <2>1, <2>3
    <3> QED BY <3>1 DEF ToldApp, InApp
  <2> QED BY <2>2, <2>3
<1>9. ASSUME NEW r, NEW kind, AppOnce(a, r, kind) PROVE AppOnce(a, r, kind)'
  <2>1. ASSUME NEW i, NEW j, InApp(a, r, kind, i)', InApp(a, r, kind, j)' PROVE i = j
    <3>1. InApp(a, r, kind, i + 1) /\ InApp(a, r, kind, j + 1) /\ i \in Nat /\ j \in Nat
      BY <1>4, <2>1
    <3>2. i + 1 = j + 1 BY <1>9, <3>1 DEF AppOnce, InApp
    <3> QED BY <3>1, <3>2
  <2> QED BY <2>1 DEF AppOnce
<1>10. ASSUME NEW r, IdComesFirst(a, r) PROVE IdComesFirst(a, r)'
  <2>1. ASSUME NEW i, NEW j, InApp(a, r, "accepted", i)', InApp(a, r, "reply", j)' PROVE i < j
    <3>1. InApp(a, r, "accepted", i + 1) /\ InApp(a, r, "reply", j + 1) /\ i \in Nat /\ j \in Nat
      BY <1>4, <2>1
    <3>2. i + 1 < j + 1 BY <1>10, <3>1 DEF IdComesFirst, InApp
    <3> QED BY <3>1, <3>2
  <2> QED BY <2>1 DEF IdComesFirst
<1>11. ASSUME NEW r PROVE (Success(a, r)' => Success(a, r)) /\ (Refusal(a, r)' => Refusal(a, r))
  BY <1>2, <1>3 DEF Success, Refusal, InApp
<1>12. ASSUME NEW b \in Apps, NEW r, NEW kind
       PROVE  /\ ToldApp(b, r, kind)' => ToldApp(b, r, kind)
              /\ ToldApp(b, r, kind) =>
                    \/ ToldApp(b, r, kind)'
                    \/ b = a /\ Head(toApp[a]).kind = kind /\ Head(toApp[a]).req = r
              /\ AppOnce(b, r, kind) => AppOnce(b, r, kind)'
  <2>1. CASE b = a BY <1>7, <1>8, <1>9, <2>1
  <2>2. CASE b # a BY <1>6, <2>2
  <2> QED BY <2>1, <2>2
<1>13. ASSUME NEW b \in Apps, NEW r
       PROVE  /\ IdComesFirst(b, r) => IdComesFirst(b, r)'
              /\ Success(b, r)' => Success(b, r)
              /\ Refusal(b, r)' => Refusal(b, r)
  <2>1. CASE b = a BY <1>10, <1>11, <2>1
  <2>2. CASE b # a BY <1>6, <2>2
  <2> QED BY <2>1, <2>2
<1>14. toApp' \in [Apps -> Seq(ToClient)] BY <1>1, <1>2
<1> QED BY <1>2, <1>3, <1>12, <1>13, <1>14

(* what the first message implies *)
LEMMA FirstMessage ==
    ASSUME ClientTypeOK, NEW a \in Apps, NEW kind, Arrived(a, kind),
           NEW r, r = Head(toApp[a]).req
    PROVE  /\ Head(toApp[a]) \in ToClient /\ Head(toApp[a]).kind = kind /\ r \in Requests
           /\ ToldApp(a, r, kind)
           /\ kind = "reply" /\ Head(toApp[a]).ok => Success(a, r)
           /\ kind = "accepted" /\ ~Head(toApp[a]).ok => Refusal(a, r)
           /\ kind = "reply" /\ IdComesFirst(a, r) => ~ToldApp(a, r, "accepted")
           /\ Received(a) /\ AppOnce(a, r, kind) => ~ToldApp(a, r, kind)'
<1>1. toApp \in [Apps -> Seq(ToClient)] /\ toApp[a] # <<>> /\ Head(toApp[a]).kind = kind
  BY DEF ClientTypeOK, Arrived
<1>2. /\ 1 \in DOMAIN toApp[a] /\ toApp[a][1] = Head(toApp[a]) /\ Head(toApp[a]) \in ToClient
      /\ DOMAIN toApp[a] \subseteq Nat /\ \A i \in DOMAIN toApp[a] : i >= 1
      /\ \A i \in DOMAIN Tail(toApp[a]) :
            i + 1 \in DOMAIN toApp[a] /\ Tail(toApp[a])[i] = toApp[a][i + 1]
      /\ \A i \in DOMAIN Tail(toApp[a]) : i \in Nat /\ i >= 1
  BY <1>1, FirstOfWire
<1>3. InApp(a, r, kind, 1) BY <1>1, <1>2 DEF InApp
<1>4. /\ ToldApp(a, r, kind)
      /\ kind = "reply" /\ Head(toApp[a]).ok => Success(a, r)
      /\ kind = "accepted" /\ ~Head(toApp[a]).ok => Refusal(a, r)
  BY <1>2, <1>3 DEF ToldApp, Success, Refusal
<1>5. ASSUME kind = "reply", IdComesFirst(a, r), ToldApp(a, r, "accepted") PROVE FALSE
  <2>1. PICK i \in DOMAIN toApp[a] : InApp(a, r, "accepted", i) BY <1>5 DEF ToldApp
  <2>2. i < 1 BY <1>2, <1>3, <1>5, <2>1 DEF IdComesFirst
  <2> QED BY <1>2, <2>2
<1>6. ASSUME Received(a), AppOnce(a, r, kind), ToldApp(a, r, kind)' PROVE FALSE
  <2>1. toApp'[a] = Tail(toApp[a]) BY <1>1, <1>6 DEF Received
  <2>2. PICK i \in DOMAIN Tail(toApp[a]) : InApp(a, r, kind, i + 1)
    BY <1>2, <1>6, <2>1 DEF ToldApp, InApp
  <2>3. i + 1 = 1 BY <1>2, <1>3, <1>6, <2>2 DEF AppOnce, InApp
  <2> QED BY <1>2, <2>2, <2>3
<1>7. r \in Requests BY <1>2 DEF ToClient
<1> QED BY <1>1, <1>2, <1>4, <1>5, <1>6, <1>7

(* an application is sent a message *)
LEMMA AppIsSent ==
    ASSUME ClientTypeOK, NEW a \in Apps, NEW m \in ToClient, toApp' = Emit(toApp, a, m)
    PROVE  /\ toApp' \in [Apps -> Seq(ToClient)]
           /\ \A b \in Apps : b # a \/ a \notin up => toApp'[b] = toApp[b]
           /\ \A b \in Apps : \A r, kind :
                 /\ ToldApp(b, r, kind) => ToldApp(b, r, kind)'
                 /\ ToldApp(b, r, kind)' =>
                       ToldApp(b, r, kind) \/ (b = a /\ m.kind = kind /\ m.req = r)
                 /\ AppOnce(b, r, kind) =>
                       \/ AppOnce(b, r, kind)'
                       \/ b = a /\ m.kind = kind /\ m.req = r /\ ToldApp(b, r, kind)
           /\ \A b \in Apps : \A r :
                 /\ IdComesFirst(b, r) =>
                       \/ IdComesFirst(b, r)'
                       \/ b = a /\ m.kind = "accepted" /\ m.req = r /\ ToldApp(b, r, "reply")
                 /\ Success(b, r)' =>
                       Success(b, r) \/ (b = a /\ m.kind = "reply" /\ m.req = r /\ m.ok)
                 /\ Refusal(b, r)' =>
                       Refusal(b, r) \/ (b = a /\ m.kind = "accepted" /\ m.req = r /\ ~m.ok)
           /\ a \in up => ToldApp(a, m.req, m.kind)'
<1>1. toApp \in [Apps -> Seq(ToClient)] BY DEF ClientTypeOK
<1>2. CASE a \notin up
  <2>1. toApp' = toApp BY <1>2 DEF Emit
  <2> QED
    BY <1>1, <1>2, <2>1 DEF ToldApp, AppOnce, IdComesFirst, Success, Refusal, InApp
<1>3. CASE a \in up
  <2>1. toApp' = [toApp EXCEPT ![a] = Append(toApp[a], m)] BY <1>3 DEF Emit
  <2> DEFINE w == toApp[a]
             last == Len(w) + 1
  <2>2. /\ Append(w, m) \in Seq(ToClient) /\ DOMAIN w \subseteq Nat
        /\ DOMAIN Append(w, m) = DOMAIN w \cup {last}
        /\ \A i \in DOMAIN w : i < last /\ Append(w, m)[i] = w[i]
        /\ Append(w, m)[last] = m /\ last \in Nat
    BY <1>1, LastOfWire
  <2>3. toApp'[a] = Append(w, m) /\ \A b \in Apps \ {a} : toApp'[b] = toApp[b]
    BY <1>1, <2>1
  <2>4. \A r, kind, i : InApp(a, r, kind, i)' <=>
           InApp(a, r, kind, i) \/ (i = last /\ m.kind = kind /\ m.req = r)
    BY <2>2, <2>3 DEF InApp
  <2>5. \A r, kind, i : InApp(a, r, kind, i) => i \in Nat /\ i < last BY <2>2 DEF InApp
  <2> HIDE DEF w, last
  <2>6. ASSUME NEW b \in Apps \ {a}, NEW r, NEW kind
        PROVE  /\ ToldApp(b, r, kind)' <=> ToldApp(b, r, kind)
               /\ AppOnce(b, r, kind) => AppOnce(b, r, kind)'
               /\ IdComesFirst(b, r) => IdComesFirst(b, r)'
               /\ Success(b, r)' => Success(b, r)
               /\ Refusal(b, r)' => Refusal(b, r)
    BY <2>3 DEF ToldApp, AppOnce, IdComesFirst, Success, Refusal, InApp
  <2>7. ASSUME NEW r, NEW kind
        PROVE  ToldApp(a, r, kind)' <=>
                  ToldApp(a, r, kind) \/ (m.kind = kind /\ m.req = r)
    <3>1. ToldApp(a, r, kind) <=> \E i : InApp(a, r, kind, i) BY DEF ToldApp, InApp
    <3>2. ToldApp(a, r, kind)' <=> \E i : InApp(a, r, kind, i)' BY DEF ToldApp, InApp
    <3> QED BY <2>4, <3>1, <3>2
  <2>8. ASSUME NEW r, NEW kind, AppOnce(a, r, kind),
               ~(m.kind = kind /\ m.req = r /\ ToldApp(a, r, kind))
        PROVE  AppOnce(a, r, kind)'
    <3>1. \A i, j : InApp(a, r, kind, i) /\ InApp(a, r, kind, j) => i = j
      BY <2>8 DEF AppOnce, InApp
    <3>2. \A i : InApp(a, r, kind, i) => ToldApp(a, r, kind) BY DEF ToldApp, InApp
    <3>3. \A i, j : InApp(a, r, kind, i)' /\ InApp(a, r, kind, j)' => i = j
      BY <2>4, <2>8, <3>1, <3>2
    <3> QED BY <3>3 DEF AppOnce
  <2>9. ASSUME NEW r, IdComesFirst(a, r),
               ~(m.kind = "accepted" /\ m.req = r /\ ToldApp(a, r, "reply"))
        PROVE  IdComesFirst(a, r)'
    <3>1. \A i, j : InApp(a, r, "accepted", i) /\ InApp(a, r, "reply", j) => i < j
      BY <2>9 DEF IdComesFirst, InApp
    <3>2. \A i : InApp(a, r, "reply", i) => ToldApp(a, r, "reply") BY DEF ToldApp, InApp
    <3>3. \A i, j : InApp(a, r, "accepted", i)' /\ InApp(a, r, "reply", j)' => i < j
      BY <2>4, <2>5, <2>9, <3>1, <3>2
    <3> QED BY <3>3 DEF IdComesFirst
  <2>10. ASSUME NEW r
         PROVE  /\ Success(a, r)' => Success(a, r) \/ (m.kind = "reply" /\ m.req = r /\ m.ok)
                /\ Refusal(a, r)' =>
                      Refusal(a, r) \/ (m.kind = "accepted" /\ m.req = r /\ ~m.ok)
    BY <2>2, <2>3 DEF Success, Refusal, InApp, w
  <2>11. ASSUME NEW b \in Apps, NEW r, NEW kind
         PROVE  /\ ToldApp(b, r, kind) => ToldApp(b, r, kind)'
                /\ ToldApp(b, r, kind)' =>
                      ToldApp(b, r, kind) \/ (b = a /\ m.kind = kind /\ m.req = r)
                /\ AppOnce(b, r, kind) =>
                      \/ AppOnce(b, r, kind)'
                      \/ b = a /\ m.kind = kind /\ m.req = r /\ ToldApp(b, r, kind)
    <3>1. CASE b = a BY <2>7, <2>8, <3>1
    <3>2. CASE b # a BY <2>6, <3>2
    <3> QED BY <3>1, <3>2
  <2>12. ASSUME NEW b \in Apps, NEW r
         PROVE  /\ IdComesFirst(b, r) =>
                      \/ IdComesFirst(b, r)'
                      \/ b = a /\ m.kind = "accepted" /\ m.req = r /\ ToldApp(b, r, "reply")
                /\ Success(b, r)' =>
                      Success(b, r) \/ (b = a /\ m.kind = "reply" /\ m.req = r /\ m.ok)
                /\ Refusal(b, r)' =>
                      Refusal(b, r) \/ (b = a /\ m.kind = "accepted" /\ m.req = r /\ ~m.ok)
    <3>1. CASE b = a BY <2>9, <2>10, <3>1
    <3>2. CASE b # a BY <2>6, <3>2
    <3> QED BY <3>1, <3>2
  <2>13. toApp' \in [Apps -> Seq(ToClient)] BY <1>1, <2>1, <2>2
  <2>14. ToldApp(a, m.req, m.kind)' BY <2>7
  <2> QED BY <1>3, <2>3, <2>11, <2>12, <2>13, <2>14
<1> QED BY <1>2, <1>3

(* the connections of the other applications, and all if nothing happens *)
LEMMA SameWire ==
    ASSUME NEW b, toApp'[b] = toApp[b]
    PROVE  \A r : /\ \A kind : /\ ToldApp(b, r, kind)' <=> ToldApp(b, r, kind)
                               /\ AppOnce(b, r, kind)' <=> AppOnce(b, r, kind)
                  /\ IdComesFirst(b, r)' <=> IdComesFirst(b, r)
                  /\ Success(b, r)' <=> Success(b, r)
                  /\ Refusal(b, r)' <=> Refusal(b, r)
BY DEF ToldApp, AppOnce, IdComesFirst, Success, Refusal, InApp

LEMMA EmptyWire ==
    ASSUME NEW b, toApp'[b] = <<>>
    PROVE  \A r : /\ \A kind : ~ToldApp(b, r, kind)' /\ AppOnce(b, r, kind)'
                  /\ IdComesFirst(b, r)' /\ ~Success(b, r)' /\ ~Refusal(b, r)'
<1>1. DOMAIN (toApp'[b]) = {} OBVIOUS
<1> QED BY <1>1 DEF ToldApp, AppOnce, IdComesFirst, Success, Refusal, InApp

LEMMA SameLine ==
    ASSUME NEW b, toSystem'[b] = toSystem[b]
    PROVE  \A r : /\ \A kind : /\ ToldSystem(b, r, kind)' <=> ToldSystem(b, r, kind)
                               /\ SystemOnce(b, r, kind)' <=> SystemOnce(b, r, kind)
                  /\ FirstIsYes(b, r)' <=> FirstIsYes(b, r)
BY DEF ToldSystem, SystemOnce, FirstIsYes, InSystem

LEMMA EmptyLine ==
    ASSUME NEW b, toSystem'[b] = <<>>
    PROVE  \A r : /\ \A kind : ~ToldSystem(b, r, kind)' /\ SystemOnce(b, r, kind)'
                  /\ ~FirstIsYes(b, r)'
<1>1. DOMAIN (toSystem'[b]) = {} OBVIOUS
<1> QED BY <1>1 DEF ToldSystem, SystemOnce, FirstIsYes, InSystem

(* the server takes the first message *)
LEMMA SystemReceives ==
    ASSUME ClientTypeOK, NEW a \in Apps, toSystem[a] # <<>>,
           toSystem' = [toSystem EXCEPT ![a] = Tail(@)]
    PROVE  /\ toSystem' \in [Apps -> Seq(ToServer)] /\ Head(toSystem[a]) \in ToServer
           /\ \A b \in Apps : \A r, kind :
                 /\ ToldSystem(b, r, kind)' => ToldSystem(b, r, kind)
                 /\ ToldSystem(b, r, kind) =>
                       \/ ToldSystem(b, r, kind)'
                       \/ b = a /\ Head(toSystem[a]).kind = kind /\ Head(toSystem[a]).req = r
                 /\ SystemOnce(b, r, kind) =>
                       /\ SystemOnce(b, r, kind)'
                       /\ b = a /\ Head(toSystem[a]).kind = kind /\ Head(toSystem[a]).req = r
                             => ToldSystem(b, r, kind) /\ ~ToldSystem(b, r, kind)'
           /\ \A b \in Apps : \A r :
                 FirstIsYes(b, r)' =>
                    \/ FirstIsYes(b, r)
                    \/ b = a /\ Head(toSystem[a]).kind = "reply" /\ Head(toSystem[a]).req = r
           /\ \A r, kind : Head(toSystem[a]).kind = kind /\ Head(toSystem[a]).req = r =>
                 /\ ToldSystem(a, r, kind)
                 /\ kind = "reply" /\ Head(toSystem[a]).ok => FirstIsYes(a, r)
<1> DEFINE w == toSystem[a]
<1>1. toSystem \in [Apps -> Seq(ToServer)] /\ toSystem' = [toSystem EXCEPT ![a] = Tail(w)]
  BY DEF ClientTypeOK
<1>2. /\ 1 \in DOMAIN w /\ w[1] = Head(w) /\ Head(w) \in ToServer
      /\ DOMAIN w \subseteq Nat /\ \A i \in DOMAIN w : i >= 1
      /\ Tail(w) \in Seq(ToServer)
      /\ \A i \in DOMAIN Tail(w) : i \in Nat /\ i >= 1
      /\ \A i \in DOMAIN Tail(w) : i + 1 \in DOMAIN w /\ Tail(w)[i] = w[i + 1]
      /\ \A i \in DOMAIN w : i = 1 \/ (i - 1 \in DOMAIN Tail(w) /\ Tail(w)[i - 1] = w[i])
  BY <1>1, FirstOfWire
<1>3. toSystem'[a] = Tail(w) /\ \A b \in Apps \ {a} : toSystem'[b] = toSystem[b]
  BY <1>1
<1> HIDE DEF w
<1>4. \A r, kind, i : InSystem(a, r, kind, i)' => InSystem(a, r, kind, i + 1) /\ i \in Nat /\ i >= 1
  BY <1>2, <1>3 DEF InSystem, w
<1>5. \A r, kind, i : InSystem(a, r, kind, i) /\ i # 1 => InSystem(a, r, kind, i - 1)'
  BY <1>2, <1>3 DEF InSystem, w
<1>6. \A r, kind, i : InSystem(a, r, kind, i) => i \in Nat /\ i >= 1
  BY <1>2 DEF InSystem, w
<1>7. \A r, kind : InSystem(a, r, kind, 1) <=> Head(w).kind = kind /\ Head(w).req = r
  BY <1>2 DEF InSystem, w
<1>8. \A r, kind : /\ ToldSystem(a, r, kind) <=> \E i : InSystem(a, r, kind, i)
                   /\ ToldSystem(a, r, kind)' <=> \E i : InSystem(a, r, kind, i)'
  BY DEF ToldSystem, InSystem
<1>9. \A r, kind : /\ SystemOnce(a, r, kind) <=>
                         \A i, j : InSystem(a, r, kind, i) /\ InSystem(a, r, kind, j) => i = j
                   /\ SystemOnce(a, r, kind)' <=>
                         \A i, j : InSystem(a, r, kind, i)' /\ InSystem(a, r, kind, j)' => i = j
  BY DEF SystemOnce, InSystem
<1>10. ASSUME NEW r, NEW kind
       PROVE  /\ ToldSystem(a, r, kind)' => ToldSystem(a, r, kind)
              /\ ToldSystem(a, r, kind) =>
                    ToldSystem(a, r, kind)' \/ (Head(w).kind = kind /\ Head(w).req = r)
  BY <1>4, <1>5, <1>7, <1>8
<1>11. ASSUME NEW r, NEW kind, SystemOnce(a, r, kind)
       PROVE  /\ SystemOnce(a, r, kind)'
              /\ Head(w).kind = kind /\ Head(w).req = r =>
                    ToldSystem(a, r, kind) /\ ~ToldSystem(a, r, kind)'
  <2>1. ASSUME NEW i, NEW j, InSystem(a, r, kind, i)', InSystem(a, r, kind, j)' PROVE i = j
    <3>1. /\ InSystem(a, r, kind, i + 1) /\ InSystem(a, r, kind, j + 1)
          /\ i \in Nat /\ j \in Nat
      BY <1>4, <2>1
    <3>2. i + 1 = j + 1 BY <1>9, <1>11, <3>1
    <3> QED BY <3>1, <3>2
  <2>2. ASSUME InSystem(a, r, kind, 1), NEW i, InSystem(a, r, kind, i)' PROVE FALSE
    <3>1. InSystem(a, r, kind, i + 1) /\ i \in Nat /\ i >= 1 BY <1>4, <2>2
    <3>2. i + 1 = 1 BY <1>9, <1>11, <2>2, <3>1
    <3> QED BY <3>1, <3>2
  <2> QED BY <1>7, <1>8, <1>9, <2>1, <2>2
<1>12. ASSUME NEW r, FirstIsYes(a, r)', ~(Head(w).kind = "reply" /\ Head(w).req = r)
       PROVE  FirstIsYes(a, r)
  <2>1. PICK i : /\ InSystem(a, r, "reply", i)' /\ Tail(w)[i].ok /\ i \in DOMAIN Tail(w)
                 /\ \A j : InSystem(a, r, "reply", j)' => i <= j
    BY <1>3, <1>12 DEF FirstIsYes, InSystem
  <2>2. InSystem(a, r, "reply", i + 1) /\ w[i + 1].ok /\ i \in Nat BY <1>2, <1>4, <2>1
  <2>3. ASSUME NEW j, InSystem(a, r, "reply", j) PROVE i + 1 <= j
    <3>1. j # 1 BY <1>7, <1>12, <2>3
    <3>2. InSystem(a, r, "reply", j - 1)' BY <1>5, <2>3, <3>1
    <3>3. i <= j - 1 /\ j \in Nat BY <1>6, <2>1, <2>3, <3>2
    <3> QED BY <2>2, <3>3
  <2> QED BY <2>2, <2>3 DEF FirstIsYes, InSystem, w
<1>13. ASSUME NEW r, NEW kind, Head(w).kind = kind, Head(w).req = r
       PROVE  /\ ToldSystem(a, r, kind)
              /\ kind = "reply" /\ Head(w).ok => FirstIsYes(a, r)
  BY <1>2, <1>6, <1>7, <1>8, <1>13 DEF FirstIsYes, InSystem, w
<1>14. ASSUME NEW b \in Apps, NEW r, NEW kind
       PROVE  /\ ToldSystem(b, r, kind)' => ToldSystem(b, r, kind)
              /\ ToldSystem(b, r, kind) =>
                    \/ ToldSystem(b, r, kind)'
                    \/ b = a /\ Head(w).kind = kind /\ Head(w).req = r
              /\ SystemOnce(b, r, kind) =>
                    /\ SystemOnce(b, r, kind)'
                    /\ b = a /\ Head(w).kind = kind /\ Head(w).req = r =>
                          ToldSystem(b, r, kind) /\ ~ToldSystem(b, r, kind)'
  <2>1. CASE b = a BY <1>10, <1>11, <2>1
  <2>2. CASE b # a BY <1>3, <2>2, SameLine
  <2> QED BY <2>1, <2>2
<1>15. ASSUME NEW b \in Apps, NEW r, FirstIsYes(b, r)'
       PROVE  FirstIsYes(b, r) \/ (b = a /\ Head(w).kind = "reply" /\ Head(w).req = r)
  <2>1. CASE b = a BY <1>12, <1>15, <2>1
  <2>2. CASE b # a BY <1>3, <1>15, <2>2, SameLine
  <2> QED BY <2>1, <2>2
<1>16. toSystem' \in [Apps -> Seq(ToServer)] BY <1>1, <1>2
<1> QED BY <1>2, <1>13, <1>14, <1>15, <1>16 DEF w

(* an application sends a message *)
LEMMA SystemIsSent ==
    ASSUME ClientTypeOK, NEW a \in Apps, NEW m \in ToServer, Transmit(a, m)
    PROVE  /\ toSystem' \in [Apps -> Seq(ToServer)]
           /\ \A b \in Apps : \A r, kind :
                 /\ ToldSystem(b, r, kind)' <=>
                       ToldSystem(b, r, kind) \/ (b = a /\ m.kind = kind /\ m.req = r)
                 /\ SystemOnce(b, r, kind) =>
                       \/ SystemOnce(b, r, kind)'
                       \/ b = a /\ m.kind = kind /\ m.req = r /\ ToldSystem(b, r, kind)
           /\ \A b \in Apps : \A r :
                 FirstIsYes(b, r)' =>
                    \/ FirstIsYes(b, r)
                    \/ b = a /\ m.kind = "reply" /\ m.req = r /\ m.ok /\ ~ToldSystem(b, r, "reply")
<1> DEFINE w == toSystem[a]
           last == Len(w) + 1
<1>1. toSystem \in [Apps -> Seq(ToServer)] /\ toSystem' = [toSystem EXCEPT ![a] = Append(w, m)]
  BY DEF ClientTypeOK, Transmit
<1>2. /\ Append(w, m) \in Seq(ToServer) /\ DOMAIN w \subseteq Nat
      /\ DOMAIN Append(w, m) = DOMAIN w \cup {last}
      /\ \A i \in DOMAIN w : i < last /\ Append(w, m)[i] = w[i]
      /\ Append(w, m)[last] = m /\ last \in Nat
  BY <1>1, LastOfWire
<1>3. toSystem'[a] = Append(w, m) /\ \A b \in Apps \ {a} : toSystem'[b] = toSystem[b]
  BY <1>1
<1>4. \A r, kind, i : InSystem(a, r, kind, i)' <=>
         InSystem(a, r, kind, i) \/ (i = last /\ m.kind = kind /\ m.req = r)
  BY <1>2, <1>3 DEF InSystem
<1>5. \A r, kind, i : InSystem(a, r, kind, i) => i \in Nat /\ i < last BY <1>2 DEF InSystem
<1> HIDE DEF w, last
<1>6. \A r, kind : /\ ToldSystem(a, r, kind) <=> \E i : InSystem(a, r, kind, i)
                   /\ ToldSystem(a, r, kind)' <=> \E i : InSystem(a, r, kind, i)'
  BY DEF ToldSystem, InSystem
<1>7. \A r, kind : /\ SystemOnce(a, r, kind) <=>
                         \A i, j : InSystem(a, r, kind, i) /\ InSystem(a, r, kind, j) => i = j
                   /\ SystemOnce(a, r, kind)' <=>
                         \A i, j : InSystem(a, r, kind, i)' /\ InSystem(a, r, kind, j)' => i = j
  BY DEF SystemOnce, InSystem
<1>8. ASSUME NEW r, NEW kind
      PROVE  /\ ToldSystem(a, r, kind)' <=>
                   ToldSystem(a, r, kind) \/ (m.kind = kind /\ m.req = r)
             /\ SystemOnce(a, r, kind) =>
                   SystemOnce(a, r, kind)' \/ (m.kind = kind /\ m.req = r /\ ToldSystem(a, r, kind))
  BY <1>4, <1>6, <1>7
<1>9. ASSUME NEW r, FirstIsYes(a, r)'
      PROVE  \/ FirstIsYes(a, r)
             \/ m.kind = "reply" /\ m.req = r /\ m.ok /\ ~ToldSystem(a, r, "reply")
  <2>1. PICK i : /\ InSystem(a, r, "reply", i)' /\ Append(w, m)[i].ok
                 /\ \A j : InSystem(a, r, "reply", j)' => i <= j
    BY <1>3, <1>9 DEF FirstIsYes, InSystem
  <2>2. CASE InSystem(a, r, "reply", i)
    <3>1. w[i].ok BY <1>2, <2>1, <2>2 DEF InSystem, w
    <3>2. \A j : InSystem(a, r, "reply", j) => i <= j BY <1>4, <2>1
    <3> QED BY <2>2, <3>1, <3>2 DEF FirstIsYes, InSystem, w
  <2>3. CASE i = last /\ m.kind = "reply" /\ m.req = r
    <3>1. m.ok BY <1>2, <2>1, <2>3
    <3>2. \A j : ~InSystem(a, r, "reply", j) BY <1>2, <1>4, <1>5, <2>1, <2>3
    <3> QED BY <1>6, <2>3, <3>1, <3>2
  <2> QED BY <1>4, <2>1, <2>2, <2>3
<1>10. ASSUME NEW b \in Apps, NEW r, NEW kind
       PROVE  /\ ToldSystem(b, r, kind)' <=>
                    ToldSystem(b, r, kind) \/ (b = a /\ m.kind = kind /\ m.req = r)
              /\ SystemOnce(b, r, kind) =>
                    \/ SystemOnce(b, r, kind)'
                    \/ b = a /\ m.kind = kind /\ m.req = r /\ ToldSystem(b, r, kind)
  <2>1. CASE b = a BY <1>8, <2>1
  <2>2. CASE b # a BY <1>3, <2>2, SameLine
  <2> QED BY <2>1, <2>2
<1>11. ASSUME NEW b \in Apps, NEW r, FirstIsYes(b, r)'
       PROVE  \/ FirstIsYes(b, r)
              \/ b = a /\ m.kind = "reply" /\ m.req = r /\ m.ok /\ ~ToldSystem(b, r, "reply")
  <2>1. CASE b = a BY <1>9, <1>11, <2>1
  <2>2. CASE b # a BY <1>3, <1>11, <2>2, SameLine
  <2> QED BY <2>1, <2>2
<1>12. toSystem' \in [Apps -> Seq(ToServer)] BY <1>1, <1>2
<1> QED BY <1>10, <1>11, <1>12

-----------------------------------------------------------------------------
(* What a step of the server does to one request.  Everything the client needs to know
   of the server is in these six alternatives. *)

SentAbout(r) == sent' # None /\ sent'.req = r

SameRequest(r) ==
    /\ Live(req[r]) /\ Live(req[r])' /\ ~req[r].deleteLater
    /\ req'[r].from = req[r].from /\ req'[r].broadcast = req[r].broadcast

Keeps(r) == req'[r] = req[r] /\ ~SentAbout(r)

(* it goes on to another stage, or fails *)
GoesOn(r) ==
    /\ SameRequest(r) /\ ~req'[r].deleteLater /\ (req'[r].ok => req[r].ok)
    /\ ~Waits(r)' /\ (req'[r].state \in Unsent => req[r].state \in Unsent)
    /\ ~SentAbout(r)

(* the handler it is sent to is the one whose reply is waited for *)
IsGivenOut(r) ==
    /\ SameRequest(r) /\ (req'[r].ok => req[r].ok) /\ req[r].state \in Unsent
    /\ sent' = [kind |-> "request", ok |-> TRUE, req |-> r, to |-> HandlerOf(r)']
    /\ HandlerOf(r)' \in Apps
    /\ \/ Waits(r)' /\ ~req'[r].deleteLater
       \/ req'[r].state = "ReceivedReplyFromApplication" /\ req'[r].broadcast /\ req'[r].deleteLater

IsRepliedTo(r) ==
    /\ SameRequest(r) /\ (req'[r].ok => req[r].ok)
    /\ req'[r].state = "ReceivedReplyFromApplication" /\ req'[r].deleteLater
    /\ sent' = IF ~req[r].broadcast /\ req[r].from \in ipc
               THEN [kind |-> "reply", ok |-> req'[r].ok, req |-> r, to |-> req[r].from] ELSE None

Vanishes(r) ==
    Live(req[r]) /\ req[r].deleteLater /\ req'[r] = NoObject("deleted") /\ ~SentAbout(r)

Advances(r) ==
    Keeps(r) \/ GoesOn(r) \/ IsGivenOut(r) \/ IsRepliedTo(r) \/ Vanishes(r)

LEMMA OthersKeep ==
    ASSUME Core, NEW r \in Requests, NEW object, Put(r, object), sent' = None \/ sent'.req = r
    PROVE  req'[r] = object /\ \A s \in Requests \ {r} : Keeps(s)
BY DEF Core, Types, Put, Keeps, SentAbout

LEMMA ForwardAdvances ==
    ASSUME Inv, NEW r \in Requests, NEW pass, Live(req[r]), ~req[r].deleteLater,
           NEW object \in Request, object = req[r] \/ object = Replied(req[r], FALSE)
                                   \/ (\E i \in Intents : object = Replied(Select(req[r], i), FALSE)),
           ForwardReply(r, object, pass)
    PROVE  \A s \in Requests : Advances(s)
<1>1. Core /\ req[r] \in Request BY TypesAreTypeOK DEF Core, Types
<1>2. /\ Put(r, Dying(object))
      /\ sent' = IF ~object.broadcast /\ object.from \in ipc
                 THEN [kind |-> "reply", ok |-> object.ok, req |-> r, to |-> object.from] ELSE None
  BY DEF ForwardReply, Send, Silent
<1>3. /\ object.from = req[r].from /\ object.broadcast = req[r].broadcast
      /\ object.ok => req[r].ok
  BY <1>1 DEF Replied, Select, Request
<1>4. req'[r] = Dying(object) /\ \A s \in Requests \ {r} : Keeps(s)
  BY <1>1, <1>2, OthersKeep
<1>5. /\ req'[r].from = object.from /\ req'[r].broadcast = object.broadcast
      /\ req'[r].ok = object.ok /\ req'[r].deleteLater
      /\ req'[r].state = "ReceivedReplyFromApplication"
  BY <1>4 DEF Dying, Request
<1>6. IsRepliedTo(r) BY <1>2, <1>3, <1>5 DEF IsRepliedTo, SameRequest, Live
<1> QED BY <1>4, <1>6 DEF Advances

LEMMA DeliverAdvances ==
    ASSUME Inv, NEW r \in Requests, NEW pass, Live(req[r]), ~req[r].deleteLater,
           req[r].state \in QueuedStates \ {"ReceivedReplyFromApplication"},
           NEW object \in Resolved(r), Deliver(r, object, pass)
    PROVE  \A s \in Requests : Advances(s)
<1>1. Core /\ req[r] \in Request BY TypesAreTypeOK DEF Core, Types
<1>2. /\ object \in Request /\ Live(object) /\ ~object.deleteLater
      /\ object.state \in {"Disambiguated", "StartedApplication"}
  BY <1>1, ResolvedFacts
<1>3. object = req[r] \/ \E i \in Intents : object = Select(req[r], i)
  <2>1. None \notin Intents /\ req[r].potential \subseteq Intents
        /\ req[r].selected \in Intents \cup {None}
    BY <1>1, IntentConstantsAssumption DEF Request
  <2> QED BY <2>1 DEF Resolved
<1>4. /\ object.from = req[r].from /\ object.broadcast = req[r].broadcast /\ object.ok = req[r].ok
  BY <1>1, <1>3 DEF Select, Request
<1>5. req[r].state \in Unsent BY DEF QueuedStates, Unsent
<1>6. CASE SendToHandler(r, object, pass)
  <2>0. Handler[object.selected] \in Apps BY <1>6 DEF SendToHandler, Inv, TypeOK
  <2>1. sent' = [kind |-> "request", ok |-> TRUE, req |-> r, to |-> Handler[object.selected]]
    BY <1>6 DEF SendToHandler, Send
  <2>2. CASE object.broadcast /\ Put(r, Dying(object))
    <3>1. req'[r] = Dying(object) /\ \A s \in Requests \ {r} : Keeps(s)
      BY <1>1, <2>1, <2>2, OthersKeep
    <3>2. /\ req'[r].from = object.from /\ req'[r].broadcast = object.broadcast
          /\ req'[r].ok = object.ok /\ req'[r].deleteLater /\ req'[r].selected = object.selected
          /\ req'[r].state = "ReceivedReplyFromApplication"
      BY <1>2, <3>1 DEF Dying, Request
    <3>3. IsGivenOut(r)
      BY <1>4, <1>5, <2>0, <2>1, <2>2, <3>2 DEF IsGivenOut, SameRequest, Live, HandlerOf
    <3> QED BY <3>1, <3>3 DEF Advances
  <2>3. CASE Put(r, [object EXCEPT !.state = "WaitingForReplyFromApplication"])
    <3>1. /\ req'[r] = [object EXCEPT !.state = "WaitingForReplyFromApplication"]
          /\ \A s \in Requests \ {r} : Keeps(s)
      BY <1>1, <2>1, <2>3, OthersKeep
    <3>2. /\ req'[r].from = object.from /\ req'[r].broadcast = object.broadcast
          /\ req'[r].ok = object.ok /\ ~req'[r].deleteLater /\ req'[r].selected = object.selected
          /\ req'[r].state = "WaitingForReplyFromApplication"
      BY <1>2, <3>1 DEF Request
    <3>3. IsGivenOut(r)
      BY <1>4, <1>5, <2>0, <2>1, <3>2 DEF IsGivenOut, SameRequest, Live, HandlerOf, Waits
    <3> QED BY <3>1, <3>3 DEF Advances
  <2> QED BY <1>6, <2>2, <2>3 DEF SendToHandler
<1>7. CASE StartHandler(r, object, pass)
  <2>1. Put(r, [object EXCEPT !.state = "WaitingForApplicationStart"]) /\ sent' = None
    BY <1>7 DEF StartHandler, Silent
  <2>2. /\ req'[r] = [object EXCEPT !.state = "WaitingForApplicationStart"]
        /\ \A s \in Requests \ {r} : Keeps(s)
    BY <1>1, <2>1, OthersKeep
  <2>3. /\ req'[r].from = object.from /\ req'[r].broadcast = object.broadcast
        /\ req'[r].ok = object.ok /\ ~req'[r].deleteLater
        /\ req'[r].state = "WaitingForApplicationStart"
    BY <1>2, <2>2 DEF Request
  <2>4. GoesOn(r)
    BY <1>4, <1>5, <2>1, <2>3 DEF GoesOn, SameRequest, Live, Waits, SentAbout
  <2> QED BY <2>2, <2>4 DEF Advances
<1>8. CASE ForwardReply(r, Replied(object, FALSE), pass)
  <2>1. Replied(object, FALSE) \in Request
    BY <1>2 DEF Replied, Request, States, QueuedStates
  <2>2. \/ Replied(object, FALSE) = Replied(req[r], FALSE)
        \/ \E i \in Intents : Replied(object, FALSE) = Replied(Select(req[r], i), FALSE)
    BY <1>3
  <2> QED BY <1>8, <2>1, <2>2, ForwardAdvances
<1> QED BY <1>6, <1>7, <1>8 DEF Deliver

LEMMA PassAdvances ==
    ASSUME Inv, SlotAnswers = {}, ProcessRequestQueue
    PROVE  \A r \in Requests : Advances(r)
<1>1. Core BY TypesAreTypeOK
<1>2. CASE requestQueue = <<>>
  BY <1>2 DEF ProcessRequestQueue, Silent, Advances, Keeps, SentAbout
<1>3. CASE requestQueue # <<>>
  <2>1. PICK r : r = Head(requestQueue) OBVIOUS
  <2>2. /\ r \in Requests /\ Live(req[r]) /\ req[r].state \in QueuedStates /\ ~req[r].deleteLater
    BY <1>1, <1>3, <2>1, HeadFacts
  <2>3. req[r] \in Request BY <1>1, <2>2 DEF Core, Types
  <2>4. ProcessRequest(r, FirstTaken) BY <1>3, <2>1 DEF ProcessRequestQueue
  <2>5. CASE Ambiguous(r) /\ Disambiguate(r, FirstTaken)
    <3>1. Put(r, [req[r] EXCEPT !.state = "WaitingForDisambiguation"]) /\ sent' = None
      BY <2>5 DEF Disambiguate, Silent
    <3>2. /\ req'[r] = [req[r] EXCEPT !.state = "WaitingForDisambiguation"]
          /\ \A s \in Requests \ {r} : Keeps(s)
      BY <1>1, <2>2, <3>1, OthersKeep
    <3>3. /\ req'[r].from = req[r].from /\ req'[r].broadcast = req[r].broadcast
          /\ req'[r].ok = req[r].ok /\ ~req'[r].deleteLater
          /\ req'[r].state = "WaitingForDisambiguation"
      BY <2>2, <2>3, <3>2 DEF Request
    <3>4. req[r].state \in Unsent BY <2>5 DEF Ambiguous, Unsent
    <3>5. GoesOn(r) BY <2>2, <3>1, <3>3, <3>4 DEF GoesOn, SameRequest, Live, Waits, SentAbout
    <3> QED BY <3>2, <3>5 DEF Advances
  <2>6. CASE /\ req[r].state \in QueuedStates \ {"ReceivedReplyFromApplication"}
             /\ \E object \in Resolved(r) : Deliver(r, object, FirstTaken)
    BY <2>2, <2>6, DeliverAdvances
  <2>7. CASE ForwardReply(r, req[r], FirstTaken)
    BY <2>2, <2>3, <2>7, ForwardAdvances
  <2> QED BY <2>2, <2>4, <2>5, <2>6, <2>7, StageFacts DEF ProcessRequest
<1> QED BY <1>2, <1>3

(* a request comes back to the request queue *)
LEMMA ResumeAdvances ==
    ASSUME Inv, NEW stage \in Stages, NEW r \in Requests, NEW pass,
           NEW object, object = Replied(req[r], FALSE) \/
                       (stage = "disambiguation" /\ \E i \in Intents : object = Select(req[r], i)),
           Resume(stage, r, object, pass)
    PROVE  \A s \in Requests : Advances(s)
<1>1. Core /\ req[r] \in Request BY TypesAreTypeOK DEF Core, Types
<1>2. Put(r, object) /\ sent' = None /\ r \in waiting[stage] BY DEF Resume, Silent
<1>3. req[r].state = WaitingStates[stage] BY <1>1, <1>2 DEF Core, QueuesMatchStates
<1>4. /\ Live(req[r]) /\ ~req[r].deleteLater
  BY <1>1, <1>3, StageFacts DEF Live, Core, ObjectsAreFine, Fine, QueuedStates
<1>5. req'[r] = object /\ \A s \in Requests \ {r} : Keeps(s) BY <1>1, <1>2, OthersKeep
<1>6. /\ req'[r].from = req[r].from /\ req'[r].broadcast = req[r].broadcast
      /\ req'[r].ok => req[r].ok
      /\ ~req'[r].deleteLater
      /\ \/ req'[r].state = "ReceivedReplyFromApplication"
         \/ req'[r].state = "Disambiguated" /\ stage = "disambiguation"
  BY <1>1, <1>4, <1>5 DEF Replied, Select, Request
<1>7. stage = "disambiguation" => req[r].state \in Unsent
  BY <1>3 DEF WaitingStates, Unsent
<1>8. GoesOn(r)
  BY <1>2, <1>4, <1>6, <1>7 DEF GoesOn, SameRequest, Live, Waits, SentAbout, Unsent
<1> QED BY <1>5, <1>8 DEF Advances

LEMMA PostedAdvances ==
    ASSUME Inv, SlotAnswers = {},
           \/ ProcessRequestQueue
           \/ \E r \in Requests : DeleteLater(r) \/ SystemUiAnswers(r)
           \/ \E a \in Apps : ApplicationWasStarted(a)
           \/ \E stage \in Stages : Timeout(stage)
    PROVE  \A r \in Requests : Advances(r)
<1>1. Core BY TypesAreTypeOK
<1>2. CASE ProcessRequestQueue BY <1>2, PassAdvances
<1>3. ASSUME NEW r \in Requests, DeleteLater(r) PROVE \A s \in Requests : Advances(s)
  <2>1. req'[r] = NoObject("deleted") /\ sent' = None /\ \A s \in Requests \ {r} : Keeps(s)
    BY <1>1, <1>3, OthersKeep DEF DeleteLater, Silent
  <2>2. Live(req[r]) /\ req[r].deleteLater
    BY <1>1, <1>3 DEF DeleteLater, Core, ObjectsAreFine, Fine, Live
  <2> QED BY <2>1, <2>2 DEF Advances, Vanishes, SentAbout
<1>4. ASSUME NEW r \in Requests, SystemUiAnswers(r) PROVE \A s \in Requests : Advances(s)
  <2>1. PICK object : /\ Resume("disambiguation", r, object, Pass)
                      /\ object = Replied(req[r], FALSE)
                            \/ \E i \in Intents : object = Select(req[r], i)
    BY <1>4 DEF SystemUiAnswers, AcknowledgeDisambiguationRequest, RejectDisambiguationRequest
  <2> QED BY <2>1, ResumeAdvances DEF Stages
<1>5. ASSUME NEW a \in Apps, ApplicationWasStarted(a) PROVE \A s \in Requests : Advances(s)
  <2> TAKE s \in Requests
  <2>1. PICK woken : /\ woken \subseteq waiting["startApplication"] /\ sent' = None
                     /\ req' = [r \in Requests |-> IF r \in woken
                                  THEN [req[r] EXCEPT !.state = "StartedApplication"]
                                  ELSE req[r]]
    BY <1>5 DEF ApplicationWasStarted, Silent
  <2>2. CASE s \notin woken BY <2>1, <2>2 DEF Advances, Keeps, SentAbout
  <2>3. CASE s \in woken
    <3>1. req[s].state = "WaitingForApplicationStart" /\ req[s] \in Request /\ Fine(req[s])
      BY <1>1, <2>1, <2>3 DEF Core, Types, QueuesMatchStates, WaitingStates, Stages, ObjectsAreFine
    <3>2. req'[s] = [req[s] EXCEPT !.state = "StartedApplication"] BY <2>1, <2>3
    <3>3. /\ req'[s].from = req[s].from /\ req'[s].broadcast = req[s].broadcast
          /\ req'[s].ok = req[s].ok /\ req'[s].deleteLater = req[s].deleteLater
          /\ req'[s].state = "StartedApplication" /\ ~req[s].deleteLater
      BY <3>1, <3>2 DEF Request, Fine
    <3>4. GoesOn(s)
      BY <2>1, <3>1, <3>3 DEF GoesOn, SameRequest, Live, Waits, SentAbout, Unsent
    <3> QED BY <3>4 DEF Advances
  <2> QED BY <2>2, <2>3
<1>6. ASSUME NEW stage \in Stages, Timeout(stage) PROVE \A s \in Requests : Advances(s)
  <2>1. CASE req' = req /\ sent' = None
    BY <2>1 DEF Advances, Keeps, SentAbout
  <2>2. ASSUME NEW r \in waiting[stage], NEW pass,
               Resume(stage, r, Replied(req[r], FALSE), pass)
        PROVE  \A s \in Requests : Advances(s)
    <3>1. r \in Requests BY <1>1, <2>2 DEF Core, Types
    <3> QED BY <2>2, <3>1, ResumeAdvances
  <2> QED BY <1>6, <2>1, <2>2 DEF Timeout, Silent
<1> QED BY <1>2, <1>3, <1>4, <1>5, <1>6

-----------------------------------------------------------------------------
(* Steps that a request does not notice *)

SameForAsk(r) ==
    \A b \in Apps :
       /\ ToldSystem(b, r, "request")' <=> ToldSystem(b, r, "request")
       /\ SystemOnce(b, r, "request") => SystemOnce(b, r, "request")'
       /\ ToldApp(b, r, "accepted")' <=> ToldApp(b, r, "accepted")
       /\ ToldApp(b, r, "reply")' <=> ToldApp(b, r, "reply")
       /\ AppOnce(b, r, "reply") => AppOnce(b, r, "reply")'
       /\ IdComesFirst(b, r) => IdComesFirst(b, r)'
       /\ Success(b, r)' => Success(b, r)
       /\ Refusal(b, r)' => Refusal(b, r)

SameForJob(r) ==
    \A b \in Apps :
       /\ ToldApp(b, r, "request")' <=> ToldApp(b, r, "request")
       /\ AppOnce(b, r, "request") => AppOnce(b, r, "request")'
       /\ ToldSystem(b, r, "reply")' <=> ToldSystem(b, r, "reply")
       /\ FirstIsYes(b, r)' => FirstIsYes(b, r)

LEMMA NothingIsOnce ==
    ASSUME NEW b, NEW r
    PROVE  /\ \A kind : ~ToldSystem(b, r, kind) => SystemOnce(b, r, kind)
           /\ \A kind : ~ToldApp(b, r, kind) => AppOnce(b, r, kind)
           /\ Success(b, r) => ToldApp(b, r, "reply")
           /\ Refusal(b, r) => ToldApp(b, r, "accepted")
           /\ ~ToldApp(b, r, "reply") => IdComesFirst(b, r)
           /\ FirstIsYes(b, r) => ToldSystem(b, r, "reply")
BY DEF ToldSystem, ToldApp, SystemOnce, AppOnce, Success, Refusal, IdComesFirst, FirstIsYes

LEMMA AskStays ==
    ASSUME NEW r \in Requests, ClientTypeOK, AskFits(r), SameForAsk(r), ask'[r] = ask[r],
           req'[r] = req[r], up \subseteq up', answered[r] = "ok" => answered'[r] = "ok"
    PROVE  AskFits(r)'
<1>1. ask[r].by \in Apps \cup {None} BY DEF ClientTypeOK, Ask
<1>2. ask[r].by = None => ask[r] = NoAsk BY DEF AskFits, AskIsOwned
<1>3. AskIsOwned(r)' BY DEF AskFits, AskIsOwned, Live
<1>4. RequestTravels(r)' BY DEF AskFits, RequestTravels, SameForAsk, Unused
<1>5. AnswersTravel(r)' BY DEF AskFits, AnswersTravel, SameForAsk, Unused, Past
<1>6. SuccessIsDue(r)' BY DEF AskFits, SuccessIsDue, SameForAsk, Past
<1>7. WillHear(r)'
  <2> SUFFICES ASSUME ask[r].alive, ~ask[r].finished
               PROVE  WillHear(r)'
    BY DEF WillHear
  <2>1. ask[r].by \in Apps BY <1>1, <1>2 DEF NoAsk
  <2>2. PICK b \in Apps : b = ask[r].by BY <2>1
  <2>3. \/ ToldSystem(b, r, "request")
        \/ /\ ask[r].waiting \/ ToldApp(b, r, "accepted")
           /\ \/ Live(req[r]) /\ ~req[r].deleteLater
              \/ req[r].state = "refused"
              \/ ToldApp(b, r, "reply")
    BY <2>2 DEF AskFits, WillHear, Handled
  <2>4. \/ ToldSystem(b, r, "request")'
        \/ /\ ask'[r].waiting \/ ToldApp(b, r, "accepted")'
           /\ \/ Live(req'[r]) /\ ~req'[r].deleteLater
              \/ req'[r].state = "refused"
              \/ ToldApp(b, r, "reply")'
    BY <2>3 DEF SameForAsk
  <2>5. ask'[r].by = b BY <2>2
  <2> QED BY <2>4, <2>5 DEF WillHear, Handled, Live, ToldApp, ToldSystem, InApp, InSystem
<1> QED BY <1>3, <1>4, <1>5, <1>6, <1>7 DEF AskFits

LEMMA JobStays ==
    ASSUME NEW r \in Requests, JobFits(r), SameForJob(r), job'[r] = job[r],
           req'[r] = req[r], answered'[r] = answered[r], job[r].alive => job[r].by \in up',
           Waits(r) => HandlerOf(r) \in Apps
    PROVE  JobFits(r)'
<1>1. req'[r].state \in Unsent => Unheard(r)' BY DEF JobFits, Unheard, SameForJob
<1>2. Waits(r)' => HandlerDecides(r)'
  <2> SUFFICES ASSUME Waits(r) PROVE HandlerDecides(r)' BY DEF Waits
  <2>1. PICK h \in Apps : h = HandlerOf(r) OBVIOUS
  <2>2. HandlerOf(r)' = h BY <2>1 DEF HandlerOf
  <2>3. /\ job[r].alive => job[r].by = h /\ (answered[r] # "no" => ToldSystem(h, r, "reply"))
        /\ \A a \in Apps :
              /\ ToldApp(a, r, "request") => /\ a = h /\ AppOnce(a, r, "request")
                                             /\ ~job[r].alive /\ answered[r] = "no"
              /\ ToldSystem(a, r, "reply") => a = h /\ answered[r] # "no"
              /\ FirstIsYes(a, r) => answered[r] = "ok"
    BY <2>1 DEF JobFits, HandlerDecides
  <2>4. /\ job'[r].alive => job'[r].by = h /\ (answered'[r] # "no" => ToldSystem(h, r, "reply")')
        /\ \A a \in Apps :
              /\ ToldApp(a, r, "request")' => /\ a = h /\ AppOnce(a, r, "request")'
                                              /\ ~job'[r].alive /\ answered'[r] = "no"
              /\ ToldSystem(a, r, "reply")' => a = h /\ answered'[r] # "no"
              /\ FirstIsYes(a, r)' => answered'[r] = "ok"
    BY <2>3 DEF SameForJob
  <2> QED BY <2>2, <2>4 DEF HandlerDecides, ToldSystem, InSystem
<1> QED BY <1>1, <1>2 DEF JobFits

-----------------------------------------------------------------------------
(* The requesting application *)

LEMMA HandlerIsApp ==
    ASSUME Inv, NEW r \in Requests, Waits(r)
    PROVE  HandlerOf(r) \in Apps
<1>1. req[r] \in Request /\ Fine(req[r]) BY TypesAreTypeOK DEF Core, Types, ObjectsAreFine
<1>2. req[r].selected \in Intents BY <1>1 DEF Request, Fine, Waits, Chosen
<1> QED BY <1>2, IntentConstantsAssumption DEF HandlerOf, Injection

LEMMA RequestIsSent ==
    ASSUME ClientInv, Inv', NEW a \in Apps, NEW r \in Requests, NEW target \in Apps \cup {AnyApp},
           SendIntentRequest(a, r, target)
    PROVE  ClientInv'
<1> DEFINE m == [kind |-> "request", req |-> r, target |-> target, ok |-> TRUE]
<1>1. /\ a \in up /\ Unused(r) /\ ask[r] = NoAsk
      /\ ask' = [ask EXCEPT ![r] = [NoAsk EXCEPT !.by = a, !.alive = TRUE]]
      /\ Transmit(a, m)
      /\ UNCHANGED <<req, ipc, job, answered, toApp, up>>
  BY DEF SendIntentRequest, vars, connections
<1>2. m \in ToServer /\ m.kind = "request" /\ m.req = r BY DEF ToServer
<1>3. [NoAsk EXCEPT !.by = a, !.alive = TRUE] \in Ask BY DEF NoAsk, Ask
<1> HIDE DEF m
<1>4. /\ toSystem' \in [Apps -> Seq(ToServer)]
      /\ \A b \in Apps : \A s, kind :
            /\ ToldSystem(b, s, kind)' <=>
                  ToldSystem(b, s, kind) \/ (b = a /\ m.kind = kind /\ m.req = s)
            /\ SystemOnce(b, s, kind) =>
                  \/ SystemOnce(b, s, kind)'
                  \/ b = a /\ m.kind = kind /\ m.req = s /\ ToldSystem(b, s, kind)
      /\ \A b \in Apps : \A s :
            FirstIsYes(b, s)' =>
               \/ FirstIsYes(b, s)
               \/ b = a /\ m.kind = "reply" /\ m.req = s /\ m.ok /\ ~ToldSystem(b, s, "reply")
  BY <1>1, <1>2, SystemIsSent DEF ClientInv
<1>5. \A b : toApp'[b] = toApp[b] BY <1>1
<1>6. \A s \in Requests \ {r} : SameForAsk(s) BY <1>2, <1>4, <1>5, SameWire DEF SameForAsk
<1>7. \A s \in Requests : SameForJob(s) BY <1>2, <1>4, <1>5, SameWire DEF SameForJob
<1>8. \A s \in Requests : JobFits(s)'
  BY <1>1, <1>7, JobStays, HandlerIsApp DEF ClientInv, JobFits
<1>9. \A s \in Requests \ {r} : AskFits(s)'
  BY <1>1, <1>6, AskStays DEF ClientInv, ClientTypeOK
<1>10. AskFits(r)'
  <2>1. ask[r].by = None /\ AskFits(r) /\ ask[r] = NoAsk BY <1>1 DEF NoAsk, ClientInv
  <2>2. None \notin Apps BY ClientAssumption
  <2>3. \A b \in Apps : /\ ~ToldSystem(b, r, "request") /\ ~ToldApp(b, r, "accepted")
                        /\ ~ToldApp(b, r, "reply")
    BY <2>1, <2>2 DEF AskFits, RequestTravels, AnswersTravel
  <2>4. ask'[r] = [by |-> a, alive |-> TRUE, waiting |-> FALSE, finished |-> FALSE, ok |-> FALSE]
    BY <1>1 DEF NoAsk, ClientInv, ClientTypeOK
  <2>5. ~Live(req[r]) /\ req'[r] = req[r] BY <1>1 DEF Unused, Live
  <2>6. AskIsOwned(r)' BY <1>1, <2>2, <2>4, <2>5 DEF AskIsOwned, Live
  <2>7. RequestTravels(r)'
    <3>1. \A b \in Apps : ToldSystem(b, r, "request")' => b = a BY <1>4, <2>3
    <3>2. SystemOnce(a, r, "request")' BY <1>4, <2>3, NothingIsOnce
    <3> QED BY <1>1, <2>4, <2>5, <3>1, <3>2 DEF RequestTravels, Unused
  <2>8. AnswersTravel(r)'
    <3>1. \A b \in Apps : /\ ~ToldApp(b, r, "accepted")' /\ ~ToldApp(b, r, "reply")'
                          /\ ~Success(b, r)' /\ ~Refusal(b, r)' /\ IdComesFirst(b, r)'
      BY <1>5, <2>3, SameWire, NothingIsOnce
    <3> QED BY <3>1 DEF AnswersTravel
  <2>9. SuccessIsDue(r)' BY <2>4 DEF SuccessIsDue
  <2>10. WillHear(r)'
    <3>1. ToldSystem(a, r, "request")' BY <1>2, <1>4
    <3>2. ask'[r].by = a BY <2>4
    <3> QED BY <3>1, <3>2 DEF WillHear, ToldSystem, InSystem
  <2> QED BY <2>6, <2>7, <2>8, <2>9, <2>10 DEF AskFits
<1>11. ClientTypeOK'
  <2>1. ask' \in [Requests -> Ask] BY <1>1, <1>3 DEF ClientInv, ClientTypeOK
  <2> QED BY <1>1, <1>4, <2>1 DEF ClientInv, ClientTypeOK, Inv
<1>12. WiresFit' BY <1>1 DEF ClientInv, WiresFit
<1> QED BY <1>8, <1>9, <1>10, <1>11, <1>12 DEF ClientInv

LEMMA BroadcastIsSent ==
    ASSUME ClientInv, Inv', NEW a \in Apps, BroadcastIntentRequest(a)
    PROVE  ClientInv'
<1> DEFINE m == [kind |-> "broadcast"]
<1>1. Transmit(a, m) /\ UNCHANGED <<req, ipc, ask, job, answered, toApp, up>>
  BY DEF BroadcastIntentRequest, vars, connections, ends
<1>2. m \in ToServer /\ m.kind = "broadcast" BY DEF ToServer
<1> HIDE DEF m
<1>3. /\ toSystem' \in [Apps -> Seq(ToServer)]
      /\ \A b \in Apps : \A s, kind :
            /\ ToldSystem(b, s, kind)' <=>
                  ToldSystem(b, s, kind) \/ (b = a /\ m.kind = kind /\ m.req = s)
            /\ SystemOnce(b, s, kind) =>
                  \/ SystemOnce(b, s, kind)'
                  \/ b = a /\ m.kind = kind /\ m.req = s /\ ToldSystem(b, s, kind)
      /\ \A b \in Apps : \A s :
            FirstIsYes(b, s)' =>
               \/ FirstIsYes(b, s)
               \/ b = a /\ m.kind = "reply" /\ m.req = s /\ m.ok /\ ~ToldSystem(b, s, "reply")
  BY <1>1, <1>2, SystemIsSent DEF ClientInv
<1>4. \A b : toApp'[b] = toApp[b] BY <1>1
<1>5. ASSUME NEW s \in Requests PROVE SameForAsk(s)
  <2>1. \A b \in Apps : /\ ToldSystem(b, s, "request")' <=> ToldSystem(b, s, "request")
                        /\ SystemOnce(b, s, "request") => SystemOnce(b, s, "request")'
    BY <1>2, <1>3
  <2> QED BY <1>4, <2>1, SameWire DEF SameForAsk
<1>6. ASSUME NEW s \in Requests PROVE SameForJob(s)
  <2>1. \A b \in Apps : /\ ToldSystem(b, s, "reply")' <=> ToldSystem(b, s, "reply")
                        /\ FirstIsYes(b, s)' => FirstIsYes(b, s)
    BY <1>2, <1>3
  <2> QED BY <1>4, <2>1, SameWire DEF SameForJob
<1>7. \A s \in Requests : JobFits(s)'
  BY <1>1, <1>6, JobStays, HandlerIsApp DEF ClientInv, JobFits
<1>8. \A s \in Requests : AskFits(s)'
  BY <1>1, <1>5, AskStays DEF ClientInv
<1>9. ClientTypeOK' BY <1>1, <1>3 DEF ClientInv, ClientTypeOK, Inv
<1>10. WiresFit' BY <1>1 DEF ClientInv, WiresFit
<1> QED BY <1>7, <1>8, <1>9, <1>10 DEF ClientInv

LEMMA PastFacts ==
    ASSUME Inv, NEW r \in Requests, Past(req[r])
    PROVE  ~Unused(r) /\ req[r].state # "refused" /\ req[r].state \notin Unsent /\ ~Waits(r)
<1>1. req[r].deleteLater => req[r].state = "ReceivedReplyFromApplication"
  BY TypesAreTypeOK DEF Core, ObjectsAreFine, Fine
<1> QED BY <1>1 DEF Past, Unused, Unsent, Waits

(* a request object that gives up: its timer fires, it is collected, or its process dies *)
LEMMA AskGivesUp ==
    ASSUME NEW r \in Requests, ClientTypeOK, AskFits(r), SameForAsk(r), req'[r] = req[r],
           answered'[r] = answered[r], ask'[r].by = ask[r].by, ~ask'[r].ok,
           ask'[r].alive => ask[r].alive /\ ask'[r].finished /\ ask[r].by \in up',
           ask[r] = NoAsk => ask'[r] = NoAsk
    PROVE  AskFits(r)'
<1>1. AskIsOwned(r)' BY DEF AskFits, AskIsOwned, Live
<1>2. RequestTravels(r)' BY DEF AskFits, RequestTravels, SameForAsk, Unused
<1>3. AnswersTravel(r)' BY DEF AskFits, AnswersTravel, SameForAsk, Unused, Past
<1>4. SuccessIsDue(r)' /\ WillHear(r)' BY DEF SuccessIsDue, WillHear
<1> QED BY <1>1, <1>2, <1>3, <1>4 DEF AskFits

LEMMA WiresRest ==
    ASSUME UNCHANGED <<toSystem, toApp>>
    PROVE  \A s : SameForAsk(s) /\ SameForJob(s)
BY SameWire, SameLine DEF SameForAsk, SameForJob

LEMMA RequestTimesOut ==
    ASSUME ClientInv, Inv', NEW r \in Requests, RequestTimeout(r) \/ RequestCollected(r)
    PROVE  ClientInv'
<1>1. UNCHANGED <<req, ipc, job, answered, toSystem, toApp, up>>
  BY DEF RequestTimeout, RequestCollected, vars, connections, wires
<1>2. /\ ask[r].alive
      /\ \/ ask' = [ask EXCEPT ![r].finished = TRUE, ![r].ok = FALSE]
         \/ ask' = [ask EXCEPT ![r] = Collected(ask[r])]
  BY DEF RequestTimeout, RequestCollected
<1>3. ask \in [Requests -> Ask] BY DEF ClientInv, ClientTypeOK
<1>4. \A s \in Requests \ {r} : ask'[s] = ask[s] BY <1>2, <1>3
<1>5. /\ ask'[r] \in Ask /\ ask'[r].by = ask[r].by /\ ~ask'[r].ok
      /\ ask'[r].alive => ask'[r].finished
  <2>1. CASE ask' = [ask EXCEPT ![r] = Collected(ask[r])]
    <3>1. ask'[r] = Collected(ask[r]) BY <1>3, <2>1
    <3> QED BY <1>3, <3>1 DEF Ask, Collected, NoAsk
  <2>2. CASE ask' = [ask EXCEPT ![r].finished = TRUE, ![r].ok = FALSE]
    <3>1. ask'[r] = [ask[r] EXCEPT !.finished = TRUE, !.ok = FALSE] BY <1>3, <2>2
    <3> QED BY <1>3, <3>1 DEF Ask
  <2> QED BY <1>2, <2>1, <2>2
<1>6. \A s \in Requests : SameForAsk(s) /\ SameForJob(s) BY <1>1, WiresRest
<1>7. \A s \in Requests : JobFits(s)'
  BY <1>1, <1>6, JobStays, HandlerIsApp DEF ClientInv, JobFits
<1>8. \A s \in Requests \ {r} : AskFits(s)' BY <1>1, <1>4, <1>6, AskStays DEF ClientInv
<1>9. AskFits(r)'
  <2>1. AskFits(r) /\ ask[r].by \in up /\ ask[r] # NoAsk
    BY <1>2 DEF ClientInv, AskFits, AskIsOwned, NoAsk
  <2> QED BY <1>1, <1>2, <1>5, <1>6, <2>1, AskGivesUp DEF ClientInv
<1>10. ClientTypeOK'
  <2>1. ask' \in [Requests -> Ask] BY <1>2, <1>3, <1>4, <1>5
  <2> QED BY <1>1, <2>1 DEF ClientInv, ClientTypeOK, Inv
<1>11. WiresFit' BY <1>1 DEF ClientInv, WiresFit
<1> QED BY <1>7, <1>8, <1>9, <1>10, <1>11 DEF ClientInv

(* what taking a message means for those the message is not about *)
LEMMA OthersDoNotHear ==
    ASSUME ClientTypeOK, NEW a \in Apps, NEW kind, Arrived(a, kind), Received(a),
           UNCHANGED toSystem, NEW r, r = Head(toApp[a]).req
    PROVE  /\ toApp' \in [Apps -> Seq(ToClient)]
           /\ \A b \in Apps : \A s : /\ ToldApp(b, s, kind)' => ToldApp(b, s, kind)
                                     /\ AppOnce(b, s, kind) => AppOnce(b, s, kind)'
                                     /\ IdComesFirst(b, s) => IdComesFirst(b, s)'
                                     /\ Success(b, s)' => Success(b, s)
                                     /\ Refusal(b, s)' => Refusal(b, s)
           /\ \A b \in Apps : \A s, other : other # kind =>
                 /\ ToldApp(b, s, other)' <=> ToldApp(b, s, other)
                 /\ AppOnce(b, s, other) => AppOnce(b, s, other)'
           /\ \A s : s # r => SameForAsk(s) /\ SameForJob(s)
           /\ \A s : kind # "request" => SameForJob(s)
           /\ \A s : kind = "request" => SameForAsk(s)
<1>1. toApp[a] # <<>> /\ Head(toApp[a]).kind = kind BY DEF Arrived
<1>2. /\ toApp' \in [Apps -> Seq(ToClient)]
      /\ \A b \in Apps : \A s, other :
            /\ ToldApp(b, s, other)' => ToldApp(b, s, other)
            /\ ToldApp(b, s, other) => ToldApp(b, s, other)' \/ (b = a /\ kind = other /\ r = s)
            /\ AppOnce(b, s, other) => AppOnce(b, s, other)'
      /\ \A b \in Apps : \A s :
            /\ IdComesFirst(b, s) => IdComesFirst(b, s)'
            /\ Success(b, s)' => Success(b, s)
            /\ Refusal(b, s)' => Refusal(b, s)
  BY <1>1, AppReceives
<1>3. \A b \in Apps : \A s : /\ ToldSystem(b, s, "request")' <=> ToldSystem(b, s, "request")
                             /\ SystemOnce(b, s, "request") => SystemOnce(b, s, "request")'
                             /\ ToldSystem(b, s, "reply")' <=> ToldSystem(b, s, "reply")
                             /\ FirstIsYes(b, s)' => FirstIsYes(b, s)
  BY SameLine
<1>4. \A b \in Apps : \A s, other : other # kind \/ s # r => (ToldApp(b, s, other)' <=> ToldApp(b, s, other))
  BY <1>2
<1>5. ASSUME NEW s, s # r \/ kind # "request" PROVE SameForJob(s)
  BY <1>2, <1>3, <1>4, <1>5 DEF SameForJob
<1>6. ASSUME NEW s, s # r \/ kind = "request" PROVE SameForAsk(s)
  BY <1>2, <1>3, <1>4, <1>6 DEF SameForAsk
<1> QED BY <1>2, <1>4, <1>5, <1>6

LEMMA IdIsLearnt ==
    ASSUME ClientInv, Inv', NEW a \in Apps, RequestToSystemFinished(a)
    PROVE  ClientInv'
<1> DEFINE m == Head(toApp[a])
<1>1. PICK r : r = m.req OBVIOUS
<1>2. Arrived(a, "accepted") /\ Received(a) /\ UNCHANGED <<req, ipc, job, answered, toSystem, up>>
  BY DEF RequestToSystemFinished, vars, connections
<1>3. r \in Requests /\ m \in ToClient BY <1>1, <1>2, FirstMessage DEF ClientInv
<1>4. ask' = IF ~ask[r].alive THEN ask
             ELSE IF m.ok THEN [ask EXCEPT ![r].waiting = TRUE]
             ELSE [ask EXCEPT ![r] = Finished(ask[r], FALSE)]
  BY <1>1 DEF RequestToSystemFinished
<1>5. ask \in [Requests -> Ask] BY DEF ClientInv, ClientTypeOK
<1>6. \A s \in Requests \ {r} : ask'[s] = ask[s] BY <1>4, <1>5
<1>7. ask'[r] = IF ~ask[r].alive THEN ask[r]
                ELSE IF m.ok THEN [ask[r] EXCEPT !.waiting = TRUE] ELSE Finished(ask[r], FALSE)
  BY <1>3, <1>4, <1>5
<1>8. /\ ask'[r] \in Ask /\ ask'[r].by = ask[r].by /\ (ask'[r].alive <=> ask[r].alive)
      /\ ask'[r].ok => ask[r].ok
      /\ ask[r].finished => ask'[r].finished
      /\ ask[r].alive => ask'[r].waiting \/ ask'[r].finished
  BY <1>3, <1>5, <1>7 DEF Ask, Finished
<1> HIDE DEF m
<1>9. /\ toApp' \in [Apps -> Seq(ToClient)]
      /\ \A b \in Apps : \A s : /\ ToldApp(b, s, "accepted")' => ToldApp(b, s, "accepted")
                                /\ IdComesFirst(b, s) => IdComesFirst(b, s)'
                                /\ Success(b, s)' => Success(b, s)
                                /\ Refusal(b, s)' => Refusal(b, s)
      /\ \A b \in Apps : \A s : /\ ToldApp(b, s, "reply")' <=> ToldApp(b, s, "reply")
                                /\ AppOnce(b, s, "reply") => AppOnce(b, s, "reply")'
      /\ \A s : s # r => SameForAsk(s) /\ SameForJob(s)
      /\ \A s : SameForJob(s)
  BY <1>1, <1>2, OthersDoNotHear DEF ClientInv, m
<1>10. \A s \in Requests : JobFits(s)'
  BY <1>2, <1>9, JobStays, HandlerIsApp DEF ClientInv, JobFits
<1>11. \A s \in Requests \ {r} : AskFits(s)'
  BY <1>2, <1>6, <1>9, AskStays DEF ClientInv
<1>12. AskFits(r)'
  <2>1. AskFits(r) BY <1>3 DEF ClientInv
  <2>2. \A b \in Apps : /\ ToldSystem(b, r, "request")' <=> ToldSystem(b, r, "request")
                        /\ SystemOnce(b, r, "request") => SystemOnce(b, r, "request")'
    BY <1>2, SameLine
  <2>3. AskIsOwned(r)'
    <3>1. ask[r] = NoAsk => ask'[r] = NoAsk BY <1>7 DEF NoAsk
    <3> QED BY <1>2, <1>8, <2>1, <3>1 DEF AskFits, AskIsOwned, Live
  <2>4. RequestTravels(r)' BY <1>2, <1>8, <2>1, <2>2 DEF AskFits, RequestTravels, Unused
  <2>5. AnswersTravel(r)'
    BY <1>2, <1>8, <1>9, <2>1 DEF AskFits, AnswersTravel, Unused, Past
  <2>6. SuccessIsDue(r)'
    <3>1. ask'[r].ok => ask'[r].finished BY <1>8, <2>1 DEF AskFits, SuccessIsDue
    <3> QED BY <1>2, <1>8, <1>9, <2>1, <3>1 DEF AskFits, SuccessIsDue, Past
  <2>7. WillHear(r)'
    <3> SUFFICES ASSUME ask'[r].alive, ~ask'[r].finished PROVE WillHear(r)' BY DEF WillHear
    <3>1. ask[r].alive /\ ~ask[r].finished /\ ask'[r].waiting BY <1>8
    <3>2. ask[r].by \in Apps BY <2>1, <3>1 DEF AskFits, AskIsOwned, ClientInv, ClientTypeOK
    <3>3. PICK b \in Apps : b = ask[r].by BY <3>2
    <3>4. \/ ToldSystem(b, r, "request")
          \/ Live(req[r]) /\ ~req[r].deleteLater
          \/ req[r].state = "refused"
          \/ ToldApp(b, r, "reply")
      BY <2>1, <3>1, <3>3 DEF AskFits, WillHear, Handled
    <3>5. \/ ToldSystem(b, r, "request")'
          \/ Live(req'[r]) /\ ~req'[r].deleteLater
          \/ req'[r].state = "refused"
          \/ ToldApp(b, r, "reply")'
      BY <1>2, <1>9, <2>2, <3>4 DEF Live
    <3>6. ask'[r].by = b BY <1>8, <3>3
    <3> QED BY <3>1, <3>5, <3>6
            DEF WillHear, Handled, Live, ToldApp, ToldSystem, InApp, InSystem
  <2> QED BY <2>3, <2>4, <2>5, <2>6, <2>7 DEF AskFits
<1>13. ClientTypeOK'
  <2>1. ask' \in [Requests -> Ask] BY <1>3, <1>4, <1>5, <1>6, <1>8
  <2> QED BY <1>2, <1>9, <2>1 DEF ClientInv, ClientTypeOK, Inv
<1>14. WiresFit'
  <2>1. toApp[a] # <<>> /\ \A b \in Apps \ {a} : toApp'[b] = toApp[b]
    BY <1>2, AppReceives DEF Arrived, ClientInv
  <2> QED BY <1>2, <2>1 DEF ClientInv, WiresFit
<1> QED BY <1>10, <1>11, <1>12, <1>13, <1>14 DEF ClientInv

LEMMA ReplyIsHeard ==
    ASSUME ClientInv, Inv', NEW a \in Apps, ReplyFromSystem(a)
    PROVE  ClientInv'
<1> DEFINE m == Head(toApp[a])
<1>1. PICK r : r = m.req OBVIOUS
<1>2. Arrived(a, "reply") /\ Received(a) /\ UNCHANGED <<req, ipc, job, answered, toSystem, up>>
  BY DEF ReplyFromSystem, vars, connections
<1>3. /\ r \in Requests /\ m \in ToClient /\ ToldApp(a, r, "reply")
      /\ m.ok => Success(a, r)
      /\ IdComesFirst(a, r) => ~ToldApp(a, r, "accepted")
      /\ AppOnce(a, r, "reply") => ~ToldApp(a, r, "reply")'
  BY <1>1, <1>2, FirstMessage DEF ClientInv
<1>4. ask' = IF ask[r].alive /\ ask[r].waiting THEN [ask EXCEPT ![r] = Finished(ask[r], m.ok)]
             ELSE ask
  BY <1>1 DEF ReplyFromSystem
<1>5. ask \in [Requests -> Ask] BY DEF ClientInv, ClientTypeOK
<1>6. \A s \in Requests \ {r} : ask'[s] = ask[s] BY <1>4, <1>5
<1>7. ask'[r] = IF ask[r].alive /\ ask[r].waiting THEN Finished(ask[r], m.ok) ELSE ask[r]
  BY <1>3, <1>4, <1>5
<1>8. /\ ask'[r] \in Ask /\ ask'[r].by = ask[r].by /\ (ask'[r].alive <=> ask[r].alive)
      /\ \/ ask'[r].finished /\ ask'[r].ok = m.ok
         \/ ask'[r] = ask[r] /\ ~(ask[r].alive /\ ask[r].waiting)
  BY <1>3, <1>5, <1>7 DEF Ask, Finished, ToClient
<1> HIDE DEF m
<1>9. /\ toApp' \in [Apps -> Seq(ToClient)]
      /\ \A b \in Apps : \A s : /\ ToldApp(b, s, "reply")' => ToldApp(b, s, "reply")
                                /\ AppOnce(b, s, "reply") => AppOnce(b, s, "reply")'
                                /\ IdComesFirst(b, s) => IdComesFirst(b, s)'
                                /\ Success(b, s)' => Success(b, s)
                                /\ Refusal(b, s)' => Refusal(b, s)
      /\ \A b \in Apps : \A s : ToldApp(b, s, "accepted")' <=> ToldApp(b, s, "accepted")
      /\ \A s : s # r => SameForAsk(s) /\ SameForJob(s)
      /\ \A s : SameForJob(s)
  BY <1>1, <1>2, OthersDoNotHear DEF ClientInv, m
<1>10. \A s \in Requests : JobFits(s)'
  BY <1>2, <1>9, JobStays, HandlerIsApp DEF ClientInv, JobFits
<1>11. \A s \in Requests \ {r} : AskFits(s)'
  BY <1>2, <1>6, <1>9, AskStays DEF ClientInv
<1>12. AskFits(r)'
  <2>1. AskFits(r) BY <1>3 DEF ClientInv
  <2>2. \A b \in Apps : /\ ToldSystem(b, r, "request")' <=> ToldSystem(b, r, "request")
                        /\ SystemOnce(b, r, "request") => SystemOnce(b, r, "request")'
    BY <1>2, SameLine
  <2>3. /\ ask[r].by = a /\ Past(req[r]) /\ AppOnce(a, r, "reply") /\ IdComesFirst(a, r)
        /\ m.ok => answered[r] = "ok"
        /\ \A b \in Apps : ToldApp(b, r, "reply") => b = a
    BY <1>3, <2>1 DEF AskFits, AnswersTravel
  <2>4. ~Unused(r) /\ Past(req[r])' BY <1>2, <1>3, <2>3, PastFacts DEF ClientInv, Past
  <2>5. AskIsOwned(r)'
    <3>1. ask[r] = NoAsk => ask'[r] = NoAsk BY <1>7 DEF NoAsk
    <3> QED BY <1>2, <1>8, <2>1, <3>1 DEF AskFits, AskIsOwned, Live
  <2>6. RequestTravels(r)' BY <1>2, <1>8, <2>1, <2>2 DEF AskFits, RequestTravels, Unused
  <2>7. AnswersTravel(r)'
    BY <1>2, <1>8, <1>9, <2>1 DEF AskFits, AnswersTravel, Unused, Past
  <2>8. SuccessIsDue(r)'
    <3>1. \A b \in Apps : ~ToldApp(b, r, "reply")' BY <1>3, <1>9, <2>3
    <3>2. ask'[r].ok => ask'[r].finished /\ answered[r] = "ok"
      BY <1>8, <2>1, <2>3 DEF AskFits, SuccessIsDue
    <3> QED BY <1>2, <2>4, <3>1, <3>2 DEF SuccessIsDue
  <2>9. WillHear(r)'
    <3> SUFFICES ASSUME ask'[r].alive, ~ask'[r].finished PROVE FALSE BY DEF WillHear
    <3>1. ask[r].alive /\ ~ask[r].finished /\ ~ask[r].waiting BY <1>8
    <3>2. ToldSystem(a, r, "request") \/ ToldApp(a, r, "accepted")
      BY <2>1, <2>3, <3>1 DEF AskFits, WillHear
    <3>3. ~ToldSystem(a, r, "request") BY <2>1, <2>4 DEF AskFits, RequestTravels
    <3> QED BY <1>3, <2>3, <3>2, <3>3
  <2> QED BY <2>5, <2>6, <2>7, <2>8, <2>9 DEF AskFits
<1>13. ClientTypeOK'
  <2>1. ask' \in [Requests -> Ask] BY <1>3, <1>4, <1>5, <1>6, <1>8
  <2> QED BY <1>2, <1>9, <2>1 DEF ClientInv, ClientTypeOK, Inv
<1>14. WiresFit'
  <2>1. toApp[a] # <<>> /\ \A b \in Apps \ {a} : toApp'[b] = toApp[b]
    BY <1>2, AppReceives DEF Arrived, ClientInv
  <2> QED BY <1>2, <2>1 DEF ClientInv, WiresFit
<1> QED BY <1>10, <1>11, <1>12, <1>13, <1>14 DEF ClientInv

(* a process dies with its objects and with what was on its way to it *)
LEMMA ProcessDies ==
    ASSUME ClientInv, Inv', NEW a \in Apps, Dies(a)
    PROVE  ClientInv'
<1>1. /\ up' = up \ {a} /\ toApp' = [toApp EXCEPT ![a] = <<>>]
      /\ ask' = [r \in Requests |-> IF ask[r].by = a THEN Collected(ask[r]) ELSE ask[r]]
      /\ job' = [r \in Requests |-> IF job[r].by = a THEN NoJob ELSE job[r]]
      /\ UNCHANGED <<req, ipc, answered, toSystem>>
  BY DEF Dies, vars, connections
<1>2. /\ toApp \in [Apps -> Seq(ToClient)] /\ up \subseteq Apps
      /\ ask \in [Requests -> Ask] /\ job \in [Requests -> Job]
  BY DEF ClientInv, ClientTypeOK
<1>3. toApp'[a] = <<>> /\ \A b \in Apps \ {a} : toApp'[b] = toApp[b] BY <1>1, <1>2
<1>4. a # None BY ClientAssumption
<1>5. ASSUME NEW r \in Requests PROVE AskFits(r)'
  <2>1. AskFits(r) BY DEF ClientInv
  <2>2. \A b \in Apps : /\ ToldSystem(b, r, "request")' <=> ToldSystem(b, r, "request")
                        /\ SystemOnce(b, r, "request") => SystemOnce(b, r, "request")'
    BY <1>1, SameLine
  <2>3. \A b \in Apps : /\ ToldApp(b, r, "accepted")' => ToldApp(b, r, "accepted")
                        /\ ToldApp(b, r, "reply")' => ToldApp(b, r, "reply")
                        /\ b # a => /\ ToldApp(b, r, "accepted")' <=> ToldApp(b, r, "accepted")
                                    /\ ToldApp(b, r, "reply")' <=> ToldApp(b, r, "reply")
                        /\ AppOnce(b, r, "reply") => AppOnce(b, r, "reply")'
                        /\ IdComesFirst(b, r) => IdComesFirst(b, r)'
                        /\ Success(b, r)' => Success(b, r)
                        /\ Refusal(b, r)' => Refusal(b, r)
    <3> TAKE b \in Apps
    <3>1. CASE b = a BY <1>3, <3>1, EmptyWire
    <3>2. CASE b # a BY <1>3, <3>2, SameWire
    <3> QED BY <3>1, <3>2
  <2>4. CASE ask[r].by # a
    <3>3. ask'[r] = ask[r] BY <1>1, <2>4
    <3>4. AskIsOwned(r)' BY <1>1, <2>1, <2>4, <3>3 DEF AskFits, AskIsOwned, Live
    <3>5. RequestTravels(r)' BY <1>1, <2>1, <2>2, <3>3 DEF AskFits, RequestTravels, Unused
    <3>6. AnswersTravel(r)' BY <1>1, <2>1, <2>3, <3>3 DEF AskFits, AnswersTravel, Unused, Past
    <3>7. SuccessIsDue(r)' BY <1>1, <2>1, <2>3, <3>3 DEF AskFits, SuccessIsDue, Past
    <3>8. WillHear(r)'
      <4> SUFFICES ASSUME ask[r].alive, ~ask[r].finished PROVE WillHear(r)'
        BY <3>3 DEF WillHear
      <4>1. PICK b \in Apps : b = ask[r].by
        BY <1>2, <2>1 DEF AskFits, AskIsOwned
      <4>2. ask'[r].by = b /\ b # a BY <2>4, <3>3, <4>1
      <4>3. \/ ToldSystem(b, r, "request")
            \/ /\ ask[r].waiting \/ ToldApp(b, r, "accepted")
               /\ \/ Live(req[r]) /\ ~req[r].deleteLater
                  \/ req[r].state = "refused"
                  \/ ToldApp(b, r, "reply")
        BY <2>1, <4>1 DEF AskFits, WillHear, Handled
      <4>4. \/ ToldSystem(b, r, "request")'
            \/ /\ ask'[r].waiting \/ ToldApp(b, r, "accepted")'
               /\ \/ Live(req'[r]) /\ ~req'[r].deleteLater
                  \/ req'[r].state = "refused"
                  \/ ToldApp(b, r, "reply")'
        BY <1>1, <2>2, <2>3, <3>3, <4>2, <4>3
      <4> QED BY <4>2, <4>4 DEF WillHear, Handled, Live, ToldApp, ToldSystem, InApp, InSystem
    <3> QED BY <3>4, <3>5, <3>6, <3>7, <3>8 DEF AskFits
  <2>5. CASE ask[r].by = a
    <3>1. ask'[r] = Collected(ask[r]) BY <1>1, <2>5
    <3>2. ask'[r].by = a /\ ~ask'[r].alive /\ ~ask'[r].ok
      BY <2>5, <3>1 DEF Collected, NoAsk
    <3>3. ask[r] # NoAsk BY <1>4, <2>5 DEF NoAsk
    <3>4. AskIsOwned(r)' BY <1>1, <1>4, <2>1, <2>5, <3>2, <3>3 DEF AskFits, AskIsOwned, Live
    <3>5. RequestTravels(r)' BY <1>1, <2>1, <2>2, <2>5, <3>2 DEF AskFits, RequestTravels, Unused
    <3>6. AnswersTravel(r)' BY <1>1, <2>1, <2>3, <2>5, <3>2 DEF AskFits, AnswersTravel, Unused, Past
    <3>7. SuccessIsDue(r)' /\ WillHear(r)' BY <3>2 DEF SuccessIsDue, WillHear
    <3> QED BY <3>4, <3>5, <3>6, <3>7 DEF AskFits
  <2> QED BY <2>4, <2>5
<1>6. ASSUME NEW r \in Requests PROVE JobFits(r)'
  <2>1. JobFits(r) BY DEF ClientInv
  <2>2. /\ job'[r].alive => job'[r] = job[r] /\ job[r].by # a
        /\ answered'[r] = answered[r] /\ req'[r] = req[r]
    BY <1>1, <1>2 DEF NoJob
  <2>3. \A b \in Apps : /\ ToldApp(b, r, "request")' => ToldApp(b, r, "request")
                        /\ AppOnce(b, r, "request") => AppOnce(b, r, "request")'
    <3> TAKE b \in Apps
    <3>1. CASE b = a BY <1>3, <3>1, EmptyWire
    <3>2. CASE b # a BY <1>3, <3>2, SameWire
    <3> QED BY <3>1, <3>2
  <2>4. \A b : /\ ToldSystem(b, r, "reply")' <=> ToldSystem(b, r, "reply")
               /\ FirstIsYes(b, r)' => FirstIsYes(b, r)
    BY <1>1, SameLine
  <2>5. req'[r].state \in Unsent => Unheard(r)'
    BY <2>1, <2>2, <2>3, <2>4 DEF JobFits, Unheard
  <2>6. Waits(r)' => HandlerDecides(r)'
    <3> SUFFICES ASSUME Waits(r) PROVE HandlerDecides(r)' BY <2>2 DEF Waits
    <3>1. PICK h : h = HandlerOf(r) OBVIOUS
    <3>2. HandlerOf(r)' = h BY <2>2, <3>1 DEF HandlerOf
    <3>3. /\ job[r].alive => job[r].by = h /\ (answered[r] # "no" => ToldSystem(h, r, "reply"))
          /\ \A b \in Apps :
                /\ ToldApp(b, r, "request") => /\ b = h /\ AppOnce(b, r, "request")
                                               /\ ~job[r].alive /\ answered[r] = "no"
                /\ ToldSystem(b, r, "reply") => b = h /\ answered[r] # "no"
                /\ FirstIsYes(b, r) => answered[r] = "ok"
      BY <2>1, <3>1 DEF JobFits, HandlerDecides
    <3>4. /\ job'[r].alive => job'[r].by = h /\ (answered'[r] # "no" => ToldSystem(h, r, "reply")')
          /\ \A b \in Apps :
                /\ ToldApp(b, r, "request")' => /\ b = h /\ AppOnce(b, r, "request")'
                                                /\ ~job'[r].alive /\ answered'[r] = "no"
                /\ ToldSystem(b, r, "reply")' => b = h /\ answered'[r] # "no"
                /\ FirstIsYes(b, r)' => answered'[r] = "ok"
      BY <2>2, <2>3, <2>4, <3>3
    <3> QED BY <3>2, <3>4 DEF HandlerDecides, ToldSystem, InSystem
  <2> QED BY <1>1, <2>1, <2>2, <2>5, <2>6 DEF JobFits
<1>7. ClientTypeOK'
  <2>1. \A r \in Requests : Collected(ask[r]) \in Ask /\ NoJob \in Job
    BY <1>2 DEF Collected, NoAsk, NoJob, Ask, Job
  <2>2. ask' \in [Requests -> Ask] /\ job' \in [Requests -> Job] BY <1>1, <1>2, <2>1
  <2>3. toApp' \in [Apps -> Seq(ToClient)] BY <1>1, <1>2, EmptySeq
  <2> QED BY <1>1, <2>2, <2>3 DEF ClientInv, ClientTypeOK, Inv
<1>8. WiresFit' BY <1>1, <1>3 DEF ClientInv, WiresFit
<1> QED BY <1>5, <1>6, <1>7, <1>8 DEF ClientInv

-----------------------------------------------------------------------------
(* The handling application *)

(* an answer goes on the wire: nobody but its request notices *)
LEMMA AnswerIsSent ==
    ASSUME ClientInv, NEW a \in Apps, NEW r \in Requests, NEW ok \in BOOLEAN,
           toSystem' = [toSystem EXCEPT ![a] = Append(@, [kind |-> "reply", req |-> r,
                                                          target |-> AnyApp, ok |-> ok])]
    PROVE  /\ toSystem' \in [Apps -> Seq(ToServer)]
           /\ \A b \in Apps : \A s : /\ ToldSystem(b, s, "request")' <=> ToldSystem(b, s, "request")
                                     /\ SystemOnce(b, s, "request") => SystemOnce(b, s, "request")'
                                     /\ ToldSystem(b, s, "reply")' <=>
                                           ToldSystem(b, s, "reply") \/ (b = a /\ s = r)
                                     /\ FirstIsYes(b, s)' =>
                                           \/ FirstIsYes(b, s)
                                           \/ b = a /\ s = r /\ ok /\ ~ToldSystem(b, s, "reply")
<1> DEFINE m == [kind |-> "reply", req |-> r, target |-> AnyApp, ok |-> ok]
<1>1. m \in ToServer /\ m.kind = "reply" /\ m.req = r /\ m.ok = ok BY DEF ToServer
<1>2. Transmit(a, m) BY DEF Transmit
<1> HIDE DEF m
<1>3. /\ toSystem' \in [Apps -> Seq(ToServer)]
      /\ \A b \in Apps : \A s, kind :
            /\ ToldSystem(b, s, kind)' <=>
                  ToldSystem(b, s, kind) \/ (b = a /\ m.kind = kind /\ m.req = s)
            /\ SystemOnce(b, s, kind) =>
                  \/ SystemOnce(b, s, kind)'
                  \/ b = a /\ m.kind = kind /\ m.req = s /\ ToldSystem(b, s, kind)
      /\ \A b \in Apps : \A s :
            FirstIsYes(b, s)' =>
               \/ FirstIsYes(b, s)
               \/ b = a /\ m.kind = "reply" /\ m.req = s /\ m.ok /\ ~ToldSystem(b, s, "reply")
  BY <1>1, <1>2, SystemIsSent DEF ClientInv
<1>4. ASSUME NEW b \in Apps, NEW s
      PROVE  /\ ToldSystem(b, s, "request")' <=> ToldSystem(b, s, "request")
             /\ SystemOnce(b, s, "request") => SystemOnce(b, s, "request")'
  BY <1>1, <1>3
<1>5. ASSUME NEW b \in Apps, NEW s
      PROVE  /\ ToldSystem(b, s, "reply")' <=> ToldSystem(b, s, "reply") \/ (b = a /\ s = r)
             /\ FirstIsYes(b, s)' =>
                   FirstIsYes(b, s) \/ (b = a /\ s = r /\ ok /\ ~ToldSystem(b, s, "reply"))
  BY <1>1, <1>3
<1> QED BY <1>3, <1>4, <1>5

(* how a request that is waited for stays in order *)
LEMMA DecisionStays ==
    ASSUME NEW r \in Requests, NEW h, h = HandlerOf(r), req'[r] = req[r],
           job'[r].alive => job'[r].by = h /\ (answered'[r] # "no" => ToldSystem(h, r, "reply")'),
           \A b \in Apps :
              /\ ToldApp(b, r, "request")' => /\ b = h /\ AppOnce(b, r, "request")'
                                              /\ ~job'[r].alive /\ answered'[r] = "no"
              /\ ToldSystem(b, r, "reply")' => b = h /\ answered'[r] # "no"
              /\ FirstIsYes(b, r)' => answered'[r] = "ok"
    PROVE  HandlerDecides(r)'
<1>1. HandlerOf(r)' = h BY DEF HandlerOf
<1> QED BY <1>1 DEF HandlerDecides, ToldSystem, InSystem

LEMMA RequestIsHeard ==
    ASSUME ClientInv, Inv', NEW a \in Apps, RequestToApplication(a)
    PROVE  ClientInv'
<1> DEFINE m == Head(toApp[a])
<1>1. PICK r : r = m.req OBVIOUS
<1>2. Arrived(a, "request") /\ Received(a) /\ UNCHANGED <<req, ipc, ask, up>>
  BY DEF RequestToApplication, vars, connections
<1>3. /\ r \in Requests /\ m \in ToClient /\ ToldApp(a, r, "request")
      /\ AppOnce(a, r, "request") => ~ToldApp(a, r, "request")'
  BY <1>1, <1>2, FirstMessage DEF ClientInv
<1>4. \/ /\ job' = job \/ job' = [job EXCEPT ![r] = [by |-> a, alive |-> TRUE, finished |-> FALSE]]
         /\ UNCHANGED <<answered, toSystem>>
      \/ /\ answered' = [answered EXCEPT ![r] = IF answered[r] # "no" THEN answered[r] ELSE "error"]
         /\ Transmit(a, [kind |-> "reply", req |-> r, target |-> AnyApp, ok |-> FALSE])
         /\ job' = job
  BY <1>1 DEF RequestToApplication, Answer
<1> HIDE DEF m
<1>5. /\ toApp' \in [Apps -> Seq(ToClient)] /\ a \in up
      /\ \A b \in Apps \ {a} : toApp'[b] = toApp[b]
  BY <1>2, AppReceives DEF Arrived, ClientInv, WiresFit
<1>6. \A b \in Apps : \A s :
         /\ ToldApp(b, s, "request")' => ToldApp(b, s, "request")
         /\ b # a \/ s # r => (ToldApp(b, s, "request")' <=> ToldApp(b, s, "request"))
         /\ AppOnce(b, s, "request") => AppOnce(b, s, "request")'
         /\ ToldApp(b, s, "accepted")' <=> ToldApp(b, s, "accepted")
         /\ ToldApp(b, s, "reply")' <=> ToldApp(b, s, "reply")
         /\ AppOnce(b, s, "reply") => AppOnce(b, s, "reply")'
         /\ IdComesFirst(b, s) => IdComesFirst(b, s)'
         /\ Success(b, s)' => Success(b, s)
         /\ Refusal(b, s)' => Refusal(b, s)
  <2>1. toApp[a] # <<>> /\ Head(toApp[a]).kind = "request" BY <1>2 DEF Arrived
  <2>2. \A b \in Apps : \A s, kind :
           /\ ToldApp(b, s, kind)' => ToldApp(b, s, kind)
           /\ ToldApp(b, s, kind) => ToldApp(b, s, kind)' \/ (b = a /\ kind = "request" /\ s = r)
           /\ AppOnce(b, s, kind) => AppOnce(b, s, kind)'
    BY <1>1, <1>2, <2>1, AppReceives DEF ClientInv, m
  <2>3. \A b \in Apps : \A s : /\ IdComesFirst(b, s) => IdComesFirst(b, s)'
                               /\ Success(b, s)' => Success(b, s)
                               /\ Refusal(b, s)' => Refusal(b, s)
    BY <1>2, <2>1, AppReceives DEF ClientInv
  <2> QED BY <2>2, <2>3
<1>7. /\ toSystem' \in [Apps -> Seq(ToServer)]
      /\ \A b \in Apps : \A s : /\ ToldSystem(b, s, "request")' <=> ToldSystem(b, s, "request")
                                /\ SystemOnce(b, s, "request") => SystemOnce(b, s, "request")'
                                /\ FirstIsYes(b, s)' => FirstIsYes(b, s)
                                /\ ToldSystem(b, s, "reply") => ToldSystem(b, s, "reply")'
                                /\ ToldSystem(b, s, "reply")' =>
                                      \/ ToldSystem(b, s, "reply")
                                      \/ b = a /\ s = r /\ answered'[r] # "no" /\ job'[r] = job[r]
  <2>1. CASE UNCHANGED <<answered, toSystem>>
    BY <2>1, SameLine DEF ClientInv, ClientTypeOK
  <2>2. CASE /\ answered' = [answered EXCEPT ![r] = IF answered[r] # "no" THEN answered[r] ELSE "error"]
             /\ Transmit(a, [kind |-> "reply", req |-> r, target |-> AnyApp, ok |-> FALSE])
             /\ job' = job
    <3>1. answered'[r] # "no" BY <1>3, <2>2 DEF ClientInv, ClientTypeOK
    <3> QED BY <1>3, <2>2, <3>1, AnswerIsSent DEF Transmit
  <2> QED BY <1>4, <2>1, <2>2
<1>8. /\ \A s \in Requests \ {r} : job'[s] = job[s] /\ answered'[s] = answered[s]
      /\ answered[r] # "no" => answered'[r] = answered[r]
      /\ answered'[r] # answered[r] => ToldSystem(a, r, "reply")'
      /\ job'[r] = job[r] \/ (job'[r].by = a /\ answered'[r] = answered[r])
      /\ job' \in [Requests -> Job] /\ answered' \in [Requests -> {"no", "ok", "error"}]
  <2>1. job \in [Requests -> Job] /\ answered \in [Requests -> {"no", "ok", "error"}]
    BY DEF ClientInv, ClientTypeOK
  <2>2. [by |-> a, alive |-> TRUE, finished |-> FALSE] \in Job BY DEF Job
  <2>3. CASE UNCHANGED <<answered, toSystem>> /\ job' = job
    BY <2>1, <2>3
  <2>4. CASE /\ UNCHANGED <<answered, toSystem>>
             /\ job' = [job EXCEPT ![r] = [by |-> a, alive |-> TRUE, finished |-> FALSE]]
    BY <1>3, <2>1, <2>2, <2>4
  <2>5. CASE /\ answered' = [answered EXCEPT ![r] = IF answered[r] # "no" THEN answered[r] ELSE "error"]
             /\ Transmit(a, [kind |-> "reply", req |-> r, target |-> AnyApp, ok |-> FALSE])
             /\ job' = job
    <3>1. ToldSystem(a, r, "reply")' BY <1>3, <2>5, AnswerIsSent DEF Transmit
    <3> QED BY <1>3, <2>1, <2>5, <3>1
  <2> QED BY <1>4, <2>3, <2>4, <2>5
<1>9. \A s \in Requests : AskFits(s)'
  <2>1. \A s \in Requests : SameForAsk(s) BY <1>6, <1>7 DEF SameForAsk
  <2>2. \A s \in Requests : answered[s] = "ok" => answered'[s] = "ok" BY <1>8
  <2> QED BY <1>2, <2>1, <2>2, AskStays DEF ClientInv
<1>10. \A s \in Requests \ {r} : JobFits(s)'
  <2>1. \A s \in Requests \ {r} : SameForJob(s) BY <1>6, <1>7 DEF SameForJob
  <2> QED BY <1>2, <1>8, <2>1, JobStays, HandlerIsApp DEF ClientInv, JobFits
<1>11. JobFits(r)'
  <2>1. JobFits(r) /\ req'[r] = req[r] BY <1>2, <1>3 DEF ClientInv
  <2>2. req'[r].state \notin Unsent BY <1>3, <2>1 DEF JobFits, Unheard
  <2>3. Waits(r)' => HandlerDecides(r)'
    <3> SUFFICES ASSUME Waits(r) PROVE HandlerDecides(r)' BY <2>1 DEF Waits
    <3>1. PICK h : h = HandlerOf(r) OBVIOUS
    <3>2. /\ a = h /\ AppOnce(a, r, "request") /\ ~job[r].alive /\ answered[r] = "no"
          /\ \A b \in Apps : /\ ToldApp(b, r, "request") => b = h
                             /\ ~ToldSystem(b, r, "reply") /\ ~FirstIsYes(b, r)
      BY <1>3, <2>1, <3>1 DEF JobFits, HandlerDecides
    <3>3. \A b \in Apps : ~ToldApp(b, r, "request")' /\ ~FirstIsYes(b, r)'
      BY <1>3, <1>6, <1>7, <3>2
    <3>4. \A b \in Apps : ToldSystem(b, r, "reply")' => b = h /\ answered'[r] # "no"
      BY <1>7, <3>2
    <3>5. job'[r].alive => job'[r].by = h /\ answered'[r] = "no" BY <1>8, <3>2
    <3> QED BY <1>3, <2>1, <3>1, <3>3, <3>4, <3>5, DecisionStays
  <2>4. job'[r].alive => job'[r].by \in up' BY <1>2, <1>5, <1>8, <2>1 DEF JobFits
  <2>5. req'[r].ok => answered'[r] = "ok" BY <1>8, <2>1 DEF JobFits
  <2> QED BY <2>2, <2>3, <2>4, <2>5 DEF JobFits
<1>12. ClientTypeOK' BY <1>2, <1>5, <1>7, <1>8 DEF ClientInv, ClientTypeOK, Inv
<1>13. WiresFit'
  <2>1. \A b \in Apps \ up : toApp'[b] = toApp[b] BY <1>5
  <2> QED BY <1>2, <2>1 DEF ClientInv, WiresFit
<1> QED BY <1>9, <1>10, <1>11, <1>12, <1>13 DEF ClientInv

(* the handler answers, its timer does, or its destructor *)
LEMMA JobIsAnswered ==
    ASSUME ClientInv, Inv', NEW r \in Requests, NEW ok \in BOOLEAN, job[r].alive,
           Answer(job[r].by, r, ok),
           job' = [job EXCEPT ![r].finished = TRUE] \/ job' = [job EXCEPT ![r] = NoJob],
           UNCHANGED <<vars, ask, toApp, up>>
    PROVE  ClientInv'
<1>1. UNCHANGED <<req, ipc, ask, toApp, up>> BY DEF vars, connections
<1>2. JobFits(r) /\ job[r].by \in Apps
  BY DEF ClientInv, JobFits, ClientTypeOK
<1>3. PICK a \in Apps : a = job[r].by BY <1>2
<1>4. /\ answered' = [answered EXCEPT ![r] = IF answered[r] # "no" THEN answered[r]
                                             ELSE IF ok THEN "ok" ELSE "error"]
      /\ toSystem' = [toSystem EXCEPT ![a] = Append(@, [kind |-> "reply", req |-> r,
                                                       target |-> AnyApp, ok |-> ok])]
  BY <1>3 DEF Answer, Transmit
<1>5. /\ toSystem' \in [Apps -> Seq(ToServer)]
      /\ \A b \in Apps : \A s : /\ ToldSystem(b, s, "request")' <=> ToldSystem(b, s, "request")
                                /\ SystemOnce(b, s, "request") => SystemOnce(b, s, "request")'
                                /\ ToldSystem(b, s, "reply")' <=>
                                      ToldSystem(b, s, "reply") \/ (b = a /\ s = r)
                                /\ FirstIsYes(b, s)' =>
                                      \/ FirstIsYes(b, s)
                                      \/ b = a /\ s = r /\ ok /\ ~ToldSystem(b, s, "reply")
  <2>1. toSystem' = [toSystem EXCEPT ![a] = Append(@, [kind |-> "reply", req |-> r,
                                                      target |-> AnyApp, ok |-> ok])]
    BY <1>4
  <2>2. CASE ok = TRUE BY <2>1, <2>2, AnswerIsSent
  <2>3. CASE ok = FALSE BY <2>1, <2>3, AnswerIsSent
  <2> QED BY <2>2, <2>3
<1>6. job \in [Requests -> Job] /\ answered \in [Requests -> {"no", "ok", "error"}]
  BY DEF ClientInv, ClientTypeOK
<1>7. /\ answered' \in [Requests -> {"no", "ok", "error"}]
      /\ \A s \in Requests \ {r} : answered'[s] = answered[s]
      /\ answered'[r] = IF answered[r] # "no" THEN answered[r] ELSE IF ok THEN "ok" ELSE "error"
  BY <1>4, <1>6
<1>8. /\ job' \in [Requests -> Job] /\ \A s \in Requests \ {r} : job'[s] = job[s]
      /\ job'[r].alive => job'[r].by = job[r].by
  <2>1. CASE job' = [job EXCEPT ![r].finished = TRUE]
    <3>1. job[r] \in Job /\ [job[r] EXCEPT !.finished = TRUE] \in Job BY <1>6 DEF Job
    <3>2. job'[r] = [job[r] EXCEPT !.finished = TRUE] BY <1>6, <2>1
    <3>3. job' \in [Requests -> Job] BY <1>6, <2>1, <3>1
    <3>4. \A s \in Requests \ {r} : job'[s] = job[s] BY <1>6, <2>1
    <3>5. job'[r].by = job[r].by BY <3>1, <3>2 DEF Job
    <3> QED BY <3>3, <3>4, <3>5
  <2>2. CASE job' = [job EXCEPT ![r] = NoJob]
    <3>1. NoJob \in Job /\ ~NoJob.alive BY DEF NoJob, Job
    <3> QED BY <1>6, <2>2, <3>1
  <2> QED BY <2>1, <2>2
<1>9. \A b \in Apps : \A s :
         /\ ToldApp(b, s, "accepted")' <=> ToldApp(b, s, "accepted")
         /\ ToldApp(b, s, "reply")' <=> ToldApp(b, s, "reply")
         /\ ToldApp(b, s, "request")' <=> ToldApp(b, s, "request")
         /\ AppOnce(b, s, "request") => AppOnce(b, s, "request")'
         /\ AppOnce(b, s, "reply") => AppOnce(b, s, "reply")'
         /\ IdComesFirst(b, s) => IdComesFirst(b, s)'
         /\ Success(b, s)' => Success(b, s)
         /\ Refusal(b, s)' => Refusal(b, s)
  <2>1. \A b \in Apps : toApp'[b] = toApp[b] BY <1>1
  <2> QED BY <2>1, SameWire
<1>10. \A s \in Requests : AskFits(s)'
  <2>1. \A s \in Requests : SameForAsk(s) BY <1>5, <1>9 DEF SameForAsk
  <2>2. \A s \in Requests : answered[s] = "ok" => answered'[s] = "ok" BY <1>7
  <2> QED BY <1>1, <2>1, <2>2, AskStays DEF ClientInv
<1>11. \A s \in Requests \ {r} : JobFits(s)'
  <2>1. \A s \in Requests \ {r} : SameForJob(s) BY <1>5, <1>9 DEF SameForJob
  <2> QED BY <1>1, <1>7, <1>8, <2>1, JobStays, HandlerIsApp DEF ClientInv, JobFits
<1>12. JobFits(r)'
  <2>1. req'[r] = req[r] BY <1>1
  <2>2. req'[r].state \notin Unsent BY <1>2, <2>1 DEF JobFits, Unheard
  <2>3. Waits(r)' => HandlerDecides(r)'
    <3> SUFFICES ASSUME Waits(r) PROVE HandlerDecides(r)' BY <2>1 DEF Waits
    <3>1. PICK h : h = HandlerOf(r) OBVIOUS
    <3>2. /\ answered[r] # "no" => ToldSystem(h, r, "reply")
          /\ \A b \in Apps : /\ ~ToldApp(b, r, "request")
                             /\ ToldSystem(b, r, "reply") => b = h
                             /\ FirstIsYes(b, r) => answered[r] = "ok"
      BY <1>2, <1>3, <3>1 DEF JobFits, HandlerDecides
    <3>3. a = h BY <1>2, <1>3, <3>1 DEF JobFits, HandlerDecides
    <3>4. \A b \in Apps : /\ ~ToldApp(b, r, "request")'
                          /\ ToldSystem(b, r, "reply")' => b = h /\ answered'[r] # "no"
      BY <1>5, <1>7, <1>9, <3>2, <3>3
    <3>5. \A b \in Apps : FirstIsYes(b, r)' => answered'[r] = "ok"
      BY <1>5, <1>7, <3>2, <3>3
    <3>6. job'[r].alive => job'[r].by = h /\ ToldSystem(h, r, "reply")'
      BY <1>3, <1>5, <1>8, <3>3
    <3> QED BY <2>1, <3>1, <3>4, <3>5, <3>6, DecisionStays
  <2>4. req'[r].ok => answered'[r] = "ok" BY <1>2, <1>7, <2>1 DEF JobFits
  <2> QED BY <1>1, <1>2, <1>8, <2>2, <2>3, <2>4 DEF JobFits
<1>13. ClientTypeOK' BY <1>1, <1>5, <1>7, <1>8 DEF ClientInv, ClientTypeOK, Inv
<1>14. WiresFit' BY <1>1 DEF ClientInv, WiresFit
<1> QED BY <1>10, <1>11, <1>12, <1>13, <1>14 DEF ClientInv

LEMMA JobIsCollected ==
    ASSUME ClientInv, Inv', NEW r \in Requests, IncomingCollected(r)
    PROVE  ClientInv'
<1>1. CASE job[r].finished
  <2>1. job' = [job EXCEPT ![r] = NoJob] /\ UNCHANGED <<req, ipc, ask, answered, toSystem, toApp, up>>
    BY <1>1 DEF IncomingCollected, vars, connections
  <2>2. job \in [Requests -> Job] BY DEF ClientInv, ClientTypeOK
  <2>3. /\ job' \in [Requests -> Job] /\ \A s \in Requests \ {r} : job'[s] = job[s]
        /\ ~job'[r].alive
    BY <2>1, <2>2 DEF Job, NoJob
  <2>4. \A s \in Requests : SameForAsk(s) /\ SameForJob(s) BY <2>1, WiresRest
  <2>5. \A s \in Requests : AskFits(s)' BY <2>1, <2>4, AskStays DEF ClientInv
  <2>6. \A s \in Requests \ {r} : JobFits(s)'
    BY <2>1, <2>3, <2>4, JobStays, HandlerIsApp DEF ClientInv, JobFits
  <2>7. JobFits(r)'
    <3>1. JobFits(r) /\ req'[r] = req[r] /\ job[r].alive
      BY <2>1 DEF ClientInv, IncomingCollected
    <3>2. req'[r].state \notin Unsent BY <3>1 DEF JobFits, Unheard
    <3>3. Waits(r)' => HandlerDecides(r)'
      <4> SUFFICES ASSUME Waits(r) PROVE HandlerDecides(r)' BY <3>1 DEF Waits
      <4>1. PICK h : h = HandlerOf(r) OBVIOUS
      <4>2. \A b \in Apps : /\ ~ToldApp(b, r, "request")
                            /\ ToldSystem(b, r, "reply") => b = h /\ answered[r] # "no"
                            /\ FirstIsYes(b, r) => answered[r] = "ok"
        BY <3>1, <4>1 DEF JobFits, HandlerDecides
      <4>3. \A b \in Apps : /\ ~ToldApp(b, r, "request")'
                            /\ ToldSystem(b, r, "reply")' => b = h /\ answered'[r] # "no"
                            /\ FirstIsYes(b, r)' => answered'[r] = "ok"
        BY <2>1, <2>4, <4>2 DEF SameForJob
      <4> QED BY <2>3, <3>1, <4>1, <4>3, DecisionStays
    <3> QED BY <2>1, <2>3, <3>1, <3>2, <3>3 DEF JobFits
  <2>8. ClientTypeOK' BY <2>1, <2>3 DEF ClientInv, ClientTypeOK, Inv
  <2>9. WiresFit' BY <2>1 DEF ClientInv, WiresFit
  <2> QED BY <2>5, <2>6, <2>7, <2>8, <2>9 DEF ClientInv
<1>2. CASE ~job[r].finished
  BY <1>2, JobIsAnswered DEF IncomingCollected
<1> QED BY <1>1, <1>2

LEMMA JobReplies ==
    ASSUME ClientInv, Inv', NEW r \in Requests, NEW ok \in BOOLEAN,
           SendReply(r, ok) \/ ReplyTimeout(r)
    PROVE  ClientInv'
<1>1. \A answer \in BOOLEAN : Reply(r, answer) => ClientInv'
  <2> SUFFICES ASSUME NEW answer \in BOOLEAN, Reply(r, answer) PROVE ClientInv'
    OBVIOUS
  <2>1. job[r].alive /\ Answer(job[r].by, r, answer) BY DEF Reply
  <2>2. job' = [job EXCEPT ![r].finished = TRUE] /\ UNCHANGED <<vars, ask, toApp, up>>
    BY DEF Reply
  <2> QED BY <2>1, <2>2, JobIsAnswered
<1> QED BY <1>1 DEF SendReply, ReplyTimeout

-----------------------------------------------------------------------------
(* The server's end of the wire *)

(* a request that the server takes further *)
LEMMA AskGoesOn ==
    ASSUME NEW r \in Requests, ClientTypeOK, AskFits(r), SameForAsk(r), ask'[r] = ask[r],
           SameRequest(r), req'[r].deleteLater => req[r].broadcast, up' = up
    PROVE  AskFits(r)'
<1>1. ask[r].by = None => ask[r] = NoAsk BY DEF AskFits, AskIsOwned
<1>2. ~Unused(r) /\ ~Unused(r)' /\ req[r].state # "refused" /\ ~Past(req[r])
  BY DEF SameRequest, Live, Unused, Past
<1>3. /\ ~ask[r].ok
      /\ \A a \in Apps : /\ ~ToldSystem(a, r, "request") /\ ~ToldApp(a, r, "reply")
                         /\ ~Refusal(a, r)
                         /\ ToldApp(a, r, "accepted") => ask[r].by = a
  BY <1>2 DEF AskFits, RequestTravels, AnswersTravel, SuccessIsDue
<1>4. AskIsOwned(r)' BY DEF AskFits, AskIsOwned, SameRequest
<1>5. \A a \in Apps : /\ ~ToldSystem(a, r, "request")' /\ ~ToldApp(a, r, "reply")'
                      /\ ~Refusal(a, r)' /\ ~Success(a, r)' /\ IdComesFirst(a, r)'
                      /\ ToldApp(a, r, "accepted")' => ask'[r].by = a
  BY <1>3, NothingIsOnce DEF SameForAsk
<1>6. RequestTravels(r)' BY <1>5 DEF RequestTravels
<1>7. AnswersTravel(r)' BY <1>2, <1>5 DEF AnswersTravel
<1>8. SuccessIsDue(r)' BY <1>3 DEF SuccessIsDue
<1>9. WillHear(r)'
  <2> SUFFICES ASSUME ask[r].alive, ~ask[r].finished PROVE WillHear(r)'
    BY DEF WillHear
  <2>1. ask[r].by \in Apps BY <1>1 DEF NoAsk, ClientTypeOK, Ask
  <2>2. PICK b \in Apps : b = ask[r].by BY <2>1
  <2>3. ask[r].waiting \/ ToldApp(b, r, "accepted")
    BY <1>3, <2>2 DEF AskFits, WillHear
  <2>4. ask'[r].waiting \/ ToldApp(b, r, "accepted")' BY <2>3 DEF SameForAsk
  <2>5. ~req[r].broadcast BY DEF AskFits, AskIsOwned, SameRequest, NoAsk
  <2>6. Live(req'[r]) /\ ~req'[r].deleteLater BY <2>5 DEF SameRequest, Live
  <2>7. ask'[r].by = b BY <2>2
  <2> QED BY <2>4, <2>6, <2>7 DEF WillHear, Handled, Live, ToldApp, InApp
<1> QED BY <1>4, <1>6, <1>7, <1>8, <1>9 DEF AskFits

(* the server takes a message: its connection is shorter, and nothing else about it *)
LEMMA MessageIsTaken ==
    ASSUME ClientInv, NEW a \in Apps, toSystem[a] # <<>>,
           toSystem' = [toSystem EXCEPT ![a] = Tail(@)], NEW m, m = Head(toSystem[a])
    PROVE  /\ toSystem' \in [Apps -> Seq(ToServer)] /\ m \in ToServer
           /\ m.kind # "broadcast" =>
                 /\ m.req \in Requests /\ m.ok \in BOOLEAN /\ m.target \in Apps \cup {AnyApp}
                 /\ ToldSystem(a, m.req, m.kind)
                 /\ m.kind = "reply" /\ m.ok => FirstIsYes(a, m.req)
           /\ \A b \in Apps : \A s, kind :
                 /\ ToldSystem(b, s, kind)' => ToldSystem(b, s, kind)
                 /\ SystemOnce(b, s, kind) => SystemOnce(b, s, kind)'
                 /\ s # m.req \/ kind # m.kind =>
                       (ToldSystem(b, s, kind)' <=> ToldSystem(b, s, kind))
           /\ SystemOnce(a, m.req, m.kind) => ~ToldSystem(a, m.req, m.kind)'
           /\ \A b \in Apps : \A s :
                 m.kind # "reply" \/ s # m.req => (FirstIsYes(b, s)' => FirstIsYes(b, s))
<1>1. /\ toSystem' \in [Apps -> Seq(ToServer)] /\ m \in ToServer
      /\ \A b \in Apps : \A r, kind :
            /\ ToldSystem(b, r, kind)' => ToldSystem(b, r, kind)
            /\ ToldSystem(b, r, kind) => ToldSystem(b, r, kind)' \/ (m.kind = kind /\ m.req = r)
            /\ SystemOnce(b, r, kind) =>
                  /\ SystemOnce(b, r, kind)'
                  /\ b = a /\ m.kind = kind /\ m.req = r => ~ToldSystem(b, r, kind)'
      /\ \A b \in Apps : \A r :
            FirstIsYes(b, r)' => FirstIsYes(b, r) \/ (m.kind = "reply" /\ m.req = r)
      /\ \A r, kind : m.kind = kind /\ m.req = r =>
            /\ ToldSystem(a, r, kind)
            /\ kind = "reply" /\ m.ok => FirstIsYes(a, r)
  BY SystemReceives DEF ClientInv
<1>2. /\ m.kind # "broadcast" =>
            /\ m.req \in Requests /\ m.ok \in BOOLEAN /\ m.target \in Apps \cup {AnyApp}
  BY <1>1 DEF ToServer
<1>4. ASSUME NEW b \in Apps, NEW s, NEW kind
      PROVE  /\ ToldSystem(b, s, kind)' => ToldSystem(b, s, kind)
             /\ SystemOnce(b, s, kind) => SystemOnce(b, s, kind)'
             /\ s # m.req \/ kind # m.kind =>
                   (ToldSystem(b, s, kind)' <=> ToldSystem(b, s, kind))
  BY <1>1
<1>5. SystemOnce(a, m.req, m.kind) => ~ToldSystem(a, m.req, m.kind)'
  BY <1>1
<1> QED BY <1>1, <1>2, <1>4, <1>5

LEMMA RequestArrivesAtServer ==
    ASSUME ClientInv, Inv', NEW a \in Apps, MessageArrives(a),
           NEW m, m = Head(toSystem[a]), m.kind = "request", RequestArrives(a, m)
    PROVE  ClientInv'
<1>1. /\ toSystem[a] # <<>> /\ toSystem' = [toSystem EXCEPT ![a] = Tail(@)]
      /\ UNCHANGED <<ask, job, answered, up>>
  BY DEF MessageArrives, ends
<1>2. PICK r : r = m.req OBVIOUS
<1>3. /\ r \in Requests /\ m.target \in Apps \cup {AnyApp}
      /\ ToldSystem(a, r, "request") /\ toSystem' \in [Apps -> Seq(ToServer)]
      /\ SystemOnce(a, r, "request") => ~ToldSystem(a, r, "request")'
      /\ \A b \in Apps : \A s :
            /\ ToldSystem(b, s, "request")' => ToldSystem(b, s, "request")
            /\ s # r => (ToldSystem(b, s, "request")' <=> ToldSystem(b, s, "request"))
            /\ SystemOnce(b, s, "request") => SystemOnce(b, s, "request")'
            /\ ToldSystem(b, s, "reply")' <=> ToldSystem(b, s, "reply")
            /\ FirstIsYes(b, s)' => FirstIsYes(b, s)
  <2>1. /\ m.req \in Requests /\ m.target \in Apps \cup {AnyApp}
        /\ ToldSystem(a, m.req, m.kind) /\ toSystem' \in [Apps -> Seq(ToServer)]
        /\ SystemOnce(a, m.req, m.kind) => ~ToldSystem(a, m.req, m.kind)'
        /\ \A b \in Apps : \A s, kind :
              /\ ToldSystem(b, s, kind)' => ToldSystem(b, s, kind)
              /\ SystemOnce(b, s, kind) => SystemOnce(b, s, kind)'
              /\ s # m.req \/ kind # m.kind =>
                    (ToldSystem(b, s, kind)' <=> ToldSystem(b, s, kind))
        /\ \A b \in Apps : \A s : FirstIsYes(b, s)' => FirstIsYes(b, s)
    BY <1>1, MessageIsTaken
  <2>2. \A b \in Apps : \A s :
           /\ s # r => (ToldSystem(b, s, "request")' <=> ToldSystem(b, s, "request"))
           /\ ToldSystem(b, s, "reply")' <=> ToldSystem(b, s, "reply")
    BY <1>2, <2>1
  <2>3. \A b \in Apps : \A s : /\ ToldSystem(b, s, "request")' => ToldSystem(b, s, "request")
                               /\ SystemOnce(b, s, "request") => SystemOnce(b, s, "request")'
                               /\ FirstIsYes(b, s)' => FirstIsYes(b, s)
    BY <2>1
  <2> QED BY <1>2, <2>1, <2>2, <2>3
<1>4. AskFits(r) /\ JobFits(r) BY <1>3 DEF ClientInv
<1>5. /\ ask[r].by = a /\ Unused(r) /\ SystemOnce(a, r, "request")
      /\ \A b \in Apps : /\ ToldSystem(b, r, "request") => b = a
                         /\ ~ToldApp(b, r, "accepted") /\ ~ToldApp(b, r, "reply")
      /\ ~ask[r].ok
  <2>1. ask[r].by = a /\ Unused(r) /\ SystemOnce(a, r, "request")
    BY <1>3, <1>4 DEF AskFits, RequestTravels
  <2>2. \A b \in Apps : ToldSystem(b, r, "request") => b = a
    BY <1>4, <2>1 DEF AskFits, RequestTravels
  <2>3. ~Past(req[r])
    <3>1. ~req[r].deleteLater BY <1>3, <2>1, TypesAreTypeOK DEF ClientInv, Core, ObjectsAreFine, Fine, Unused
    <3> QED BY <2>1, <3>1 DEF Past, Unused
  <2>4. ~ask[r].ok BY <1>4, <2>3 DEF AskFits, SuccessIsDue
  <2>5. \A b \in Apps : ~ToldApp(b, r, "accepted") /\ ~ToldApp(b, r, "reply")
    BY <1>4, <2>1, <2>3 DEF AskFits, AnswersTravel
  <2> QED BY <2>1, <2>2, <2>4, <2>5
<1>6. \A b \in Apps : ~ToldSystem(b, r, "request")' BY <1>3, <1>5
<1>7. CASE UNCHANGED <<vars, toApp>> /\ ~ask[r].alive
  <2>1. UNCHANGED <<req, ipc>> /\ \A b \in Apps : toApp'[b] = toApp[b]
    BY <1>7 DEF vars, connections
  <2>2. \A s \in Requests : SameForJob(s) BY <1>3, <2>1, SameWire DEF SameForJob
  <2>3. \A s \in Requests \ {r} : SameForAsk(s) BY <1>3, <2>1, SameWire DEF SameForAsk
  <2>4. \A s \in Requests : JobFits(s)'
    BY <1>1, <2>1, <2>2, JobStays, HandlerIsApp DEF ClientInv, JobFits
  <2>5. \A s \in Requests \ {r} : AskFits(s)' BY <1>1, <2>1, <2>3, AskStays DEF ClientInv
  <2>6. AskFits(r)'
    <3>1. AskIsOwned(r)' BY <1>1, <1>4, <2>1 DEF AskFits, AskIsOwned, Live
    <3>2. RequestTravels(r)' BY <1>6 DEF RequestTravels
    <3>3. \A b \in Apps : /\ ~ToldApp(b, r, "accepted")' /\ ~ToldApp(b, r, "reply")'
                          /\ ~Success(b, r)' /\ ~Refusal(b, r)' /\ IdComesFirst(b, r)'
      BY <1>5, <2>1, SameWire, NothingIsOnce
    <3>4. AnswersTravel(r)' BY <3>3 DEF AnswersTravel
    <3>5. SuccessIsDue(r)' BY <1>1, <1>5 DEF SuccessIsDue
    <3>6. WillHear(r)' BY <1>1, <1>7 DEF WillHear
    <3> QED BY <3>1, <3>2, <3>4, <3>5, <3>6 DEF AskFits
  <2>7. ClientTypeOK' BY <1>1, <1>3, <1>7 DEF ClientInv, ClientTypeOK, Inv
  <2>8. WiresFit' BY <1>1, <2>1, <1>7 DEF ClientInv, WiresFit
  <2> QED BY <2>4, <2>5, <2>6, <2>7, <2>8 DEF ClientInv
<1>8. ASSUME NEW registered \in SUBSET Intents, RequestToSystem(registered, r, a, m.target),
             toApp' = Emit(toApp, a, [kind |-> "accepted", req |-> r, broadcast |-> FALSE,
                                      ok |-> req'[r].state # "refused"])
      PROVE  ClientInv'
  <2>1. PICK object :
           /\ req' = [req EXCEPT ![r] = object] /\ ~object.ok
           /\ \/ /\ object.state = "ReceivedRequest" /\ object.from = a /\ ~object.broadcast
                 /\ ~object.deleteLater
              \/ object.state = "refused"
    <3>1. CASE \E at \in Addresses :
                  Put(r, NewRequest(a, Candidates(registered, a, m.target), FALSE, at))
      <4>1. PICK at, object : /\ object = NewRequest(a, Candidates(registered, a, m.target), FALSE, at)
                              /\ Put(r, object)
        BY <3>1
      <4>2. /\ object.state = "ReceivedRequest" /\ object.from = a /\ ~object.broadcast
            /\ ~object.deleteLater /\ ~object.ok
        BY <4>1 DEF NewRequest
      <4> QED BY <4>1, <4>2 DEF Put
    <3>2. CASE Put(r, NoObject("refused"))
      <4>1. PICK object : object = NoObject("refused") /\ Put(r, object) BY <3>2
      <4>2. object.state = "refused" /\ ~object.ok BY <4>1 DEF NoObject
      <4> QED BY <4>1, <4>2 DEF Put
    <3> QED BY <1>8, <3>1, <3>2 DEF RequestToSystem
  <2>2. UNCHANGED ipc BY <1>8 DEF RequestToSystem, connections
  <2>3. req'[r] = object /\ \A s \in Requests \ {r} : req'[s] = req[s]
    BY <1>3, <2>1 DEF ClientInv, Inv, TypeOK
  <2>4. PICK n : n = [kind |-> "accepted", req |-> r, broadcast |-> FALSE,
                      ok |-> req'[r].state # "refused"]
    OBVIOUS
  <2>5. n \in ToClient /\ n.kind = "accepted" /\ n.req = r /\ (n.ok <=> object.state # "refused")
    BY <1>3, <2>3, <2>4 DEF ToClient
  <2>6. toApp' = Emit(toApp, a, n) BY <1>8, <2>4
  <2>7. /\ toApp' \in [Apps -> Seq(ToClient)]
        /\ \A b \in Apps : b # a \/ a \notin up => toApp'[b] = toApp[b]
        /\ \A b \in Apps : \A s, kind :
              /\ ToldApp(b, s, kind) => ToldApp(b, s, kind)'
              /\ ToldApp(b, s, kind)' =>
                    ToldApp(b, s, kind) \/ (b = a /\ n.kind = kind /\ n.req = s)
              /\ AppOnce(b, s, kind) =>
                    \/ AppOnce(b, s, kind)'
                    \/ b = a /\ n.kind = kind /\ n.req = s /\ ToldApp(b, s, kind)
        /\ \A b \in Apps : \A s :
              /\ IdComesFirst(b, s) =>
                    \/ IdComesFirst(b, s)'
                    \/ b = a /\ n.kind = "accepted" /\ n.req = s /\ ToldApp(b, s, "reply")
              /\ Success(b, s)' =>
                    Success(b, s) \/ (b = a /\ n.kind = "reply" /\ n.req = s /\ n.ok)
              /\ Refusal(b, s)' =>
                    Refusal(b, s) \/ (b = a /\ n.kind = "accepted" /\ n.req = s /\ ~n.ok)
        /\ a \in up => ToldApp(a, n.req, n.kind)'
    BY <2>5, <2>6, AppIsSent DEF ClientInv
  <2>8. \A s \in Requests : SameForJob(s) BY <1>3, <2>5, <2>7 DEF SameForJob
  <2>9. \A s \in Requests \ {r} : SameForAsk(s) BY <1>3, <2>5, <2>7 DEF SameForAsk
  <2>10. \A s \in Requests \ {r} : JobFits(s)'
    BY <1>1, <2>3, <2>8, JobStays, HandlerIsApp DEF ClientInv, JobFits
  <2>11. \A s \in Requests \ {r} : AskFits(s)'
    BY <1>1, <2>3, <2>9, AskStays DEF ClientInv
  <2>12. JobFits(r)'
    <3>1. Unheard(r) BY <1>4, <1>5 DEF JobFits, Unused, Unsent
    <3>2. Unheard(r)' BY <1>1, <2>8, <1>3, <3>1 DEF Unheard, SameForJob
    <3>3. ~job'[r].alive BY <1>1, <3>1 DEF Unheard
    <3>4. ~Waits(r)' BY <2>1, <2>3 DEF Waits
    <3> QED BY <2>1, <2>3, <3>2, <3>3, <3>4 DEF JobFits
  <2>13. AskFits(r)'
    <3>1. AskIsOwned(r)' BY <1>1, <1>4, <1>5, <2>1, <2>3 DEF AskFits, AskIsOwned, Live
    <3>2. RequestTravels(r)' BY <1>6 DEF RequestTravels
    <3>3. ~Unused(r)' BY <2>1, <2>3 DEF Unused
    <3>4. \A b \in Apps : /\ ToldApp(b, r, "accepted")' => ask'[r].by = b
                          /\ Refusal(b, r)' => req'[r].state = "refused"
      BY <1>1, <1>5, <2>3, <2>5, <2>7, NothingIsOnce
    <3>5. \A b \in Apps : /\ ~ToldApp(b, r, "reply")' /\ ~Success(b, r)' /\ IdComesFirst(b, r)'
      BY <1>5, <2>5, <2>7, NothingIsOnce
    <3>6. AnswersTravel(r)' BY <3>3, <3>4, <3>5 DEF AnswersTravel
    <3>7. SuccessIsDue(r)' BY <1>1, <1>5 DEF SuccessIsDue
    <3>8. WillHear(r)'
      <4> SUFFICES ASSUME ask[r].alive PROVE WillHear(r)' BY <1>1 DEF WillHear
      <4>1. a \in up BY <1>4, <1>5 DEF AskFits, AskIsOwned
      <4>2. ToldApp(a, r, "accepted")' /\ ask'[r].by = a BY <1>1, <1>5, <2>5, <2>7, <4>1
      <4>3. (Live(req'[r]) /\ ~req'[r].deleteLater) \/ req'[r].state = "refused"
        BY <2>1, <2>3 DEF Live
      <4> QED BY <4>2, <4>3 DEF WillHear, Handled, Live, ToldApp, InApp
    <3> QED BY <3>1, <3>2, <3>6, <3>7, <3>8 DEF AskFits
  <2>14. ClientTypeOK' BY <1>1, <1>3, <2>7 DEF ClientInv, ClientTypeOK, Inv
  <2>15. WiresFit' BY <1>1, <2>2, <2>7 DEF ClientInv, WiresFit
  <2> QED BY <2>10, <2>11, <2>12, <2>13, <2>14, <2>15 DEF ClientInv
<1> QED BY <1>2, <1>7, <1>8 DEF RequestArrives

LEMMA ReplyArrivesAtServer ==
    ASSUME ClientInv, Inv', NEW a \in Apps, MessageArrives(a),
           NEW m, m = Head(toSystem[a]), m.kind = "reply",
           ReplyFromApplication(a, m.req, m.ok), UNCHANGED toApp
    PROVE  ClientInv'
<1>1. /\ toSystem[a] # <<>> /\ toSystem' = [toSystem EXCEPT ![a] = Tail(@)]
      /\ UNCHANGED <<ask, job, answered, up>>
  BY DEF MessageArrives, ends
<1>2. PICK r : r = m.req OBVIOUS
<1>3. /\ r \in Requests /\ ToldSystem(a, r, "reply") /\ toSystem' \in [Apps -> Seq(ToServer)]
      /\ m.ok \in BOOLEAN /\ (m.ok => FirstIsYes(a, r))
      /\ \A b \in Apps : \A s :
            /\ ToldSystem(b, s, "request")' <=> ToldSystem(b, s, "request")
            /\ SystemOnce(b, s, "request") => SystemOnce(b, s, "request")'
            /\ s # r => (ToldSystem(b, s, "reply")' <=> ToldSystem(b, s, "reply"))
            /\ s # r => (FirstIsYes(b, s)' => FirstIsYes(b, s))
  <2>1. /\ m.req \in Requests /\ m.ok \in BOOLEAN /\ toSystem' \in [Apps -> Seq(ToServer)]
        /\ ToldSystem(a, m.req, m.kind) /\ (m.ok => FirstIsYes(a, m.req))
        /\ \A b \in Apps : \A s, kind :
              /\ ToldSystem(b, s, kind)' => ToldSystem(b, s, kind)
              /\ SystemOnce(b, s, kind) => SystemOnce(b, s, kind)'
              /\ s # m.req \/ kind # m.kind =>
                    (ToldSystem(b, s, kind)' <=> ToldSystem(b, s, kind))
        /\ \A b \in Apps : \A s : s # m.req => (FirstIsYes(b, s)' => FirstIsYes(b, s))
    BY <1>1, MessageIsTaken
  <2>2. \A b \in Apps : \A s :
           /\ ToldSystem(b, s, "request")' <=> ToldSystem(b, s, "request")
           /\ s # r => (ToldSystem(b, s, "reply")' <=> ToldSystem(b, s, "reply"))
    BY <1>2, <2>1
  <2>3. \A b \in Apps : \A s : /\ SystemOnce(b, s, "request") => SystemOnce(b, s, "request")'
                               /\ s # r => (FirstIsYes(b, s)' => FirstIsYes(b, s))
    BY <1>2, <2>1
  <2> QED BY <1>2, <2>1, <2>2, <2>3
<1>4. AskFits(r) /\ JobFits(r) /\ Core /\ req[r] \in Request
  BY <1>3, TypesAreTypeOK DEF ClientInv, Core, Types
<1>5. \A b \in Apps : toApp'[b] = toApp[b] OBVIOUS
<1>6. \A s \in Requests : SameForAsk(s) BY <1>3, <1>5, SameWire DEF SameForAsk
<1>7. \A s \in Requests \ {r} : SameForJob(s) BY <1>3, <1>5, SameWire DEF SameForJob
<1>8. UNCHANGED ipc /\ \A s \in Requests \ {r} : req'[s] = req[s]
  <2>1. CASE UNCHANGED <<req, queues, connections>> BY <2>1 DEF connections
  <2>2. CASE \E object : Put(r, object) /\ UNCHANGED connections
    BY <1>3, <2>2 DEF Put, connections, ClientInv, Inv, TypeOK
  <2> QED BY <1>2, <2>1, <2>2 DEF ReplyFromApplication, Resume
<1>9. \A s \in Requests \ {r} : JobFits(s)'
  BY <1>1, <1>7, <1>8, JobStays, HandlerIsApp DEF ClientInv, JobFits
<1>10. \A s \in Requests \ {r} : AskFits(s)' BY <1>1, <1>6, <1>8, AskStays DEF ClientInv
<1>11. AskFits(r)' /\ JobFits(r)'
  <2>1. req[r].state \notin Unsent BY <1>3, <1>4 DEF JobFits, Unheard
  <2>2. CASE r \notin waiting["replyFromApplication"] /\ req' = req
    <3>1. ~Waits(r)
      BY <1>3, <1>4, <2>2 DEF Core, QueuesMatchStates, Waits, WaitingStates, Stages
    <3>2. AskFits(r)' BY <1>1, <1>3, <1>4, <1>6, <2>2, AskStays DEF ClientInv
    <3>3. JobFits(r)' BY <1>1, <1>4, <2>1, <2>2, <3>1 DEF JobFits, Waits
    <3> QED BY <3>2, <3>3
  <2>3. CASE /\ r \in waiting["replyFromApplication"]
             /\ Put(r, Replied(req[r], m.ok /\ a = Handler[req[r].selected]))
    <3>1. req[r].state = "WaitingForReplyFromApplication" /\ Fine(req[r])
      BY <1>3, <1>4, <2>3 DEF Core, QueuesMatchStates, WaitingStates, Stages, ObjectsAreFine
    <3>2. ~req[r].deleteLater BY <3>1 DEF Fine
    <3>3. /\ req'[r].state = "ReceivedReplyFromApplication" /\ ~req'[r].deleteLater
          /\ req'[r].from = req[r].from /\ req'[r].broadcast = req[r].broadcast
          /\ req'[r].ok => m.ok /\ a = HandlerOf(r)
      <4>1. PICK ok : ok = (m.ok /\ a = Handler[req[r].selected]) OBVIOUS
      <4>2. req'[r] = [req[r] EXCEPT !.ok = ok, !.state = "ReceivedReplyFromApplication"]
        BY <1>3, <2>3, <4>1 DEF Put, Replied, ClientInv, Inv, TypeOK
      <4> QED BY <1>4, <3>2, <4>1, <4>2 DEF Request, HandlerOf
    <3>4. SameRequest(r) BY <3>1, <3>2, <3>3 DEF SameRequest, Live
    <3>5. AskFits(r)' BY <1>1, <1>3, <1>4, <1>6, <3>3, <3>4, AskGoesOn DEF ClientInv
    <3>6. req'[r].ok => answered[r] = "ok"
      BY <1>3, <1>4, <3>1, <3>3 DEF JobFits, Waits, HandlerDecides
    <3>7. ~Waits(r)' /\ req'[r].state \notin Unsent BY <3>3 DEF Waits, Unsent
    <3> QED BY <1>1, <1>4, <3>5, <3>6, <3>7 DEF JobFits
  <2> QED BY <1>2, <2>2, <2>3 DEF ReplyFromApplication, Resume
<1>12. ClientTypeOK' BY <1>1, <1>3 DEF ClientInv, ClientTypeOK, Inv
<1>13. WiresFit' BY <1>1, <1>8 DEF ClientInv, WiresFit
<1> QED BY <1>9, <1>10, <1>11, <1>12, <1>13 DEF ClientInv

LEMMA BroadcastArrivesAtServer ==
    ASSUME ClientInv, Inv', NEW a \in Apps, MessageArrives(a),
           NEW m, m = Head(toSystem[a]), m.kind = "broadcast", BroadcastArrives(a)
    PROVE  ClientInv'
<1>1. /\ toSystem[a] # <<>> /\ toSystem' = [toSystem EXCEPT ![a] = Tail(@)]
      /\ UNCHANGED <<ask, job, answered, up>>
  BY DEF MessageArrives, ends
<1>2. /\ toSystem' \in [Apps -> Seq(ToServer)]
      /\ \A b \in Apps : \A s :
            /\ ToldSystem(b, s, "request")' <=> ToldSystem(b, s, "request")
            /\ SystemOnce(b, s, "request") => SystemOnce(b, s, "request")'
            /\ ToldSystem(b, s, "reply")' <=> ToldSystem(b, s, "reply")
            /\ FirstIsYes(b, s)' => FirstIsYes(b, s)
  BY <1>1, MessageIsTaken
<1>3. toApp' = toApp BY DEF BroadcastArrives
<1>4. \A b \in Apps : toApp'[b] = toApp[b] BY <1>3
<1>5. \A s \in Requests : SameForAsk(s) BY <1>2, <1>4, SameWire DEF SameForAsk
<1>6. \A s \in Requests : SameForJob(s) BY <1>2, <1>4, SameWire DEF SameForJob
<1>7. /\ UNCHANGED ipc
      /\ \A s \in Requests :
            \/ req'[s] = req[s]
            \/ /\ Unused(s) /\ ask[s] = NoAsk
               /\ req'[s].state = "ReceivedRequest" /\ req'[s].broadcast /\ ~req'[s].ok
  <2>1. CASE UNCHANGED <<vars, toApp>> BY <2>1 DEF vars, connections
  <2>2. ASSUME NEW registered \in SUBSET Intents, BroadcastToSystem(registered, a),
               \A s \in Requests : Reserved(s) => req'[s] = req[s]
        PROVE  /\ UNCHANGED ipc
               /\ \A s \in Requests :
                     \/ req'[s] = req[s]
                     \/ /\ Unused(s) /\ ask[s] = NoAsk
                        /\ req'[s].state = "ReceivedRequest" /\ req'[s].broadcast /\ ~req'[s].ok
    <3> DEFINE potential == Candidates(registered, a, Broadcast)
               n == Cardinality(potential)
    <3>0. PICK new \in SUBSET {r \in Requests : Unused(r)} :
             \E to \in Bijection(new, potential), order \in Bijection(1 .. n, new),
                at \in Injection(new, {x \in Addresses : Free(x)}) :
                req' = [r \in Requests |->
                           IF r \in new THEN NewRequest(a, {to[r]}, TRUE, at[r]) ELSE req[r]]
      BY <2>2 DEF BroadcastToSystem
    <3> HIDE DEF n, potential
    <3>1. PICK to \in Bijection(new, potential), order \in Bijection(1 .. n, new),
               at \in Injection(new, {x \in Addresses : Free(x)}) :
             req' = [r \in Requests |->
                        IF r \in new THEN NewRequest(a, {to[r]}, TRUE, at[r]) ELSE req[r]]
      BY <3>0
    <3>2. ASSUME NEW s \in new
          PROVE  /\ Unused(s) /\ ask[s] = NoAsk
                 /\ req'[s].state = "ReceivedRequest" /\ req'[s].broadcast /\ ~req'[s].ok
      <4>1. req'[s] = NewRequest(a, {to[s]}, TRUE, at[s]) /\ Unused(s) /\ s \in Requests
        BY <3>1
      <4>2. req'[s].state = "ReceivedRequest" /\ req'[s].broadcast /\ ~req'[s].ok
        BY <4>1 DEF NewRequest
      <4>3. req'[s] # req[s] BY <4>1, <4>2 DEF Unused
      <4> QED BY <2>2, <4>1, <4>2, <4>3 DEF Reserved
    <3>3. \A s \in Requests \ new : req'[s] = req[s] BY <3>1
    <3>4. UNCHANGED ipc BY <2>2 DEF BroadcastToSystem, connections
    <3> QED BY <3>2, <3>3, <3>4
  <2> QED BY <2>1, <2>2 DEF BroadcastArrives
<1>8. ASSUME NEW s \in Requests PROVE AskFits(s)' /\ JobFits(s)'
  <2>1. CASE req'[s] = req[s]
    <3>1. AskFits(s)' BY <1>1, <1>5, <2>1, AskStays DEF ClientInv
    <3>2. JobFits(s)' BY <1>1, <1>6, <2>1, JobStays, HandlerIsApp DEF ClientInv, JobFits
    <3> QED BY <3>1, <3>2
  <2>2. CASE /\ Unused(s) /\ ask[s] = NoAsk
             /\ req'[s].state = "ReceivedRequest" /\ req'[s].broadcast /\ ~req'[s].ok
    <3>1. AskFits(s) /\ JobFits(s) /\ ask'[s] = NoAsk BY <1>1, <2>2 DEF ClientInv
    <3>2. ask[s].by = None /\ ~ask[s].ok /\ ~ask[s].alive BY <2>2 DEF NoAsk
    <3>3. \A b \in Apps : /\ ~ToldSystem(b, s, "request") /\ ~ToldApp(b, s, "accepted")
                          /\ ~ToldApp(b, s, "reply")
      BY <3>1, <3>2, ClientAssumption DEF AskFits, RequestTravels, AnswersTravel
    <3>4. \A b \in Apps :
             /\ ~ToldSystem(b, s, "request")' /\ ~ToldApp(b, s, "accepted")'
             /\ ~ToldApp(b, s, "reply")' /\ ~Success(b, s)' /\ ~Refusal(b, s)'
             /\ IdComesFirst(b, s)'
      BY <1>4, <1>5, <3>3, SameWire, NothingIsOnce DEF SameForAsk
    <3>5. AskIsOwned(s)' BY <1>1, <2>2, <3>1, <3>2 DEF AskIsOwned
    <3>6. RequestTravels(s)' BY <3>4 DEF RequestTravels
    <3>7. AnswersTravel(s)' BY <3>4 DEF AnswersTravel
    <3>8. SuccessIsDue(s)' /\ WillHear(s)' BY <1>1, <3>2 DEF SuccessIsDue, WillHear
    <3>9. Unheard(s) BY <2>2, <3>1 DEF JobFits, Unused, Unsent
    <3>10. Unheard(s)' BY <1>1, <1>6, <3>9 DEF Unheard, SameForJob
    <3>11. ~Waits(s)' /\ ~job'[s].alive BY <1>1, <2>2, <3>9 DEF Waits, Unheard
    <3>12. JobFits(s)' BY <2>2, <3>10, <3>11 DEF JobFits
    <3> QED BY <3>5, <3>6, <3>7, <3>8, <3>12 DEF AskFits
  <2> QED BY <1>7, <2>1, <2>2
<1>9. ClientTypeOK' BY <1>1, <1>2, <1>3 DEF ClientInv, ClientTypeOK, Inv
<1>10. WiresFit' BY <1>1, <1>3, <1>7 DEF ClientInv, WiresFit
<1> QED BY <1>8, <1>9, <1>10 DEF ClientInv

-----------------------------------------------------------------------------
(* Posted calls of the server *)

(* what is sent about one request is for its handler or its sender, and for nobody else *)
LEMMA ForwardedMessage ==
    ASSUME ClientInv, Inv', UNCHANGED toSystem, toApp' = Forward(toApp), NEW n, sent' = n
    PROVE  /\ toApp' \in [Apps -> Seq(ToClient)]
           /\ \A b \in Apps \ up : toApp'[b] = toApp[b]
           /\ \A r \in Requests : ~SentAbout(r) => SameForAsk(r) /\ SameForJob(r)
           /\ n # None =>
                 /\ \A b \in Apps : \A s, kind :
                       /\ ToldApp(b, s, kind) => ToldApp(b, s, kind)'
                       /\ ToldApp(b, s, kind)' =>
                             ToldApp(b, s, kind) \/ (b = n.to /\ n.kind = kind /\ n.req = s)
                       /\ AppOnce(b, s, kind) =>
                             AppOnce(b, s, kind)' \/ (ToldApp(b, s, kind) /\ n.kind = kind)
                 /\ \A b \in Apps : \A s :
                       /\ IdComesFirst(b, s) => IdComesFirst(b, s)'
                       /\ Success(b, s)' =>
                             Success(b, s) \/ (b = n.to /\ n.kind = "reply" /\ n.req = s /\ n.ok)
                       /\ Refusal(b, s)' => Refusal(b, s)
                 /\ n.to \in up => ToldApp(n.to, n.req, n.kind)'
<1>1. \A b \in Apps : \A s : /\ ToldSystem(b, s, "request")' <=> ToldSystem(b, s, "request")
                             /\ SystemOnce(b, s, "request") => SystemOnce(b, s, "request")'
                             /\ ToldSystem(b, s, "reply")' <=> ToldSystem(b, s, "reply")
                             /\ FirstIsYes(b, s)' => FirstIsYes(b, s)
  BY SameLine
<1>2. CASE sent' = None
  <2>1. toApp' = toApp BY <1>2 DEF Forward
  <2>2. \A b \in Apps : toApp'[b] = toApp[b] BY <2>1
  <2>3. \A r \in Requests : SameForAsk(r) BY <1>1, <2>2, SameWire DEF SameForAsk
  <2>4. \A r \in Requests : SameForJob(r) BY <1>1, <2>2, SameWire DEF SameForJob
  <2> QED BY <1>2, <2>1, <2>3, <2>4 DEF ClientInv, ClientTypeOK
<1>3. CASE sent' # None
  <2>1. n = sent' OBVIOUS
  <2>2. n \in Message /\ n # None BY <1>3, <2>1 DEF Inv, TypeOK
  <2>3. n.req \in Requests /\ n.to \in Apps /\ n.ok \in BOOLEAN /\ n.kind \in {"reply", "request"}
    BY <2>2 DEF Message
  <2>4. PICK m : m = [kind |-> n.kind, req |-> n.req, ok |-> n.ok, broadcast |-> req[n.req].broadcast]
    OBVIOUS
  <2>5. req[n.req].broadcast \in BOOLEAN
    BY <2>3, TypesAreTypeOK DEF ClientInv, Core, Types, Request
  <2>6. m \in ToClient /\ m.kind = n.kind /\ m.req = n.req /\ (m.ok <=> n.ok) /\ m.kind # "accepted"
    BY <2>3, <2>4, <2>5 DEF ToClient
  <2>7. toApp' = Emit(toApp, n.to, m) BY <2>1, <2>2, <2>4 DEF Forward
  <2>8. /\ toApp' \in [Apps -> Seq(ToClient)]
        /\ \A b \in Apps : b # n.to \/ n.to \notin up => toApp'[b] = toApp[b]
        /\ \A b \in Apps : \A s, kind :
              /\ ToldApp(b, s, kind) => ToldApp(b, s, kind)'
              /\ ToldApp(b, s, kind)' =>
                    ToldApp(b, s, kind) \/ (b = n.to /\ n.kind = kind /\ n.req = s)
              /\ AppOnce(b, s, kind) =>
                    \/ AppOnce(b, s, kind)'
                    \/ b = n.to /\ n.kind = kind /\ n.req = s /\ ToldApp(b, s, kind)
        /\ \A b \in Apps : \A s :
              /\ IdComesFirst(b, s) => IdComesFirst(b, s)'
              /\ Success(b, s)' =>
                    Success(b, s) \/ (b = n.to /\ n.kind = "reply" /\ n.req = s /\ n.ok)
              /\ Refusal(b, s)' => Refusal(b, s)
        /\ n.to \in up => ToldApp(n.to, n.req, n.kind)'
    BY <2>3, <2>6, <2>7, AppIsSent DEF ClientInv
  <2>9. ASSUME NEW s, s # n.req PROVE SameForAsk(s) /\ SameForJob(s)
    <3>1. SameForAsk(s) BY <1>1, <2>8, <2>9 DEF SameForAsk
    <3>2. SameForJob(s) BY <1>1, <2>8, <2>9 DEF SameForJob
    <3> QED BY <3>1, <3>2
  <2>10. \A r \in Requests : ~SentAbout(r) => r # n.req BY <1>3, <2>1 DEF SentAbout
  <2>11. \A b \in Apps \ up : toApp'[b] = toApp[b] BY <2>8
  <2>12. \A b \in Apps : \A s, kind :
            AppOnce(b, s, kind) => AppOnce(b, s, kind)' \/ (ToldApp(b, s, kind) /\ n.kind = kind)
    BY <2>8
  <2> QED BY <2>1, <2>8, <2>9, <2>10, <2>11, <2>12
<1> QED BY <1>2, <1>3

(* a request that is given out: whoever answers first is the one it is given to *)
LEMMA GivenOut ==
    ASSUME ClientInv, Inv', NEW r \in Requests, IsGivenOut(r), toApp' = Forward(toApp),
           UNCHANGED <<ends, toSystem, up>>
    PROVE  AskFits(r)' /\ JobFits(r)'
<1>1. AskFits(r) /\ JobFits(r) /\ UNCHANGED <<ask, job, answered, toSystem, up>>
  BY DEF ClientInv, ends
<1>2. PICK h : h = HandlerOf(r)' OBVIOUS
<1>3. PICK n : n = [kind |-> "request", ok |-> TRUE, req |-> r, to |-> h] OBVIOUS
<1>4. sent' = n /\ n.kind = "request" /\ n.req = r /\ n.to = h
  BY <1>2, <1>3 DEF IsGivenOut
<1>5. h \in Apps /\ n # None
  <2>1. h \in Apps BY <1>2 DEF IsGivenOut
  <2>2. n \in Message BY <1>3, <2>1 DEF Message
  <2> QED BY <2>1, <2>2, ClientAssumption
<1>6. \A b \in Apps :
         /\ ToldApp(b, r, "accepted")' <=> ToldApp(b, r, "accepted")
         /\ ToldApp(b, r, "reply")' <=> ToldApp(b, r, "reply")
         /\ AppOnce(b, r, "reply") => AppOnce(b, r, "reply")'
         /\ ToldApp(b, r, "request")' => ToldApp(b, r, "request") \/ b = h
         /\ AppOnce(b, r, "request") => AppOnce(b, r, "request")' \/ ToldApp(b, r, "request")
         /\ IdComesFirst(b, r) => IdComesFirst(b, r)'
         /\ Success(b, r)' => Success(b, r)
         /\ Refusal(b, r)' => Refusal(b, r)
  <2>1. /\ \A b \in Apps : \A s, kind :
              /\ ToldApp(b, s, kind) => ToldApp(b, s, kind)'
              /\ ToldApp(b, s, kind)' =>
                    ToldApp(b, s, kind) \/ (b = n.to /\ n.kind = kind /\ n.req = s)
              /\ AppOnce(b, s, kind) =>
                    AppOnce(b, s, kind)' \/ (ToldApp(b, s, kind) /\ n.kind = kind)
        /\ \A b \in Apps : \A s :
              /\ IdComesFirst(b, s) => IdComesFirst(b, s)'
              /\ Success(b, s)' =>
                    Success(b, s) \/ (b = n.to /\ n.kind = "reply" /\ n.req = s /\ n.ok)
              /\ Refusal(b, s)' => Refusal(b, s)
    BY <1>1, <1>4, <1>5, ForwardedMessage
  <2> QED BY <1>4, <2>1
<1>7. \A b \in Apps : /\ ToldSystem(b, r, "request")' <=> ToldSystem(b, r, "request")
                      /\ SystemOnce(b, r, "request") => SystemOnce(b, r, "request")'
                      /\ ToldSystem(b, r, "reply")' <=> ToldSystem(b, r, "reply")
                      /\ FirstIsYes(b, r)' => FirstIsYes(b, r)
  BY <1>1, SameLine
<1>8. AskFits(r)'
  <2>1. SameForAsk(r) BY <1>6, <1>7 DEF SameForAsk
  <2>2. SameRequest(r) /\ (req'[r].deleteLater => req[r].broadcast)
    BY DEF IsGivenOut, SameRequest
  <2> QED BY <1>1, <2>1, <2>2, AskGoesOn DEF ClientInv
<1>9. JobFits(r)'
  <2>1. Unheard(r) BY <1>1 DEF JobFits, IsGivenOut
  <2>2. ~job'[r].alive /\ answered'[r] = "no" /\ ~req'[r].ok
    BY <1>1, <2>1 DEF Unheard, JobFits, IsGivenOut
  <2>3. req'[r].state \notin Unsent BY DEF IsGivenOut, Waits, Unsent
  <2>4. \A b \in Apps : /\ ToldApp(b, r, "request")' => b = h /\ AppOnce(b, r, "request")'
                        /\ ~ToldSystem(b, r, "reply")' /\ ~FirstIsYes(b, r)'
    BY <1>6, <1>7, <2>1, NothingIsOnce DEF Unheard
  <2>5. HandlerDecides(r)' BY <1>2, <2>2, <2>4 DEF HandlerDecides
  <2> QED BY <2>2, <2>3, <2>5 DEF JobFits
<1> QED BY <1>8, <1>9

(* the reply is on its way to a sender that lives and is waiting for it *)
LEMMA RepliedTo ==
    ASSUME ClientInv, Inv', NEW r \in Requests, IsRepliedTo(r), toApp' = Forward(toApp),
           UNCHANGED <<ends, toSystem, up>>
    PROVE  AskFits(r)' /\ JobFits(r)'
<1>1. /\ AskFits(r) /\ JobFits(r) /\ UNCHANGED <<ask, job, answered, toSystem, up>>
      /\ req[r] \in Request /\ req'[r] \in Request /\ up \subseteq ipc /\ ipc \subseteq Apps
  BY DEF ClientInv, ends, Inv, TypeOK, WiresFit
<1>2. PICK n : n = sent' OBVIOUS
<1>3. /\ SameRequest(r) /\ req'[r].state = "ReceivedReplyFromApplication"
      /\ req'[r].deleteLater /\ (req'[r].ok => req[r].ok)
  BY DEF IsRepliedTo
<1>4. ~Unused(r) /\ ~Unused(r)' /\ req[r].state # "refused" /\ ~Past(req[r]) /\ Past(req'[r])
  BY <1>3 DEF SameRequest, Live, Unused, Past
<1>5. JobFits(r)'
  <2>1. ~Waits(r)' /\ req'[r].state \notin Unsent BY <1>3 DEF Waits, Unsent
  <2> QED BY <1>1, <1>3, <2>1 DEF JobFits
<1>6. /\ ~ask[r].ok /\ (ask[r].by = None => ask[r] = NoAsk)
      /\ \A b \in Apps : /\ ~ToldSystem(b, r, "request") /\ ~ToldApp(b, r, "reply")
                         /\ ~Refusal(b, r) /\ ~Success(b, r)
                         /\ ToldApp(b, r, "accepted") => ask[r].by = b
  <2>1. ~ask[r].ok BY <1>1, <1>4 DEF AskFits, SuccessIsDue
  <2>2. ask[r].by = None => ask[r] = NoAsk BY <1>1 DEF AskFits, AskIsOwned
  <2>3. \A b \in Apps : ~ToldSystem(b, r, "request") BY <1>1, <1>4 DEF AskFits, RequestTravels
  <2>4. \A b \in Apps : /\ ~ToldApp(b, r, "reply") /\ ~Refusal(b, r)
                        /\ ToldApp(b, r, "accepted") => ask[r].by = b
    BY <1>1, <1>4 DEF AskFits, AnswersTravel
  <2> QED BY <2>1, <2>2, <2>3, <2>4, NothingIsOnce
<1>7. \A b \in Apps : ~ToldSystem(b, r, "request")' BY <1>1, <1>6, SameLine
<1>8. AskIsOwned(r)' BY <1>1, <1>3 DEF AskFits, AskIsOwned, SameRequest
<1>9. RequestTravels(r)' BY <1>7 DEF RequestTravels
<1>10. SuccessIsDue(r)' BY <1>1, <1>6 DEF SuccessIsDue
<1>11. CASE req[r].broadcast \/ req[r].from \notin ipc
  <2>1. n = None BY <1>2, <1>11 DEF IsRepliedTo
  <2>2. SameForAsk(r)
    <3>1. ~SentAbout(r) BY <1>2, <2>1 DEF SentAbout
    <3> QED BY <1>1, <1>2, <3>1, ForwardedMessage
  <2>3. \A b \in Apps : /\ ~ToldApp(b, r, "reply")' /\ ~Refusal(b, r)' /\ ~Success(b, r)'
                        /\ IdComesFirst(b, r)'
                        /\ ToldApp(b, r, "accepted")' => ask'[r].by = b
    BY <1>1, <1>6, <2>2, NothingIsOnce DEF SameForAsk
  <2>4. AnswersTravel(r)' BY <1>4, <2>3 DEF AnswersTravel
  <2>5. ~ask[r].alive
    BY <1>1, <1>3, <1>11 DEF AskFits, AskIsOwned, SameRequest, NoAsk
  <2>6. WillHear(r)' BY <1>1, <2>5 DEF WillHear
  <2> QED BY <1>5, <1>8, <1>9, <1>10, <2>4, <2>6 DEF AskFits
<1>12. CASE ~req[r].broadcast /\ req[r].from \in ipc
  <2>1. PICK b \in Apps : b = req[r].from BY <1>1, <1>12
  <2>2. n = [kind |-> "reply", ok |-> req'[r].ok, req |-> r, to |-> b]
    BY <1>2, <1>12, <2>1 DEF IsRepliedTo
  <2>3. /\ n.kind = "reply" /\ (n.ok <=> req'[r].ok) /\ n.req = r /\ n.to = b
        /\ n # None
    <3>1. n \in Message BY <1>1, <2>2 DEF Message, Request
    <3> QED BY <2>2, <3>1, ClientAssumption
  <2>4. ask[r].by = b BY <1>1, <1>3, <1>12, <2>1 DEF AskFits, AskIsOwned, SameRequest
  <2>5. /\ \A c \in Apps : \A kind :
              /\ ToldApp(c, r, kind) => ToldApp(c, r, kind)'
              /\ ToldApp(c, r, kind)' =>
                    ToldApp(c, r, kind) \/ (c = b /\ kind = "reply")
              /\ AppOnce(c, r, kind) =>
                    AppOnce(c, r, kind)' \/ (ToldApp(c, r, kind) /\ kind = "reply")
        /\ \A c \in Apps :
              /\ IdComesFirst(c, r) => IdComesFirst(c, r)'
              /\ Success(c, r)' => Success(c, r) \/ req'[r].ok
              /\ Refusal(c, r)' => Refusal(c, r)
        /\ b \in up => ToldApp(b, r, "reply")'
    <3>1. /\ \A c \in Apps : \A s, kind :
                /\ ToldApp(c, s, kind) => ToldApp(c, s, kind)'
                /\ ToldApp(c, s, kind)' =>
                      ToldApp(c, s, kind) \/ (c = n.to /\ n.kind = kind /\ n.req = s)
                /\ AppOnce(c, s, kind) =>
                      AppOnce(c, s, kind)' \/ (ToldApp(c, s, kind) /\ n.kind = kind)
          /\ \A c \in Apps : \A s :
                /\ IdComesFirst(c, s) => IdComesFirst(c, s)'
                /\ Success(c, s)' =>
                      Success(c, s) \/ (c = n.to /\ n.kind = "reply" /\ n.req = s /\ n.ok)
                /\ Refusal(c, s)' => Refusal(c, s)
          /\ n.to \in up => ToldApp(n.to, n.req, n.kind)'
      BY <1>1, <1>2, <2>3, ForwardedMessage
    <3>2. b \in up => ToldApp(b, r, "reply")' BY <2>3, <3>1
    <3> QED BY <2>3, <3>1, <3>2
  <2>6. \A c \in Apps :
           /\ ToldApp(c, r, "accepted")' => ask'[r].by = c
           /\ ToldApp(c, r, "reply")' => ask'[r].by = c /\ AppOnce(c, r, "reply")'
           /\ Success(c, r)' => answered'[r] = "ok"
           /\ ~Refusal(c, r)' /\ IdComesFirst(c, r)'
    BY <1>1, <1>3, <1>6, <2>4, <2>5, NothingIsOnce DEF JobFits
  <2>7. AnswersTravel(r)' BY <1>4, <2>6 DEF AnswersTravel
  <2>8. WillHear(r)'
    <3> SUFFICES ASSUME ask[r].alive, ~ask[r].finished PROVE WillHear(r)'
      BY <1>1 DEF WillHear
    <3>1. b \in up BY <1>1, <2>4 DEF AskFits, AskIsOwned
    <3>2. ask[r].waiting \/ ToldApp(b, r, "accepted") BY <1>1, <1>6, <2>4 DEF AskFits, WillHear
    <3>3. (ask'[r].waiting \/ ToldApp(b, r, "accepted")') /\ ToldApp(b, r, "reply")'
      BY <1>1, <2>5, <3>1, <3>2
    <3>4. ask'[r].by = b BY <1>1, <2>4
    <3> QED BY <3>3, <3>4 DEF WillHear, Handled, ToldApp, InApp
  <2> QED BY <1>5, <1>8, <1>9, <1>10, <2>7, <2>8 DEF AskFits
<1> QED BY <1>11, <1>12

(* a request that goes to another stage, or from memory *)
LEMMA GoesOnOrVanishes ==
    ASSUME ClientInv, NEW r \in Requests, GoesOn(r) \/ Vanishes(r),
           SameForAsk(r), SameForJob(r), UNCHANGED <<ends, toSystem, up>>
    PROVE  AskFits(r)' /\ JobFits(r)'
<1>1. AskFits(r) /\ JobFits(r) /\ UNCHANGED <<ask, job, answered, toSystem, up>>
  BY DEF ClientInv, ends
<1>2. CASE GoesOn(r)
  <2>1. SameRequest(r) /\ ~req'[r].deleteLater BY <1>2 DEF GoesOn
  <2>2. AskFits(r)' BY <1>1, <2>1, AskGoesOn DEF ClientInv
  <2>3. ~Waits(r)' /\ (req'[r].ok => req[r].ok) BY <1>2 DEF GoesOn
  <2>4. req'[r].state \in Unsent => Unheard(r)
    BY <1>1, <1>2 DEF GoesOn, JobFits
  <2>5. Unheard(r) => Unheard(r)' BY <1>1 DEF Unheard, SameForJob
  <2>6. JobFits(r)' BY <1>1, <2>3, <2>4, <2>5 DEF JobFits
  <2> QED BY <2>2, <2>6
<1>3. CASE Vanishes(r)
  <2>1. /\ req'[r].state = "deleted" /\ ~req'[r].ok /\ Live(req[r]) /\ req[r].deleteLater
    BY <1>3 DEF Vanishes, NoObject
  <2>2. Past(req[r]) /\ Past(req'[r]) /\ ~Unused(r) /\ ~Unused(r)' /\ req[r].state # "refused"
    BY <2>1 DEF Past, Unused, Live
  <2>3. JobFits(r)'
    <3>1. ~Waits(r)' /\ req'[r].state \notin Unsent BY <2>1 DEF Waits, Unsent
    <3> QED BY <1>1, <2>1, <3>1 DEF JobFits
  <2>4. AskIsOwned(r)' BY <1>1, <2>1 DEF AskFits, AskIsOwned, Live
  <2>5. RequestTravels(r)'
    <3>1. \A b \in Apps : ~ToldSystem(b, r, "request") BY <1>1, <2>2 DEF AskFits, RequestTravels
    <3>2. \A b \in Apps : ~ToldSystem(b, r, "request")' BY <3>1 DEF SameForAsk
    <3> QED BY <3>2 DEF RequestTravels
  <2>6. AnswersTravel(r)'
    <3>1. \A b \in Apps :
             /\ ToldApp(b, r, "accepted") => ask[r].by = b
             /\ ToldApp(b, r, "reply") => ask[r].by = b /\ AppOnce(b, r, "reply")
             /\ ~Refusal(b, r) /\ (Success(b, r) => answered[r] = "ok") /\ IdComesFirst(b, r)
      BY <1>1, <2>2 DEF AskFits, AnswersTravel
    <3>2. \A b \in Apps :
             /\ ToldApp(b, r, "accepted")' => ask'[r].by = b
             /\ ToldApp(b, r, "reply")' => ask'[r].by = b /\ AppOnce(b, r, "reply")'
             /\ ~Refusal(b, r)' /\ (Success(b, r)' => answered'[r] = "ok") /\ IdComesFirst(b, r)'
      BY <1>1, <3>1 DEF SameForAsk
    <3> QED BY <2>2, <3>2 DEF AnswersTravel
  <2>7. SuccessIsDue(r)'
    <3>1. ask[r].ok => /\ ask[r].finished /\ answered[r] = "ok"
                       /\ \A b \in Apps : ~ToldApp(b, r, "reply")
      BY <1>1 DEF AskFits, SuccessIsDue
    <3>2. ask'[r].ok => /\ ask'[r].finished /\ answered'[r] = "ok"
                        /\ \A b \in Apps : ~ToldApp(b, r, "reply")'
      BY <1>1, <3>1 DEF SameForAsk
    <3> QED BY <2>2, <3>2 DEF SuccessIsDue
  <2>8. WillHear(r)'
    <3> SUFFICES ASSUME ask[r].alive, ~ask[r].finished PROVE WillHear(r)'
      BY <1>1 DEF WillHear
    <3>1. ask[r].by \in Apps
      BY <1>1 DEF AskFits, AskIsOwned, NoAsk, ClientInv, ClientTypeOK, Ask
    <3>2. PICK b \in Apps : b = ask[r].by BY <3>1
    <3>3. ~ToldSystem(b, r, "request") BY <1>1, <2>2 DEF AskFits, RequestTravels
    <3>4. (ask[r].waiting \/ ToldApp(b, r, "accepted")) /\ ToldApp(b, r, "reply")
      BY <1>1, <2>1, <2>2, <3>2, <3>3 DEF AskFits, WillHear, Handled
    <3>5. (ask'[r].waiting \/ ToldApp(b, r, "accepted")') /\ ToldApp(b, r, "reply")'
      BY <1>1, <3>4 DEF SameForAsk
    <3>6. ask'[r].by = b BY <1>1, <3>2
    <3> QED BY <3>5, <3>6 DEF WillHear, Handled, ToldApp, InApp
  <2> QED BY <2>3, <2>4, <2>5, <2>6, <2>7, <2>8 DEF AskFits
<1> QED BY <1>2, <1>3

LEMMA ServerSteps ==
    ASSUME ClientInv, Inv', SlotAnswers = {}, ServerStep
    PROVE  ClientInv'
<1>1. /\ \/ ProcessRequestQueue
         \/ \E r \in Requests : DeleteLater(r) \/ SystemUiAnswers(r)
         \/ \E a \in Apps : ApplicationWasStarted(a)
         \/ \E stage \in Stages : Timeout(stage)
      /\ toApp' = Forward(toApp) /\ UNCHANGED <<ends, toSystem, up>>
  BY DEF ServerStep, Posted
<1>2. \A r \in Requests : Advances(r) BY <1>1, PostedAdvances DEF ClientInv
<1>3. ipc' = ipc
  BY <1>1 DEF ProcessRequestQueue, DeleteLater, SystemUiAnswers, Resume, Timeout,
              AcknowledgeDisambiguationRequest, RejectDisambiguationRequest,
              ApplicationWasStarted, connections
<1>4. PICK n : sent' = n OBVIOUS
<1>5. /\ toApp' \in [Apps -> Seq(ToClient)] /\ \A b \in Apps \ up : toApp'[b] = toApp[b]
      /\ \A r \in Requests : ~SentAbout(r) => SameForAsk(r) /\ SameForJob(r)
  BY <1>1, <1>4, ForwardedMessage
<1>6. ASSUME NEW r \in Requests PROVE AskFits(r)' /\ JobFits(r)'
  <2>1. AskFits(r) /\ JobFits(r) /\ UNCHANGED <<ask, job, answered, up>>
    BY <1>1 DEF ClientInv, ends
  <2>2. CASE Keeps(r)
    <3>1. SameForAsk(r) /\ SameForJob(r) /\ req'[r] = req[r] BY <1>5, <2>2 DEF Keeps
    <3>2. AskFits(r)' BY <2>1, <3>1, AskStays DEF ClientInv
    <3>3. JobFits(r)' BY <2>1, <3>1, JobStays, HandlerIsApp DEF ClientInv, JobFits
    <3> QED BY <3>2, <3>3
  <2>3. CASE GoesOn(r) \/ Vanishes(r)
    <3>1. SameForAsk(r) /\ SameForJob(r) BY <1>5, <2>3 DEF GoesOn, Vanishes
    <3> QED BY <1>1, <2>3, <3>1, GoesOnOrVanishes
  <2>4. CASE IsGivenOut(r) BY <1>1, <2>4, GivenOut
  <2>5. CASE IsRepliedTo(r) BY <1>1, <2>5, RepliedTo
  <2> QED BY <1>2, <2>2, <2>3, <2>4, <2>5 DEF Advances
<1>7. ClientTypeOK' BY <1>1, <1>5 DEF ClientInv, ClientTypeOK, Inv, ends
<1>8. WiresFit' BY <1>1, <1>3, <1>5 DEF ClientInv, WiresFit
<1> QED BY <1>6, <1>7, <1>8 DEF ClientInv

-----------------------------------------------------------------------------
(* Connections *)

LEMMA ProcessConnects ==
    ASSUME ClientInv, Inv', NEW a \in Apps, Connects(a)
    PROVE  ClientInv'
<1>1. /\ UNCHANGED <<req, ask, job, answered, toSystem, toApp>>
      /\ ipc' = ipc \cup {a} /\ up' = up \cup {a}
  BY DEF Connects, ApplicationIsReady, ends
<1>2. \A r \in Requests : SameForAsk(r) /\ SameForJob(r) BY <1>1, WiresRest
<1>3. \A r \in Requests : AskFits(r)' BY <1>1, <1>2, AskStays DEF ClientInv
<1>4. \A r \in Requests : JobFits(r)'
  BY <1>1, <1>2, JobStays, HandlerIsApp DEF ClientInv, JobFits
<1>5. ClientTypeOK' BY <1>1 DEF ClientInv, ClientTypeOK, Inv
<1>6. WiresFit' BY <1>1 DEF ClientInv, WiresFit
<1> QED BY <1>3, <1>4, <1>5, <1>6 DEF ClientInv

(* what a process has sent before it died is lost when its connection is closed *)
LEMMA ConnectionCloses ==
    ASSUME ClientInv, Inv', NEW a \in Apps, Disconnects(a)
    PROVE  ClientInv'
<1>1. /\ UNCHANGED <<req, ask, job, answered, up, toApp>>
      /\ ipc' = ipc \ {a} /\ a \notin up /\ toSystem' = [toSystem EXCEPT ![a] = <<>>]
  BY DEF Disconnects, ApplicationGone, ends
<1>2. /\ toSystem \in [Apps -> Seq(ToServer)] /\ toSystem' \in [Apps -> Seq(ToServer)]
      /\ toSystem'[a] = <<>> /\ \A b \in Apps \ {a} : toSystem'[b] = toSystem[b]
  BY <1>1, EmptySeq DEF ClientInv, ClientTypeOK
<1>3. /\ \A b \in Apps : \A s, kind : /\ ToldSystem(b, s, kind)' => ToldSystem(b, s, kind)
                                      /\ SystemOnce(b, s, kind) => SystemOnce(b, s, kind)'
      /\ \A b \in Apps : \A s : FirstIsYes(b, s)' => FirstIsYes(b, s)
      /\ \A b \in Apps \ {a} : \A s, kind : ToldSystem(b, s, kind) => ToldSystem(b, s, kind)'
  <2>1. \A s, kind : ~ToldSystem(a, s, kind)' /\ SystemOnce(a, s, kind)' /\ ~FirstIsYes(a, s)'
    BY <1>2, EmptyLine
  <2>2. \A b \in Apps \ {a} : \A s :
           /\ \A kind : /\ ToldSystem(b, s, kind)' <=> ToldSystem(b, s, kind)
                        /\ SystemOnce(b, s, kind)' <=> SystemOnce(b, s, kind)
           /\ FirstIsYes(b, s)' <=> FirstIsYes(b, s)
    BY <1>2, SameLine
  <2> QED BY <2>1, <2>2
<1>4. \A b \in Apps : toApp'[b] = toApp[b] BY <1>1
<1>5. ASSUME NEW r \in Requests PROVE AskFits(r)'
  <2>1. AskFits(r) BY DEF ClientInv
  <2>2. AskIsOwned(r)' BY <1>1, <2>1 DEF AskFits, AskIsOwned, Live
  <2>3. RequestTravels(r)' BY <1>1, <1>3, <2>1 DEF AskFits, RequestTravels, Unused
  <2>4. AnswersTravel(r)' BY <1>1, <1>4, <2>1, SameWire DEF AskFits, AnswersTravel, Unused, Past
  <2>5. SuccessIsDue(r)' BY <1>1, <1>4, <2>1, SameWire DEF AskFits, SuccessIsDue, Past
  <2>6. WillHear(r)'
    <3> SUFFICES ASSUME ask[r].alive, ~ask[r].finished PROVE WillHear(r)'
      BY <1>1 DEF WillHear
    <3>1. ask[r].by \in Apps \ {a} BY <1>1, <2>1 DEF AskFits, AskIsOwned, ClientInv, ClientTypeOK
    <3>2. PICK b \in Apps \ {a} : b = ask[r].by BY <3>1
    <3>3. \/ ToldSystem(b, r, "request")
          \/ /\ ask[r].waiting \/ ToldApp(b, r, "accepted")
             /\ \/ Live(req[r]) /\ ~req[r].deleteLater
                \/ req[r].state = "refused"
                \/ ToldApp(b, r, "reply")
      BY <2>1, <3>2 DEF AskFits, WillHear, Handled
    <3>4. ToldSystem(b, r, "request") => ToldSystem(b, r, "request")' BY <1>3
    <3>5. \A kind : ToldApp(b, r, kind)' <=> ToldApp(b, r, kind) BY <1>4, SameWire
    <3>6. \/ ToldSystem(b, r, "request")'
          \/ /\ ask'[r].waiting \/ ToldApp(b, r, "accepted")'
             /\ \/ Live(req'[r]) /\ ~req'[r].deleteLater
                \/ req'[r].state = "refused"
                \/ ToldApp(b, r, "reply")'
      BY <1>1, <3>3, <3>4, <3>5
    <3>7. ask'[r].by = b BY <1>1, <3>2
    <3> QED BY <3>6, <3>7 DEF WillHear, Handled, Live, ToldApp, ToldSystem, InApp, InSystem
  <2> QED BY <2>2, <2>3, <2>4, <2>5, <2>6 DEF AskFits
<1>6. ASSUME NEW r \in Requests PROVE JobFits(r)'
  <2>1. JobFits(r) /\ req'[r] = req[r] BY <1>1 DEF ClientInv
  <2>2. \A b \in Apps : /\ ToldApp(b, r, "request")' <=> ToldApp(b, r, "request")
                        /\ AppOnce(b, r, "request")' <=> AppOnce(b, r, "request")
    BY <1>4, SameWire
  <2>3. Unheard(r) => Unheard(r)' BY <1>1, <1>3, <2>2 DEF Unheard
  <2>4. Waits(r)' => HandlerDecides(r)'
    <3> SUFFICES ASSUME Waits(r) PROVE HandlerDecides(r)' BY <2>1 DEF Waits
    <3>1. PICK h : h = HandlerOf(r) OBVIOUS
    <3>2. /\ job[r].alive => job[r].by = h /\ (answered[r] # "no" => ToldSystem(h, r, "reply"))
          /\ \A b \in Apps :
                /\ ToldApp(b, r, "request") => /\ b = h /\ AppOnce(b, r, "request")
                                               /\ ~job[r].alive /\ answered[r] = "no"
                /\ ToldSystem(b, r, "reply") => b = h /\ answered[r] # "no"
                /\ FirstIsYes(b, r) => answered[r] = "ok"
      BY <2>1, <3>1 DEF JobFits, HandlerDecides
    <3>3. job[r].alive => h \in Apps \ {a}
      BY <1>1, <2>1, <3>2 DEF JobFits, ClientInv, ClientTypeOK
    <3>4. job'[r].alive => job'[r].by = h /\ (answered'[r] # "no" => ToldSystem(h, r, "reply")')
      BY <1>1, <1>3, <3>2, <3>3
    <3>5. \A b \in Apps :
             /\ ToldApp(b, r, "request")' => /\ b = h /\ AppOnce(b, r, "request")'
                                             /\ ~job'[r].alive /\ answered'[r] = "no"
             /\ ToldSystem(b, r, "reply")' => b = h /\ answered'[r] # "no"
             /\ FirstIsYes(b, r)' => answered'[r] = "ok"
      BY <1>1, <1>3, <2>2, <3>2
    <3> QED BY <2>1, <3>1, <3>4, <3>5, DecisionStays
  <2> QED BY <1>1, <2>1, <2>3, <2>4 DEF JobFits
<1>7. ClientTypeOK' BY <1>1, <1>2 DEF ClientInv, ClientTypeOK, Inv
<1>8. WiresFit' BY <1>1 DEF ClientInv, WiresFit
<1> QED BY <1>5, <1>6, <1>7, <1>8 DEF ClientInv

-----------------------------------------------------------------------------
(* The invariant holds *)

LEMMA InitFits ==
    ASSUME ClientInit
    PROVE  ClientInv
<1>1. Inv /\ TypeOK
  <2>1. Inv BY InitKeepsInv DEF ClientInit
  <2> QED BY <2>1 DEF Inv
<1>2. /\ \A r \in Requests : ask[r] = NoAsk /\ job[r] = NoJob /\ answered[r] = "no"
      /\ \A a \in Apps : toSystem[a] = <<>> /\ toApp[a] = <<>>
      /\ ipc = {SystemUi} /\ up = {SystemUi}
      /\ \A r \in Requests : req[r] = NoObject("unused")
  BY DEF ClientInit, Init
<1>3. \A b \in Apps : \A r, kind : ~ToldApp(b, r, kind) /\ ~ToldSystem(b, r, kind)
  <2>1. \A b \in Apps : DOMAIN toApp[b] = {} /\ DOMAIN toSystem[b] = {} BY <1>2
  <2> QED BY <2>1 DEF ToldApp, ToldSystem
<1>4. ClientTypeOK
  <2>1. NoAsk \in Ask /\ NoJob \in Job BY DEF NoAsk, Ask, NoJob, Job
  <2>2. ask \in [Requests -> Ask] /\ job \in [Requests -> Job] BY <2>1 DEF ClientInit
  <2>3. /\ toSystem \in [Apps -> Seq(ToServer)] /\ toApp \in [Apps -> Seq(ToClient)]
        /\ answered \in [Requests -> {"no", "ok", "error"}]
    BY EmptySeq DEF ClientInit
  <2>4. up \subseteq Apps BY <1>2, IntentConstantsAssumption
  <2> QED BY <1>1, <2>2, <2>3, <2>4 DEF ClientTypeOK
<1>5. ASSUME NEW r \in Requests PROVE AskFits(r) /\ JobFits(r)
  <2>1. /\ ~ask[r].alive /\ ~ask[r].ok /\ ~job[r].alive /\ ~Live(req[r]) /\ ~req[r].ok
        /\ req[r].state = "unused"
    BY <1>2 DEF NoAsk, NoJob, NoObject, Live
  <2>2. AskIsOwned(r) BY <1>2, <2>1 DEF AskIsOwned
  <2>3. RequestTravels(r) BY <1>3 DEF RequestTravels
  <2>4. AnswersTravel(r) BY <1>3, NothingIsOnce DEF AnswersTravel
  <2>5. SuccessIsDue(r) /\ WillHear(r) BY <2>1 DEF SuccessIsDue, WillHear
  <2>6. Unheard(r) /\ ~Waits(r) BY <1>2, <1>3, <2>1 DEF Unheard, Waits
  <2> QED BY <2>1, <2>2, <2>3, <2>4, <2>5, <2>6 DEF AskFits, JobFits
<1>6. WiresFit BY <1>2 DEF WiresFit
<1> QED BY <1>1, <1>4, <1>5, <1>6 DEF ClientInv

(* every step of the composition is one of the server, or none *)
LEMMA ServerSees ==
    ASSUME ClientInv, [ClientNext]_allVars
    PROVE  [Next]_vars
<1>1. CASE ServerStep BY <1>1 DEF ServerStep, Posted, Next
<1>2. ASSUME NEW a \in Apps, Client(a) PROVE [Next]_vars
  <2>1. CASE MessageArrives(a)
    <3>1. PICK m : m = Head(toSystem[a]) OBVIOUS
    <3>2. m \in ToServer
      BY <2>1, <3>1, EmptySeq, HeadTailProperties DEF MessageArrives, ClientInv, ClientTypeOK
    <3>3. CASE m.kind = "request" /\ RequestArrives(a, m)
      <4>1. m.req \in Requests /\ m.target \in Apps \cup {AnyApp} BY <3>2, <3>3 DEF ToServer
      <4>2. UNCHANGED vars \/ \E registered \in SUBSET Intents :
               RequestToSystem(registered, m.req, a, m.target)
        BY <3>3 DEF RequestArrives
      <4> QED BY <4>1, <4>2 DEF Next, Application
    <3>4. CASE m.kind = "broadcast" /\ BroadcastArrives(a)
      BY <3>4 DEF BroadcastArrives, Next, Application
    <3>5. CASE m.kind = "reply" /\ ReplyFromApplication(a, m.req, m.ok)
      <4>1. m.req \in Requests /\ m.ok \in BOOLEAN BY <3>2, <3>5 DEF ToServer
      <4>2. a \in ipc BY <2>1 DEF MessageArrives
      <4>3. Application(a) BY <3>5, <4>1, <4>2 DEF Application
      <4> QED BY <4>3 DEF Next
    <3> QED BY <2>1, <3>1, <3>3, <3>4, <3>5 DEF MessageArrives
  <2>2. CASE Connects(a) BY <2>2 DEF Connects, Next, Application
  <2>3. CASE Disconnects(a) BY <2>3 DEF Disconnects, Next, Application
  <2>4. CASE UNCHANGED vars BY <2>4
  <2> QED
    BY <1>2, <2>1, <2>2, <2>3, <2>4
       DEF Client, SendIntentRequest, BroadcastIntentRequest, RequestToSystemFinished,
           ReplyFromSystem, RequestToApplication, Dies
<1>3. ASSUME NEW r \in Requests, RequestObject(r) PROVE [Next]_vars
  BY <1>3 DEF RequestObject, RequestTimeout, RequestCollected, SendReply, ReplyTimeout, Reply,
              IncomingCollected
<1>4. CASE UNCHANGED allVars BY <1>4 DEF allVars
<1> QED BY <1>1, <1>2, <1>3, <1>4 DEF ClientNext

LEMMA StepFits ==
    ASSUME ClientInv, SlotAnswers = {}, [ClientNext]_allVars
    PROVE  ClientInv'
<1>1. Inv' BY ServerSees, NextKeepsInv DEF ClientInv
<1>2. CASE ServerStep BY <1>1, <1>2, ServerSteps
<1>3. ASSUME NEW a \in Apps, Client(a) PROVE ClientInv'
  <2>1. ASSUME NEW r \in Requests, NEW target \in Apps \cup {AnyApp}, SendIntentRequest(a, r, target)
        PROVE  ClientInv'
    BY <1>1, <2>1, RequestIsSent
  <2>2. CASE BroadcastIntentRequest(a) BY <1>1, <2>2, BroadcastIsSent
  <2>3. CASE RequestToSystemFinished(a) BY <1>1, <2>3, IdIsLearnt
  <2>4. CASE ReplyFromSystem(a) BY <1>1, <2>4, ReplyIsHeard
  <2>5. CASE RequestToApplication(a) BY <1>1, <2>5, RequestIsHeard
  <2>6. CASE MessageArrives(a)
    <3>1. PICK m : m = Head(toSystem[a]) OBVIOUS
    <3>2. \/ m.kind = "request" /\ RequestArrives(a, m)
          \/ m.kind = "broadcast" /\ BroadcastArrives(a)
          \/ m.kind = "reply" /\ ReplyFromApplication(a, m.req, m.ok) /\ UNCHANGED toApp
      BY <2>6, <3>1 DEF MessageArrives
    <3> QED
      BY <1>1, <2>6, <3>1, <3>2, RequestArrivesAtServer, BroadcastArrivesAtServer,
         ReplyArrivesAtServer
  <2>7. CASE Connects(a) BY <1>1, <2>7, ProcessConnects
  <2>8. CASE Dies(a) BY <1>1, <2>8, ProcessDies
  <2>9. CASE Disconnects(a) BY <1>1, <2>9, ConnectionCloses
  <2> QED BY <1>3, <2>1, <2>2, <2>3, <2>4, <2>5, <2>6, <2>7, <2>8, <2>9 DEF Client
<1>4. ASSUME NEW r \in Requests, RequestObject(r) PROVE ClientInv'
  <2>1. CASE RequestTimeout(r) \/ RequestCollected(r) BY <1>1, <2>1, RequestTimesOut
  <2>2. ASSUME NEW ok \in BOOLEAN, SendReply(r, ok) PROVE ClientInv' BY <1>1, <2>2, JobReplies
  <2>3. CASE ReplyTimeout(r) BY <1>1, <2>3, JobReplies
  <2>4. CASE IncomingCollected(r) BY <1>1, <2>4, JobIsCollected
  <2> QED BY <1>4, <2>1, <2>2, <2>3, <2>4 DEF RequestObject
<1>5. CASE UNCHANGED allVars
  <2>1. UNCHANGED <<req, ipc, ask, job, answered, toSystem, toApp, up>>
    BY <1>5 DEF allVars, vars, connections, ends, wires
  <2>2. \A r \in Requests : SameForAsk(r) /\ SameForJob(r) BY <2>1, WiresRest
  <2>3. \A r \in Requests : AskFits(r)' BY <2>1, <2>2, AskStays DEF ClientInv
  <2>4. \A r \in Requests : JobFits(r)'
    BY <2>1, <2>2, JobStays, HandlerIsApp DEF ClientInv, JobFits
  <2>5. ClientTypeOK' BY <1>1, <2>1 DEF ClientInv, ClientTypeOK, Inv
  <2>6. WiresFit' BY <2>1 DEF ClientInv, WiresFit
  <2> QED BY <1>1, <2>3, <2>4, <2>5, <2>6 DEF ClientInv
<1> QED BY <1>2, <1>3, <1>4, <1>5 DEF ClientNext

-----------------------------------------------------------------------------
(* Theorems *)

(* The inductive invariant holds in every state that the server and the applications can
   reach together. *)
THEOREM ClientInvariance ==
    ASSUME SlotAnswers = {}
    PROVE  ClientSpec => []ClientInv
<1>1. ClientInit => ClientInv
  BY InitFits
<1>2. ClientInv /\ [ClientNext]_allVars => ClientInv'
  BY StepFits
<1> QED BY <1>1, <1>2, PTL DEF ClientSpec

(* The request objects at both ends, the messages between them, and the server have their
   types. *)
THEOREM ClientTypesAreCorrect ==
    ASSUME SlotAnswers = {}
    PROVE  ClientSpec => []ClientTypeOK
<1>1. ClientInv => ClientTypeOK
  BY DEF ClientInv
<1> QED BY <1>1, ClientInvariance, PTL

(* An application that is still waiting for the result of an intent request does not wait
   in vain: the request is on its way, or its sender knows the id and the server still works
   on it, or has sent the answer that the id is needed for. *)
THEOREM AnswersWillCome ==
    ASSUME SlotAnswers = {}
    PROVE  ClientSpec => []AnswerWillCome
<1>1. ClientInv => AnswerWillCome
  <2> SUFFICES ASSUME ClientInv, NEW r \in Requests, ask[r].alive, ~ask[r].finished
               PROVE  LET sender == ask[r].by
                          known == ask[r].waiting \/ OnWire(toApp[sender], r, "accepted")
                          handled == \/ Live(req[r]) /\ ~req[r].deleteLater
                                     \/ req[r].state = "refused"
                                     \/ OnWire(toApp[sender], r, "reply")
                      IN  OnWire(toSystem[sender], r, "request") \/ (known /\ handled)
    BY DEF AnswerWillCome
  <2>1. WillHear(r) BY DEF ClientInv, AskFits
  <2>2. \A b, kind : /\ ToldApp(b, r, kind) <=> OnWire(toApp[b], r, kind)
                     /\ ToldSystem(b, r, kind) <=> OnWire(toSystem[b], r, kind)
    BY DEF ToldApp, ToldSystem, InApp, InSystem, OnWire
  <2> QED BY <2>1, <2>2 DEF WillHear, Handled
<1> QED BY <1>1, ClientInvariance, PTL

(* A request succeeds only if the first answer that its handler gave was a positive one,
   though every later answer is sent to the server as well. *)
THEOREM SuccessesAreFirstAnswers ==
    ASSUME SlotAnswers = {}
    PROVE  ClientSpec => []SuccessIsFirstAnswer
<1>1. ClientInv => SuccessIsFirstAnswer
  BY DEF ClientInv, AskFits, SuccessIsDue, SuccessIsFirstAnswer
<1> QED BY <1>1, ClientInvariance, PTL

Final ==
    \A r \in Requests : ask[r].finished /\ ask[r].ok
        => (ask'[r].finished /\ ask'[r].ok) \/ ~ask'[r].alive

LEMMA SuccessStays ==
    ASSUME ClientInv, ClientNext
    PROVE  Final
<1> SUFFICES ASSUME NEW r \in Requests, ask[r].finished, ask[r].ok
             PROVE  (ask'[r].finished /\ ask'[r].ok) \/ ~ask'[r].alive
  BY DEF Final
<1>1. /\ AskFits(r) /\ ask[r] \in Ask /\ ask \in [Requests -> Ask]
      /\ Past(req[r]) /\ \A a \in Apps : ~ToldApp(a, r, "reply")
  BY DEF ClientInv, ClientTypeOK, AskFits, SuccessIsDue
<1>2. req[r].state # "refused" BY <1>1, PastFacts DEF ClientInv
<1>3. \A a \in Apps : ~Refusal(a, r) BY <1>1, <1>2 DEF AskFits, AnswersTravel
<1>4. CASE ServerStep BY <1>4 DEF ServerStep, Posted, ends
<1>5. ASSUME NEW a \in Apps, Client(a)
      PROVE  (ask'[r].finished /\ ask'[r].ok) \/ ~ask'[r].alive
  <2>1. ASSUME NEW s \in Requests, NEW target, SendIntentRequest(a, s, target)
        PROVE  ask'[r] = ask[r]
    <3>1. ask[s] = NoAsk BY <2>1 DEF SendIntentRequest
    <3>2. s # r BY <3>1 DEF NoAsk
    <3> QED BY <1>1, <2>1, <3>2 DEF SendIntentRequest
  <2>2. CASE RequestToSystemFinished(a)
    <3>1. PICK m, s : m = Head(toApp[a]) /\ s = m.req OBVIOUS
    <3>2. Arrived(a, "accepted") /\ s \in Requests /\ (~m.ok => Refusal(a, s))
      BY <2>2, <3>1, FirstMessage DEF RequestToSystemFinished, ClientInv
    <3>3. \/ ask' = ask
          \/ ask' = [ask EXCEPT ![s].waiting = TRUE]
          \/ ~m.ok /\ ask' = [ask EXCEPT ![s] = Finished(ask[s], FALSE)]
      BY <2>2, <3>1 DEF RequestToSystemFinished
    <3>4. CASE ask' = [ask EXCEPT ![s].waiting = TRUE]
      <4>1. ask'[r] = [ask[r] EXCEPT !.waiting = TRUE] \/ ask'[r] = ask[r]
        BY <1>1, <3>2, <3>4
      <4> QED BY <1>1, <4>1 DEF Ask
    <3>5. CASE ~m.ok /\ ask' = [ask EXCEPT ![s] = Finished(ask[s], FALSE)]
      <4>1. s # r BY <1>3, <3>2, <3>5
      <4> QED BY <1>1, <3>5, <4>1
    <3> QED BY <3>3, <3>4, <3>5
  <2>3. CASE ReplyFromSystem(a)
    <3>1. PICK m, s : m = Head(toApp[a]) /\ s = m.req OBVIOUS
    <3>2. Arrived(a, "reply") /\ s \in Requests /\ ToldApp(a, s, "reply")
      BY <2>3, <3>1, FirstMessage DEF ReplyFromSystem, ClientInv
    <3>3. ask' = ask \/ ask' = [ask EXCEPT ![s] = Finished(ask[s], m.ok)]
      BY <2>3, <3>1 DEF ReplyFromSystem
    <3>4. s # r BY <1>1, <3>2
    <3> QED BY <1>1, <3>3, <3>4
  <2>4. CASE Dies(a)
    <3>1. ask'[r] = ask[r] \/ ask'[r] = Collected(ask[r]) BY <2>4 DEF Dies
    <3> QED BY <3>1 DEF Collected, NoAsk
  <2>5. CASE ask' = ask BY <2>5
  <2> QED
    BY <1>5, <2>1, <2>2, <2>3, <2>4, <2>5
       DEF Client, BroadcastIntentRequest, RequestToApplication, MessageArrives, Connects,
           Disconnects, ends
<1>6. ASSUME NEW s \in Requests, RequestObject(s)
      PROVE  (ask'[r].finished /\ ask'[r].ok) \/ ~ask'[r].alive
  <2>1. CASE RequestTimeout(s)
    <3>1. s # r BY <2>1 DEF RequestTimeout
    <3> QED BY <1>1, <2>1, <3>1 DEF RequestTimeout
  <2>2. CASE RequestCollected(s)
    <3>1. ask'[r] = ask[r] \/ ask'[r] = Collected(ask[r])
      BY <1>1, <2>2 DEF RequestCollected
    <3> QED BY <3>1 DEF Collected, NoAsk
  <2>3. CASE ask' = ask BY <2>3
  <2> QED
    BY <1>6, <2>1, <2>2, <2>3 DEF RequestObject, SendReply, ReplyTimeout, Reply, IncomingCollected
<1> QED BY <1>4, <1>5, <1>6 DEF ClientNext

(* A request that has succeeded at its sender is never taken back, by whatever timer fires
   or message arrives later, as long as the sender keeps it. *)
THEOREM SuccessesAreFinal ==
    ASSUME SlotAnswers = {}
    PROVE  ClientSpec => SuccessIsFinal
<1>1. ClientInv /\ [ClientNext]_allVars => [Final]_allVars
  BY SuccessStays
<1>2. ClientSpec => [][Final]_allVars
  BY <1>1, ClientInvariance, PTL DEF ClientSpec
<1> QED BY <1>2 DEF SuccessIsFinal, Final

============================================================================
