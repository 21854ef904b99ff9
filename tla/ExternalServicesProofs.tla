---------------------- MODULE ExternalServicesProofs ----------------------
(* Proofs about XdsClient, for every set of resources of every type and    *)
(* every number of versions, changes and faults, about Startup, for every  *)
(* number of runtimes, listeners and places in a channel, and about        *)
(* ExternalProcessing, for every number of frames and merge limit.         *)
EXTENDS XdsClient, ExternalProcessing, Startup, Induction, SequenceTheorems, TLAPS

\* What a response, a batch or what is left of one may be: its resources have
\* one type, and none is both updated and removed.
OneType(versions, gone) ==
    \E type \in TypeUrls : \A r \in Resources :
        (versions[r] # 0 => TypeOf[r] = type /\ r \notin gone) /\ (r \in gone => TypeOf[r] = type)

Versions == [Resources -> Nat]

Responses == {m \in [type : TypeUrls, versions : Versions, gone : SUBSET Resources] :
                 OneType(m.versions, m.gone)}

Batches == {b \in [id : Nat, versions : Versions, gone : SUBSET Resources, rejected : BOOLEAN] :
               OneType(b.versions, b.gone)}

XdsShape ==
    /\ want \in Versions
    /\ inbox \in Seq(Responses)
    /\ spent \in [changes : Nat, batches : Nat, faults : Nat]
    /\ batches \in Seq(Batches)
    /\ todo \in Batches /\ pending \in Batches
    /\ outcome \in {"none", "applied", "rejected"}

(* Batches are numbered in the order in which they are handed over, and    *)
(* the one the worker waits for is the last that was.                      *)
BatchesInOrder ==
    /\ \A i \in DOMAIN batches : batches[i].id \in 1..spent.batches /\ todo.id < batches[i].id
    /\ \A i, j \in DOMAIN batches : i < j => batches[i].id < batches[j].id
    /\ todo = Idle \/ todo.id \in 1..spent.batches
    /\ pending = Idle \/ (pending.id = spent.batches /\ pending.id # 0)
    /\ \A i \in DOMAIN batches : batches[i].id = pending.id => batches[i] = pending

(* Of the batch the worker waits for, unless a part was rejected, every    *)
(* update is still to do or in force.                                      *)
BatchUnderWay ==
    todo.id = pending.id /\ pending # Idle =>
        /\ todo.gone \subseteq pending.gone
        /\ \A r \in Resources :
              \/ todo.versions[r] = pending.versions[r]
              \/ /\ todo.versions[r] = 0
                 /\ todo.rejected \/ inForce[r] = pending.versions[r]

(* Once its outcome is known nothing is left to apply, and what was        *)
(* accepted is in force.                                                   *)
OutcomeHolds ==
    outcome # "none" =>
        /\ pending # Idle /\ todo = Idle /\ batches = <<>>
        /\ outcome = "applied" =>
              \A r \in Resources : pending.versions[r] # 0 => inForce[r] = pending.versions[r]

(* The inductive invariant. *)
XdsInv == XdsShape /\ BatchesInOrder /\ BatchUnderWay /\ OutcomeHolds

----------------------------------------------------------------------------

(* No batch is a batch without resources. *)
LEMMA IdleBatch ==
  /\ Idle \in Batches /\ Idle.id = 0 /\ Idle.gone = {}
  /\ \A r \in Resources : Idle.versions[r] = 0
<1>1. None \in Versions /\ \A r \in Resources : None[r] = 0
  BY DEF None, Versions
<1>2. OneType(None, {})
  <2>1. "Secret" \in TypeUrls
    BY DEF TypeUrls
  <2> QED BY <1>1, <2>1 DEF OneType
<1> QED BY <1>1, <1>2 DEF Idle, Batches

(* The initial state is in the invariant. *)
LEMMA XdsInitInv == XdsInit => XdsInv
<1> SUFFICES ASSUME XdsInit PROVE XdsInv
  OBVIOUS
<1>1. XdsShape
  BY IdleBatch DEF XdsInit, XdsShape, None, Versions
<1>2. BatchesInOrder /\ BatchUnderWay /\ OutcomeHolds
  BY IdleBatch DEF XdsInit, BatchesInOrder, BatchUnderWay, OutcomeHolds
<1> QED BY <1>1, <1>2 DEF XdsInv

(* Steps of the server, the stream and the subscriptions. *)
LEMMA OtherSteps ==
  ASSUME XdsInv, UNCHANGED <<batches, todo, pending, outcome, inForce>>,
         spent'.batches = spent.batches,
         want' \in Versions, inbox' \in Seq(Responses),
         spent' \in [changes : Nat, batches : Nat, faults : Nat]
  PROVE  XdsInv'
<1>1. XdsShape'
  BY DEF XdsInv, XdsShape
<1>2. BatchesInOrder' /\ BatchUnderWay' /\ OutcomeHolds'
  BY DEF XdsInv, BatchesInOrder, BatchUnderWay, OutcomeHolds
<1> QED BY <1>1, <1>2 DEF XdsInv

(* The update or the removal of one resource of a batch: whatever a        *)
(* cluster takes with it is of another type, so not of this batch.         *)
LEMMA ApplyOne ==
  ASSUME XdsInv, NEW r \in Resources, NEW v \in Nat, NEW accepted \in BOOLEAN,
         \/ v # 0 /\ todo.versions[r] = v
         \/ v = 0 /\ r \in todo.gone /\ Updated(todo.versions) = {},
         Put(r, v, accepted),
         todo' \in [id : Nat, versions : Versions, gone : SUBSET Resources, rejected : BOOLEAN],
         todo'.id = todo.id,
         todo'.versions = [todo.versions EXCEPT ![r] = 0],
         todo'.gone \subseteq todo.gone,
         ~todo'.rejected => ~todo.rejected /\ accepted,
         UNCHANGED <<want, inbox, batches, pending, outcome>>,
         spent'.batches = spent.batches,
         spent' \in [changes : Nat, batches : Nat, faults : Nat]
  PROVE  XdsInv'
<1> USE DEF XdsInv
<1>0. /\ todo \in [id : Nat, versions : Versions, gone : SUBSET Resources, rejected : BOOLEAN]
      /\ pending \in [id : Nat, versions : Versions, gone : SUBSET Resources, rejected : BOOLEAN]
      /\ OneType(todo.versions, todo.gone) /\ OneType(pending.versions, pending.gone)
  BY DEF XdsShape, Batches
<1>1. todo # Idle
  BY IdleBatch
<1>2. todo.versions \in Versions /\ \A q \in Resources : todo'.versions[q] = IF q = r THEN 0 ELSE todo.versions[q]
  BY <1>0 DEF Versions
<1>3. OneType(todo'.versions, todo'.gone)
  BY <1>0, <1>2 DEF OneType
<1>4. XdsShape'
  BY <1>3 DEF XdsShape, Batches
<1>5. BatchesInOrder'
  BY <1>1 DEF BatchesInOrder
<1>6. OutcomeHolds'
  BY <1>1 DEF OutcomeHolds
<1>7. BatchUnderWay'
  <2> SUFFICES ASSUME todo'.id = pending'.id, pending' # Idle
               PROVE  /\ todo'.gone \subseteq pending'.gone
                      /\ \A q \in Resources :
                            \/ todo'.versions[q] = pending'.versions[q]
                            \/ /\ todo'.versions[q] = 0
                               /\ todo'.rejected \/ inForce'[q] = pending'.versions[q]
    BY DEF BatchUnderWay
  <2>1. /\ todo.gone \subseteq pending.gone
        /\ \A q \in Resources :
              \/ todo.versions[q] = pending.versions[q]
              \/ /\ todo.versions[q] = 0
                 /\ todo.rejected \/ inForce[q] = pending.versions[q]
    BY DEF BatchUnderWay
  <2>2. pending.versions[r] = v
    <3>1. CASE v # 0 /\ todo.versions[r] = v
      BY <2>1, <3>1
    <3>2. CASE v = 0 /\ r \in todo.gone
      BY <1>0, <2>1, <3>2 DEF OneType
    <3> QED BY <3>1, <3>2
  <2>3. \A q \in EndpointsOf[r] : q # r => pending.versions[q] = 0
    <3>1. PICK type \in TypeUrls : \A q \in Resources :
             /\ pending.versions[q] # 0 => TypeOf[q] = type
             /\ q \in pending.gone => TypeOf[q] = type
      BY <1>0 DEF OneType
    <3>2. TypeOf[r] = type
      BY <2>1, <2>2, <3>1
    <3>3. \A q \in EndpointsOf[r] : q \in Resources /\ TypeOf[q] # TypeOf[r]
      BY XdsAssumption
    <3> QED BY <3>1, <3>2, <3>3
  <2>4. CASE ~accepted
    BY <1>0, <1>2, <2>1, <2>4
  <2>5. CASE accepted
    <3>1. inForce' = WithVersion(r, v)
      BY <2>5 DEF Put
    <3>a. \A q \in Resources : inForce'[q] = IF q = r THEN v
                                             ELSE IF q \in EndpointsOf[r] THEN 0 ELSE inForce[q]
      <4>1. r \notin EndpointsOf[r]
        BY XdsAssumption
      <4> QED BY <3>1, <4>1 DEF WithVersion
    <3>2. ASSUME NEW q \in Resources
          PROVE  \/ todo'.versions[q] = pending.versions[q]
                 \/ /\ todo'.versions[q] = 0
                    /\ todo'.rejected \/ inForce'[q] = pending.versions[q]
      <4>1. CASE q = r
        BY <1>2, <2>2, <3>a, <4>1
      <4>2. CASE q # r /\ q \in EndpointsOf[r]
        BY <1>2, <2>1, <2>3, <4>2
      <4>3. CASE q # r /\ q \notin EndpointsOf[r]
        BY <1>0, <1>2, <2>1, <3>a, <4>3
      <4> QED BY <4>1, <4>2, <4>3
    <3> QED BY <2>1, <3>2
  <2> QED BY <2>4, <2>5
<1> QED BY <1>4, <1>5, <1>6, <1>7

(* Every step keeps the invariant. *)
LEMMA XdsStep == XdsInv /\ [XdsNext]_xdsVars => XdsInv'
<1> SUFFICES ASSUME XdsInv, [XdsNext]_xdsVars PROVE XdsInv'
  OBVIOUS
<1> DEFINE Record == [id : Nat, versions : Versions, gone : SUBSET Resources, rejected : BOOLEAN]
<1>0. /\ want \in Versions /\ inbox \in Seq(Responses)
      /\ spent \in [changes : Nat, batches : Nat, faults : Nat]
      /\ batches \in Seq(Batches)
      /\ todo \in Record /\ todo \in Batches /\ pending \in Batches
  BY DEF XdsInv, XdsShape, Batches
<1>a. Fault => /\ spent' \in [changes : Nat, batches : Nat, faults : Nat]
               /\ spent'.batches = spent.batches
  BY <1>0 DEF Fault
<1>1. ASSUME NEW r \in Resources, ServerChange(r) PROVE XdsInv'
  <2>1. /\ spent' \in [changes : Nat, batches : Nat, faults : Nat]
        /\ spent'.batches = spent.batches
    BY <1>0, <1>1 DEF ServerChange
  <2>2. want' \in Versions
    BY <1>0, <1>1 DEF ServerChange, Versions
  <2> QED BY <1>0, <1>1, <2>1, <2>2, OtherSteps DEF ServerChange, workerVars, configVars
<1>2. ASSUME NEW type \in TypeUrls, ServerSend(type) PROVE XdsInv'
  <2> DEFINE changed == {r \in Resources : TypeOf[r] = type /\ want[r] # told[r]}
             versions == [r \in Resources |-> IF r \in changed THEN want[r] ELSE 0]
             gone == {r \in changed : want[r] = 0}
             response == [type |-> type, versions |-> versions, gone |-> gone]
  <2>1. versions \in Versions /\ gone \in SUBSET Resources /\ OneType(versions, gone)
    BY <1>0 DEF Versions, OneType
  <2>2. response \in Responses
    <3> HIDE DEF versions, gone
    <3> QED BY <2>1 DEF Responses
  <2>3. inbox' = Append(inbox, response)
    BY <1>2 DEF ServerSend
  <2>4. inbox' \in Seq(Responses)
    <3> HIDE DEF response
    <3> QED BY <1>0, <2>2, <2>3
  <2> QED BY <1>0, <1>2, <2>4, OtherSteps DEF ServerSend, configVars
<1>3. CASE Connect
  BY <1>0, <1>3, OtherSteps DEF Connect, configVars
<1>4. CASE ConnectFails
  BY <1>0, <1>4, OtherSteps DEF ConnectFails, serverVars, configVars
<1>5. CASE StreamFails
  BY <1>0, <1>5, <1>a, OtherSteps DEF StreamFails, configVars
<1>6. CASE Subscribe("Extension") \/ Unsubscribe("Extension")
  BY <1>0, <1>6, <1>a, OtherSteps DEF Subscribe, Unsubscribe, configVars
<1>7. CASE RefuseResponse
  <2>1. inbox' \in Seq(Responses)
    BY <1>0, <1>7 DEF RefuseResponse, Respond
  <2> QED BY <1>0, <1>7, <2>1, OtherSteps DEF RefuseResponse, serverVars, configVars
<1>8. CASE Receive
  <2> DEFINE id == spent.batches + 1
             response == Head(inbox)
             batch == [id |-> id, versions |-> response.versions, gone |-> response.gone,
                       rejected |-> FALSE]
  <2>1. /\ inbox # <<>> /\ inbox' = Tail(inbox)
        /\ spent' = [spent EXCEPT !.batches = id]
        /\ batches' = Append(batches, batch)
        /\ pending' = batch /\ outcome' = "none"
        /\ want' = want /\ todo' = todo /\ inForce' = inForce
    BY <1>8 DEF Receive, Respond, serverVars, configVars
  <2>2. inbox' \in Seq(Responses) /\ response \in Responses
    BY <1>0, <2>1
  <2>3. spent' \in [changes : Nat, batches : Nat, faults : Nat] /\ spent'.batches = id /\ id \in Nat
    <3>1. id \in Nat
      BY <1>0
    <3> HIDE DEF id
    <3> QED BY <1>0, <2>1, <3>1
  <2>4. batch \in Batches /\ batch.id = id
    BY <2>2, <2>3 DEF Responses, Batches
  <2> HIDE DEF batch, response
  <2>5. /\ Len(batches) \in Nat /\ DOMAIN batches = 1..Len(batches)
        /\ batches' \in Seq(Batches) /\ DOMAIN batches' = 1..(Len(batches) + 1)
        /\ \A i \in 1..Len(batches) : batches'[i] = batches[i] /\ batches[i].id \in 1..spent.batches
        /\ batches'[Len(batches) + 1] = batch
    BY <1>0, <2>1, <2>4 DEF XdsInv, BatchesInOrder
  <2>6. XdsShape'
    BY <1>0, <2>1, <2>2, <2>3, <2>4, <2>5 DEF XdsShape
  <2>7. todo.id < id /\ (todo = Idle \/ todo.id \in 1..spent.batches) /\ todo.id \in Nat
    BY <1>0, IdleBatch DEF XdsInv, BatchesInOrder
  <2>8. BatchesInOrder'
    <3>1. \A i \in DOMAIN batches' : batches'[i].id \in 1..id /\ todo.id < batches'[i].id
      BY <1>0, <2>3, <2>4, <2>5, <2>7 DEF XdsInv, BatchesInOrder
    <3>2. \A i, j \in DOMAIN batches' : i < j => batches'[i].id < batches'[j].id
      <4> SUFFICES ASSUME NEW i \in 1..(Len(batches) + 1), NEW j \in 1..(Len(batches) + 1), i < j
                   PROVE  batches'[i].id < batches'[j].id
        BY <2>5
      <4>1. i \in 1..Len(batches) /\ batches'[i] = batches[i] /\ batches[i].id \in 1..spent.batches
        BY <2>5
      <4>2. CASE j \in 1..Len(batches)
        BY <2>5, <4>1, <4>2 DEF XdsInv, BatchesInOrder
      <4>3. CASE j = Len(batches) + 1
        BY <1>0, <2>4, <2>5, <4>1, <4>3
      <4> QED BY <2>5, <4>2, <4>3
    <3>3. \A i \in DOMAIN batches' : batches'[i].id = id => batches'[i] = batch
      <4> SUFFICES ASSUME NEW i \in 1..(Len(batches) + 1), batches'[i].id = id
                   PROVE  batches'[i] = batch
        BY <2>5
      <4>1. ~(i \in 1..Len(batches))
        <5> SUFFICES ASSUME i \in 1..Len(batches) PROVE FALSE
          OBVIOUS
        <5>1. batches'[i].id \in 1..spent.batches /\ spent.batches \in Nat
          BY <1>0, <2>5
        <5> QED BY <5>1
      <4>2. i = Len(batches) + 1
        BY <2>5, <4>1
      <4> QED BY <2>5, <4>2
    <3>4. todo = Idle \/ todo.id \in 1..id
      BY <1>0, <2>7
    <3> QED BY <1>0, <2>1, <2>3, <2>4, <3>1, <3>2, <3>3, <3>4 DEF BatchesInOrder
  <2>9. BatchUnderWay' /\ OutcomeHolds'
    BY <1>0, <2>1, <2>3, <2>4, <2>7 DEF BatchUnderWay, OutcomeHolds
  <2> QED BY <2>6, <2>8, <2>9 DEF XdsInv
<1>9. CASE Acknowledge \/ AckTimeout
  <2>1. /\ pending' = Idle /\ outcome' = "none"
        /\ UNCHANGED <<want, inbox, batches, todo, inForce>>
        /\ spent' \in [changes : Nat, batches : Nat, faults : Nat]
        /\ spent'.batches = spent.batches
    BY <1>0, <1>9, <1>a DEF Acknowledge, AckTimeout, serverVars, configVars
  <2>2. XdsShape'
    BY <2>1, IdleBatch DEF XdsInv, XdsShape
  <2>3. BatchesInOrder'
    <3>1. \A i \in DOMAIN batches : batches[i].id # 0
      BY <1>0 DEF XdsInv, BatchesInOrder
    <3> QED BY <2>1, <3>1, IdleBatch DEF XdsInv, BatchesInOrder
  <2> QED BY <2>1, <2>2, <2>3 DEF XdsInv, BatchUnderWay, OutcomeHolds
<1>10. CASE TakeBatch
  <2>1. /\ batches # <<>> /\ todo' = batches[1] /\ batches' = Tail(batches) /\ todo = Idle
        /\ UNCHANGED <<want, inbox, pending, outcome, inForce, spent>>
    BY <1>0, <1>10 DEF TakeBatch, serverVars, workerVars
  <2>2. /\ Len(batches) \in Nat /\ Len(batches) >= 1 /\ DOMAIN batches = 1..Len(batches)
        /\ batches' \in Seq(Batches) /\ DOMAIN batches' = 1..(Len(batches) - 1)
        /\ \A i \in 1..(Len(batches) - 1) : batches'[i] = batches[i + 1]
        /\ batches[1] \in Batches
    BY <1>0, <2>1
  <2>3. XdsShape'
    BY <2>1, <2>2 DEF XdsInv, XdsShape
  <2>4. BatchesInOrder'
    <3>1. 1 \in DOMAIN batches /\ todo'.id \in 1..spent.batches
      BY <2>1, <2>2 DEF XdsInv, BatchesInOrder
    <3>2. \A i \in DOMAIN batches' :
             /\ i + 1 \in DOMAIN batches /\ 1 < i + 1 /\ batches'[i] = batches[i + 1]
             /\ batches'[i].id \in 1..spent.batches /\ todo'.id < batches'[i].id
             /\ batches'[i].id = pending.id => batches'[i] = pending
      BY <2>1, <2>2 DEF XdsInv, BatchesInOrder
    <3>3. \A i, j \in DOMAIN batches' : i < j => batches'[i].id < batches'[j].id
      BY <2>2, <3>2 DEF XdsInv, BatchesInOrder
    <3> QED BY <2>1, <3>1, <3>2, <3>3 DEF XdsInv, BatchesInOrder
  <2>5. BatchUnderWay'
    <3>1. 1 \in DOMAIN batches
      BY <2>2
    <3>2. todo'.id = pending.id => todo' = pending
      BY <2>1, <3>1 DEF XdsInv, BatchesInOrder
    <3> QED BY <2>1, <3>2 DEF BatchUnderWay
  <2>6. OutcomeHolds'
    BY <2>1 DEF XdsInv, OutcomeHolds
  <2> QED BY <2>3, <2>4, <2>5, <2>6 DEF XdsInv
<1>11. ASSUME NEW r \in Resources, ApplyUpdate(r) PROVE XdsInv'
  <2> DEFINE accepted == Accepts(r, todo.versions[r])
  <2>1. /\ todo.versions[r] \in Nat /\ todo.versions[r] # 0
        /\ Put(r, todo.versions[r], accepted)
        /\ todo' = [todo EXCEPT !.versions[r] = 0, !.rejected = @ \/ ~accepted]
        /\ UNCHANGED <<want, inbox, batches, pending, outcome, spent>>
        /\ accepted \in BOOLEAN
    BY <1>0, <1>11 DEF ApplyUpdate, serverVars, workerVars, Versions, Accepts
  <2> HIDE DEF accepted
  <2>2. /\ todo' \in Record /\ todo'.id = todo.id /\ todo'.gone = todo.gone
        /\ todo'.versions = [todo.versions EXCEPT ![r] = 0]
        /\ todo'.rejected = (todo.rejected \/ ~accepted)
    BY <1>0, <2>1 DEF Versions
  <2>3. ~todo'.rejected => ~todo.rejected /\ accepted
    BY <2>2
  <2>4. spent' = spent /\ UNCHANGED <<want, inbox, batches, pending, outcome>>
    BY <2>1
  <2> QED BY <1>0, <2>1, <2>2, <2>3, <2>4, ApplyOne
<1>12. ASSUME NEW r \in Resources, ApplyRemoval(r) PROVE XdsInv'
  <2> DEFINE accepted == AcceptsRemoval(r)
  <2>1. /\ r \in todo.gone /\ Updated(todo.versions) = {}
        /\ Put(r, 0, accepted)
        /\ todo' = [todo EXCEPT !.gone = @ \ {r}, !.rejected = @ \/ ~accepted]
        /\ UNCHANGED <<want, inbox, batches, pending, outcome, spent>>
        /\ accepted \in BOOLEAN
    BY <1>0, <1>12 DEF ApplyRemoval, serverVars, workerVars, AcceptsRemoval
  <2> HIDE DEF accepted
  <2>2. [todo.versions EXCEPT ![r] = 0] = todo.versions
    BY <1>0, <2>1 DEF Updated, Versions
  <2>3. /\ todo' \in Record /\ todo'.id = todo.id /\ todo'.gone \subseteq todo.gone
        /\ todo'.versions = [todo.versions EXCEPT ![r] = 0]
        /\ todo'.rejected = (todo.rejected \/ ~accepted)
    BY <1>0, <2>1, <2>2
  <2>4. ~todo'.rejected => ~todo.rejected /\ accepted
    BY <2>3
  <2>5. spent' = spent /\ UNCHANGED <<want, inbox, batches, pending, outcome>>
    BY <2>1
  <2>6. PICK v \in Nat : v = 0 /\ Put(r, v, accepted)
    BY <2>1
  <2> QED BY <1>0, <2>1, <2>3, <2>4, <2>5, <2>6, ApplyOne
<1>13. ASSUME NEW r \in Resources, RouteTimeout(r) PROVE XdsInv'
  <2>1. /\ todo' = [todo EXCEPT !.versions[r] = 0, !.gone = @ \ {r}, !.rejected = TRUE]
        /\ UNCHANGED <<want, inbox, batches, pending, outcome>>
        /\ spent' \in [changes : Nat, batches : Nat, faults : Nat]
        /\ spent'.batches = spent.batches
    BY <1>13, <1>a DEF RouteTimeout, serverVars, workerVars
  <2>2. PICK v \in Nat :
           /\ \/ v # 0 /\ todo.versions[r] = v
              \/ v = 0 /\ r \in todo.gone /\ Updated(todo.versions) = {}
           /\ Put(r, v, TRUE)
    BY <1>0, <1>13 DEF RouteTimeout, Versions
  <2>3. /\ todo' \in Record /\ todo'.id = todo.id /\ todo'.gone \subseteq todo.gone
        /\ todo'.versions = [todo.versions EXCEPT ![r] = 0]
        /\ todo'.rejected
    BY <1>0, <2>1 DEF Versions
  <2> QED BY <2>1, <2>2, <2>3, ApplyOne
<1>14. CASE FinishBatch
  <2>1. /\ todo # Idle /\ Updated(todo.versions) = {} /\ todo.gone = {}
        /\ outcome' = IF todo.id # pending.id THEN outcome
                      ELSE IF todo.rejected THEN "rejected" ELSE "applied"
        /\ todo' = Idle
        /\ UNCHANGED <<want, inbox, batches, pending, inForce, spent>>
    BY <1>14 DEF FinishBatch, serverVars, workerVars
  <2>2. outcome = "none"
    BY <2>1 DEF XdsInv, OutcomeHolds
  <2>3. XdsShape'
    BY <2>1, IdleBatch DEF XdsInv, XdsShape
  <2>4. BatchesInOrder'
    BY <1>0, <2>1, IdleBatch DEF XdsInv, BatchesInOrder
  <2>5. BatchUnderWay'
    BY <1>0, <2>1, IdleBatch DEF XdsInv, BatchesInOrder, BatchUnderWay
  <2>6. OutcomeHolds'
    <3>1. CASE todo.id # pending.id
      BY <2>1, <2>2, <3>1 DEF OutcomeHolds
    <3>2. CASE todo.id = pending.id
      <4>1. pending # Idle /\ pending.id = spent.batches
        BY <1>0, <2>1, <3>2, IdleBatch DEF XdsInv, BatchesInOrder
      <4>2. DOMAIN batches = {}
        BY <1>0, <3>2, <4>1 DEF XdsInv, BatchesInOrder
      <4>3. batches = <<>>
        BY <1>0, <4>2
      <4>4. \A r \in Resources : todo.versions[r] = 0
        BY <2>1 DEF Updated
      <4>5. ~todo.rejected =>
               \A r \in Resources : pending.versions[r] # 0 => inForce[r] = pending.versions[r]
        BY <3>2, <4>1, <4>4 DEF XdsInv, BatchUnderWay
      <4>6. outcome' = "applied" => ~todo.rejected
        BY <2>1, <3>2
      <4> QED BY <2>1, <4>1, <4>3, <4>5, <4>6 DEF OutcomeHolds
    <3> QED BY <3>1, <3>2
  <2> QED BY <2>3, <2>4, <2>5, <2>6 DEF XdsInv
<1>15. CASE UNCHANGED xdsVars
  BY <1>0, <1>15, OtherSteps DEF xdsVars
<1> QED
  BY <1>1, <1>2, <1>3, <1>4, <1>5, <1>6, <1>7, <1>8, <1>9, <1>10, <1>11, <1>12, <1>13, <1>14,
     <1>15
  DEF XdsNext, Work, Configure

(* Every behaviour satisfies the inductive invariant. *)
LEMMA XdsInvariance == XdsSpec => []XdsInv
<1> QED BY XdsInitInv, XdsStep, PTL DEF XdsSpec

(* A version is declared to the management server only when it is the one  *)
(* in force: XdsClient implements XdsTracking. The steps of the            *)
(* configurator change what is in force, a response with removals forgets, *)
(* and an acknowledgement declares, which is where the invariant is used.  *)
THEOREM XdsDeclaresWhatIsInForce == XdsSpec => DeclaresWhatIsInForce
<1>1. XdsInit => Tracking!TrackingInit
  BY DEF XdsInit, None, Tracking!TrackingInit
<1>2. ASSUME XdsInv, [XdsNext]_xdsVars
      PROVE  [Tracking!TrackingNext]_<<tracked, inForce>>
  <2> SUFFICES ASSUME ~UNCHANGED <<tracked, inForce>>
               PROVE  Tracking!TrackingNext
    OBVIOUS
  <2> USE DEF Tracking!TrackingNext
  <2>1. CASE tracked' = tracked
    <3>1. Tracking!Change
      BY <2>1 DEF Tracking!Change
    <3> QED BY <3>1
  <2>2. CASE Receive \/ RefuseResponse
    <3>1. inForce' = inForce /\ \E gone : tracked' = Forgotten(gone)
      BY <2>2 DEF Receive, RefuseResponse, configVars
    <3>2. Tracking!Forget
      BY <3>1 DEF Forgotten, Tracking!Forget
    <3> QED BY <3>2
  <2>3. CASE Acknowledge /\ outcome = "applied"
    <3>1. /\ inForce' = inForce
          /\ tracked' = [r \in Resources |-> IF pending.versions[r] # 0
                                             THEN pending.versions[r] ELSE tracked[r]]
      BY <2>3 DEF Acknowledge, configVars
    <3>2. \A r \in Resources : pending.versions[r] # 0 => inForce[r] = pending.versions[r]
      BY <1>2, <2>3 DEF XdsInv, OutcomeHolds
    <3>3. Tracking!Declare
      BY <3>1, <3>2 DEF Tracking!Declare
    <3> QED BY <3>3
  <2> QED BY <1>2, <2>1, <2>2, <2>3
      DEF XdsNext, Work, Configure, ServerChange, ServerSend, Connect, ConnectFails,
          StreamFails, Subscribe, Unsubscribe, Acknowledge, AckTimeout, TakeBatch, ApplyUpdate,
          ApplyRemoval, RouteTimeout, FinishBatch, workerVars, xdsVars
<1> QED BY <1>1, <1>2, XdsInvariance, PTL DEF XdsSpec, DeclaresWhatIsInForce

----------------------------------------------------------------------------

StartupTypes ==
    /\ settings \in [exporters : BOOLEAN, ads : BOOLEAN]
    /\ task \in [at : {"none", "clusters", "connect", "listeners", "xds", "ended"},
                 sent : Nat, clusters : BOOLEAN, mcp : BOOLEAN]
    /\ given \in [ProxyRuntimes -> Nat] /\ taken \in [ProxyRuntimes -> Nat]
    /\ setup \in BOOLEAN /\ interrupted \in BOOLEAN

\* What the configuration task has done before it gives listeners.
ListenersReady == task.clusters /\ (settings.ads => task.mcp)

(* The clusters come before the control plane and that before the first    *)
(* listener, and no runtime takes what it was not given.                   *)
TaskInOrder ==
    /\ task.at = "connect" => task.clusters
    /\ task.at = "listeners" => ListenersReady
    /\ \A r \in ProxyRuntimes : given[r] > 0 => ListenersReady
    /\ \A r \in ProxyRuntimes : taken[r] <= given[r]

(* Every runtime has the listeners that were sent, or one more.            *)
GivenInStep == \A r \in ProxyRuntimes : given[r] \in {task.sent, task.sent + 1}

(* The main thread waits for the barrier only with an exporter, whose      *)
(* service opens it before the next one starts.                            *)
BarrierInOrder ==
    /\ main = "begin" <=> services = "none"
    /\ services \in {"none", "starting", "timezone", "exporter", "tracers", "join", "ended"}
    /\ main = "barrier" => settings.exporters
    /\ settings.exporters /\ ~interrupted /\ services \in {"tracers", "join", "ended"} => setup

(* The inductive invariant of the start. *)
StartupInv == StartupTypes /\ TaskInOrder /\ GivenInStep /\ BarrierInOrder

(* The start is in the invariant. *)
LEMMA StartupInitInv == StartupInit => StartupInv
<1> SUFFICES ASSUME StartupInit PROVE StartupInv
  OBVIOUS
<1> USE DEF StartupInit
<1>1. StartupTypes
  BY DEF StartupTypes
<1>2. TaskInOrder /\ GivenInStep /\ BarrierInOrder
  BY DEF TaskInOrder, GivenInStep, BarrierInOrder
<1> QED BY <1>1, <1>2 DEF StartupInv

(* Every step keeps it. *)
LEMMA StartupStep == StartupInv /\ [StartupNext]_startupVars => StartupInv'
<1> SUFFICES ASSUME StartupInv, [StartupNext]_startupVars PROVE StartupInv'
  OBVIOUS
<1> USE DEF StartupInv, ListenersReady
<1>1. CASE Launch
  BY <1>1 DEF Launch, StartupTypes, TaskInOrder, GivenInStep, BarrierInOrder
<1>2. CASE WaitForMetricsSetup \/ CalculateThreads \/ SpawnProxyRuntimes \/ Joined
  BY <1>2 DEF WaitForMetricsSetup, CalculateThreads, SpawnProxyRuntimes, Joined,
     StartupTypes, TaskInOrder, GivenInStep, BarrierInOrder
<1>3. CASE SpawnTasks
  BY <1>3 DEF SpawnTasks, StartupTypes, TaskInOrder, GivenInStep, BarrierInOrder
<1>4. CASE Serve
  <2>1. StartupTypes' /\ TaskInOrder' /\ GivenInStep'
    BY <1>4 DEF Serve, StartupTypes, TaskInOrder, GivenInStep
  <2>2. BarrierInOrder'
    BY <1>4 DEF Serve, NextService, Failed, StartupTypes, BarrierInOrder
  <2> QED BY <2>1, <2>2
<1>5. CASE ServicesJoined
  BY <1>5 DEF ServicesJoined, StartupTypes, TaskInOrder, GivenInStep, BarrierInOrder
<1>6. CASE RegisterClusters
  <2>1. PICK done \in BOOLEAN :
           task' = IF done THEN [task EXCEPT !.at = "connect", !.clusters = TRUE]
                   ELSE [task EXCEPT !.at = "ended"]
    BY <1>6 DEF RegisterClusters, AfterClusters
  <2>2. /\ task'.at \in {"connect", "ended"} /\ task'.sent = task.sent /\ task'.mcp = task.mcp
        /\ task.clusters => task'.clusters
        /\ task'.at = "connect" => task'.clusters
        /\ StartupTypes'
    BY <1>6, <2>1 DEF RegisterClusters, StartupTypes
  <2>3. TaskInOrder' /\ GivenInStep' /\ BarrierInOrder'
    BY <1>6, <2>2 DEF RegisterClusters, TaskInOrder, GivenInStep, BarrierInOrder
  <2> QED BY <2>2, <2>3
<1>7. CASE ConnectXds
  BY <1>7 DEF ConnectXds, TaskRuns, StartupTypes, TaskInOrder, GivenInStep, BarrierInOrder
<1>8. CASE NextListener
  <2>1. StartupTypes' /\ TaskInOrder' /\ BarrierInOrder'
    BY <1>8 DEF NextListener, TaskRuns, StartupTypes, TaskInOrder, BarrierInOrder
  <2>2. GivenInStep'
    BY <1>8 DEF NextListener, StartupTypes, GivenInStep
  <2> QED BY <2>1, <2>2
<1>9. CASE ListenersGiven \/ XdsEnds
  BY <1>9 DEF ListenersGiven, XdsEnds, TaskRuns, StartupTypes, TaskInOrder, GivenInStep,
     BarrierInOrder
<1>10. ASSUME NEW r \in ProxyRuntimes, SendListener(r) PROVE StartupInv'
  <2>1. \A q \in ProxyRuntimes : given'[q] = IF q = r THEN given[r] + 1 ELSE given[q]
    BY <1>10 DEF SendListener, StartupTypes
  <2>2. StartupTypes' /\ BarrierInOrder'
    BY <1>10 DEF SendListener, StartupTypes, BarrierInOrder
  <2>3. TaskInOrder'
    BY <1>10, <2>1 DEF SendListener, TaskRuns, StartupTypes, TaskInOrder
  <2>4. GivenInStep'
    BY <1>10, <2>1 DEF SendListener, StartupTypes, GivenInStep
  <2> QED BY <2>2, <2>3, <2>4
<1>11. ASSUME NEW r \in ProxyRuntimes, TakeListener(r) PROVE StartupInv'
  <2>1. \A q \in ProxyRuntimes : taken'[q] = taken[q] \/ (taken'[q] = taken[q] + 1 /\ taken[q] < given[q])
    BY <1>11 DEF TakeListener, StartupTypes
  <2>2. StartupTypes' /\ BarrierInOrder' /\ GivenInStep'
    BY <1>11 DEF TakeListener, StartupTypes, BarrierInOrder, GivenInStep
  <2>3. TaskInOrder'
    BY <1>11, <2>1 DEF TakeListener, StartupTypes, TaskInOrder
  <2> QED BY <2>2, <2>3
<1>12. ASSUME NEW r \in ProxyRuntimes, RuntimeStops(r) PROVE StartupInv'
  BY <1>12 DEF RuntimeStops, StartupTypes, TaskInOrder, GivenInStep, BarrierInOrder
<1>13. CASE CtrlC \/ ServicesStop
  BY <1>13 DEF CtrlC, ServicesStop, StartupTypes, TaskInOrder, GivenInStep, BarrierInOrder
<1>14. CASE UNCHANGED startupVars
  BY <1>14 DEF startupVars, StartupTypes, TaskInOrder, GivenInStep, BarrierInOrder
<1> QED
  BY <1>1, <1>2, <1>3, <1>4, <1>5, <1>6, <1>7, <1>8, <1>9, <1>10, <1>11, <1>12, <1>13, <1>14
  DEF StartupNext

(* A runtime takes a listener only when the clusters are in the map and    *)
(* the MCP handler is ready, no runtime gets more than one listener ahead  *)
(* of another, and the main thread does not wait for a barrier that no     *)
(* service will open, however many runtimes and listeners there are.       *)
THEOREM StartupStartsInOrder == StartupSpec => []StartsInOrder
<1>1. StartupInv => StartsInOrder
  <2> SUFFICES ASSUME StartupInv PROVE StartsInOrder
    OBVIOUS
  <2>1. ListenersComeLast
    BY DEF StartupInv, StartupTypes, TaskInOrder, ListenersReady, ListenersComeLast
  <2>2. RuntimesAlike
    BY DEF StartupInv, StartupTypes, GivenInStep, RuntimesAlike
  <2>3. BarrierOpens
    BY DEF StartupInv, StartupTypes, BarrierInOrder, BarrierOpens
  <2> QED BY <2>1, <2>2, <2>3 DEF StartsInOrder
<1> QED BY <1>1, StartupInitInv, StartupStep, PTL DEF StartupSpec

-----------------------------------------------------------------------------
(* ExternalProcessing: what is left of a body the processor does not       *)
(* change.                                                                 *)

Frames == [data : BOOLEAN, chunks : Seq(Nat)]

AllData(s) == s \in Seq(Frames) /\ \A i \in DOMAIN s : s[i].data

(* Data frames, and then perhaps trailers.                                 *)
IsBody(s) == s \in Seq(Frames) /\ \A i \in DOMAIN s : ~s[i].data => i = Len(s) /\ s[i].chunks = <<>>

(* The messages the processor owes an answer to, for frames in flight.     *)
Owed(s) == [i \in DOMAIN s |-> IF s[i].data THEN "body" ELSE "trailers"]

Clean(w) == ~w.touched /\ w.failed = ""

(* All of the body has come out of the closed bridge.                      *)
Delivered(w) ==
    /\ w.out \in Seq(Frames) /\ Chunks(w.out) = Chunks(w.original)
    /\ HasTrailers(w.out) <=> HasTrailers(w.original)
    /\ HasTrailers(w.out) => ~Last(w.out).data

(* Nothing has been read yet.                                              *)
Unread(w) == w.data = <<>> /\ w.inflight = <<>> /\ ~w.trailers /\ ~w.parked /\ ~w.saved

(* Of the open bridge: what came out, what the processor has, what is      *)
(* being merged and what is still to be read are the body.                 *)
InPieces(w) ==
    /\ IsBody(w.source) /\ IsBody(w.inflight) /\ AllData(w.out) /\ AllData(w.data) /\ Len(w.data) <= 1
    /\ Chunks(w.original) = Chunks(w.out) \o Chunks(w.inflight) \o Chunks(w.data) \o Chunks(w.source)
    /\ HasTrailers(w.original) <=> (HasTrailers(w.source) \/ w.trailers \/ w.parked \/ w.saved)
    /\ (w.trailers \/ w.parked \/ w.saved) => w.source = <<>>

Pending(w, h) ==
    /\ ~w.options.observe => h \in {<<>>, <<"headers">>} /\ w.awaiting = h \o Owed(w.inflight)
    /\ w.options.observe => w.inflight = <<>>
    /\ (~w.options.observe /\ h # <<>> /\ WillEnd(w)) => ~w.streaming /\ ~w.complete

Progress(w) ==
    /\ w.saved <=> HasTrailers(w.inflight)
    /\ w.saved => w.complete
    /\ w.complete => w.source = <<>> /\ w.data = <<>> /\ ~w.trailers /\ w.eos /\ w.inflight # <<>>
    /\ (~w.streaming /\ ~w.complete) => Unread(w)
    /\ (WillEnd(w) /\ ~w.complete) => w.inflight = <<>>
    /\ w.eos => WillEnd(w) \/ w.complete
    /\ w.known.body = "no" => (w.data = <<>> \/ w.complete) /\ \A i \in DOMAIN w.source : ~w.source[i].data
    /\ w.known.body = "yes" => w.known.any
    /\ ~w.known.any => w.known.body = "no" /\ w.known.trailers = "no"
    /\ (~ShouldProcessBody(w) /\ ~w.complete) => w.inflight = <<>>

Flowing(w) == w.open => InPieces(w) /\ Progress(w) /\ \E h \in {<<>>, <<"headers">>} : Pending(w, h)
Whole(w) == ~w.open => Delivered(w)


-----------------------------------------------------------------------------
(* Frames and their chunks.                                                *)
LEMMA FrameFacts ==
  /\ Trailers \in Frames /\ ~Trailers.data /\ Trailers.chunks = <<>>
  /\ \A c \in Seq(Nat) : DataFrame(c) \in Frames /\ DataFrame(c).data /\ DataFrame(c).chunks = c
<1>1. Trailers \in Frames /\ Trailers.chunks = <<>>
  <2> DEFINE no == FALSE
  <2>1. Trailers = [data |-> no, chunks |-> <<>>] /\ no \in BOOLEAN
    BY Zenon DEF Trailers
  <2> HIDE DEF no
  <2> QED BY <2>1 DEF Frames
<1>2. ~Trailers.data
  BY DEF Trailers
<1>3. ASSUME NEW c \in Seq(Nat) PROVE DataFrame(c) \in Frames /\ DataFrame(c).chunks = c
  <2> DEFINE yes == TRUE
  <2>1. DataFrame(c) = [data |-> yes, chunks |-> c] /\ yes \in BOOLEAN
    BY Zenon DEF DataFrame
  <2> HIDE DEF yes
  <2> QED BY <2>1 DEF Frames
<1>4. ASSUME NEW c PROVE DataFrame(c).data
  BY DEF DataFrame
<1> QED BY <1>1, <1>2, <1>3, <1>4

(* The equations have names, by which their instances are found.           *)
Associate(a, b, c) == (a \o b) \o c = a \o (b \o c)

LEMMA Associates ==
  ASSUME NEW S, NEW a \in Seq(S), NEW b \in Seq(S), NEW c \in Seq(S)
  PROVE  Associate(a, b, c)
BY ConcatAssociative DEF Associate

LEMMA FlattenConcat ==
  ASSUME NEW S, NEW ss \in Seq(Seq(S)), NEW tt \in Seq(Seq(S))
  PROVE  FlattenSeq(ss \o tt) = FlattenSeq(ss) \o FlattenSeq(tt)
<1> DEFINE Upto(k) == SubSeq(tt, 1, k)
           P == {k \in Nat : k <= Len(tt) => FlattenSeq(ss \o Upto(k)) = FlattenSeq(ss) \o FlattenSeq(Upto(k))}
<1>0. FlattenSeq(ss) \in Seq(S)
  BY FlattenType
<1>1. 0 \in P
  <2>1. Upto(0) = <<>>
    OBVIOUS
  <2>2. ss \o <<>> = ss /\ FlattenSeq(ss) \o <<>> = FlattenSeq(ss)
    BY <1>0, ConcatEmptySeq
  <2> HIDE DEF Upto
  <2> QED BY <2>1, <2>2, FlattenEmpty
<1>2. ASSUME NEW k \in Nat, k \in P PROVE k + 1 \in P
  <2> SUFFICES ASSUME k + 1 <= Len(tt)
               PROVE  FlattenSeq(ss \o Upto(k + 1)) = FlattenSeq(ss) \o FlattenSeq(Upto(k + 1))
    OBVIOUS
  <2> DEFINE u == Upto(k)
             x == tt[k + 1]
  <2>1. x \in Seq(S) /\ u \in Seq(Seq(S)) /\ Upto(k + 1) = Append(u, x)
    OBVIOUS
  <2>2. FlattenSeq(ss \o u) = FlattenSeq(ss) \o FlattenSeq(u)
    BY <1>2
  <2> HIDE DEF u, x, Upto
  <2>3. ss \o Append(u, x) = Append(ss \o u, x) /\ ss \o u \in Seq(Seq(S))
    <3>1. Append(u, x) = u \o <<x>> /\ <<x>> \in Seq(Seq(S)) /\ ss \o u \in Seq(Seq(S))
      BY <2>1, AppendIsConcat, ConcatProperties
    <3>2. Append(ss \o u, x) = (ss \o u) \o <<x>>
      BY <2>1, <3>1, AppendIsConcat
    <3>3. (ss \o u) \o <<x>> = ss \o (u \o <<x>>)
      <4> DEFINE y == <<x>>
                 T == Seq(S)
      <4>1. ss \in Seq(T) /\ u \in Seq(T) /\ y \in Seq(T)
        BY <2>1, <3>1
      <4> HIDE DEF y, T
      <4>2. (ss \o u) \o y = ss \o (u \o y)
        BY <4>1, ConcatAssociative
      <4> QED BY <4>2 DEF y
    <3> QED BY <3>1, <3>2, <3>3
  <2>4. FlattenSeq(Append(ss \o u, x)) = FlattenSeq(ss \o u) \o x /\ FlattenSeq(Append(u, x)) = FlattenSeq(u) \o x
    BY <2>1, <2>3, FlattenAppend
  <2>5. (FlattenSeq(ss) \o FlattenSeq(u)) \o x = FlattenSeq(ss) \o (FlattenSeq(u) \o x)
    <3>1. FlattenSeq(u) \in Seq(S)
      BY <2>1, FlattenType
    <3> DEFINE a == FlattenSeq(ss)
               b == FlattenSeq(u)
    <3>2. a \in Seq(S) /\ b \in Seq(S) /\ x \in Seq(S)
      BY <1>0, <2>1, <3>1
    <3> HIDE DEF a, b, P
    <3>3. Associate(a, b, x)
      BY <3>2, Associates, Zenon
    <3> QED BY <3>3, Zenon DEF a, b, Associate
  <2> QED BY <2>1, <2>2, <2>3, <2>4, <2>5
<1>3. Len(tt) \in P
  <2>1. Len(tt) \in Nat
    OBVIOUS
  <2> HIDE DEF P
  <2> QED BY <1>1, <1>2, <2>1, NatSetInduction
<1>4. Upto(Len(tt)) = tt
  OBVIOUS
<1> HIDE DEF Upto
<1> QED BY <1>3, <1>4

LEMMA ChunksOf ==
  ASSUME NEW s \in Seq(Frames)
  PROVE  /\ Chunks(s) \in Seq(Nat)
         /\ [i \in DOMAIN s |-> s[i].chunks] \in Seq(Seq(Nat))
<1>1. \A i \in 1 .. Len(s) : s[i].chunks \in Seq(Nat)
  <2>1. \A i \in 1 .. Len(s) : s[i] \in Frames
    OBVIOUS
  <2>2. \A f \in Frames : f.chunks \in Seq(Nat)
    BY DEF Frames
  <2> QED BY <2>1, <2>2
<1>2. [i \in DOMAIN s |-> s[i].chunks] \in [1 .. Len(s) -> Seq(Nat)] /\ Len(s) \in Nat
  BY <1>1
<1>3. [i \in DOMAIN s |-> s[i].chunks] \in Seq(Seq(Nat))
  BY <1>2, SeqDef
<1> QED BY <1>3, FlattenType DEF Chunks

LEMMA ChunksConcat ==
  ASSUME NEW s \in Seq(Frames), NEW t \in Seq(Frames)
  PROVE  Chunks(s \o t) = Chunks(s) \o Chunks(t)
<1> DEFINE C(x) == [i \in DOMAIN x |-> x[i].chunks]
<1>1. C(s) \in Seq(Seq(Nat)) /\ C(t) \in Seq(Seq(Nat)) /\ s \o t \in Seq(Frames) /\ C(s \o t) \in Seq(Seq(Nat))
  BY ChunksOf, ConcatProperties
<1>2. C(s \o t) = C(s) \o C(t)
  <2>1. Len(s \o t) = Len(s) + Len(t) /\ DOMAIN (s \o t) = 1 .. Len(s) + Len(t) /\ Len(s) \in Nat /\ Len(t) \in Nat
    OBVIOUS
  <2>2. Len(C(s)) = Len(s) /\ Len(C(t)) = Len(t) /\ Len(C(s \o t)) = Len(s) + Len(t)
    <3>1. DOMAIN C(s) = 1 .. Len(s) /\ DOMAIN C(t) = 1 .. Len(t) /\ DOMAIN C(s \o t) = 1 .. Len(s) + Len(t)
      BY <2>1
    <3> HIDE DEF C
    <3> QED BY <1>1, <2>1, <3>1
  <2>3. ASSUME NEW i \in 1 .. Len(s) + Len(t) PROVE C(s \o t)[i] = (C(s) \o C(t))[i]
    <3>1. C(s \o t)[i] = (s \o t)[i].chunks
      BY <2>1
    <3>2. (s \o t)[i] = IF i <= Len(s) THEN s[i] ELSE t[i - Len(s)]
      BY ConcatProperties
    <3>3. (C(s) \o C(t))[i] = IF i <= Len(s) THEN C(s)[i] ELSE C(t)[i - Len(s)]
      <4> HIDE DEF C
      <4> QED BY <1>1, <2>2, ConcatProperties
    <3>4. CASE i <= Len(s)
      <4>1. C(s)[i] = s[i].chunks
        BY <2>1, <3>4
      <4> QED BY <3>1, <3>2, <3>3, <3>4, <4>1
    <3>5. CASE ~(i <= Len(s))
      <4>1. i - Len(s) \in 1 .. Len(t)
        BY <2>1, <3>5
      <4>2. C(t)[i - Len(s)] = t[i - Len(s)].chunks
        BY <4>1
      <4> QED BY <3>1, <3>2, <3>3, <3>5, <4>2
    <3> QED BY <3>4, <3>5
  <2>4. C(s) \o C(t) \in Seq(Seq(Nat)) /\ Len(C(s) \o C(t)) = Len(s) + Len(t)
    <3> HIDE DEF C
    <3> QED BY <1>1, <2>2, ConcatProperties
  <2> HIDE DEF C
  <2> QED BY <1>1, <2>2, <2>3, <2>4, SeqEqual
<1>3. FlattenSeq(C(s) \o C(t)) = FlattenSeq(C(s)) \o FlattenSeq(C(t))
  <2> HIDE DEF C
  <2> QED BY <1>1, FlattenConcat
<1> QED BY <1>2, <1>3 DEF Chunks

LEMMA ChunksOne ==
  /\ Chunks(<<>>) = <<>>
  /\ \A f \in Frames : Chunks(<<f>>) = f.chunks
<1>1. Chunks(<<>>) = <<>>
  <2>1. [i \in DOMAIN <<>> |-> <<>>[i].chunks] = <<>>
    OBVIOUS
  <2> QED BY <2>1, FlattenEmpty DEF Chunks
<1>2. ASSUME NEW f \in Frames PROVE Chunks(<<f>>) = f.chunks
  <2>0. f.chunks \in Seq(Nat)
    BY DEF Frames
  <2> DEFINE c == f.chunks
  <2>1. [i \in DOMAIN <<f>> |-> <<f>>[i].chunks] = Append(<<>>, c)
    OBVIOUS
  <2> HIDE DEF c
  <2>2. FlattenSeq(Append(<<>>, c)) = FlattenSeq(<<>>) \o c
    <3>1. <<>> \in Seq(Seq(Nat)) /\ c \in Seq(Nat)
      BY <2>0 DEF c
    <3> QED BY <3>1, FlattenAppend
  <2>3. <<>> \o c = c
    BY <2>0, ConcatEmptySeq DEF c
  <2> QED BY <2>1, <2>2, <2>3, FlattenEmpty DEF Chunks, c
<1> QED BY <1>1, <1>2

LEMMA ChunksHeadTail ==
  ASSUME NEW s \in Seq(Frames), s # <<>>
  PROVE  /\ Head(s) \in Frames /\ Tail(s) \in Seq(Frames) /\ Head(s) = s[1]
         /\ Chunks(s) = Head(s).chunks \o Chunks(Tail(s))
<1>1. Head(s) \in Frames /\ Tail(s) \in Seq(Frames) /\ Head(s) = s[1]
  OBVIOUS
<1>2. s = <<Head(s)>> \o Tail(s)
  OBVIOUS
<1>3. Chunks(<<Head(s)>> \o Tail(s)) = Chunks(<<Head(s)>>) \o Chunks(Tail(s))
  <2>1. <<Head(s)>> \in Seq(Frames)
    BY <1>1
  <2> QED BY <1>1, <2>1, ChunksConcat
<1> QED BY <1>1, <1>2, <1>3, ChunksOne

-----------------------------------------------------------------------------
(* The fields of the filter; the minor ones say nothing of the body.       *)
Minor == {"task", "side", "decision", "ready", "broken", "run", "connected", "count", "timer", "extended"}
Major == {"modes", "options", "original", "source", "known", "open", "out", "awaiting", "data", "trailers",
          "inflight", "parked", "saved", "streaming", "eos", "complete", "touched", "failed"}
IsExt(w) == DOMAIN w = Minor \cup Major

(* The inductive invariant, of every message the processor did not touch.  *)
Kept(w) == IsExt(w) /\ (Clean(w) => Flowing(w) /\ Whole(w))
ExtInv == Kept(ext)

(* v is w but for minor fields and those in E.                             *)
Agree(w, v, E) == IsExt(v) /\ \A f \in Major \ E : v[f] = w[f]

LEMMA FreshIsExt == IsExt(Fresh)
BY DEF Fresh, IsExt, Minor, Major

LEMMA AgreeSelf == ASSUME NEW w, IsExt(w) PROVE Agree(w, w, {})
BY DEF Agree

LEMMA AgreeAgain ==
  ASSUME NEW u, NEW v, NEW w, NEW E, NEW F, Agree(u, v, E), Agree(v, w, F)
  PROVE  Agree(u, w, E \cup F)
BY DEF Agree

LEMMA AgreeWider ==
  ASSUME NEW v, NEW w, NEW E, NEW F, Agree(v, w, E), E \subseteq F
  PROVE  Agree(v, w, F)
BY DEF Agree

(* A step may not make clean what is not, nor touch what has come out of a *)
(* closed bridge.                                                          *)
Onto(w, v) ==
    /\ IsExt(v)
    /\ Clean(v) => Clean(w)
    /\ ~w.open => ~v.open /\ v.out = w.out /\ v.original = w.original

LEMMA OntoAgain ==
  ASSUME NEW u, NEW v, NEW w, Onto(u, v), Onto(v, w)
  PROVE  Onto(u, w)
BY DEF Onto

LEMMA OntoAgree ==
  ASSUME NEW v, NEW w, NEW E, Agree(v, w, E), E \cap {"touched", "failed", "open", "out", "original"} = {}
  PROVE  Onto(v, w)
<1>1. \A f \in {"touched", "failed", "open", "out", "original"} : w[f] = v[f]
  BY DEF Agree, Major
<1>2. w.touched = v.touched /\ w.failed = v.failed /\ w.open = v.open /\ w.out = v.out /\ w.original = v.original
  BY <1>1
<1> QED BY <1>2 DEF Onto, Clean, Agree

-----------------------------------------------------------------------------
(* What the operators of the filter and of the bridge change.              *)
LEMMA ReturnIs ==
  ASSUME NEW w, IsExt(w), NEW d
  PROVE  Agree(w, Return(w, d), {})
<1>1. \A f \in Major : f # "task" /\ f # "decision"
  BY DEF Major
<1> QED BY <1>1 DEF Return, Agree, IsExt

LEMMA ReadyIs ==
  ASSUME NEW w, IsExt(w)
  PROVE  Agree(w, Ready(w), {})
<1> DEFINE v == Return(w, ApplyModification(w, w.ready))
<1>1. Agree(w, v, {})
  BY ReturnIs
<1>2. \A f \in Major : f # "ready"
  BY DEF Major
<1>3. Ready(w) = [v EXCEPT !.ready = {}]
  BY DEF Ready
<1> HIDE DEF v
<1> QED BY <1>1, <1>2, <1>3 DEF Agree, IsExt

LEMMA StatusErrorIs ==
  ASSUME NEW w, IsExt(w)
  PROVE  Agree(w, StatusError(w), {})
BY ReturnIs DEF StatusError

LEMMA InjectIs ==
  ASSUME NEW w, IsExt(w), NEW frames, NEW v, v = Inject(w, frames)
  PROVE  /\ Agree(w, v, {"out"})
         /\ v.out = IF w.open THEN w.out \o frames ELSE w.out
BY DEF Inject, Agree, IsExt, Major

LEMMA DrainAndInjectIs ==
  ASSUME NEW w, IsExt(w), NEW v, v = DrainAndInject(w)
  PROVE  /\ Agree(w, v, {"out", "source"})
         /\ w.open => v.out = w.out \o w.source /\ v.source = <<>>
         /\ ~w.open => v = w
BY DEF DrainAndInject, Agree, IsExt, Major

LEMMA CloseIs ==
  ASSUME NEW w, IsExt(w), NEW v, v = Close(w)
  PROVE  Agree(w, v, {"open"}) /\ ~v.open
BY DEF Close, Agree, IsExt, Major, Minor

LEMMA SetStreamingBodyIs ==
  ASSUME NEW w, IsExt(w), NEW v, v = SetStreamingBody(w, FALSE)
  PROVE  Agree(w, v, {"streaming", "eos"}) /\ ~v.streaming /\ v.eos
BY DEF SetStreamingBody, Agree, IsExt, Major

LEMMA TryEnableStreamingBodyIs ==
  ASSUME NEW w, IsExt(w), NEW v, v = TryEnableStreamingBody(w)
  PROVE  /\ w.known.any => Agree(w, v, {"streaming"}) /\ v.streaming
         /\ ~w.known.any => Agree(w, v, {"open"}) /\ ~v.open
BY DEF TryEnableStreamingBody, Agree, IsExt, Major

(* The parked trailers are the last to come out.                           *)
LEMMA DrainAndCloseIs ==
  ASSUME NEW w, IsExt(w), NEW frames, NEW v, v = DrainAndClose(w, frames)
  PROVE  /\ Agree(w, v, {"out", "source", "open", "parked"}) /\ ~v.open
         /\ w.open => v.out = (((w.out \o frames) \o w.source) \o (IF w.parked THEN <<Trailers>> ELSE <<>>))
         /\ ~w.open => v.out = w.out
<1> DEFINE t == IF w.parked THEN <<Trailers>> ELSE <<>>
           a == Inject(w, frames)
           b == DrainAndInject(a)
           c == Inject(b, t)
           d == Close(c)
<1>1. v = [d EXCEPT !.parked = FALSE]
  BY DEF DrainAndClose
<1>2. Agree(w, a, {"out"}) /\ a.out = IF w.open THEN w.out \o frames ELSE w.out
  BY InjectIs
<1>3. IsExt(a) /\ a.open = w.open /\ a.source = w.source
  BY <1>2 DEF Agree, Major
<1> HIDE DEF a
<1>4. /\ Agree(a, b, {"out", "source"}) /\ IsExt(b)
      /\ w.open => b.out = a.out \o w.source
      /\ ~w.open => b.out = a.out
  <2>1. Agree(a, b, {"out", "source"}) /\ (a.open => b.out = a.out \o a.source) /\ (~a.open => b = a)
    BY <1>3, DrainAndInjectIs
  <2> HIDE DEF b
  <2>2. IsExt(b)
    BY <2>1 DEF Agree
  <2> QED BY <1>3, <2>1, <2>2
<1>5. b.open = w.open
  BY <1>3, <1>4 DEF Agree, Major
<1> HIDE DEF b
<1>6. Agree(b, c, {"out"}) /\ IsExt(c) /\ c.out = IF w.open THEN b.out \o t ELSE b.out
  BY <1>4, <1>5, InjectIs DEF Agree
<1> HIDE DEF c
<1>7. Agree(c, d, {"open"}) /\ ~d.open /\ IsExt(d)
  BY <1>6, CloseIs DEF Agree
<1>8. d.out = c.out
  BY <1>7 DEF Agree, Major
<1> HIDE DEF d
<1>9. Agree(d, v, {"parked"})
  BY <1>1, <1>7 DEF Agree, IsExt, Major
<1>10. v.open = d.open /\ v.out = d.out
  BY <1>9 DEF Agree, Major
<1>11. Agree(w, v, {"out", "source", "open", "parked"})
  <2>1. Agree(w, v, ((({"out"} \cup {"out", "source"}) \cup {"out"}) \cup {"open"}) \cup {"parked"})
    BY <1>2, <1>4, <1>6, <1>7, <1>9, AgreeAgain
  <2>2. ((({"out"} \cup {"out", "source"}) \cup {"out"}) \cup {"open"}) \cup {"parked"} = {"out", "source", "open", "parked"}
    OBVIOUS
  <2> QED BY <2>1, <2>2
<1> QED BY <1>2, <1>4, <1>6, <1>7, <1>8, <1>10, <1>11

LEMMA OntoOperators ==
  ASSUME NEW w, IsExt(w)
  PROVE  /\ \A d : Onto(w, Return(w, d))
         /\ Onto(w, Ready(w)) /\ Onto(w, StatusError(w)) /\ Onto(w, Close(w)) /\ Onto(w, DrainAndInject(w))
         /\ \A fr : Onto(w, Inject(w, fr)) /\ Onto(w, DrainAndClose(w, fr))
         /\ Onto(w, SetStreamingBody(w, FALSE)) /\ Onto(w, TryEnableStreamingBody(w))
<1>0. \A v : Agree(w, v, {}) => Onto(w, v)
  BY OntoAgree
<1>1. \A d : Onto(w, Return(w, d))
  BY <1>0, ReturnIs
<1>2. Onto(w, Ready(w)) /\ Onto(w, StatusError(w))
  BY <1>0, ReadyIs, StatusErrorIs
<1>3. ASSUME NEW v, NEW E, Agree(w, v, E), E \subseteq {"out", "source", "open", "parked"}
      PROVE  /\ IsExt(v) /\ (Clean(v) => Clean(w)) /\ v.original = w.original
             /\ "open" \notin E => v.open = w.open
             /\ "out" \notin E => v.out = w.out
  <2>1. \A f \in {"touched", "failed", "original"} : f \in Major \ E
    BY <1>3 DEF Major
  <2>2. v.touched = w.touched /\ v.failed = w.failed /\ v.original = w.original
    BY <1>3, <2>1 DEF Agree
  <2>3. "open" \in Major /\ "out" \in Major
    BY DEF Major
  <2> QED BY <1>3, <2>2, <2>3 DEF Agree, Clean
<1>4. Onto(w, Close(w))
  <2> DEFINE v == Close(w)
  <2>1. Agree(w, v, {"open"}) /\ ~v.open
    BY CloseIs
  <2> HIDE DEF v
  <2>2. IsExt(v) /\ (Clean(v) => Clean(w)) /\ v.original = w.original /\ v.out = w.out
    BY <1>3, <2>1
  <2> QED BY <2>1, <2>2 DEF Onto, v
<1>5. Onto(w, DrainAndInject(w))
  <2> DEFINE v == DrainAndInject(w)
  <2>1. Agree(w, v, {"out", "source"}) /\ (~w.open => v = w)
    BY DrainAndInjectIs
  <2> HIDE DEF v
  <2>2. IsExt(v) /\ (Clean(v) => Clean(w)) /\ v.original = w.original
    BY <1>3, <2>1
  <2> QED BY <2>1, <2>2 DEF Onto, v
<1>6. ASSUME NEW fr PROVE Onto(w, Inject(w, fr))
  <2> DEFINE v == Inject(w, fr)
  <2>1. Agree(w, v, {"out"}) /\ (~w.open => v.out = w.out)
    BY InjectIs
  <2> HIDE DEF v
  <2>2. IsExt(v) /\ (Clean(v) => Clean(w)) /\ v.original = w.original /\ v.open = w.open
    BY <1>3, <2>1
  <2> QED BY <2>1, <2>2 DEF Onto, v
<1>7. ASSUME NEW fr PROVE Onto(w, DrainAndClose(w, fr))
  <2> DEFINE v == DrainAndClose(w, fr)
  <2>1. Agree(w, v, {"out", "source", "open", "parked"}) /\ (~w.open => v.out = w.out) /\ ~v.open
    BY DrainAndCloseIs
  <2> HIDE DEF v
  <2>2. IsExt(v) /\ (Clean(v) => Clean(w)) /\ v.original = w.original
    BY <1>3, <2>1
  <2> QED BY <2>1, <2>2 DEF Onto, v
<1>8. Onto(w, SetStreamingBody(w, FALSE))
  BY SetStreamingBodyIs, OntoAgree
<1>9. Onto(w, TryEnableStreamingBody(w))
  <2> DEFINE v == TryEnableStreamingBody(w)
  <2>1. CASE w.known.any
    BY <2>1, TryEnableStreamingBodyIs, OntoAgree
  <2>2. CASE ~w.known.any
    <3>1. Agree(w, v, {"open"}) /\ ~v.open
      BY <2>2, TryEnableStreamingBodyIs
    <3> HIDE DEF v
    <3>2. IsExt(v) /\ (Clean(v) => Clean(w)) /\ v.original = w.original /\ v.out = w.out
      BY <1>3, <3>1
    <3> QED BY <3>1, <3>2 DEF Onto, v
  <2> QED BY <2>1, <2>2
<1> QED BY <1>1, <1>2, <1>4, <1>5, <1>6, <1>7, <1>8, <1>9

LEMMA OntoEndLoop ==
  ASSUME NEW w, IsExt(w)
  PROVE  Onto(w, EndLoop(w))
<1> DEFINE a == DrainAndInject(w)
           b == StatusError(a)
           c == EndLoop(w)
<1>1. Onto(w, a)
  BY OntoOperators
<1>2. Onto(a, b)
  BY <1>1, OntoOperators DEF Onto
<1>3. c = [b EXCEPT !.open = FALSE, !.run = FALSE, !.timer = FALSE]
  BY DEF EndLoop
<1> HIDE DEF b, c
<1>4. IsExt(b)
  BY <1>2 DEF Onto
<1>5. /\ DOMAIN c = DOMAIN b /\ ~c.open /\ c.out = b.out /\ c.original = b.original
      /\ c.touched = b.touched /\ c.failed = b.failed
  BY <1>3, <1>4 DEF IsExt, Minor, Major
<1>6. Onto(b, c)
  BY <1>4, <1>5 DEF Onto, IsExt, Clean
<1> HIDE DEF a
<1>7. Onto(w, c)
  BY <1>1, <1>2, <1>6, OntoAgain
<1> QED BY <1>7 DEF c

(* Failing makes it unclean.                                               *)
LEMMA OntoFailed ==
  ASSUME NEW w, IsExt(w), NEW why, why # "", NEW v, v = [w EXCEPT !.failed = why]
  PROVE  Onto(w, v) /\ ~Clean(v) /\ Agree(w, v, {"failed"})
<1>1. DOMAIN v = DOMAIN w /\ v.failed = why /\ \A f \in Major : f # "failed" => v[f] = w[f]
  BY DEF IsExt, Major
<1>2. v.open = w.open /\ v.out = w.out /\ v.original = w.original
  BY <1>1 DEF Major
<1> QED BY <1>1, <1>2 DEF Onto, Clean, IsExt, Agree

LEMMA ForwardIs ==
  ASSUME NEW w, IsExt(w), NEW messages, NEW answer, NEW v, v = Forward(w, messages, answer)
  PROVE  /\ Onto(w, v)
         /\ Clean(v) => /\ Agree(w, v, {"awaiting"})
                        /\ ~w.options.observe => v.awaiting = w.awaiting \o messages
<1>1. CASE answer = "unresolved"
  <2>1. v = [w EXCEPT !.failed = "unresolved"]
    BY <1>1 DEF Forward
  <2> QED BY <2>1, OntoFailed
<1>2. CASE answer = "lost"
  <2> DEFINE a == StatusError(w)
             b == [a EXCEPT !.timer = FALSE]
  <2>1. v = [a EXCEPT !.timer = FALSE, !.failed = "lost"]
    BY <1>2 DEF Forward
  <2>2. Onto(w, a) /\ IsExt(a)
    BY OntoOperators DEF Onto
  <2> HIDE DEF a
  <2>3. Onto(a, b) /\ IsExt(b)
    <3>1. Agree(a, b, {})
      BY <2>2 DEF Agree, IsExt, Major
    <3> HIDE DEF b
    <3>2. IsExt(b)
      BY <3>1 DEF Agree
    <3>3. Onto(a, b)
      BY <3>1, OntoAgree
    <3> QED BY <3>2, <3>3
  <2>4. v = [b EXCEPT !.failed = "lost"]
    BY <2>1
  <2> HIDE DEF b
  <2>5. Onto(b, v) /\ ~Clean(v)
    BY <2>3, <2>4, OntoFailed
  <2> QED BY <2>2, <2>3, <2>5, OntoAgain
<1>3. CASE answer # "unresolved" /\ answer # "lost"
  <2> DEFINE x == IF w.options.observe THEN <<>> ELSE w.awaiting \o messages
             y == ~w.options.observe
  <2>1. v = [w EXCEPT !.connected = TRUE, !.awaiting = x, !.timer = y]
    BY <1>3 DEF Forward
  <2> HIDE DEF x, y
  <2>2. Agree(w, v, {"awaiting"}) /\ v.awaiting = x
    BY <2>1 DEF Agree, IsExt, Major, Minor
  <2> QED BY <2>2, OntoAgree DEF x
<1> QED BY <1>1, <1>2, <1>3

-----------------------------------------------------------------------------
(* An emitted frame comes out, or is in flight.                            *)
Emitted(w, frames, v) ==
    /\ Onto(w, v)
    /\ (Clean(v) /\ w.open) =>
         /\ Agree(w, v, {"awaiting", "out", "inflight"})
         /\ frames = <<>> => v.out = w.out /\ v.inflight = w.inflight /\ v.awaiting = w.awaiting
         /\ (frames # <<>> /\ (w.options.observe \/ ~ShouldProcessBody(w))) =>
                /\ v.out = w.out \o frames /\ v.inflight = w.inflight
                /\ ~w.options.observe => v.awaiting = w.awaiting
         /\ (frames # <<>> /\ ~w.options.observe /\ ShouldProcessBody(w)) =>
                /\ v.out = w.out /\ v.inflight = w.inflight \o frames
                /\ v.awaiting = w.awaiting \o <<"body">>

LEMMA EmitIs ==
  ASSUME NEW w, IsExt(w), NEW frames, NEW answer, NEW v, v = Emit(w, frames, answer)
  PROVE  Emitted(w, frames, v)
<1> USE DEF Emitted
<1>0. Onto(w, w) /\ Agree(w, w, {"awaiting", "out", "inflight"})
  BY DEF Onto, Agree
<1>1. CASE frames = <<>>
  <2>1. v = w
    BY <1>1 DEF Emit
  <2> QED BY <1>0, <1>1, <2>1
<1>2. CASE frames # <<>> /\ (w.options.observe \/ ~ShouldProcessBody(w))
  <2> DEFINE a == IF w.options.observe /\ ShouldProcessBody(w) THEN Forward(w, <<>>, answer) ELSE w
             b == Ready(a)
  <2>1. v = Inject(b, frames)
    BY <1>2 DEF Emit, Observe
  <2>2. Onto(w, a) /\ (Clean(a) => Agree(w, a, {"awaiting"}) /\ (~w.options.observe => a.awaiting = w.awaiting))
    <3>1. CASE w.options.observe /\ ShouldProcessBody(w)
      <4>1. a = Forward(w, <<>>, answer)
        BY <3>1
      <4> HIDE DEF a
      <4> QED BY <3>1, <4>1, ForwardIs
    <3>2. CASE ~(w.options.observe /\ ShouldProcessBody(w))
      <4>1. a = w /\ Agree(w, w, {"awaiting"})
        BY <3>2 DEF Agree
      <4> QED BY <1>0, <4>1
    <3> QED BY <3>1, <3>2
  <2> HIDE DEF a
  <2>3. IsExt(a)
    BY <2>2 DEF Onto
  <2>4. Agree(a, b, {}) /\ Onto(a, b)
    BY <2>3, ReadyIs, OntoOperators
  <2> HIDE DEF b
  <2>5. IsExt(b)
    BY <2>4 DEF Agree
  <2>6. Onto(b, v) /\ Agree(b, v, {"out"}) /\ v.out = IF b.open THEN b.out \o frames ELSE b.out
    BY <2>1, <2>5, InjectIs, OntoOperators
  <2>7. Onto(w, v)
    BY <2>2, <2>4, <2>6, OntoAgain
  <2>8. ASSUME Clean(v), w.open
        PROVE  /\ Agree(w, v, {"awaiting", "out", "inflight"})
               /\ v.out = w.out \o frames /\ v.inflight = w.inflight
               /\ ~w.options.observe => v.awaiting = w.awaiting
    <3>1. Clean(a)
      BY <2>4, <2>6, <2>8 DEF Onto
    <3>2. Agree(w, a, {"awaiting"}) /\ (~w.options.observe => a.awaiting = w.awaiting)
      BY <2>2, <3>1
    <3>3. Agree(w, v, ({"awaiting"} \cup {}) \cup {"out"})
      BY <2>4, <2>6, <3>2, AgreeAgain
    <3>4. Agree(w, v, {"awaiting", "out", "inflight"})
      BY <3>3, AgreeWider
    <3>5. b.open = w.open /\ b.out = w.out /\ b.awaiting = a.awaiting
      BY <2>4, <3>2 DEF Agree, Major
    <3>6. v.inflight = w.inflight /\ v.awaiting = b.awaiting
      BY <2>6, <3>3 DEF Agree, Major
    <3> QED BY <2>6, <2>8, <3>2, <3>4, <3>5, <3>6
  <2> QED BY <1>2, <2>7, <2>8
<1>3. CASE frames # <<>> /\ ~w.options.observe /\ ShouldProcessBody(w)
  <2> DEFINE a == Forward(w, <<"body">>, answer)
  <2>1. v = [a EXCEPT !.inflight = a.inflight \o frames]
    BY <1>3 DEF Emit
  <2>2. Onto(w, a) /\ (Clean(a) => Agree(w, a, {"awaiting"}) /\ a.awaiting = w.awaiting \o <<"body">>)
    BY <1>3, ForwardIs
  <2> HIDE DEF a
  <2>3. IsExt(a)
    BY <2>2 DEF Onto
  <2>4. Agree(a, v, {"inflight"}) /\ v.inflight = a.inflight \o frames
    BY <2>1, <2>3 DEF Agree, IsExt, Major
  <2>5. Onto(a, v)
    BY <2>4, OntoAgree
  <2>6. Onto(w, v)
    BY <2>2, <2>5, OntoAgain
  <2>7. ASSUME Clean(v)
        PROVE  /\ Agree(w, v, {"awaiting", "out", "inflight"})
               /\ v.out = w.out /\ v.inflight = w.inflight \o frames /\ v.awaiting = w.awaiting \o <<"body">>
    <3>1. Agree(w, a, {"awaiting"}) /\ a.awaiting = w.awaiting \o <<"body">>
      BY <2>2, <2>5, <2>7 DEF Onto
    <3>2. Agree(w, v, {"awaiting"} \cup {"inflight"})
      BY <2>4, <3>1, AgreeAgain
    <3>3. Agree(w, v, {"awaiting", "out", "inflight"})
      BY <3>2, AgreeWider
    <3>4. a.inflight = w.inflight /\ v.awaiting = a.awaiting /\ v.out = w.out
      BY <2>4, <3>1, <3>2 DEF Agree, Major
    <3> QED BY <2>4, <3>1, <3>3, <3>4
  <2> QED BY <1>3, <2>6, <2>7
<1> QED BY <1>1, <1>2, <1>3

LEMMA OneFrame ==
  ASSUME NEW f \in Frames
  PROVE  /\ <<f>> \in Seq(Frames) /\ Len(<<f>>) = 1 /\ Chunks(<<f>>) = f.chunks
         /\ DOMAIN <<f>> = {1} /\ <<f>>[1] = f
<1>1. Chunks(<<f>>) = f.chunks
  BY ChunksOne
<1>2. <<f>> \in Seq(Frames) /\ Len(<<f>>) = 1 /\ DOMAIN <<f>> = {1} /\ <<f>>[1] = f
  OBVIOUS
<1> QED BY <1>1, <1>2

(* Merging loses nothing.                                                  *)
Pushed(w, f, p) ==
    /\ Agree(w, p.w, {"data", "trailers"})
    /\ p.emitted \in Seq(Frames) /\ p.w.data \in Seq(Frames)
    /\ Len(p.w.data) <= 1 /\ Len(p.emitted) <= 1
    /\ \A i \in DOMAIN p.w.data : p.w.data[i].data
    /\ \A i \in DOMAIN p.emitted : p.emitted[i].data
    /\ Chunks(p.emitted) \o Chunks(p.w.data) = Chunks(w.data) \o f.chunks
    /\ p.w.trailers <=> (w.trailers \/ ~f.data)
    /\ (~f.data /\ w.data = <<>>) => p.emitted = <<>> /\ p.w.data = <<>>

LEMMA PushIs ==
  ASSUME NEW w, IsExt(w), NEW f \in Frames, ~f.data => f.chunks = <<>>,
         w.data \in Seq(Frames), Len(w.data) <= 1, \A i \in DOMAIN w.data : w.data[i].data,
         NEW late \in BOOLEAN, NEW p, p = Push(w, f, late)
  PROVE  Pushed(w, f, p)
<1> USE DEF Pushed
<1>0. f.chunks \in Seq(Nat) /\ Chunks(w.data) \in Seq(Nat) /\ Chunks(<<>>) = <<>>
  BY ChunksOf, ChunksOne DEF Frames
<1>1. CASE f.data
  <2> DEFINE m == Merged(w, f)
             count == IF w.data = <<>> THEN 1 ELSE w.count + 1
             emit == ~Buffered(w) /\ (count >= MergeLimit \/ late)
             e == IF emit THEN m ELSE <<>>
             d == IF emit THEN <<>> ELSE m
             n == IF emit THEN 0 ELSE count
             v == [w EXCEPT !.data = d, !.count = n]
  <2>1. p = [emitted |-> e, w |-> v]
    BY <1>1 DEF Push
  <2>2. /\ m \in Seq(Frames) /\ Len(m) = 1 /\ \A i \in DOMAIN m : m[i].data
        /\ Chunks(m) = Chunks(w.data) \o f.chunks
    <3>1. CASE w.data = <<>>
      <4>1. m = <<f>>
        BY <3>1 DEF Merged
      <4>2. <<>> \o f.chunks = f.chunks
        BY <1>0, ConcatEmptySeq
      <4>3. <<f>> \in Seq(Frames) /\ Len(<<f>>) = 1 /\ Chunks(<<f>>) = f.chunks /\ DOMAIN <<f>> = {1} /\ <<f>>[1] = f
        BY OneFrame
      <4>4. Chunks(w.data) = <<>>
        BY <1>0, <3>1
      <4> HIDE DEF m
      <4>5. Chunks(m) = Chunks(w.data) \o f.chunks
        BY <4>1, <4>2, <4>3, <4>4
      <4>6. \A i \in DOMAIN m : m[i].data
        BY <1>1, <4>1, <4>3
      <4> QED BY <4>1, <4>3, <4>5, <4>6
    <3>2. CASE w.data # <<>>
      <4> DEFINE g == w.data[1]
                 c == g.chunks \o f.chunks
                 x == DataFrame(c)
      <4>1. w.data = <<g>> /\ g \in Frames
        BY <3>2
      <4>2. g.chunks \in Seq(Nat) /\ Chunks(w.data) = g.chunks
        <5> HIDE DEF g
        <5> QED BY <4>1, ChunksOne DEF Frames
      <4>3. c \in Seq(Nat)
        BY <1>0, <4>2, ConcatProperties
      <4>4. m = <<x>>
        BY <3>2 DEF Merged
      <4> HIDE DEF c, g, m
      <4>5. x \in Frames /\ x.data /\ x.chunks = c
        BY <4>3, FrameFacts
      <4> HIDE DEF x
      <4>6. <<x>> \in Seq(Frames) /\ Len(<<x>>) = 1 /\ Chunks(<<x>>) = c /\ DOMAIN <<x>> = {1} /\ <<x>>[1] = x
        BY <4>5, OneFrame
      <4>7. \A i \in DOMAIN m : m[i].data
        BY <4>4, <4>5, <4>6
      <4>8. Chunks(m) = Chunks(w.data) \o f.chunks
        BY <4>2, <4>4, <4>6 DEF c
      <4> QED BY <4>4, <4>6, <4>7, <4>8
    <3> QED BY <3>1, <3>2
  <2> HIDE DEF m, count, emit, n
  <2>3. /\ e \in Seq(Frames) /\ d \in Seq(Frames) /\ Len(e) <= 1 /\ Len(d) <= 1
        /\ \A i \in DOMAIN e : e[i].data
        /\ \A i \in DOMAIN d : d[i].data
        /\ Chunks(e) \o Chunks(d) = Chunks(w.data) \o f.chunks
    <3>1. Chunks(m) \in Seq(Nat)
      BY <2>2, ChunksOf
    <3>2. Chunks(m) \o <<>> = Chunks(m) /\ <<>> \o Chunks(m) = Chunks(m)
      BY <3>1, ConcatEmptySeq
    <3>3. CASE e = m /\ d = <<>>
      <4>1. Chunks(e) \o Chunks(d) = Chunks(w.data) \o f.chunks
        BY <1>0, <2>2, <3>2, <3>3
      <4>2. <<>> \in Seq(Frames) /\ Len(<<>>) <= 1 /\ DOMAIN <<>> = {} /\ Len(m) <= 1
        BY <2>2
      <4> HIDE DEF e, d
      <4>3. (\A i \in DOMAIN e : e[i].data) /\ (\A i \in DOMAIN d : d[i].data)
        BY <2>2, <3>3, <4>2
      <4>4. e \in Seq(Frames) /\ d \in Seq(Frames) /\ Len(e) <= 1 /\ Len(d) <= 1
        BY <2>2, <3>3, <4>2
      <4> QED BY <4>1, <4>3, <4>4
    <3>4. CASE e = <<>> /\ d = m
      <4>1. Chunks(e) \o Chunks(d) = Chunks(w.data) \o f.chunks
        BY <1>0, <2>2, <3>2, <3>4
      <4>2. <<>> \in Seq(Frames) /\ Len(<<>>) <= 1 /\ DOMAIN <<>> = {} /\ Len(m) <= 1
        BY <2>2
      <4> HIDE DEF e, d
      <4>3. (\A i \in DOMAIN e : e[i].data) /\ (\A i \in DOMAIN d : d[i].data)
        BY <2>2, <3>4, <4>2
      <4>4. e \in Seq(Frames) /\ d \in Seq(Frames) /\ Len(e) <= 1 /\ Len(d) <= 1
        BY <2>2, <3>4, <4>2
      <4> QED BY <4>1, <4>3, <4>4
    <3> QED BY <3>3, <3>4
  <2> HIDE DEF e, d
  <2>4. Agree(w, v, {"data"}) /\ v.data = d
    BY DEF Agree, IsExt, Major, Minor
  <2>5. v.trailers = w.trailers
    BY <2>4 DEF Agree, Major
  <2> HIDE DEF v
  <2>6. p.emitted = e /\ p.w = v
    BY <2>1
  <2>7. Agree(w, v, {"data", "trailers"})
    BY <2>4, AgreeWider
  <2> QED BY <1>1, <2>3, <2>4, <2>5, <2>6, <2>7
<1>2. CASE ~f.data
  <2> DEFINE e == IF Buffered(w) THEN <<>> ELSE w.data
             d == IF Buffered(w) THEN w.data ELSE <<>>
             v == [w EXCEPT !.data = d, !.count = 0, !.trailers = TRUE]
  <2>1. p = [emitted |-> e, w |-> v]
    BY <1>2 DEF Push
  <2>2. /\ e \in Seq(Frames) /\ d \in Seq(Frames) /\ Len(e) <= 1 /\ Len(d) <= 1
        /\ \A i \in DOMAIN e : e[i].data
        /\ \A i \in DOMAIN d : d[i].data
        /\ Chunks(e) \o Chunks(d) = Chunks(w.data) \o f.chunks
        /\ w.data = <<>> => e = <<>> /\ d = <<>>
    <3>1. f.chunks = <<>> /\ Chunks(w.data) \o <<>> = Chunks(w.data) /\ <<>> \o Chunks(w.data) = Chunks(w.data)
      BY <1>0, <1>2, ConcatEmptySeq
    <3>2. CASE Buffered(w)
      BY <1>0, <3>1, <3>2
    <3>3. CASE ~Buffered(w)
      BY <1>0, <3>1, <3>3
    <3> QED BY <3>2, <3>3
  <2> HIDE DEF e, d
  <2>3. Agree(w, v, {"data", "trailers"}) /\ v.data = d /\ v.trailers
    BY DEF Agree, IsExt, Major, Minor
  <2> HIDE DEF v
  <2>4. p.emitted = e /\ p.w = v
    BY <2>1
  <2> QED BY <1>2, <2>2, <2>3, <2>4
<1> QED BY <1>1, <1>2

-----------------------------------------------------------------------------
(* Sequences put together in another way.                                  *)
(* Of o, i, d and then f, t: what d and f are merged to goes to i in part. *)
Regrouped(o, i, d, f, t, e, g) ==
    d \o f = e \o g => ((o \o i) \o d) \o (f \o t) = ((o \o (i \o e)) \o g) \o t

LEMMA Regroup ==
  ASSUME NEW S, NEW o \in Seq(S), NEW i \in Seq(S), NEW d \in Seq(S), NEW f \in Seq(S), NEW t \in Seq(S),
         NEW e \in Seq(S), NEW g \in Seq(S)
  PROVE  Regrouped(o, i, d, f, t, e, g)
<1> SUFFICES ASSUME d \o f = e \o g PROVE ((o \o i) \o d) \o (f \o t) = ((o \o (i \o e)) \o g) \o t
  BY Zenon DEF Regrouped
<1> DEFINE a == o \o i
<1>0. f \o t \in Seq(S) /\ a \in Seq(S) /\ e \o g \in Seq(S)
  BY ConcatProperties
<1>1. Associate(o, i, e)
  BY Associates, Zenon
<1>2. a \o e = o \o (i \o e)
  BY <1>1, Zenon DEF Associate
<1> HIDE DEF a
<1>3. Associate(a, d, f \o t) /\ Associate(d, f, t)
  BY <1>0, Associates, Zenon
<1>4. Associate(a, e \o g, t) /\ Associate(a, e, g)
  BY <1>0, Associates, Zenon
<1>5. (a \o d) \o (f \o t) = ((a \o e) \o g) \o t
  BY <1>3, <1>4, Zenon DEF Associate
<1> QED BY <1>2, <1>5, Zenon DEF a

Kinds == {"headers", "body", "trailers"}

LEMMA OwedOf ==
  ASSUME NEW s \in Seq(Frames)
  PROVE  /\ Owed(s) \in Seq(Kinds) /\ Len(Owed(s)) = Len(s)
         /\ \A i \in 1 .. Len(s) : Owed(s)[i] = IF s[i].data THEN "body" ELSE "trailers"
<1>1. "body" \in Kinds /\ "trailers" \in Kinds
  BY DEF Kinds
<1>2. Owed(s) \in [1 .. Len(s) -> Kinds] /\ Len(s) \in Nat
  BY <1>1 DEF Owed
<1>3. \A i \in 1 .. Len(s) : Owed(s)[i] = IF s[i].data THEN "body" ELSE "trailers"
  BY DEF Owed
<1>4. Owed(s) \in Seq(Kinds)
  BY <1>2, SeqDef
<1> HIDE DEF Owed
<1>5. Len(Owed(s)) = Len(s)
  BY <1>2, <1>4
<1> QED BY <1>3, <1>4, <1>5

LEMMA OwedAppended ==
  ASSUME NEW s \in Seq(Frames), NEW f \in Frames, NEW h \in Seq(Kinds)
  PROVE  (h \o Owed(s)) \o <<IF f.data THEN "body" ELSE "trailers">> = h \o Owed(s \o <<f>>)
<1> DEFINE x == IF f.data THEN "body" ELSE "trailers"
           t == s \o <<f>>
           n == Len(s)
           z == Owed(s)
           y == <<x>>
<1>1. t \in Seq(Frames) /\ Len(t) = n + 1 /\ t[n + 1] = f /\ n \in Nat /\ \A i \in 1 .. n : t[i] = s[i]
  OBVIOUS
<1>2. x \in Kinds
  BY DEF Kinds
<1> HIDE DEF t
<1>3. /\ z \in Seq(Kinds) /\ Len(z) = n /\ Owed(t) \in Seq(Kinds) /\ Len(Owed(t)) = n + 1
      /\ \A i \in 1 .. n : z[i] = IF s[i].data THEN "body" ELSE "trailers"
      /\ \A i \in 1 .. n + 1 : Owed(t)[i] = IF t[i].data THEN "body" ELSE "trailers"
  BY <1>1, OwedOf
<1>4. Owed(t)[n + 1] = x
  BY <1>1, <1>3
<1> HIDE DEF x, z
<1>5. y \in Seq(Kinds)
  BY <1>2
<1>6. Owed(t) = z \o y
  <2> DEFINE u == z \o y
  <2>1. u \in Seq(Kinds) /\ Len(u) = n + 1 /\ u[n + 1] = x /\ \A i \in 1 .. n : u[i] = z[i]
    <3>1. u \in Seq(Kinds)
      BY <1>3, <1>5, ConcatProperties
    <3>2. Len(y) = 1 /\ y[1] = x
      OBVIOUS
    <3> HIDE DEF y
    <3>3. Len(u) = n + 1 /\ \A i \in 1 .. n + 1 : u[i] = IF i <= n THEN z[i] ELSE y[i - n]
      <4>1. Len(u) = Len(z) + Len(y)
        BY <1>3, <1>5, ConcatProperties
      <4>2. ASSUME NEW i \in 1 .. Len(z) + Len(y) PROVE u[i] = IF i <= Len(z) THEN z[i] ELSE y[i - Len(z)]
        BY <1>3, <1>5, ConcatProperties
      <4> HIDE DEF u
      <4> QED BY <1>1, <1>3, <3>2, <4>1, <4>2
    <3>4. u[n + 1] = y[1] /\ \A i \in 1 .. n : u[i] = z[i]
      BY <1>1, <3>3
    <3> QED BY <3>1, <3>2, <3>3, <3>4
  <2> HIDE DEF u
  <2>2. ASSUME NEW i \in 1 .. n + 1 PROVE Owed(t)[i] = u[i]
    <3>1. CASE i = n + 1
      BY <1>4, <2>1, <3>1
    <3>2. CASE i \in 1 .. n
      BY <1>1, <1>3, <2>1, <3>2
    <3> QED BY <1>1, <3>1, <3>2
  <2>3. Owed(t) = u
    BY <1>3, <2>1, <2>2, SeqEqual
  <2> QED BY <2>3 DEF u
<1> HIDE DEF y
<1>7. Associate(h, z, y)
  BY <1>3, <1>5, Associates, Zenon
<1>8. (h \o z) \o y = h \o Owed(t)
  BY <1>6, <1>7, Zenon DEF Associate
<1> QED BY <1>8 DEF x, y, z, t

LEMMA OwedFirst ==
  ASSUME NEW s \in Seq(Frames), NEW h \in {<<>>, <<"headers">>}, NEW a, a = h \o Owed(s), a # <<>>
  PROVE  /\ Head(a) = "headers" <=> h = <<"headers">>
         /\ h = <<"headers">> => Tail(a) = Owed(s)
         /\ h = <<>> => /\ s # <<>> /\ Tail(a) = Owed(Tail(s))
                        /\ Head(a) = IF s[1].data THEN "body" ELSE "trailers"
<1> DEFINE z == Owed(s)
<1>1. /\ z \in Seq(Kinds) /\ Len(z) = Len(s)
      /\ \A i \in 1 .. Len(s) : z[i] = IF s[i].data THEN "body" ELSE "trailers"
  BY OwedOf
<1>2. a = h \o z
  OBVIOUS
<1> HIDE DEF z
<1>3. CASE h = <<"headers">>
  <2>1. a = <<"headers">> \o z
    BY <1>2, <1>3
  <2>2. Head(a) = "headers" /\ Tail(a) = z
    BY <1>1, <2>1
  <2>3. <<"headers">> # <<>>
    OBVIOUS
  <2> QED BY <1>3, <2>2, <2>3 DEF z
<1>4. CASE h = <<>>
  <2>1. a = z
    BY <1>1, <1>2, <1>4, ConcatEmptySeq
  <2>2. s # <<>> /\ Len(s) >= 1
    BY <1>1, <2>1
  <2>3. Head(a) = IF s[1].data THEN "body" ELSE "trailers"
    <3>1. Head(a) = z[1]
      BY <1>1, <2>1, <2>2
    <3> QED BY <1>1, <2>2, <3>1
  <2>4. Tail(a) = Owed(Tail(s))
    <3> DEFINE t == Tail(s)
               n == Len(s) - 1
    <3>1. t \in Seq(Frames) /\ Len(t) = n /\ n \in Nat /\ \A i \in 1 .. n : t[i] = s[i + 1] /\ i + 1 \in 1 .. Len(s)
      BY <2>2
    <3>2. Tail(a) \in Seq(Kinds) /\ Len(Tail(a)) = n /\ \A i \in 1 .. n : Tail(a)[i] = z[i + 1]
      BY <1>1, <2>1, <2>2
    <3> HIDE DEF t
    <3>3. /\ Owed(t) \in Seq(Kinds) /\ Len(Owed(t)) = n
          /\ \A i \in 1 .. n : Owed(t)[i] = IF t[i].data THEN "body" ELSE "trailers"
      BY <3>1, OwedOf
    <3>4. ASSUME NEW i \in 1 .. n PROVE Tail(a)[i] = Owed(t)[i]
      BY <1>1, <3>1, <3>2, <3>3
    <3> HIDE DEF n
    <3>5. Tail(a) = Owed(t)
      BY <3>2, <3>3, <3>4, SeqEqual
    <3> QED BY <3>5 DEF t
  <2>5. Head(a) # "headers" /\ h # <<"headers">>
    <3>1. <<>> # <<"headers">>
      OBVIOUS
    <3> QED BY <1>4, <2>3, <3>1
  <2> QED BY <1>4, <2>2, <2>3, <2>4, <2>5
<1> QED BY <1>3, <1>4

-----------------------------------------------------------------------------
(* Bodies.                                                                 *)
LEMMA AllDataConcat ==
  ASSUME NEW s, NEW t, AllData(s), AllData(t)
  PROVE  AllData(s \o t)
<1>1. s \in Seq(Frames) /\ t \in Seq(Frames) /\ s \o t \in Seq(Frames) /\ Len(s) \in Nat /\ Len(t) \in Nat
  BY ConcatProperties DEF AllData
<1>2. ASSUME NEW i \in DOMAIN (s \o t) PROVE (s \o t)[i].data
  <2>1. i \in 1 .. Len(s) + Len(t) /\ (s \o t)[i] = IF i <= Len(s) THEN s[i] ELSE t[i - Len(s)]
    BY <1>1, ConcatProperties
  <2>2. CASE i <= Len(s)
    <3>1. i \in DOMAIN s /\ (s \o t)[i] = s[i]
      BY <1>1, <2>1, <2>2
    <3> QED BY <3>1 DEF AllData
  <2>3. CASE ~(i <= Len(s))
    <3>1. i - Len(s) \in DOMAIN t /\ (s \o t)[i] = t[i - Len(s)]
      BY <1>1, <2>1, <2>3
    <3> QED BY <3>1 DEF AllData
  <2> QED BY <2>2, <2>3
<1> QED BY <1>1, <1>2 DEF AllData

LEMMA AllDataIs ==
  /\ AllData(<<>>)
  /\ \A f \in Frames : f.data => AllData(<<f>>)
  /\ \A s : AllData(s) => IsBody(s) /\ ~HasTrailers(s)
  /\ \A s : IsBody(s) /\ ~HasTrailers(s) => AllData(s)
<1>1. AllData(<<>>)
  <2>1. <<>> \in Seq(Frames) /\ DOMAIN <<>> = {}
    OBVIOUS
  <2> QED BY <2>1 DEF AllData
<1>2. ASSUME NEW f \in Frames, f.data PROVE AllData(<<f>>)
  <2>1. <<f>> \in Seq(Frames) /\ DOMAIN <<f>> = {1} /\ <<f>>[1] = f
    BY OneFrame
  <2> QED BY <1>2, <2>1 DEF AllData
<1>3. \A s : AllData(s) => IsBody(s) /\ ~HasTrailers(s)
  BY DEF AllData, IsBody, HasTrailers
<1>4. \A s : IsBody(s) /\ ~HasTrailers(s) => AllData(s)
  BY DEF AllData, IsBody, HasTrailers
<1> QED BY <1>1, <1>2, <1>3, <1>4

(* Trailers at the end.                                                    *)
LEMMA TrailersLast ==
  ASSUME NEW s \in Seq(Frames), NEW t, t = s \o <<Trailers>>
  PROVE  /\ HasTrailers(t) /\ Chunks(t) = Chunks(s) /\ ~Last(t).data
         /\ t \in Seq(Frames) /\ t # <<>>
         /\ AllData(s) => IsBody(t)
<1>0. s \in Seq(Frames) /\ Trailers \in Frames /\ ~Trailers.data /\ Trailers.chunks = <<>> /\ Len(s) \in Nat
  BY FrameFacts
<1> DEFINE f == Trailers
           n == Len(s)
<1> HIDE DEF f
<1>1. t = s \o <<f>> /\ f \in Frames /\ ~f.data /\ f.chunks = <<>>
  BY <1>0 DEF f
<1>2. t \in Seq(Frames) /\ Len(t) = n + 1 /\ t[n + 1] = f /\ \A i \in 1 .. n : t[i] = s[i]
  BY <1>0, <1>1
<1>3. AllData(s) => \A i \in 1 .. n : s[i].data
  BY <1>0 DEF AllData
<1>4. AllData(s) => IsBody(t)
  <2> SUFFICES ASSUME AllData(s), NEW i \in DOMAIN t, ~t[i].data PROVE i = Len(t) /\ t[i].chunks = <<>>
    BY <1>2 DEF IsBody
  <2>1. i \in 1 .. n + 1
    BY <1>2
  <2>2. i \notin 1 .. n
    BY <1>2, <1>3
  <2>3. i = n + 1
    BY <1>0, <2>1, <2>2
  <2> QED BY <1>1, <1>2, <2>3
<1>5. n + 1 \in DOMAIN t
  BY <1>0, <1>2
<1>6. HasTrailers(t)
  BY <1>1, <1>2, <1>5 DEF HasTrailers
<1>7. Last(t) = f
  BY <1>2 DEF Last
<1>8. Chunks(t) = Chunks(s)
  <2>1. <<f>> \in Seq(Frames) /\ Chunks(<<f>>) = <<>>
    BY <1>1, OneFrame
  <2>2. Chunks(t) = Chunks(s) \o Chunks(<<f>>)
    BY <1>0, <1>1, <2>1, ChunksConcat
  <2>3. Chunks(s) \in Seq(Nat)
    BY <1>0, ChunksOf
  <2>4. Chunks(s) \o <<>> = Chunks(s)
    BY <2>3, ConcatEmptySeq
  <2> QED BY <2>1, <2>2, <2>4
<1>9. t # <<>>
  BY <1>0, <1>2
<1> QED BY <1>1, <1>2, <1>4, <1>6, <1>7, <1>8, <1>9

(* The first frame of a body is data, or all there is.                     *)
LEMMA BodyHeadTail ==
  ASSUME NEW s, IsBody(s), s # <<>>
  PROVE  /\ Head(s) \in Frames /\ Head(s) = s[1] /\ IsBody(Tail(s)) /\ Tail(s) \in Seq(Frames)
         /\ Chunks(s) = Head(s).chunks \o Chunks(Tail(s))
         /\ ~Head(s).data => Tail(s) = <<>> /\ Head(s).chunks = <<>> /\ HasTrailers(s)
         /\ Head(s).data => (HasTrailers(s) <=> HasTrailers(Tail(s)))
         /\ (\A i \in DOMAIN s : ~s[i].data) => ~Head(s).data
         /\ (\A i \in DOMAIN s : ~s[i].data) => \A i \in DOMAIN Tail(s) : ~Tail(s)[i].data
<1> DEFINE t == Tail(s)
           n == Len(s) - 1
<1>1. s \in Seq(Frames) /\ n \in Nat /\ Len(s) = n + 1
  BY DEF IsBody
<1>2. Head(s) \in Frames /\ t \in Seq(Frames) /\ Head(s) = s[1] /\ Chunks(s) = Head(s).chunks \o Chunks(t)
  BY <1>1, ChunksHeadTail
<1>3. Len(t) = n /\ \A i \in 1 .. n : t[i] = s[i + 1] /\ i + 1 \in 1 .. n + 1
  BY <1>1
<1> HIDE DEF t, n
<1>4. DOMAIN t = 1 .. n /\ DOMAIN s = 1 .. n + 1 /\ 1 \in DOMAIN s
  BY <1>1, <1>2, <1>3
<1>5. IsBody(t)
  <2> SUFFICES ASSUME NEW i \in DOMAIN t, ~t[i].data PROVE i = Len(t) /\ t[i].chunks = <<>>
    BY <1>2 DEF IsBody
  <2>1. i \in 1 .. n /\ t[i] = s[i + 1] /\ i + 1 \in DOMAIN s
    BY <1>3, <1>4
  <2>2. i + 1 = Len(s) /\ s[i + 1].chunks = <<>>
    BY <2>1 DEF IsBody
  <2> QED BY <1>1, <1>3, <2>1, <2>2
<1>6. ~s[1].data => t = <<>> /\ s[1].chunks = <<>> /\ HasTrailers(s)
  <2> SUFFICES ASSUME ~s[1].data PROVE t = <<>> /\ s[1].chunks = <<>> /\ HasTrailers(s)
    OBVIOUS
  <2>1. 1 = Len(s) /\ s[1].chunks = <<>> /\ HasTrailers(s)
    BY <1>4 DEF IsBody, HasTrailers
  <2>2. Len(t) = 0
    BY <1>1, <1>3, <2>1
  <2> QED BY <1>2, <2>1, <2>2
<1>7. s[1].data => (HasTrailers(s) <=> HasTrailers(t))
  <2> SUFFICES ASSUME s[1].data PROVE HasTrailers(s) <=> HasTrailers(t)
    OBVIOUS
  <2>1. ASSUME HasTrailers(s) PROVE HasTrailers(t)
    <3>1. PICK i \in DOMAIN s : ~s[i].data
      BY <2>1 DEF HasTrailers
    <3>2. i # 1 /\ i - 1 \in 1 .. n /\ (i - 1) + 1 = i
      BY <1>1, <1>4, <3>1
    <3>3. i - 1 \in DOMAIN t /\ t[i - 1] = s[i]
      BY <1>3, <1>4, <3>2
    <3> QED BY <3>1, <3>3 DEF HasTrailers
  <2>2. ASSUME HasTrailers(t) PROVE HasTrailers(s)
    <3>1. PICK i \in DOMAIN t : ~t[i].data
      BY <2>2 DEF HasTrailers
    <3>2. i + 1 \in DOMAIN s /\ t[i] = s[i + 1]
      BY <1>3, <1>4
    <3> QED BY <3>1, <3>2 DEF HasTrailers
  <2> QED BY <2>1, <2>2
<1>8. (\A i \in DOMAIN s : ~s[i].data) => ~s[1].data /\ \A i \in DOMAIN t : ~t[i].data
  BY <1>3, <1>4
<1> QED BY <1>2, <1>5, <1>6, <1>7, <1>8 DEF t

-----------------------------------------------------------------------------
(* Reading a frame.                                                        *)
LEMMA SameFields ==
  ASSUME NEW w, NEW v, NEW E, Agree(w, v, E),
         E \subseteq {"source", "out", "awaiting", "data", "trailers", "inflight", "parked", "saved"}
  PROVE  /\ v.modes = w.modes /\ v.options = w.options /\ v.original = w.original /\ v.known = w.known
         /\ v.open = w.open /\ v.streaming = w.streaming /\ v.eos = w.eos /\ v.complete = w.complete
         /\ WillEnd(v) <=> WillEnd(w)
         /\ ShouldProcessBody(v) <=> ShouldProcessBody(w)
<1>1. /\ v.modes = w.modes /\ v.options = w.options /\ v.original = w.original /\ v.known = w.known
      /\ v.open = w.open /\ v.streaming = w.streaming /\ v.eos = w.eos /\ v.complete = w.complete
  BY DEF Agree, Major
<1> QED BY <1>1 DEF WillEnd, ShouldProcessBody

LEMMA SingleFrame ==
  ASSUME NEW s, AllData(s), s # <<>>, Len(s) <= 1
  PROVE  \E g \in Frames : s = <<g>> /\ g.data
<1>1. s \in Seq(Frames) /\ Len(s) = 1 /\ 1 \in DOMAIN s
  BY DEF AllData
<1>2. s = <<s[1]>> /\ s[1] \in Frames /\ s[1].data
  BY <1>1 DEF AllData
<1> QED BY <1>2

ReadsTo(w, late, r, p, v) ==
    /\ p = Push([w EXCEPT !.source = Tail(w.source)], Head(w.source), late)
    /\ v = Emit(p.w, p.emitted, r)

LEMMA ReadOne ==
  ASSUME NEW w, IsExt(w), w.open, InPieces(w), Progress(w), NEW h \in {<<>>, <<"headers">>}, Pending(w, h),
         w.streaming, ~w.complete, w.source # <<>>,
         NEW late \in BOOLEAN, NEW r, NEW p, NEW v, ReadsTo(w, late, r, p, v), Clean(v)
  PROVE  v.open /\ InPieces(v) /\ Progress(v) /\ Pending(v, h)
<1> DEFINE f == Head(w.source)
           t == Tail(w.source)
           e == p.emitted
           q == p.w
           u == [w EXCEPT !.source = Tail(w.source)]
<1>1. /\ f \in Frames /\ IsBody(t) /\ t \in Seq(Frames) /\ Chunks(w.source) = f.chunks \o Chunks(t)
      /\ ~f.data => t = <<>> /\ f.chunks = <<>> /\ HasTrailers(w.source)
      /\ f.data => (HasTrailers(w.source) <=> HasTrailers(t))
      /\ (\A i \in DOMAIN w.source : ~w.source[i].data) => ~f.data
      /\ (\A i \in DOMAIN w.source : ~w.source[i].data) => \A i \in DOMAIN t : ~t[i].data
  BY BodyHeadTail DEF InPieces
<1>2. ~w.trailers /\ ~w.parked /\ ~w.saved /\ AllData(w.data) /\ AllData(w.out) /\ Len(w.data) <= 1
  BY DEF InPieces
<1> HIDE DEF f, t
<1>3. Agree(w, u, {"source"}) /\ u.source = t
  BY DEF Agree, IsExt, Major, t
<1>0. p = Push(u, f, late) /\ v = Emit(q, e, r)
  BY DEF ReadsTo, f, q, e
<1> HIDE DEF u
<1>4. IsExt(u) /\ u.data = w.data /\ u.trailers = w.trailers
  BY <1>3 DEF Agree, Major
<1>5. /\ Agree(u, q, {"data", "trailers"}) /\ AllData(e) /\ AllData(q.data) /\ Len(q.data) <= 1 /\ Len(e) <= 1
      /\ Chunks(e) \o Chunks(q.data) = Chunks(w.data) \o f.chunks
      /\ q.trailers <=> ~f.data
      /\ (~f.data /\ w.data = <<>>) => e = <<>> /\ q.data = <<>>
  <2>1. ~f.data => f.chunks = <<>>
    BY <1>1
  <2>2. u.data \in Seq(Frames) /\ Len(u.data) <= 1 /\ \A i \in DOMAIN u.data : u.data[i].data
    BY <1>2, <1>4 DEF AllData
  <2>3. Pushed(u, f, p)
    BY <1>0, <1>1, <1>4, <2>1, <2>2, PushIs
  <2> QED BY <1>2, <1>4, <2>3 DEF AllData, Pushed
<1> HIDE DEF e, q
<1>6. Agree(w, q, {"source"} \cup {"data", "trailers"}) /\ IsExt(q) /\ q.source = t
  <2>1. Agree(w, q, {"source"} \cup {"data", "trailers"})
    BY <1>3, <1>5, AgreeAgain
  <2>2. IsExt(q) /\ q.source = u.source
    BY <1>5 DEF Agree, Major
  <2> QED BY <1>3, <2>1, <2>2
<1>7. /\ q.options = w.options /\ q.open = w.open /\ (ShouldProcessBody(q) <=> ShouldProcessBody(w))
      /\ q.out = w.out /\ q.inflight = w.inflight /\ q.awaiting = w.awaiting /\ q.parked = w.parked /\ q.saved = w.saved
  BY <1>6 DEF Agree, Major, ShouldProcessBody
<1>8. /\ Agree(q, v, {"awaiting", "out", "inflight"})
      /\ (e = <<>> \/ q.options.observe \/ ~ShouldProcessBody(q)) =>
           /\ v.out = q.out \o e /\ v.inflight = q.inflight
           /\ ~q.options.observe => v.awaiting = q.awaiting
      /\ (e # <<>> /\ ~q.options.observe /\ ShouldProcessBody(q)) =>
           /\ v.out = q.out /\ v.inflight = q.inflight \o e
           /\ v.awaiting = q.awaiting \o <<"body">>
  <2>2. q.out \o <<>> = q.out
    BY <1>2, <1>7, ConcatEmptySeq DEF AllData
  <2>3. q.open /\ e \in Seq(Frames)
    BY <1>5, <1>7 DEF AllData
  <2>4. Emitted(q, e, v)
    BY <1>0, <1>6, EmitIs
  <2> QED BY <2>2, <2>3, <2>4 DEF Emitted
<1>9. Agree(w, v, ({"source"} \cup {"data", "trailers"}) \cup {"awaiting", "out", "inflight"})
  BY <1>6, <1>8, AgreeAgain, Zenon
<1>10. /\ v.modes = w.modes /\ v.options = w.options /\ v.original = w.original /\ v.known = w.known
       /\ v.open = w.open /\ v.streaming = w.streaming /\ v.eos = w.eos /\ v.complete = w.complete
       /\ WillEnd(v) <=> WillEnd(w)
       /\ ShouldProcessBody(v) <=> ShouldProcessBody(w)
  <2> DEFINE E == ({"source"} \cup {"data", "trailers"}) \cup {"awaiting", "out", "inflight"}
  <2>1. E \subseteq {"source", "out", "awaiting", "data", "trailers", "inflight", "parked", "saved"}
    OBVIOUS
  <2> HIDE DEF E
  <2>2. Agree(w, v, E)
    BY <1>9 DEF E
  <2> QED BY <2>1, <2>2, SameFields
<1>11. v.source = t /\ v.data = q.data /\ v.trailers = q.trailers /\ v.parked = w.parked /\ v.saved = w.saved
  <2>1. v.source = q.source /\ v.data = q.data /\ v.trailers = q.trailers /\ v.parked = q.parked /\ v.saved = q.saved
    BY <1>8 DEF Agree, Major
  <2> QED BY <1>6, <1>7, <2>1
<1>12. AllData(w.inflight)
  BY <1>2, AllDataIs DEF InPieces, Progress
<1> DEFINE on == e = <<>> \/ w.options.observe \/ ~ShouldProcessBody(w)
<1>13. on => v.out = w.out \o e /\ v.inflight = w.inflight /\ (~w.options.observe => v.awaiting = w.awaiting)
  BY <1>7, <1>8
<1>14. ~on => v.out = w.out /\ v.inflight = w.inflight \o e /\ v.awaiting = w.awaiting \o <<"body">>
  BY <1>7, <1>8
<1>15. (on /\ e # <<>>) => w.inflight = <<>>
  BY DEF Progress, Pending
<1>16. AllData(v.out) /\ AllData(v.inflight)
  BY <1>2, <1>5, <1>12, <1>13, <1>14, AllDataConcat
<1>17. Chunks(w.original) = Chunks(v.out) \o Chunks(v.inflight) \o Chunks(v.data) \o Chunks(v.source)
  <2> DEFINE O == Chunks(w.out)
             I == Chunks(w.inflight)
             D == Chunks(w.data)
             T == Chunks(t)
             B == Chunks(e)
             G == Chunks(q.data)
             K == f.chunks
  <2>1. /\ O \in Seq(Nat) /\ I \in Seq(Nat) /\ D \in Seq(Nat) /\ T \in Seq(Nat) /\ B \in Seq(Nat) /\ G \in Seq(Nat)
    BY <1>1, <1>2, <1>5, <1>12, ChunksOf DEF AllData
  <2>2. K \in Seq(Nat)
    BY <1>1 DEF Frames
  <2>3. Chunks(w.original) = ((O \o I) \o D) \o (K \o T) /\ D \o K = B \o G
    BY <1>1, <1>5 DEF InPieces
  <2>4. Chunks(w.out \o e) = O \o B /\ Chunks(w.inflight \o e) = I \o B
    BY <1>2, <1>5, <1>12, ChunksConcat DEF AllData
  <2>5. e = <<>> => B = <<>>
    BY ChunksOne
  <2>6. w.inflight = <<>> => I = <<>>
    BY ChunksOne
  <2> HIDE DEF O, I, D, T, B, G, K
  <2>7. Regrouped(O, I, D, K, T, B, G)
    BY <2>1, <2>2, Regroup, Zenon
  <2>8. Chunks(w.original) = ((O \o (I \o B)) \o G) \o T
    BY <2>3, <2>7, Zenon DEF Regrouped
  <2>9. CASE ~on
    <3>1. Chunks(v.out) = O /\ Chunks(v.inflight) = I \o B
      BY <1>14, <2>4, <2>9 DEF O
    <3> QED BY <1>11, <2>8, <3>1 DEF G, T
  <2>10. CASE e = <<>>
    <3>1. I \o B = I /\ O \o B = O
      BY <2>1, <2>5, <2>10, ConcatEmptySeq
    <3>2. Chunks(v.out) = O \o B /\ Chunks(v.inflight) = I
      BY <1>13, <2>4, <2>10 DEF I
    <3> QED BY <1>11, <2>8, <3>1, <3>2 DEF G, T
  <2>11. CASE on /\ e # <<>>
    <3>1. I = <<>> /\ I \o B = B /\ (O \o B) \o <<>> = O \o B
      <4>1. I = <<>>
        BY <1>15, <2>6, <2>11
      <4>2. O \o B \in Seq(Nat)
        BY <2>1, ConcatProperties
      <4> QED BY <2>1, <4>1, <4>2, ConcatEmptySeq
    <3>2. Chunks(v.out) = O \o B /\ Chunks(v.inflight) = I
      BY <1>13, <2>4, <2>11 DEF I
    <3>3. (Chunks(v.out) \o Chunks(v.inflight)) = O \o (I \o B)
      BY <3>1, <3>2
    <3> QED BY <1>11, <2>8, <3>3 DEF G, T
  <2> QED BY <2>9, <2>10, <2>11
<1>18. HasTrailers(w.original) <=> (HasTrailers(v.source) \/ v.trailers \/ v.parked \/ v.saved)
  <2>1. HasTrailers(w.original) <=> HasTrailers(w.source)
    BY <1>2 DEF InPieces
  <2>2. ~HasTrailers(<<>>)
    BY DEF HasTrailers
  <2> QED BY <1>1, <1>2, <1>5, <1>11, <2>1, <2>2
<1>19. InPieces(v)
  <2>1. IsBody(v.source) /\ IsBody(v.inflight) /\ AllData(v.data) /\ Len(v.data) <= 1
    BY <1>1, <1>5, <1>11, <1>16, AllDataIs
  <2>2. (v.trailers \/ v.parked \/ v.saved) => v.source = <<>>
    BY <1>1, <1>2, <1>5, <1>11
  <2> QED BY <1>10, <1>16, <1>17, <1>18, <2>1, <2>2 DEF InPieces
<1>20. ~v.saved /\ ~HasTrailers(v.inflight) /\ ~v.complete /\ v.streaming
  BY <1>2, <1>10, <1>11, <1>16, AllDataIs
<1>21. v.known.body = "no" => v.data = <<>> /\ e = <<>> /\ \A i \in DOMAIN v.source : ~v.source[i].data
  <2> SUFFICES ASSUME w.known.body = "no" PROVE v.data = <<>> /\ e = <<>> /\ \A i \in DOMAIN t : ~t[i].data
    BY <1>10, <1>11
  <2>1. w.data = <<>> /\ \A i \in DOMAIN w.source : ~w.source[i].data
    BY DEF Progress
  <2> QED BY <1>1, <1>5, <1>11, <2>1
<1>22. (WillEnd(v) \/ ~ShouldProcessBody(v)) => v.inflight = <<>>
  <2>1. (WillEnd(w) \/ ~ShouldProcessBody(w)) => w.inflight = <<>>
    BY DEF Progress
  <2>2. WillEnd(w) => on
    BY <1>10, <1>21 DEF WillEnd
  <2> QED BY <1>10, <1>13, <2>1, <2>2
<1>23. Progress(v)
  <2>1. v.eos => WillEnd(v) \/ v.complete
    BY <1>10 DEF Progress
  <2>2. (v.known.body = "yes" => v.known.any) /\ (~v.known.any => v.known.body = "no" /\ v.known.trailers = "no")
    BY <1>10 DEF Progress
  <2> QED BY <1>20, <1>21, <1>22, <2>1, <2>2 DEF Progress
<1>24. Pending(v, h)
  <2>1. v.options.observe => v.inflight = <<>>
    BY <1>10, <1>13 DEF Pending
  <2>2. ~(~v.options.observe /\ h # <<>> /\ WillEnd(v))
    BY <1>10 DEF Pending
  <2>3. ASSUME ~v.options.observe PROVE v.awaiting = h \o Owed(v.inflight)
    <3>1. w.awaiting = h \o Owed(w.inflight) /\ ~w.options.observe
      BY <1>10, <2>3 DEF Pending
    <3>2. CASE on
      BY <1>13, <3>1, <3>2
    <3>3. CASE ~on
      <4>1. PICK g \in Frames : e = <<g>> /\ g.data
        <5>1. e # <<>>
          BY <3>3
        <5> QED BY <1>5, <5>1, SingleFrame
      <4>2. h \in Seq(Kinds)
        <5>1. <<>> \in Seq(Kinds) /\ <<"headers">> \in Seq(Kinds)
          BY DEF Kinds
        <5> QED BY <5>1
      <4>3. (h \o Owed(w.inflight)) \o <<IF g.data THEN "body" ELSE "trailers">> = h \o Owed(w.inflight \o <<g>>)
        BY <1>12, <4>2, OwedAppended DEF AllData
      <4>4. <<IF g.data THEN "body" ELSE "trailers">> = <<"body">>
        BY <4>1
      <4> QED BY <1>14, <3>1, <3>3, <4>1, <4>3, <4>4
    <3> QED BY <3>2, <3>3
  <2> QED BY <2>1, <2>2, <2>3 DEF Pending
<1> QED BY <1>10, <1>19, <1>23, <1>24

-----------------------------------------------------------------------------
(* The end of the body.                                                    *)
EndBuffered(a, b) ==
    /\ Agree(a, b, {"parked", "trailers", "data"})
    /\ AllData(b.data) /\ Len(b.data) <= 1 /\ Chunks(b.data) = Chunks(a.data)
    /\ (b.trailers \/ b.parked) <=> (a.trailers \/ a.parked)

LEMMA BufferEndOfStreamIs ==
  ASSUME NEW a, IsExt(a), AllData(a.data), Len(a.data) <= 1, NEW b, b = BufferEndOfStream(a)
  PROVE  EndBuffered(a, b)
<1>0. \A E : Agree(a, a, E)
  BY DEF Agree
<1>1. CASE ~ShouldProcessBody(a) \/ a.eos
  <2>1. b = a
    BY <1>1 DEF BufferEndOfStream
  <2> QED BY <1>0, <2>1 DEF EndBuffered
<1>2. CASE ~(~ShouldProcessBody(a) \/ a.eos)
  <2> DEFINE v == IF a.modes.trailers THEN a ELSE [a EXCEPT !.parked = a.parked \/ a.trailers, !.trailers = FALSE]
             x == <<EmptyFrame>>
  <2>1. b = IF v.data = <<>> /\ ~v.trailers THEN [v EXCEPT !.data = x] ELSE v
    BY <1>2 DEF BufferEndOfStream
  <2>2. Agree(a, v, {"parked", "trailers"}) /\ ((v.trailers \/ v.parked) <=> (a.trailers \/ a.parked))
    <3>1. CASE a.modes.trailers
      <4>1. v = a
        BY <3>1
      <4> QED BY <1>0, <4>1
    <3>2. CASE ~a.modes.trailers
      <4> DEFINE k == a.parked \/ a.trailers
      <4>1. v = [a EXCEPT !.parked = k, !.trailers = FALSE]
        BY <3>2
      <4> HIDE DEF v, k
      <4>2. Agree(a, v, {"parked", "trailers"})
        BY <4>1 DEF Agree, IsExt, Major
      <4>3. v.parked = k /\ v.trailers = FALSE
        BY <4>1 DEF IsExt, Major
      <4> QED BY <4>2, <4>3 DEF k
    <3> QED BY <3>1, <3>2
  <2> HIDE DEF v
  <2>3. IsExt(v) /\ v.data = a.data
    BY <2>2 DEF Agree, Major
  <2>4. CASE v.data = <<>> /\ ~v.trailers
    <3> HIDE DEF x
    <3>1. b = [v EXCEPT !.data = x]
      BY <2>1, <2>4
    <3>2. Agree(v, b, {"data"}) /\ b.data = x
      BY <2>3, <3>1 DEF Agree, IsExt, Major
    <3>3. b.trailers = v.trailers /\ b.parked = v.parked
      BY <3>2 DEF Agree, Major
    <3>4. Agree(a, b, {"parked", "trailers"} \cup {"data"})
      BY <2>2, <3>2, AgreeAgain, Zenon
    <3>5. {"parked", "trailers"} \cup {"data"} = {"parked", "trailers", "data"}
      OBVIOUS
    <3>6. AllData(x) /\ Len(x) = 1 /\ Chunks(x) = <<>>
      <4>1. <<>> \in Seq(Nat)
        OBVIOUS
      <4>2. EmptyFrame \in Frames /\ EmptyFrame.data /\ EmptyFrame.chunks = <<>>
        BY <4>1, FrameFacts DEF EmptyFrame
      <4> QED BY <4>2, OneFrame, AllDataIs DEF x
    <3>7. Chunks(a.data) = <<>>
      BY <2>3, <2>4, ChunksOne
    <3> QED BY <2>2, <3>2, <3>3, <3>4, <3>5, <3>6, <3>7 DEF EndBuffered
  <2>5. CASE ~(v.data = <<>> /\ ~v.trailers)
    <3>1. b = v
      BY <2>1, <2>5
    <3>2. Agree(a, v, {"parked", "trailers", "data"})
      BY <2>2, AgreeWider
    <3> QED BY <2>2, <2>3, <3>1, <3>2 DEF EndBuffered
  <2> QED BY <2>4, <2>5
<1> QED BY <1>1, <1>2

DataFlushed(b, c) ==
    /\ Agree(b, c, {"awaiting", "out", "inflight", "data"}) /\ c.data = <<>>
    /\ (b.data = <<>> \/ b.options.observe \/ ~ShouldProcessBody(b)) =>
          /\ c.out = b.out \o b.data /\ c.inflight = b.inflight
          /\ ~b.options.observe => c.awaiting = b.awaiting
    /\ (b.data # <<>> /\ ~b.options.observe /\ ShouldProcessBody(b)) =>
          /\ c.out = b.out /\ c.inflight = b.inflight \o b.data
          /\ c.awaiting = b.awaiting \o <<"body">>

LEMMA FlushDataIs ==
  ASSUME NEW b, IsExt(b), b.out \in Seq(Frames), NEW r, NEW c, c = FlushData(b, r)
  PROVE  Onto(b, c) /\ ((Clean(c) /\ b.open) => DataFlushed(b, c))
<1>0. PICK v : v = Emit(b, b.data, r)
  OBVIOUS
<1>1. c = [v EXCEPT !.data = <<>>, !.count = 0]
  BY <1>0 DEF FlushData
<1>2. Emitted(b, b.data, v)
  BY <1>0, EmitIs
<1>3. IsExt(v) /\ Onto(b, v)
  BY <1>2 DEF Emitted, Onto
<1>4. Agree(v, c, {"data"}) /\ c.data = <<>>
  BY <1>1, <1>3 DEF Agree, IsExt, Major, Minor
<1>5. Onto(v, c)
  BY <1>4, OntoAgree
<1>6. Onto(b, c)
  BY <1>3, <1>5, OntoAgain
<1>7. ASSUME Clean(c), b.open PROVE DataFlushed(b, c)
  <2>1. Clean(v)
    BY <1>5, <1>7 DEF Onto
  <2>2. Agree(b, v, {"awaiting", "out", "inflight"})
    BY <1>2, <1>7, <2>1 DEF Emitted
  <2>3. Agree(b, c, {"awaiting", "out", "inflight"} \cup {"data"})
    BY <1>4, <2>2, AgreeAgain, Zenon
  <2>4. {"awaiting", "out", "inflight"} \cup {"data"} = {"awaiting", "out", "inflight", "data"}
    OBVIOUS
  <2>5. c.out = v.out /\ c.inflight = v.inflight /\ c.awaiting = v.awaiting
    BY <1>4 DEF Agree, Major
  <2>6. b.out \o <<>> = b.out
    BY ConcatEmptySeq
  <2> QED BY <1>2, <1>4, <1>7, <2>1, <2>3, <2>4, <2>5, <2>6 DEF DataFlushed, Emitted
<1> QED BY <1>6, <1>7

TrailersFlushed(c, d) ==
    /\ Agree(c, d, {"awaiting", "out", "inflight", "saved", "parked", "trailers"}) /\ ~d.trailers
    /\ ~c.trailers => d = c
    /\ (c.trailers /\ c.options.observe) =>
          d.out = c.out \o <<Trailers>> /\ d.inflight = c.inflight /\ d.saved = c.saved /\ d.parked = c.parked
    /\ (c.trailers /\ ~c.options.observe /\ c.modes.trailers) =>
          /\ d.out = c.out /\ d.inflight = Append(c.inflight, Trailers) /\ d.saved /\ d.parked = c.parked
          /\ d.awaiting = c.awaiting \o <<"trailers">>
    /\ (c.trailers /\ ~c.options.observe /\ ~c.modes.trailers) =>
          d.out = c.out /\ d.inflight = c.inflight /\ d.saved = c.saved /\ d.parked /\ d.awaiting = c.awaiting

LEMMA FlushTrailersIs ==
  ASSUME NEW c, IsExt(c), NEW r, NEW d, d = FlushTrailers(c, r)
  PROVE  Onto(c, d) /\ ((Clean(d) /\ c.open) => TrailersFlushed(c, d))
<1> DEFINE E == {"awaiting", "out", "inflight", "saved", "parked", "trailers"}
<1>0. Onto(c, c) /\ Agree(c, c, E)
  BY DEF Onto, Agree
<1>1. CASE ~c.trailers
  <2>1. d = c
    BY <1>1 DEF FlushTrailers
  <2> QED BY <1>0, <1>1, <2>1 DEF TrailersFlushed
<1>2. CASE c.trailers /\ c.options.observe
  <2> DEFINE v == Inject(c, <<Trailers>>)
  <2>1. d = [v EXCEPT !.trailers = FALSE]
    BY <1>2 DEF FlushTrailers
  <2>2. Onto(c, v) /\ Agree(c, v, {"out"}) /\ v.out = IF c.open THEN c.out \o <<Trailers>> ELSE c.out
    BY InjectIs, OntoOperators
  <2> HIDE DEF v
  <2>3. IsExt(v)
    BY <2>2 DEF Onto
  <2>4. Agree(v, d, {"trailers"}) /\ ~d.trailers
    BY <2>1, <2>3 DEF Agree, IsExt, Major
  <2>5. Onto(v, d)
    BY <2>4, OntoAgree
  <2>6. Onto(c, d)
    BY <2>2, <2>5, OntoAgain
  <2>7. Agree(c, d, {"out"} \cup {"trailers"})
    BY <2>2, <2>4, AgreeAgain, Zenon
  <2>8. Agree(c, d, E)
    BY <2>7, AgreeWider
  <2>9. d.out = v.out /\ d.inflight = c.inflight /\ d.saved = c.saved /\ d.parked = c.parked
    <3>1. d.out = v.out
      BY <2>4 DEF Agree, Major
    <3>2. d.inflight = c.inflight /\ d.saved = c.saved /\ d.parked = c.parked
      BY <2>7 DEF Agree, Major
    <3> QED BY <3>1, <3>2
  <2> QED BY <1>2, <2>2, <2>4, <2>6, <2>8, <2>9 DEF TrailersFlushed
<1>3. CASE c.trailers /\ ~c.options.observe /\ c.modes.trailers
  <2> DEFINE v == Forward(c, <<"trailers">>, r)
             y == Append(v.inflight, Trailers)
             yes == TRUE
  <2>1. d = [v EXCEPT !.inflight = y, !.saved = yes, !.trailers = FALSE]
    BY <1>3 DEF FlushTrailers
  <2>2. Onto(c, v) /\ (Clean(v) => Agree(c, v, {"awaiting"}) /\ v.awaiting = c.awaiting \o <<"trailers">>)
    BY <1>3, ForwardIs
  <2>3. yes
    OBVIOUS
  <2> HIDE DEF v, y, yes
  <2>4. IsExt(v)
    BY <2>2 DEF Onto
  <2>5. Agree(v, d, {"inflight", "saved", "trailers"}) /\ ~d.trailers /\ d.inflight = y /\ d.saved = yes
    BY <2>1, <2>4 DEF Agree, IsExt, Major
  <2>6. Onto(v, d)
    BY <2>5, OntoAgree
  <2>7. Onto(c, d)
    BY <2>2, <2>6, OntoAgain
  <2>8. ASSUME Clean(d) PROVE TrailersFlushed(c, d)
    <3>1. Agree(c, v, {"awaiting"}) /\ v.awaiting = c.awaiting \o <<"trailers">>
      BY <2>2, <2>6, <2>8 DEF Onto
    <3>2. Agree(c, d, {"awaiting"} \cup {"inflight", "saved", "trailers"})
      BY <2>5, <3>1, AgreeAgain, Zenon
    <3>3. Agree(c, d, E)
      BY <3>2, AgreeWider
    <3>4. d.awaiting = v.awaiting /\ v.inflight = c.inflight
      BY <2>5, <3>1 DEF Agree, Major
    <3>5. d.out = c.out /\ d.parked = c.parked
      BY <3>2 DEF Agree, Major
    <3>7. d.inflight = Append(c.inflight, Trailers)
      BY <2>5, <3>4 DEF y
    <3> QED BY <1>3, <2>3, <2>5, <3>1, <3>3, <3>4, <3>5, <3>7 DEF TrailersFlushed
  <2> QED BY <2>7, <2>8
<1>4. CASE c.trailers /\ ~c.options.observe /\ ~c.modes.trailers
  <2> DEFINE yes == TRUE
  <2>1. d = [c EXCEPT !.parked = yes, !.trailers = FALSE] /\ yes
    BY <1>4 DEF FlushTrailers
  <2> HIDE DEF yes
  <2>2. Agree(c, d, {"parked", "trailers"}) /\ ~d.trailers /\ d.parked = yes
    BY <2>1 DEF Agree, IsExt, Major
  <2>3. Onto(c, d)
    BY <2>2, OntoAgree
  <2>4. Agree(c, d, E)
    BY <2>2, AgreeWider
  <2>5. d.out = c.out /\ d.inflight = c.inflight /\ d.saved = c.saved /\ d.awaiting = c.awaiting
    BY <2>2 DEF Agree, Major
  <2> QED BY <1>4, <2>1, <2>2, <2>3, <2>4, <2>5 DEF TrailersFlushed
<1> QED BY <1>1, <1>2, <1>3, <1>4

EndsAs(w, r, a, b, c, d) ==
    /\ a = [w EXCEPT !.complete = TRUE]
    /\ b = BufferEndOfStream(a)
    /\ c = FlushData(b, r)
    /\ d = FlushTrailers(c, r)

(* Everything has been read: it has come out, is in flight, or is parked.  *)
Ended(w, d, h) ==
    /\ d.open /\ d.complete /\ d.source = <<>> /\ d.data = <<>> /\ ~d.trailers
    /\ d.original = w.original /\ d.options = w.options /\ d.modes = w.modes /\ d.known = w.known
    /\ d.out \in Seq(Frames) /\ IsBody(d.inflight)
    /\ Chunks(w.original) = Chunks(d.out) \o Chunks(d.inflight)
    /\ d.saved <=> HasTrailers(d.inflight)
    /\ HasTrailers(w.original) <=> (HasTrailers(d.out) \/ d.parked \/ d.saved)
    /\ HasTrailers(d.out) => ~Last(d.out).data
    /\ ~w.options.observe => AllData(d.out) /\ d.awaiting = h \o Owed(d.inflight)
    /\ w.options.observe => d.inflight = <<>>

LEMMA NoFrames == ~HasTrailers(<<>>) /\ IsBody(<<>>) /\ AllData(<<>>) /\ Chunks(<<>>) = <<>> /\ <<>> \in Seq(Frames)
<1>1. AllData(<<>>)
  BY AllDataIs
<1>2. ~HasTrailers(<<>>) /\ IsBody(<<>>)
  BY <1>1, AllDataIs
<1> QED BY <1>1, <1>2, ChunksOne DEF AllData

LEMMA EndOfBody ==
  ASSUME NEW w, IsExt(w), w.open, InPieces(w), Progress(w), NEW h \in {<<>>, <<"headers">>}, Pending(w, h),
         w.streaming, ~w.complete, w.source = <<>>,
         NEW r, NEW a, NEW b, NEW c, NEW d, EndsAs(w, r, a, b, c, d), Clean(d)
  PROVE  Ended(w, d, h)
<1>1. Agree(w, a, {"complete"}) /\ a.complete
  <2> DEFINE yes == TRUE
  <2>1. a = [w EXCEPT !.complete = yes] /\ yes
    BY DEF EndsAs
  <2> HIDE DEF yes
  <2>2. Agree(w, a, {"complete"}) /\ a.complete = yes
    BY <2>1 DEF Agree, IsExt, Major
  <2> QED BY <2>1, <2>2
<1>2. IsExt(a) /\ a.data = w.data /\ a.trailers = w.trailers /\ a.parked = w.parked /\ a.saved = w.saved
  BY <1>1 DEF Agree, Major
<1>3. AllData(w.data) /\ Len(w.data) <= 1 /\ AllData(w.out) /\ ~w.saved
  BY DEF InPieces, Progress
<1>4. AllData(w.inflight)
  BY <1>3, AllDataIs DEF InPieces, Progress
<1>5. EndBuffered(a, b)
  <2>1. b = BufferEndOfStream(a) /\ AllData(a.data) /\ Len(a.data) <= 1
    BY <1>2, <1>3 DEF EndsAs
  <2> QED BY <1>2, <2>1, BufferEndOfStreamIs
<1>6. Agree(w, b, {"complete"} \cup {"parked", "trailers", "data"})
  <2>1. Agree(a, b, {"parked", "trailers", "data"})
    BY <1>5 DEF EndBuffered
  <2> QED BY <1>1, <2>1, AgreeAgain, Zenon
<1>7. /\ b.modes = w.modes /\ b.options = w.options /\ b.original = w.original /\ b.known = w.known /\ b.open = w.open
      /\ b.source = w.source /\ b.out = w.out /\ b.inflight = w.inflight /\ b.awaiting = w.awaiting /\ b.saved = w.saved
      /\ IsExt(b)
  BY <1>6 DEF Agree, Major
<1>8. b.complete
  <2>1. b.complete = a.complete
    BY <1>5 DEF EndBuffered, Agree, Major
  <2> QED BY <1>1, <2>1
<1>9. /\ AllData(b.data) /\ Len(b.data) <= 1 /\ Chunks(b.data) = Chunks(w.data)
      /\ (b.trailers \/ b.parked) <=> (w.trailers \/ w.parked)
  BY <1>2, <1>5 DEF EndBuffered
<1>10. Onto(b, c) /\ ((Clean(c) /\ b.open) => DataFlushed(b, c))
  <2>1. c = FlushData(b, r) /\ b.out \in Seq(Frames)
    BY <1>3, <1>7 DEF EndsAs, AllData
  <2> QED BY <1>7, <2>1, FlushDataIs
<1>11. IsExt(c)
  BY <1>10 DEF Onto
<1>12. Onto(c, d) /\ ((Clean(d) /\ c.open) => TrailersFlushed(c, d))
  <2>1. d = FlushTrailers(c, r)
    BY DEF EndsAs
  <2> QED BY <1>11, <2>1, FlushTrailersIs
<1>13. DataFlushed(b, c)
  BY <1>7, <1>10, <1>12 DEF Onto
<1>14. /\ c.modes = w.modes /\ c.options = w.options /\ c.original = w.original /\ c.known = w.known /\ c.open = w.open
       /\ c.source = w.source /\ c.saved = w.saved /\ c.trailers = b.trailers /\ c.parked = b.parked
       /\ c.complete = b.complete /\ c.data = <<>>
  <2>1. Agree(b, c, {"awaiting", "out", "inflight", "data"}) /\ c.data = <<>>
    BY <1>13 DEF DataFlushed
  <2>2. /\ c.modes = b.modes /\ c.options = b.options /\ c.original = b.original /\ c.known = b.known /\ c.open = b.open
        /\ c.source = b.source /\ c.saved = b.saved /\ c.trailers = b.trailers /\ c.parked = b.parked
        /\ c.complete = b.complete
    BY <2>1 DEF Agree, Major
  <2> QED BY <1>7, <2>1, <2>2
<1>15. TrailersFlushed(c, d)
  BY <1>12, <1>14
<1>16. /\ d.modes = w.modes /\ d.options = w.options /\ d.original = w.original /\ d.known = w.known /\ d.open = w.open
       /\ d.source = w.source /\ d.complete = b.complete /\ d.data = <<>> /\ ~d.trailers
  <2>1. Agree(c, d, {"awaiting", "out", "inflight", "saved", "parked", "trailers"}) /\ ~d.trailers
    BY <1>15 DEF TrailersFlushed
  <2>2. /\ d.modes = c.modes /\ d.options = c.options /\ d.original = c.original /\ d.known = c.known /\ d.open = c.open
        /\ d.source = c.source /\ d.complete = c.complete /\ d.data = c.data
    BY <2>1 DEF Agree, Major
  <2> QED BY <1>14, <2>1, <2>2
<1> DEFINE on == b.data = <<>> \/ w.options.observe \/ ~ShouldProcessBody(w)
<1>17. on => c.out = w.out \o b.data /\ c.inflight = w.inflight /\ (~w.options.observe => c.awaiting = w.awaiting)
  BY <1>7, <1>13 DEF DataFlushed, ShouldProcessBody
<1>18. ~on => c.out = w.out /\ c.inflight = w.inflight \o b.data /\ c.awaiting = w.awaiting \o <<"body">>
  BY <1>7, <1>13 DEF DataFlushed, ShouldProcessBody
<1>19. (on /\ b.data # <<>>) => w.inflight = <<>>
  BY DEF Progress, Pending
<1>20. AllData(c.out) /\ AllData(c.inflight)
  BY <1>3, <1>4, <1>9, <1>17, <1>18, AllDataConcat
<1>21. Chunks(w.original) = Chunks(c.out) \o Chunks(c.inflight)
  <2> DEFINE O == Chunks(w.out)
             I == Chunks(w.inflight)
             D == Chunks(w.data)
  <2>1. O \in Seq(Nat) /\ I \in Seq(Nat) /\ D \in Seq(Nat)
    BY <1>3, <1>4, ChunksOf DEF AllData
  <2>2. Chunks(w.original) = ((O \o I) \o D) \o <<>>
    BY NoFrames DEF InPieces
  <2>3. Chunks(w.out \o b.data) = O \o D /\ Chunks(w.inflight \o b.data) = I \o D
    BY <1>3, <1>4, <1>9, ChunksConcat DEF AllData
  <2>4. b.data = <<>> => D = <<>>
    BY <1>9, ChunksOne
  <2>5. w.inflight = <<>> => I = <<>>
    BY ChunksOne
  <2> HIDE DEF O, I, D
  <2>6. Associate(O, I, D)
    BY <2>1, Associates, Zenon
  <2>7. Chunks(w.original) = (O \o I) \o D
    <3>1. (O \o I) \o D \in Seq(Nat)
      BY <2>1, ConcatProperties
    <3> QED BY <2>2, <3>1, ConcatEmptySeq
  <2>8. CASE ~on
    <3>1. Chunks(c.out) = O /\ Chunks(c.inflight) = I \o D
      BY <1>18, <2>3, <2>8 DEF O
    <3> QED BY <2>6, <2>7, <3>1, Zenon DEF Associate
  <2>9. CASE b.data = <<>>
    <3>1. O \o D = O /\ (O \o I) \o D = O \o I
      <4>1. O \o I \in Seq(Nat) /\ D = <<>>
        BY <2>1, <2>4, <2>9, ConcatProperties
      <4> QED BY <2>1, <4>1, ConcatEmptySeq
    <3>2. Chunks(c.out) = O \o D /\ Chunks(c.inflight) = I
      BY <1>17, <2>3, <2>9 DEF I
    <3> QED BY <2>7, <3>1, <3>2
  <2>10. CASE on /\ b.data # <<>>
    <3>1. O \o I = O /\ (O \o D) \o I = O \o D
      <4>1. O \o D \in Seq(Nat) /\ I = <<>>
        BY <1>19, <2>1, <2>5, <2>10, ConcatProperties
      <4> QED BY <2>1, <4>1, ConcatEmptySeq
    <3>2. Chunks(c.out) = O \o D /\ Chunks(c.inflight) = I
      BY <1>17, <2>3, <2>10 DEF I
    <3> QED BY <2>7, <3>1, <3>2
  <2> QED BY <2>8, <2>9, <2>10
<1>22. ~w.options.observe => c.awaiting = h \o Owed(c.inflight)
  <2> SUFFICES ASSUME ~w.options.observe PROVE c.awaiting = h \o Owed(c.inflight)
    OBVIOUS
  <2>1. w.awaiting = h \o Owed(w.inflight)
    BY DEF Pending
  <2>2. CASE on
    BY <1>17, <2>1, <2>2
  <2>3. CASE ~on
    <3>1. PICK g \in Frames : b.data = <<g>> /\ g.data
      BY <1>9, <2>3, SingleFrame
    <3>2. h \in Seq(Kinds)
      <4>1. <<>> \in Seq(Kinds) /\ <<"headers">> \in Seq(Kinds)
        BY DEF Kinds
      <4> QED BY <4>1
    <3>3. (h \o Owed(w.inflight)) \o <<IF g.data THEN "body" ELSE "trailers">> = h \o Owed(w.inflight \o <<g>>)
      BY <1>4, <3>2, OwedAppended DEF AllData
    <3>4. <<IF g.data THEN "body" ELSE "trailers">> = <<"body">>
      BY <3>1
    <3> QED BY <1>18, <2>1, <2>3, <3>1, <3>3, <3>4
  <2> QED BY <2>2, <2>3
<1>23. w.options.observe => c.inflight = <<>>
  BY <1>17 DEF Pending
<1>24. HasTrailers(w.original) <=> (c.trailers \/ c.parked)
  BY <1>3, <1>9, <1>14, NoFrames DEF InPieces
<1>25. c.out \in Seq(Frames) /\ c.inflight \in Seq(Frames) /\ ~HasTrailers(c.out) /\ ~HasTrailers(c.inflight)
       /\ IsBody(c.inflight)
  BY <1>20, AllDataIs DEF AllData
<1>26. CASE ~c.trailers
  <2>1. d = c
    BY <1>15, <1>26 DEF TrailersFlushed
  <2>2. ~d.saved
    BY <1>3, <1>14, <2>1
  <2> QED BY <1>8, <1>16, <1>20, <1>21, <1>22, <1>23, <1>24, <1>25, <1>26, <2>1, <2>2 DEF Ended
<1>27. CASE c.trailers /\ w.options.observe
  <2>1. d.out = c.out \o <<Trailers>> /\ d.inflight = c.inflight /\ ~d.saved /\ d.parked = c.parked
    BY <1>3, <1>14, <1>15, <1>27 DEF TrailersFlushed
  <2>2. HasTrailers(d.out) /\ Chunks(d.out) = Chunks(c.out) /\ ~Last(d.out).data /\ d.out \in Seq(Frames)
    BY <1>25, <2>1, TrailersLast
  <2> QED BY <1>8, <1>16, <1>21, <1>23, <1>24, <1>25, <1>27, <2>1, <2>2 DEF Ended
<1>28. CASE c.trailers /\ ~w.options.observe /\ w.modes.trailers
  <2>1. /\ d.out = c.out /\ d.inflight = Append(c.inflight, Trailers) /\ d.saved /\ d.parked = c.parked
        /\ d.awaiting = c.awaiting \o <<"trailers">>
    BY <1>14, <1>15, <1>28 DEF TrailersFlushed
  <2>2. Trailers \in Frames /\ ~Trailers.data
    BY FrameFacts
  <2>3. d.inflight = c.inflight \o <<Trailers>>
    <3>1. Append(c.inflight, Trailers) = c.inflight \o <<Trailers>>
      BY <1>25, <2>2, AppendIsConcat
    <3> QED BY <2>1, <3>1
  <2>4. HasTrailers(d.inflight) /\ Chunks(d.inflight) = Chunks(c.inflight) /\ IsBody(d.inflight)
    BY <1>20, <1>25, <2>3, TrailersLast
  <2>5. d.awaiting = h \o Owed(d.inflight)
    <3>1. h \in Seq(Kinds)
      <4>1. <<>> \in Seq(Kinds) /\ <<"headers">> \in Seq(Kinds)
        BY DEF Kinds
      <4> QED BY <4>1
    <3>2. (h \o Owed(c.inflight)) \o <<IF Trailers.data THEN "body" ELSE "trailers">> = h \o Owed(c.inflight \o <<Trailers>>)
      BY <1>25, <2>2, <3>1, OwedAppended
    <3>3. <<IF Trailers.data THEN "body" ELSE "trailers">> = <<"trailers">>
      BY <2>2
    <3> QED BY <1>22, <1>28, <2>1, <2>3, <3>2, <3>3
  <2> QED BY <1>8, <1>16, <1>20, <1>21, <1>24, <1>25, <1>28, <2>1, <2>4, <2>5 DEF Ended
<1>29. CASE c.trailers /\ ~w.options.observe /\ ~w.modes.trailers
  <2>1. d.out = c.out /\ d.inflight = c.inflight /\ ~d.saved /\ d.parked /\ d.awaiting = c.awaiting
    BY <1>3, <1>14, <1>15, <1>29 DEF TrailersFlushed
  <2> QED BY <1>8, <1>16, <1>20, <1>21, <1>22, <1>24, <1>25, <1>29, <2>1 DEF Ended
<1> QED BY <1>26, <1>27, <1>28, <1>29

(* What is closed when nothing is in flight is delivered.                  *)
LEMMA ClosedAtEnd ==
  ASSUME NEW w, NEW d, NEW h, IsExt(d), Ended(w, d, h), d.inflight = <<>>, NEW x, NEW v,
         Agree(d, x, {}), v = DrainAndClose(x, <<>>)
  PROVE  ~v.open /\ Delivered(v) /\ IsExt(v)
<1>1. /\ x.out = d.out /\ x.source = <<>> /\ x.open /\ x.parked = d.parked /\ x.original = w.original
      /\ IsExt(x)
  BY DEF Agree, Major, Ended
<1>2. /\ Agree(x, v, {"out", "source", "open", "parked"}) /\ ~v.open
      /\ x.open => v.out = (((x.out \o <<>>) \o x.source) \o (IF x.parked THEN <<Trailers>> ELSE <<>>))
  BY <1>1, DrainAndCloseIs
<1>3. v.original = w.original /\ IsExt(v)
  <2>1. v.original = x.original /\ IsExt(v)
    BY <1>2 DEF Agree, Major
  <2> QED BY <1>1, <2>1
<1>4. d.out \in Seq(Frames) /\ (HasTrailers(w.original) <=> (HasTrailers(d.out) \/ d.parked))
      /\ Chunks(w.original) = Chunks(d.out) /\ (HasTrailers(d.out) => ~Last(d.out).data)
  <2>1. d.out \in Seq(Frames) /\ ~d.saved /\ Chunks(w.original) = Chunks(d.out) \o <<>>
    BY NoFrames DEF Ended
  <2>2. Chunks(d.out) \in Seq(Nat)
    BY <2>1, ChunksOf
  <2>3. Chunks(d.out) \o <<>> = Chunks(d.out)
    BY <2>2, ConcatEmptySeq
  <2> QED BY <2>1, <2>3 DEF Ended
<1>5. d.out \o <<>> = d.out
  BY <1>4, ConcatEmptySeq
<1>6. CASE d.parked
  <2>1. v.out = d.out \o <<Trailers>>
    BY <1>1, <1>2, <1>5, <1>6
  <2>2. HasTrailers(v.out) /\ Chunks(v.out) = Chunks(d.out) /\ ~Last(v.out).data /\ v.out \in Seq(Frames)
    BY <1>4, <2>1, TrailersLast
  <2> QED BY <1>2, <1>3, <1>4, <1>6, <2>2 DEF Delivered
<1>7. CASE ~d.parked
  <2>1. v.out = d.out
    BY <1>1, <1>2, <1>5, <1>7
  <2> QED BY <1>2, <1>3, <1>4, <1>7, <2>1 DEF Delivered
<1> QED BY <1>6, <1>7

LEMMA SourceEndsIs ==
  ASSUME NEW w, IsExt(w), w.open, InPieces(w), Progress(w), NEW h \in {<<>>, <<"headers">>}, Pending(w, h),
         w.streaming, ~w.complete, w.source = <<>>,
         NEW d, IsExt(d), Ended(w, d, h),
         NEW v, v = SetStreamingBody(IF d.options.observe \/ d.inflight = <<>> THEN DrainAndClose(Ready(d), <<>>) ELSE d, FALSE)
  PROVE  Flowing(v) /\ Whole(v)
<1>1. CASE d.options.observe \/ d.inflight = <<>>
  <2>1. PICK x : x = Ready(d)
    OBVIOUS
  <2>2. PICK y : y = DrainAndClose(x, <<>>)
    OBVIOUS
  <2>3. v = SetStreamingBody(y, FALSE)
    BY <1>1, <2>1, <2>2
  <2>4. d.inflight = <<>>
    BY <1>1 DEF Ended
  <2>5. Agree(d, x, {})
    BY <2>1, ReadyIs
  <2>6. ~y.open /\ Delivered(y) /\ IsExt(y)
    BY <2>2, <2>4, <2>5, ClosedAtEnd
  <2>7. Agree(y, v, {"streaming", "eos"})
    BY <2>3, <2>6, SetStreamingBodyIs
  <2>8. v.open = y.open /\ v.out = y.out /\ v.original = y.original
    BY <2>7 DEF Agree, Major
  <2> QED BY <2>6, <2>8 DEF Flowing, Whole, Delivered
<1>2. CASE ~(d.options.observe \/ d.inflight = <<>>)
  <2>1. v = SetStreamingBody(d, FALSE)
    BY <1>2
  <2>2. Agree(d, v, {"streaming", "eos"}) /\ ~v.streaming /\ v.eos
    BY <2>1, SetStreamingBodyIs
  <2>3. /\ v.modes = d.modes /\ v.options = d.options /\ v.original = d.original /\ v.source = d.source /\ v.known = d.known
        /\ v.open = d.open /\ v.out = d.out /\ v.awaiting = d.awaiting /\ v.data = d.data /\ v.trailers = d.trailers
        /\ v.inflight = d.inflight /\ v.parked = d.parked /\ v.saved = d.saved /\ v.complete = d.complete
    BY <2>2 DEF Agree, Major
  <2>4. /\ v.source = <<>> /\ v.data = <<>> /\ ~v.trailers /\ v.open /\ v.complete /\ v.original = w.original
        /\ v.options = w.options /\ v.modes = w.modes /\ v.known = w.known /\ ~w.options.observe /\ v.inflight # <<>>
    BY <1>2, <2>3 DEF Ended
  <2>5. AllData(v.out) /\ IsBody(v.inflight) /\ v.awaiting = h \o Owed(v.inflight)
    BY <2>3, <2>4 DEF Ended
  <2>6. Chunks(v.original) = Chunks(v.out) \o Chunks(v.inflight) \o Chunks(v.data) \o Chunks(v.source)
    <3> DEFINE O == Chunks(v.out)
               I == Chunks(v.inflight)
    <3>1. O \in Seq(Nat) /\ I \in Seq(Nat)
      BY <2>5, ChunksOf DEF AllData, IsBody
    <3>2. Chunks(v.original) = O \o I
      BY <2>3, <2>4 DEF Ended
    <3>3. Chunks(v.data) = <<>> /\ Chunks(v.source) = <<>>
      BY <2>4, ChunksOne
    <3> HIDE DEF O, I
    <3>4. O \o I \in Seq(Nat)
      BY <3>1, ConcatProperties
    <3>5. (O \o I) \o <<>> = O \o I
      BY <3>4, ConcatEmptySeq
    <3>6. Chunks(v.original) = ((O \o I) \o <<>>) \o <<>>
      BY <3>2, <3>5
    <3> QED BY <3>3, <3>6 DEF O, I
  <2>7. InPieces(v)
    <3>1. HasTrailers(v.original) <=> (HasTrailers(v.source) \/ v.trailers \/ v.parked \/ v.saved)
      <4>1. ~HasTrailers(v.out)
        BY <2>5, AllDataIs
      <4> QED BY <2>3, <2>4, <4>1, NoFrames DEF Ended
    <3>2. IsBody(v.source) /\ AllData(v.data) /\ Len(v.data) <= 1
      <4>1. Len(<<>>) <= 1
        OBVIOUS
      <4> QED BY <2>4, <4>1, NoFrames
    <3> QED BY <2>4, <2>5, <2>6, <3>1, <3>2 DEF InPieces
  <2>8. Progress(v)
    <3>1. v.saved <=> HasTrailers(v.inflight)
      BY <2>3 DEF Ended
    <3>2. (v.known.body = "yes" => v.known.any) /\ (~v.known.any => v.known.body = "no" /\ v.known.trailers = "no")
      BY <2>4 DEF Progress
    <3>3. \A i \in DOMAIN v.source : ~v.source[i].data
      <4>1. DOMAIN <<>> = {}
        OBVIOUS
      <4> QED BY <2>4, <4>1
    <3> QED BY <2>2, <2>4, <3>1, <3>2, <3>3 DEF Progress
  <2>9. Pending(v, h)
    <3>1. WillEnd(v) <=> WillEnd(w)
      BY <2>4 DEF WillEnd, ShouldProcessBody
    <3>2. ~(h # <<>> /\ WillEnd(w))
      BY <2>4 DEF Pending
    <3> QED BY <2>4, <2>5, <3>1, <3>2 DEF Pending
  <2> QED BY <2>4, <2>7, <2>8, <2>9 DEF Flowing, Whole
<1> QED BY <1>1, <1>2

-----------------------------------------------------------------------------
(* The steps. What a step does to an open bridge is all that matters.      *)
LEMMA KeptIf ==
  ASSUME NEW w, NEW v, Kept(w), Onto(w, v), (Clean(v) /\ Clean(w) /\ w.open) => Flowing(v) /\ Whole(v)
  PROVE  Kept(v)
<1>1. IsExt(v)
  BY DEF Onto
<1>2. ASSUME Clean(v), ~w.open PROVE Flowing(v) /\ Whole(v)
  <2>1. Clean(w) /\ ~v.open /\ v.out = w.out /\ v.original = w.original
    BY <1>2 DEF Onto
  <2>2. Delivered(w)
    BY <1>2, <2>1 DEF Kept, Whole
  <2> QED BY <2>1, <2>2 DEF Flowing, Whole, Delivered
<1>3. ASSUME Clean(v), w.open PROVE Flowing(v) /\ Whole(v)
  BY <1>3 DEF Onto
<1> QED BY <1>1, <1>2, <1>3 DEF Kept

LEMMA PushAgrees ==
  ASSUME NEW w, IsExt(w), NEW f, NEW late, NEW p, p = Push(w, f, late)
  PROVE  Agree(w, p.w, {"data", "trailers"})
<1>1. CASE f.data
  <2> DEFINE m == Merged(w, f)
             count == IF w.data = <<>> THEN 1 ELSE w.count + 1
             emit == ~Buffered(w) /\ (count >= MergeLimit \/ late)
             e == IF emit THEN m ELSE <<>>
             d == IF emit THEN <<>> ELSE m
             n == IF emit THEN 0 ELSE count
             v == [w EXCEPT !.data = d, !.count = n]
  <2>1. p = [emitted |-> e, w |-> v]
    BY <1>1 DEF Push
  <2> HIDE DEF m, count, emit, n, e, d
  <2>2. Agree(w, v, {"data", "trailers"})
    BY DEF Agree, IsExt, Major, Minor
  <2> HIDE DEF v
  <2>3. p.w = v
    BY <2>1
  <2> QED BY <2>2, <2>3
<1>2. CASE ~f.data
  <2> DEFINE e == IF Buffered(w) THEN <<>> ELSE w.data
             d == IF Buffered(w) THEN w.data ELSE <<>>
             v == [w EXCEPT !.data = d, !.count = 0, !.trailers = TRUE]
  <2>1. p = [emitted |-> e, w |-> v]
    BY <1>2 DEF Push
  <2> HIDE DEF e, d
  <2>2. Agree(w, v, {"data", "trailers"})
    BY DEF Agree, IsExt, Major, Minor
  <2> HIDE DEF v
  <2>3. p.w = v
    BY <2>1
  <2> QED BY <2>2, <2>3
<1> QED BY <1>1, <1>2

LEMMA OntoReads ==
  ASSUME NEW w, IsExt(w), NEW late, NEW r, NEW p, NEW v, ReadsTo(w, late, r, p, v)
  PROVE  Onto(w, v)
<1> DEFINE f == Head(w.source)
           t == Tail(w.source)
           u == [w EXCEPT !.source = t]
           q == p.w
           e == p.emitted
<1>1. p = Push(u, f, late) /\ v = Emit(q, e, r)
  BY DEF ReadsTo
<1> HIDE DEF f, t, e
<1>2. Agree(w, u, {"source"})
  BY DEF Agree, IsExt, Major
<1> HIDE DEF u
<1>3. IsExt(u) /\ Onto(w, u)
  BY <1>2, OntoAgree DEF Agree
<1>4. Agree(u, q, {"data", "trailers"})
  BY <1>1, <1>3, PushAgrees
<1> HIDE DEF q
<1>5. IsExt(q) /\ Onto(u, q)
  BY <1>4, OntoAgree DEF Agree
<1>6. Onto(q, v)
  BY <1>1, <1>5, EmitIs DEF Emitted
<1> QED BY <1>3, <1>5, <1>6, OntoAgain, Zenon

LEMMA NextFrameKeeps ==
  ASSUME ExtInv, NextFrame
  PROVE  ExtInv'
<1>1. PICK late \in BOOLEAN, r \in ExtOutcomes(ext) :
         LET p == Push([ext EXCEPT !.source = Tail(@)], Head(ext.source), late) IN ext' = Emit(p.w, p.emitted, r)
  BY DEF NextFrame, Go
<1>2. PICK p : p = Push([ext EXCEPT !.source = Tail(ext.source)], Head(ext.source), late)
  OBVIOUS
<1>3. ReadsTo(ext, late, r, p, ext')
  BY <1>1, <1>2 DEF ReadsTo
<1>4. IsExt(ext) /\ ext.streaming /\ ~ext.complete /\ ext.source # <<>>
  BY DEF NextFrame, Outbound, ExtInv, Kept
<1>5. Onto(ext, ext')
  BY <1>3, <1>4, OntoReads
<1>6. ASSUME Clean(ext'), Clean(ext), ext.open PROVE Flowing(ext') /\ Whole(ext')
  <2>1. PICK h \in {<<>>, <<"headers">>} : InPieces(ext) /\ Progress(ext) /\ Pending(ext, h)
    BY <1>6 DEF ExtInv, Kept, Flowing
  <2>2. ext'.open /\ InPieces(ext') /\ Progress(ext') /\ Pending(ext', h)
    BY <1>3, <1>4, <1>6, <2>1, ReadOne
  <2> QED BY <2>2 DEF Flowing, Whole
<1>7. Kept(ext')
  BY <1>5, <1>6, KeptIf DEF ExtInv
<1> QED BY <1>7 DEF ExtInv

LEMMA SourceFailsKeeps ==
  ASSUME ExtInv, SourceFails
  PROVE  ExtInv'
<1>1. IsExt(ext) /\ ext' = [ext EXCEPT !.complete = TRUE, !.source = <<>>,
                                         !.failed = IF ext.failed = "" THEN "body" ELSE ext.failed]
  BY DEF SourceFails, Go, ExtInv, Kept
<1>2. DOMAIN ext' = DOMAIN ext /\ ext'.failed # ""
  BY <1>1 DEF IsExt, Major
<1> QED BY <1>1, <1>2 DEF ExtInv, Kept, Clean, IsExt

LEMMA OntoEnds ==
  ASSUME NEW w, IsExt(w), NEW r, NEW a, NEW b, NEW c, NEW d, EndsAs(w, r, a, b, c, d)
  PROVE  Onto(w, d)
<1> DEFINE yes == TRUE
<1>1. a = [w EXCEPT !.complete = yes]
  BY DEF EndsAs
<1> HIDE DEF yes
<1>2. Agree(w, a, {"complete"})
  BY <1>1 DEF Agree, IsExt, Major
<1>3. Onto(w, a) /\ IsExt(a)
  BY <1>2, OntoAgree DEF Agree
<1>4. Agree(a, b, {"parked", "trailers", "data"})
  <2>1. b = BufferEndOfStream(a)
    BY DEF EndsAs
  <2>2. CASE ~ShouldProcessBody(a) \/ a.eos
    <3>1. b = a
      BY <2>1, <2>2 DEF BufferEndOfStream
    <3> QED BY <1>3, <3>1 DEF Agree
  <2>3. CASE ~(~ShouldProcessBody(a) \/ a.eos)
    <3> DEFINE z == a.parked \/ a.trailers
               no == FALSE
    <3>1. PICK v : v = IF a.modes.trailers THEN a ELSE [a EXCEPT !.parked = z, !.trailers = no]
      OBVIOUS
    <3>2. b = IF v.data = <<>> /\ ~v.trailers THEN [v EXCEPT !.data = <<EmptyFrame>>] ELSE v
      BY <2>1, <2>3, <3>1 DEF BufferEndOfStream
    <3> HIDE DEF z, no
    <3>3. Agree(a, v, {"parked", "trailers"})
      BY <1>3, <3>1 DEF Agree, IsExt, Major
    <3>4. IsExt(v)
      BY <3>3 DEF Agree
    <3>5. PICK x : x = <<EmptyFrame>>
      OBVIOUS
    <3>6. Agree(v, b, {"data"})
      BY <3>2, <3>4, <3>5 DEF Agree, IsExt, Major
    <3>7. Agree(a, b, {"parked", "trailers"} \cup {"data"})
      BY <3>3, <3>6, AgreeAgain, Zenon
    <3> QED BY <3>7, AgreeWider
  <2> QED BY <2>2, <2>3
<1>5. Onto(a, b) /\ IsExt(b)
  BY <1>4, OntoAgree DEF Agree
<1>6. PICK e : e = Emit(b, b.data, r)
  OBVIOUS
<1>7. Onto(b, e) /\ IsExt(e)
  BY <1>5, <1>6, EmitIs DEF Emitted, Onto
<1>8. c = [e EXCEPT !.data = <<>>, !.count = 0]
  BY <1>6 DEF EndsAs, FlushData
<1>9. Agree(e, c, {"data"})
  BY <1>7, <1>8 DEF Agree, IsExt, Major, Minor
<1>10. Onto(e, c) /\ IsExt(c)
  BY <1>9, OntoAgree DEF Agree
<1>11. Onto(c, d)
  BY <1>10, FlushTrailersIs DEF EndsAs
<1>12. Onto(w, e)
  BY <1>3, <1>5, <1>7, OntoAgain, Zenon
<1> QED BY <1>10, <1>11, <1>12, OntoAgain, Zenon

LEMMA SourceEndsKeeps ==
  ASSUME ExtInv, SourceEnds
  PROVE  ExtInv'
<1>1. PICK r \in ExtOutcomes(ext) :
         LET v == FlushTrailers(FlushData(BufferEndOfStream([ext EXCEPT !.complete = TRUE]), r), r)
             done == v.options.observe \/ v.inflight = <<>>
         IN ext' = SetStreamingBody(IF done THEN DrainAndClose(Ready(v), <<>>) ELSE v, FALSE)
  BY DEF SourceEnds, Go
<1>2. PICK a : a = [ext EXCEPT !.complete = TRUE]
  OBVIOUS
<1>3. PICK b : b = BufferEndOfStream(a)
  OBVIOUS
<1>4. PICK c : c = FlushData(b, r)
  OBVIOUS
<1>5. PICK d : d = FlushTrailers(c, r)
  OBVIOUS
<1>6. EndsAs(ext, r, a, b, c, d)
  BY <1>2, <1>3, <1>4, <1>5 DEF EndsAs
<1>7. ext' = SetStreamingBody(IF d.options.observe \/ d.inflight = <<>> THEN DrainAndClose(Ready(d), <<>>) ELSE d, FALSE)
  BY <1>1, <1>2, <1>3, <1>4, <1>5
<1>8. IsExt(ext) /\ ext.streaming /\ ~ext.complete /\ ext.source = <<>>
  BY DEF SourceEnds, Outbound, ExtInv, Kept
<1>9. Onto(ext, d) /\ IsExt(d)
  BY <1>6, <1>8, OntoEnds DEF Onto
<1>10. PICK x : x = Ready(d)
  OBVIOUS
<1>11. PICK y : y = IF d.options.observe \/ d.inflight = <<>> THEN DrainAndClose(x, <<>>) ELSE d
  OBVIOUS
<1>12. Onto(d, y)
  <2>1. Onto(d, x) /\ IsExt(x)
    BY <1>9, <1>10, OntoOperators DEF Onto
  <2>2. Onto(x, DrainAndClose(x, <<>>))
    BY <2>1, OntoOperators
  <2>3. Onto(d, DrainAndClose(x, <<>>))
    BY <2>1, <2>2, OntoAgain, Zenon
  <2>4. Onto(d, d)
    BY <1>9 DEF Onto
  <2> QED BY <1>11, <2>3, <2>4, Zenon
<1>13. ext' = SetStreamingBody(y, FALSE) /\ IsExt(y)
  BY <1>7, <1>10, <1>11, <1>12 DEF Onto
<1>14. Onto(y, ext')
  BY <1>13, OntoOperators
<1>15. Onto(ext, ext')
  BY <1>9, <1>12, <1>14, OntoAgain, Zenon
<1>16. ASSUME Clean(ext'), Clean(ext), ext.open PROVE Flowing(ext') /\ Whole(ext')
  <2>1. PICK h \in {<<>>, <<"headers">>} : InPieces(ext) /\ Progress(ext) /\ Pending(ext, h)
    BY <1>16 DEF ExtInv, Kept, Flowing
  <2>2. Clean(d)
    BY <1>12, <1>14, <1>16 DEF Onto
  <2>3. Ended(ext, d, h)
    BY <1>6, <1>8, <1>16, <2>1, <2>2, EndOfBody
  <2> QED BY <1>7, <1>8, <1>9, <1>16, <2>1, <2>3, SourceEndsIs
<1>17. Kept(ext')
  BY <1>15, <1>16, KeptIf DEF ExtInv
<1> QED BY <1>17 DEF ExtInv

(* Once it has failed nothing is claimed.                                  *)
LEMMA KeptUnclean == ASSUME NEW v, IsExt(v), ~Clean(v) PROVE Kept(v)
BY DEF Kept

LEMMA FailedIs ==
  ASSUME NEW w, IsExt(w), NEW why, why # ""
  PROVE  IsExt([w EXCEPT !.failed = why]) /\ ~Clean([w EXCEPT !.failed = why])
<1>1. PICK v : v = [w EXCEPT !.failed = why]
  OBVIOUS
<1> QED BY <1>1, OntoFailed DEF Onto

LEMMA RecoverOrFailureKeeps ==
  ASSUME NEW w, IsExt(w), NEW why, why # ""
  PROVE  Kept(RecoverOrFailure(w, why))
<1>1. PICK a : a = StatusError(w)
  OBVIOUS
<1>2. IsExt(a)
  BY <1>1, OntoOperators DEF Onto
<1>3. PICK v : v = [a EXCEPT !.failed = why]
  OBVIOUS
<1>4. IsExt(v) /\ ~Clean(v)
  BY <1>2, <1>3, FailedIs
<1>5. PICK d : d = DrainAndClose(v, w.inflight)
  OBVIOUS
<1>6. Onto(v, d) /\ IsExt(d)
  <2>1. \A fr : Onto(v, DrainAndClose(v, fr))
    BY <1>4, OntoOperators, Zenon
  <2>2. Onto(v, d)
    BY <1>5, <2>1, Zenon
  <2> QED BY <2>2 DEF Onto
<1>7. PICK passed : passed = [d EXCEPT !.inflight = <<>>]
  OBVIOUS
<1>8. Agree(d, passed, {"inflight"})
  BY <1>6, <1>7 DEF Agree, IsExt, Major
<1>9. Onto(d, passed)
  BY <1>8, OntoAgree
<1>10. PICK e : e = Close(v)
  OBVIOUS
<1>11. Onto(v, e) /\ IsExt(e)
  BY <1>4, <1>10, OntoOperators DEF Onto
<1>12. PICK broken : broken = [e EXCEPT !.broken = w.open]
  OBVIOUS
<1>13. Agree(e, broken, {})
  BY <1>11, <1>12 DEF Agree, IsExt, Major
<1>14. Onto(e, broken)
  BY <1>13, OntoAgree
<1>15. PICK x : x = IF w.options.allow THEN passed ELSE broken
  OBVIOUS
<1>16. IsExt(x) /\ ~Clean(x)
  BY <1>4, <1>6, <1>9, <1>11, <1>14, <1>15 DEF Onto
<1>17. PICK y : y = SetStreamingBody(x, FALSE)
  OBVIOUS
<1>18. IsExt(y) /\ ~Clean(y)
  BY <1>16, <1>17, OntoOperators DEF Onto
<1>19. RecoverOrFailure(w, why) = EndLoop(y)
  BY <1>1, <1>3, <1>5, <1>7, <1>10, <1>12, <1>15, <1>17, Zenon DEF RecoverOrFailure
<1>20. Onto(y, EndLoop(y))
  BY <1>18, OntoEndLoop
<1>21. IsExt(EndLoop(y)) /\ ~Clean(EndLoop(y))
  BY <1>18, <1>20 DEF Onto
<1> QED BY <1>19, <1>21, KeptUnclean

LEMMA AnswerImmediatelyKeeps ==
  ASSUME ExtInv, AnswerImmediately
  PROVE  ExtInv'
<1>a. PICK parked : ext' = [EndLoop(ImmediateResponse(ext, parked)) EXCEPT !.failed = "immediate"]
  BY Zenon DEF AnswerImmediately, Go
<1>0. IsExt(ext) /\ ext' = [EndLoop(ImmediateResponse(ext, parked)) EXCEPT !.failed = "immediate"]
  BY <1>a DEF ExtInv, Kept
<1>1. PICK x : x = ImmediateResponse(ext, parked)
  OBVIOUS
<1>2. IsExt(x)
  <2>1. CASE ext.options.noImmediate /\ ext.options.allow
    <3>1. PICK a : a = Ready(ext)
      OBVIOUS
    <3>2. PICK b : b = DrainAndInject(a)
      OBVIOUS
    <3>3. IsExt(a)
      BY <1>0, <3>1, OntoOperators DEF Onto
    <3>4. IsExt(b)
      BY <3>2, <3>3, OntoOperators DEF Onto
    <3>5. x = [b EXCEPT !.open = FALSE]
      BY <1>1, <2>1, <3>1, <3>2 DEF ImmediateResponse
    <3> QED BY <3>4, <3>5 DEF IsExt
  <2>2. CASE ext.options.noImmediate /\ ~ext.options.allow
    <3>1. PICK a : a = Return(ext, "DirectResponse")
      OBVIOUS
    <3>2. IsExt(a)
      BY <1>0, <3>1, OntoOperators DEF Onto
    <3>3. x = [a EXCEPT !.broken = ext.open]
      BY <1>1, <2>2, <3>1 DEF ImmediateResponse
    <3> QED BY <3>2, <3>3 DEF IsExt
  <2>3. CASE ~ext.options.noImmediate /\ ext.task = "waiting"
    <3>1. PICK a : a = Return(ext, "DirectResponse")
      OBVIOUS
    <3>2. IsExt(a)
      BY <1>0, <3>1, OntoOperators DEF Onto
    <3>3. PICK p : p = [a EXCEPT !.parked = parked]
      OBVIOUS
    <3>4. IsExt(p)
      BY <3>2, <3>3 DEF IsExt
    <3>5. PICK b : b = DrainAndClose(p, ext.inflight)
      OBVIOUS
    <3>6. IsExt(b)
      BY <3>4, <3>5, OntoOperators DEF Onto
    <3>7. PICK left : left = (ext.parked /\ ext.side = "response")
      OBVIOUS
    <3>8. x = [b EXCEPT !.inflight = <<>>, !.parked = left]
      BY <1>1, <2>3, <3>1, <3>3, <3>5, <3>7 DEF ImmediateResponse
    <3> QED BY <3>6, <3>8 DEF IsExt
  <2>4. CASE ~ext.options.noImmediate /\ ext.task # "waiting"
    <3>1. x = Close(ext)
      BY <1>1, <2>4 DEF ImmediateResponse
    <3> QED BY <1>0, <3>1, OntoOperators DEF Onto
  <2> QED BY <2>1, <2>2, <2>3, <2>4
<1>3. PICK y : y = EndLoop(x)
  OBVIOUS
<1>4. IsExt(y)
  BY <1>2, <1>3, OntoEndLoop DEF Onto
<1>5. ext' = [y EXCEPT !.failed = "immediate"]
  BY <1>0, <1>1, <1>3
<1>6. Kept(ext')
  BY <1>4, <1>5, FailedIs, KeptUnclean
<1> QED BY <1>6 DEF ExtInv

(* A step that changes minor fields only.                                  *)
LEMMA KeptMinor ==
  ASSUME NEW w, NEW v, Kept(w), Agree(w, v, {})
  PROVE  Kept(v)
<1>1. /\ v.modes = w.modes /\ v.options = w.options /\ v.original = w.original /\ v.source = w.source /\ v.known = w.known
      /\ v.open = w.open /\ v.out = w.out /\ v.awaiting = w.awaiting /\ v.data = w.data /\ v.trailers = w.trailers
      /\ v.inflight = w.inflight /\ v.parked = w.parked /\ v.saved = w.saved /\ v.streaming = w.streaming
      /\ v.eos = w.eos /\ v.complete = w.complete /\ v.touched = w.touched /\ v.failed = w.failed
  BY DEF Agree, Major
<1>2. (WillEnd(v) <=> WillEnd(w)) /\ (ShouldProcessBody(v) <=> ShouldProcessBody(w))
  BY <1>1 DEF WillEnd, ShouldProcessBody
<1>3. InPieces(w) => InPieces(v)
  BY <1>1, Zenon DEF InPieces
<1>4. Progress(w) => Progress(v)
  <2>1. Unread(w) => Unread(v)
    BY <1>1 DEF Unread
  <2> QED BY <1>1, <1>2, <2>1 DEF Progress
<1>5. \A h : Pending(w, h) => Pending(v, h)
  BY <1>1, <1>2 DEF Pending
<1>6. Flowing(w) => Flowing(v)
  BY <1>1, <1>3, <1>4, <1>5 DEF Flowing
<1>7. Whole(w) => Whole(v)
  BY <1>1 DEF Whole, Delivered
<1>8. Clean(v) => Clean(w)
  BY <1>1 DEF Clean
<1> QED BY <1>6, <1>7, <1>8 DEF Kept, Agree

LEMMA ExtendTimeoutKeeps ==
  ASSUME ExtInv, ExtendTimeout
  PROVE  ExtInv'
<1>0. IsExt(ext) /\ Kept(ext)
  BY DEF ExtInv, Kept
<1>1. CASE ext.extended
  <2>1. PICK y : y = EndLoop(ext)
    OBVIOUS
  <2>2. IsExt(y)
    BY <1>0, <2>1, OntoEndLoop DEF Onto
  <2>3. ext' = [y EXCEPT !.failed = "extension"]
    BY <1>1, <2>1 DEF ExtendTimeout, Go
  <2>4. Kept(ext')
    BY <2>2, <2>3, FailedIs, KeptUnclean
  <2> QED BY <2>4 DEF ExtInv
<1>2. CASE ~ext.extended
  <2>1. ext' = [ext EXCEPT !.extended = TRUE]
    BY <1>2 DEF ExtendTimeout, Go
  <2>2. Agree(ext, ext', {})
    BY <1>0, <2>1 DEF Agree, IsExt, Major
  <2>3. Kept(ext')
    BY <1>0, <2>2, KeptMinor
  <2> QED BY <2>3 DEF ExtInv
<1> QED BY <1>1, <1>2

LEMMA FilterDroppedKeeps ==
  ASSUME ExtInv, FilterDropped
  PROVE  ExtInv'
<1>0. IsExt(ext) /\ Kept(ext)
  BY DEF ExtInv, Kept
<1>1. PICK y : y = EndLoop(ext)
  OBVIOUS
<1>2. IsExt(y) /\ Onto(ext, y)
  BY <1>0, <1>1, OntoEndLoop DEF Onto
<1>3. CASE ext.open
  <2>1. ext' = [y EXCEPT !.failed = "dropped"]
    BY <1>1, <1>3 DEF FilterDropped, Go
  <2>2. Kept(ext')
    BY <1>2, <2>1, FailedIs, KeptUnclean
  <2> QED BY <2>2 DEF ExtInv
<1>4. CASE ~ext.open
  <2>1. ext' = [y EXCEPT !.failed = y.failed]
    BY <1>1, <1>4 DEF FilterDropped, Go
  <2>2. Agree(y, ext', {})
    BY <1>2, <2>1 DEF Agree, IsExt, Major
  <2>3. Onto(ext, ext')
    <3>1. Onto(y, ext')
      BY <2>2, OntoAgree
    <3> QED BY <1>2, <3>1, OntoAgain, Zenon
  <2>4. Kept(ext')
    BY <1>0, <1>4, <2>3, KeptIf
  <2> QED BY <2>4 DEF ExtInv
<1> QED BY <1>3, <1>4

LEMMA ObserverStopsKeeps ==
  ASSUME ExtInv, ObserverStops
  PROVE  ExtInv'
<1>0. IsExt(ext) /\ Kept(ext)
  BY DEF ExtInv, Kept
<1>1. ext' = EndLoop(ext) /\ ext.options.observe /\ ext.complete
  BY DEF ObserverStops, Go
<1>2. Onto(ext, ext')
  BY <1>0, <1>1, OntoEndLoop
<1>3. ASSUME Clean(ext), ext.open PROVE FALSE
  <2>1. PICK h \in {<<>>, <<"headers">>} : InPieces(ext) /\ Progress(ext) /\ Pending(ext, h)
    BY <1>0, <1>3 DEF Kept, Flowing
  <2> QED BY <1>1, <2>1 DEF Progress, Pending
<1>4. Kept(ext')
  BY <1>0, <1>2, <1>3, KeptIf
<1> QED BY <1>4 DEF ExtInv

LEMMA KeptFresh == Kept(Fresh)
<1>1. ~Fresh.open /\ Fresh.out = <<>> /\ Fresh.original = <<>>
  BY DEF Fresh
<1>2. Delivered(Fresh)
  BY <1>1, NoFrames DEF Delivered
<1> QED BY <1>1, <1>2, FreshIsExt DEF Kept, Flowing, Whole

-----------------------------------------------------------------------------
(* The answers of the processor.                                           *)
LEMMA BodyAfter ==
  ASSUME NEW o, NEW s, AllData(o), IsBody(s)
  PROVE  /\ o \o s \in Seq(Frames) /\ Chunks(o \o s) = Chunks(o) \o Chunks(s)
         /\ HasTrailers(o \o s) <=> HasTrailers(s)
         /\ HasTrailers(s) => ~Last(o \o s).data
<1>1. o \in Seq(Frames) /\ s \in Seq(Frames) /\ o \o s \in Seq(Frames) /\ Len(o) \in Nat /\ Len(s) \in Nat
  BY ConcatProperties DEF AllData, IsBody
<1>2. Chunks(o \o s) = Chunks(o) \o Chunks(s)
  BY <1>1, ChunksConcat
<1>3. PICK t : t = o \o s
  OBVIOUS
<1>4. Len(t) = Len(o) + Len(s) /\ \A i \in 1 .. Len(t) : t[i] = IF i <= Len(o) THEN o[i] ELSE s[i - Len(o)]
  BY <1>1, <1>3, ConcatProperties
<1>5. DOMAIN t = 1 .. Len(t) /\ DOMAIN s = 1 .. Len(s) /\ DOMAIN o = 1 .. Len(o)
  BY <1>1, <1>3
<1>6. ASSUME HasTrailers(s) PROVE HasTrailers(t) /\ ~Last(t).data
  <2>1. PICK i \in DOMAIN s : ~s[i].data
    BY <1>6 DEF HasTrailers
  <2>2. i = Len(s) /\ i \in 1 .. Len(s)
    BY <1>5, <2>1 DEF IsBody
  <2>3. Len(t) \in 1 .. Len(t) /\ ~(Len(t) <= Len(o)) /\ Len(t) - Len(o) = Len(s)
    BY <1>1, <1>4, <2>2
  <2>4. t[Len(t)] = s[i]
    BY <1>4, <2>2, <2>3
  <2>5. Last(t) = t[Len(t)]
    BY DEF Last
  <2> QED BY <1>5, <2>1, <2>3, <2>4, <2>5 DEF HasTrailers
<1>7. ASSUME HasTrailers(t) PROVE HasTrailers(s)
  <2>1. PICK i \in 1 .. Len(t) : ~t[i].data
    BY <1>5, <1>7 DEF HasTrailers
  <2>2. ~(i <= Len(o))
    <3> SUFFICES ASSUME i <= Len(o) PROVE FALSE
      OBVIOUS
    <3>1. t[i] = o[i] /\ i \in DOMAIN o
      BY <1>1, <1>4, <1>5
    <3> QED BY <2>1, <3>1 DEF AllData
  <2>3. t[i] = s[i - Len(o)] /\ i - Len(o) \in DOMAIN s
    BY <1>1, <1>4, <1>5, <2>2
  <2> QED BY <2>1, <2>3 DEF HasTrailers
<1> QED BY <1>1, <1>2, <1>3, <1>6, <1>7

HeadersAnswered(a, v) ==
    \/ a.known.any /\ Agree(a, v, {"streaming"}) /\ v.streaming
    \/ /\ ~a.known.any \/ (~ShouldProcessBody(a) /\ ~a.modes.trailers)
       /\ ~v.open /\ v.original = a.original
       /\ a.open => v.out = a.out \o a.source

LEMMA HandleHeadersResponseIs ==
  ASSUME NEW a, IsExt(a), NEW m, NEW v, v = HandleHeadersResponse(a, m)
  PROVE  /\ Onto(a, v)
         /\ (m # "continueAndReplace" /\ (a.known.body = "yes" => a.known.any)) => HeadersAnswered(a, v)
<1>1. PICK answered : v = [answered EXCEPT !.timer = FALSE]
                      /\ answered = IF m = "continueAndReplace"
                                    THEN SetStreamingBody(Close(Inject(Ready(a), <<Replacement>>)), FALSE)
                                    ELSE IF Buffered(a) /\ a.known.body = "yes" THEN TryEnableStreamingBody(a)
                                    ELSE IF ~a.known.any \/ (~ShouldProcessBody(a) /\ ~a.modes.trailers)
                                    THEN SetStreamingBody(Close(DrainAndInject(Ready(a))), FALSE)
                                    ELSE TryEnableStreamingBody(Ready(a))
  BY Zenon DEF HandleHeadersResponse
<1>2. ASSUME IsExt(answered) PROVE Agree(answered, v, {})
  BY <1>1, <1>2 DEF Agree, IsExt, Major
<1>3. PICK b : b = Ready(a)
  OBVIOUS
<1>4. Agree(a, b, {}) /\ Onto(a, b) /\ IsExt(b)
  BY <1>3, ReadyIs, OntoOperators DEF Onto
<1>5. CASE m = "continueAndReplace"
  <2>1. PICK c : c = Inject(b, <<Replacement>>)
    OBVIOUS
  <2>2. Onto(b, c) /\ IsExt(c)
    <3>1. \A fr : Onto(b, Inject(b, fr))
      BY <1>4, OntoOperators, Zenon
    <3>2. Onto(b, c)
      BY <2>1, <3>1, Zenon
    <3> QED BY <3>2 DEF Onto
  <2>3. PICK d : d = Close(c)
    OBVIOUS
  <2>4. Onto(c, d) /\ IsExt(d)
    BY <2>2, <2>3, OntoOperators DEF Onto
  <2>5. answered = SetStreamingBody(d, FALSE)
    BY <1>1, <1>3, <1>5, <2>1, <2>3, Zenon
  <2>6. Onto(d, answered) /\ IsExt(answered)
    BY <2>4, <2>5, OntoOperators DEF Onto
  <2>7. Onto(answered, v)
    BY <1>2, <2>6, OntoAgree
  <2>8. Onto(a, c)
    BY <1>4, <2>2, OntoAgain, Zenon
  <2>9. Onto(c, answered)
    BY <2>4, <2>6, OntoAgain, Zenon
  <2> QED BY <1>5, <2>7, <2>8, <2>9, OntoAgain
<1>6. ASSUME NEW x, IsExt(x), Agree(a, x, {}), answered = TryEnableStreamingBody(x), a.known.body = "yes" \/ a.known.any
      PROVE  Onto(a, v) /\ ((a.known.body = "yes" => a.known.any) => HeadersAnswered(a, v))
  <2>1. Onto(x, answered) /\ IsExt(answered)
    BY <1>6, OntoOperators DEF Onto
  <2>2. Agree(answered, v, {})
    BY <1>2, <2>1
  <2>3. Onto(a, x) /\ Onto(answered, v)
    BY <1>6, <2>2, OntoAgree
  <2>4. Onto(a, v)
    BY <2>1, <2>3, OntoAgain
  <2>5. ASSUME a.known.any PROVE HeadersAnswered(a, v)
    <3>1. x.known = a.known
      BY <1>6 DEF Agree, Major
    <3>2. Agree(x, answered, {"streaming"}) /\ answered.streaming
      BY <1>6, <2>5, <3>1, TryEnableStreamingBodyIs
    <3>3. Agree(a, answered, {} \cup {"streaming"})
      BY <1>6, <3>2, AgreeAgain, Zenon
    <3>4. Agree(a, v, ({} \cup {"streaming"}) \cup {})
      BY <2>2, <3>3, AgreeAgain, Zenon
    <3>5. ({} \cup {"streaming"}) \cup {} = {"streaming"}
      OBVIOUS
    <3>6. v.streaming = answered.streaming
      BY <2>2 DEF Agree, Major
    <3> QED BY <2>5, <3>2, <3>4, <3>5, <3>6 DEF HeadersAnswered
  <2> QED BY <1>6, <2>4, <2>5
<1>7. CASE m # "continueAndReplace" /\ Buffered(a) /\ a.known.body = "yes"
  <2>1. answered = TryEnableStreamingBody(a) /\ Agree(a, a, {})
    BY <1>1, <1>7, AgreeSelf
  <2> QED BY <1>6, <1>7, <2>1
<1>8. CASE /\ m # "continueAndReplace" /\ ~(Buffered(a) /\ a.known.body = "yes")
           /\ ~(~a.known.any \/ (~ShouldProcessBody(a) /\ ~a.modes.trailers))
  <2>1. answered = TryEnableStreamingBody(b)
    BY <1>1, <1>3, <1>8
  <2> QED BY <1>4, <1>6, <1>8, <2>1
<1>9. CASE /\ m # "continueAndReplace" /\ ~(Buffered(a) /\ a.known.body = "yes")
           /\ ~a.known.any \/ (~ShouldProcessBody(a) /\ ~a.modes.trailers)
  <2>1. PICK c : c = DrainAndInject(b)
    OBVIOUS
  <2>2. Onto(b, c) /\ IsExt(c) /\ (b.open => c.out = b.out \o b.source) /\ Agree(b, c, {"out", "source"})
    <3>1. Onto(b, c)
      BY <1>4, <2>1, OntoOperators
    <3>2. (b.open => c.out = b.out \o b.source) /\ Agree(b, c, {"out", "source"})
      BY <1>4, <2>1, DrainAndInjectIs
    <3> QED BY <3>1, <3>2 DEF Onto
  <2>3. PICK d : d = Close(c)
    OBVIOUS
  <2>4. Onto(c, d) /\ IsExt(d) /\ Agree(c, d, {"open"}) /\ ~d.open
    BY <2>2, <2>3, OntoOperators, CloseIs DEF Onto
  <2>5. answered = SetStreamingBody(d, FALSE)
    BY <1>1, <1>3, <1>9, <2>1, <2>3, Zenon
  <2>6. Onto(d, answered) /\ IsExt(answered) /\ Agree(d, answered, {"streaming", "eos"})
    BY <2>4, <2>5, OntoOperators, SetStreamingBodyIs DEF Onto
  <2>7. Onto(answered, v) /\ Agree(answered, v, {})
    BY <1>2, <2>6, OntoAgree
  <2>8. Onto(a, v)
    <3>1. Onto(a, c)
      BY <1>4, <2>2, OntoAgain, Zenon
    <3>2. Onto(c, answered)
      BY <2>4, <2>6, OntoAgain, Zenon
    <3> QED BY <2>7, <3>1, <3>2, OntoAgain
  <2>9. b.open = a.open /\ b.out = a.out /\ b.source = a.source /\ b.original = a.original
    BY <1>4 DEF Agree, Major
  <2>10. c.original = b.original
    BY <2>2 DEF Agree, Major
  <2>11. d.original = c.original /\ d.out = c.out
    BY <2>4 DEF Agree, Major
  <2>12. answered.original = d.original /\ answered.out = d.out /\ answered.open = d.open
    BY <2>6 DEF Agree, Major
  <2>13. v.original = answered.original /\ v.out = answered.out /\ v.open = answered.open
    BY <2>7 DEF Agree, Major
  <2> QED BY <1>9, <2>2, <2>4, <2>8, <2>9, <2>10, <2>11, <2>12, <2>13 DEF HeadersAnswered
<1> QED BY <1>5, <1>7, <1>8, <1>9

(* An answer that changes the message makes it touched.                    *)
LEMMA TouchIs ==
  ASSUME NEW w, IsExt(w), NEW m, NEW v, v = Touch(w, m)
  PROVE  Onto(w, v) /\ Agree(w, v, {"touched"}) /\ (Clean(v) => m = "none")
<1> DEFINE z == w.touched \/ m # "none"
<1>1. v = [w EXCEPT !.touched = z]
  BY DEF Touch
<1>2. ~z => m = "none" /\ ~w.touched
  OBVIOUS
<1> HIDE DEF z
<1>3. Agree(w, v, {"touched"}) /\ v.touched = z
  BY <1>1 DEF Agree, IsExt, Major
<1>4. v.failed = w.failed /\ v.open = w.open /\ v.out = w.out /\ v.original = w.original
  BY <1>3 DEF Agree, Major
<1>5. ASSUME Clean(v) PROVE m = "none" /\ Clean(w)
  BY <1>2, <1>3, <1>4, <1>5 DEF Clean
<1> QED BY <1>3, <1>4, <1>5 DEF Onto, Agree

LEMMA AnswerHeadersKeeps ==
  ASSUME ExtInv, AnswerHeaders
  PROVE  ExtInv'
<1>1. PICK m \in {"none", "continueAndReplace"}, modes \in ModeOverrides(ext), asks \in Asks :
         LET change == IF modes = ext.modes THEN m ELSE "override"
         IN ext' = HandleHeadersResponse(Touch(AnsweredByProcessor([ext EXCEPT !.modes = modes, !.ready = asks]), change), m)
  BY DEF AnswerHeaders, Go
<1>2. PICK change : change = IF modes = ext.modes THEN m ELSE "override"
  OBVIOUS
<1>3. PICK u : u = [ext EXCEPT !.modes = modes, !.ready = asks]
  OBVIOUS
<1>4. PICK b : b = [u EXCEPT !.awaiting = Tail(u.awaiting)]
  OBVIOUS
<1>5. PICK a : a = Touch(b, change)
  OBVIOUS
<1>6. ext' = HandleHeadersResponse(a, m)
  BY <1>1, <1>2, <1>3, <1>4, <1>5 DEF AnsweredByProcessor
<1>7. IsExt(ext) /\ Kept(ext) /\ ~ext.options.observe /\ ext.awaiting # <<>> /\ Head(ext.awaiting) = "headers"
  BY DEF ExtInv, Kept, AnswerHeaders, Inbound
<1>8. Agree(ext, u, {"modes"}) /\ u.modes = modes /\ u.awaiting = ext.awaiting
  BY <1>3, <1>7 DEF Agree, IsExt, Major, Minor
<1>9. IsExt(u) /\ Onto(ext, u)
  BY <1>8, OntoAgree DEF Agree
<1>10. Agree(u, b, {"awaiting"}) /\ b.awaiting = Tail(ext.awaiting)
  <2>1. PICK t : t = Tail(u.awaiting)
    OBVIOUS
  <2>2. Agree(u, b, {"awaiting"}) /\ b.awaiting = t
    BY <1>4, <1>9, <2>1 DEF Agree, IsExt, Major
  <2> QED BY <1>8, <2>1, <2>2
<1>11. IsExt(b) /\ Onto(u, b)
  BY <1>10, OntoAgree DEF Agree
<1>12. Onto(b, a) /\ IsExt(a) /\ Agree(b, a, {"touched"}) /\ (Clean(a) => change = "none")
  <2>1. Onto(b, a) /\ Agree(b, a, {"touched"}) /\ (Clean(a) => change = "none")
    BY <1>5, <1>11, TouchIs
  <2> QED BY <2>1 DEF Onto
<1>13. /\ Onto(a, ext')
       /\ (m # "continueAndReplace" /\ (a.known.body = "yes" => a.known.any)) => HeadersAnswered(a, ext')
  BY <1>6, <1>12, HandleHeadersResponseIs
<1>14. Onto(ext, ext')
  <2>1. Onto(ext, b)
    BY <1>9, <1>11, OntoAgain, Zenon
  <2>2. Onto(b, ext')
    BY <1>12, <1>13, OntoAgain, Zenon
  <2> QED BY <2>1, <2>2, OntoAgain, Zenon
<1>15. ASSUME Clean(ext'), Clean(ext), ext.open PROVE Flowing(ext') /\ Whole(ext')
  <2>1. PICK h \in {<<>>, <<"headers">>} : InPieces(ext) /\ Progress(ext) /\ Pending(ext, h)
    BY <1>7, <1>15 DEF Kept, Flowing
  <2>2. change = "none"
    BY <1>12, <1>13, <1>15 DEF Onto
  <2>3. modes = ext.modes /\ m = "none"
    BY <1>2, <2>2
  <2>4. Agree(ext, a, ({"modes"} \cup {"awaiting"}) \cup {"touched"})
    <3>1. Agree(ext, b, {"modes"} \cup {"awaiting"})
      BY <1>8, <1>10, AgreeAgain, Zenon
    <3> QED BY <1>12, <3>1, AgreeAgain, Zenon
  <2>5. /\ a.options = ext.options /\ a.original = ext.original /\ a.source = ext.source /\ a.known = ext.known
        /\ a.open = ext.open /\ a.out = ext.out /\ a.data = ext.data /\ a.trailers = ext.trailers
        /\ a.inflight = ext.inflight /\ a.parked = ext.parked /\ a.saved = ext.saved /\ a.streaming = ext.streaming
        /\ a.eos = ext.eos /\ a.complete = ext.complete
    BY <2>4 DEF Agree, Major
  <2>6. a.modes = ext.modes /\ a.awaiting = Tail(ext.awaiting)
    <3>1. a.modes = b.modes /\ a.awaiting = b.awaiting
      BY <1>12 DEF Agree, Major
    <3>2. b.modes = u.modes
      BY <1>10 DEF Agree, Major
    <3> QED BY <1>8, <1>10, <2>3, <3>1, <3>2
  <2>7. HeadersAnswered(a, ext')
    <3>1. a.known.body = "yes" => a.known.any
      BY <2>1, <2>5 DEF Progress
    <3> QED BY <1>13, <2>3, <3>1
  <2>8. h = <<"headers">> /\ Tail(ext.awaiting) = Owed(ext.inflight) /\ h # <<>>
    <3>1. ext.inflight \in Seq(Frames) /\ ext.awaiting = h \o Owed(ext.inflight)
      BY <1>7, <2>1 DEF InPieces, IsBody, Pending
    <3>2. <<"headers">> # <<>>
      OBVIOUS
    <3> QED BY <1>7, <3>1, <3>2, OwedFirst
  <2>9. CASE a.known.any /\ Agree(a, ext', {"streaming"}) /\ ext'.streaming
    <3>1. /\ ext'.modes = a.modes /\ ext'.options = a.options /\ ext'.original = a.original /\ ext'.source = a.source
          /\ ext'.known = a.known /\ ext'.open = a.open /\ ext'.out = a.out /\ ext'.awaiting = a.awaiting
          /\ ext'.data = a.data /\ ext'.trailers = a.trailers /\ ext'.inflight = a.inflight /\ ext'.parked = a.parked
          /\ ext'.saved = a.saved /\ ext'.eos = a.eos /\ ext'.complete = a.complete
      BY <2>9 DEF Agree, Major
    <3>2. PICK v : v = ext'
      OBVIOUS
    <3>3. /\ v.modes = ext.modes /\ v.options = ext.options /\ v.original = ext.original /\ v.source = ext.source
          /\ v.known = ext.known /\ v.open = ext.open /\ v.out = ext.out /\ v.data = ext.data /\ v.trailers = ext.trailers
          /\ v.inflight = ext.inflight /\ v.parked = ext.parked /\ v.saved = ext.saved /\ v.eos = ext.eos
          /\ v.complete = ext.complete /\ v.streaming
      BY <2>5, <2>6, <2>9, <3>1, <3>2
    <3>4. (WillEnd(v) <=> WillEnd(ext)) /\ (ShouldProcessBody(v) <=> ShouldProcessBody(ext))
      BY <3>3 DEF WillEnd, ShouldProcessBody
    <3>5. InPieces(v)
      BY <2>1, <3>3, Zenon DEF InPieces
    <3>6. Progress(v)
      BY <2>1, <3>3, <3>4 DEF Progress
    <3>7. Pending(v, <<>>)
      <4>1. v.awaiting = Owed(ext.inflight)
        BY <2>6, <2>8, <3>1, <3>2
      <4>2. Owed(ext.inflight) \in Seq(Kinds)
        BY <2>1, OwedOf DEF InPieces, IsBody
      <4>3. v.awaiting = <<>> \o Owed(v.inflight)
        BY <3>3, <4>1, <4>2, ConcatEmptySeq
      <4> QED BY <1>7, <3>3, <4>3 DEF Pending
    <3>8. Flowing(v) /\ Whole(v)
      BY <1>15, <3>3, <3>5, <3>6, <3>7 DEF Flowing, Whole
    <3> QED BY <3>2, <3>8
  <2>10. CASE /\ ~a.known.any \/ (~ShouldProcessBody(a) /\ ~a.modes.trailers)
              /\ ~ext'.open /\ ext'.original = a.original
              /\ a.open => ext'.out = a.out \o a.source
    <3>1. WillEnd(ext)
      <4>1. ~ext.known.any => ext.known.body = "no" /\ ext.known.trailers = "no"
        BY <2>1 DEF Progress
      <4> QED BY <2>5, <2>6, <2>10, <4>1 DEF WillEnd, ShouldProcessBody
    <3>2. ~ext.streaming /\ ~ext.complete
      BY <1>7, <2>1, <2>8, <3>1 DEF Pending
    <3>3. Unread(ext)
      BY <2>1, <3>2 DEF Progress
    <3>4. ext'.out = ext.out \o ext.source /\ ext'.original = ext.original
      BY <1>15, <2>5, <2>10
    <3>5. AllData(ext.out) /\ IsBody(ext.source) /\ (HasTrailers(ext.original) <=> HasTrailers(ext.source))
      BY <2>1, <3>3 DEF InPieces, Unread
    <3>6. Chunks(ext.original) = Chunks(ext.out) \o Chunks(ext.source)
      <4>1. Chunks(ext.original) = ((Chunks(ext.out) \o <<>>) \o <<>>) \o Chunks(ext.source)
        BY <2>1, <3>3, NoFrames DEF InPieces, Unread
      <4>2. Chunks(ext.out) \in Seq(Nat)
        BY <3>5, ChunksOf DEF AllData
      <4>3. Chunks(ext.out) \o <<>> = Chunks(ext.out)
        BY <4>2, ConcatEmptySeq
      <4> QED BY <4>1, <4>3
    <3>7. PICK o : o = ext.out \o ext.source
      OBVIOUS
    <3>8. o \in Seq(Frames) /\ Chunks(o) = Chunks(ext.original) /\ (HasTrailers(o) <=> HasTrailers(ext.original))
          /\ (HasTrailers(o) => ~Last(o).data)
      BY <3>5, <3>6, <3>7, BodyAfter
    <3> QED BY <2>10, <3>4, <3>7, <3>8 DEF Flowing, Whole, Delivered
  <2> QED BY <2>7, <2>9, <2>10 DEF HeadersAnswered
<1>16. Kept(ext')
  BY <1>7, <1>14, <1>15, KeptIf
<1> QED BY <1>16 DEF ExtInv

LEMMA AnswerTrailersKeeps ==
  ASSUME ExtInv, AnswerTrailers
  PROVE  ExtInv'
<1>1. IsExt(ext) /\ Kept(ext) /\ ~ext.options.observe /\ ext.awaiting # <<>> /\ Head(ext.awaiting) = "trailers"
  BY DEF ExtInv, Kept, AnswerTrailers, Inbound
<1>2. PICK a : a = [ext EXCEPT !.awaiting = Tail(ext.awaiting)]
  OBVIOUS
<1>3. ext' = HandleTrailersResponse(a)
  BY <1>2 DEF AnswerTrailers, Go, AnsweredByProcessor
<1>4. Agree(ext, a, {"awaiting"})
  <2>1. PICK t : t = Tail(ext.awaiting)
    OBVIOUS
  <2> QED BY <1>1, <1>2, <2>1 DEF Agree, IsExt, Major
<1>5. IsExt(a) /\ Onto(ext, a)
  BY <1>4, OntoAgree DEF Agree
<1>6. a.saved = ext.saved /\ a.out = ext.out /\ a.original = ext.original /\ a.open = ext.open
  BY <1>4 DEF Agree, Major
<1>7. CASE a.saved
  <2> DEFINE no == FALSE
  <2>1. PICK b : b = [a EXCEPT !.saved = no]
    OBVIOUS
  <2>2. PICK c : c = Ready(b)
    OBVIOUS
  <2>3. PICK d : d = Inject(c, <<Trailers>>)
    OBVIOUS
  <2>4. PICK e : e = Close(d)
    OBVIOUS
  <2>5. ext' = SetStreamingBody(e, FALSE)
    BY <1>3, <1>7, <2>1, <2>2, <2>3, <2>4 DEF HandleTrailersResponse
  <2> HIDE DEF no
  <2>6. Agree(a, b, {"saved"})
    BY <1>5, <2>1 DEF Agree, IsExt, Major
  <2>7. IsExt(b) /\ Onto(a, b)
    BY <2>6, OntoAgree DEF Agree
  <2>8. Agree(b, c, {}) /\ IsExt(c) /\ Onto(b, c)
    <3>1. Agree(b, c, {})
      BY <2>2, <2>7, ReadyIs
    <3>2. Onto(b, c)
      BY <3>1, OntoAgree
    <3> QED BY <3>1, <3>2 DEF Agree
  <2>9. Agree(c, d, {"out"}) /\ d.out = (IF c.open THEN c.out \o <<Trailers>> ELSE c.out) /\ IsExt(d)
    <3>1. Agree(c, d, {"out"}) /\ d.out = (IF c.open THEN c.out \o <<Trailers>> ELSE c.out)
      BY <2>3, <2>8, InjectIs
    <3> QED BY <3>1 DEF Agree
  <2>10. Onto(c, d)
    <3>1. \A fr : Onto(c, Inject(c, fr))
      BY <2>8, OntoOperators, Zenon
    <3> QED BY <2>3, <3>1, Zenon
  <2>11. Onto(d, e) /\ IsExt(e) /\ Agree(d, e, {"open"}) /\ ~e.open
    BY <2>4, <2>9, OntoOperators, CloseIs DEF Onto
  <2>12. Onto(e, ext') /\ Agree(e, ext', {"streaming", "eos"})
    BY <2>5, <2>11, OntoOperators, SetStreamingBodyIs
  <2>13. Onto(ext, ext')
    <3>1. Onto(ext, b)
      BY <1>5, <2>7, OntoAgain, Zenon
    <3>2. Onto(b, d)
      BY <2>8, <2>10, OntoAgain, Zenon
    <3>3. Onto(d, ext')
      BY <2>11, <2>12, OntoAgain, Zenon
    <3>4. Onto(ext, d)
      BY <3>1, <3>2, OntoAgain, Zenon
    <3> QED BY <3>3, <3>4, OntoAgain, Zenon
  <2>14. ASSUME Clean(ext'), Clean(ext), ext.open PROVE Flowing(ext') /\ Whole(ext')
    <3>1. PICK h \in {<<>>, <<"headers">>} : InPieces(ext) /\ Progress(ext) /\ Pending(ext, h)
      BY <1>1, <2>14 DEF Kept, Flowing
    <3>2. ext.complete /\ ext.source = <<>> /\ ext.data = <<>> /\ HasTrailers(ext.original)
      BY <1>6, <1>7, <3>1 DEF Progress, InPieces
    <3>3. IsBody(ext.inflight) /\ ext.inflight # <<>> /\ ~Head(ext.inflight).data
      <4>1. IsBody(ext.inflight) /\ ext.inflight \in Seq(Frames) /\ ext.awaiting = h \o Owed(ext.inflight)
        BY <1>1, <3>1 DEF InPieces, IsBody, Pending
      <4>2. h = <<>>
        <5>1. Head(ext.awaiting) = "headers" <=> h = <<"headers">>
          BY <1>1, <4>1, OwedFirst
        <5> QED BY <1>1, <5>1
      <4>3. ext.inflight # <<>> /\ Head(ext.awaiting) = IF ext.inflight[1].data THEN "body" ELSE "trailers"
        BY <1>1, <4>1, <4>2, OwedFirst
      <4>4. ~ext.inflight[1].data
        BY <1>1, <4>3
      <4>5. Head(ext.inflight) = ext.inflight[1]
        BY <4>1, <4>3, BodyHeadTail
      <4> QED BY <4>1, <4>3, <4>4, <4>5
    <3>4. Chunks(ext.inflight) = <<>>
      <4>1. Chunks(ext.inflight) = Head(ext.inflight).chunks \o Chunks(Tail(ext.inflight))
            /\ Tail(ext.inflight) = <<>> /\ Head(ext.inflight).chunks = <<>>
        BY <3>3, BodyHeadTail
      <4>2. <<>> \o <<>> = <<>>
        OBVIOUS
      <4> QED BY <4>1, <4>2, NoFrames
    <3>5. AllData(ext.out) /\ ext.out \in Seq(Frames) /\ Chunks(ext.out) \in Seq(Nat)
      BY <3>1, ChunksOf DEF InPieces, AllData
    <3>6. Chunks(ext.original) = Chunks(ext.out)
      <4>1. Chunks(ext.original) = ((Chunks(ext.out) \o <<>>) \o <<>>) \o <<>>
        BY <3>1, <3>2, <3>4, NoFrames DEF InPieces
      <4>2. Chunks(ext.out) \o <<>> = Chunks(ext.out)
        BY <3>5, ConcatEmptySeq
      <4> QED BY <4>1, <4>2
    <3>7. b.open = a.open /\ b.out = a.out /\ b.original = a.original
      BY <2>6 DEF Agree, Major
    <3>8. c.open = b.open /\ c.out = b.out /\ c.original = b.original
      BY <2>8 DEF Agree, Major
    <3>9. d.original = c.original
      BY <2>9 DEF Agree, Major
    <3>10. e.original = d.original /\ e.out = d.out
      BY <2>11 DEF Agree, Major
    <3>11. ext'.original = e.original /\ ext'.out = e.out /\ ext'.open = e.open
      BY <2>12 DEF Agree, Major
    <3>12. ~ext'.open /\ ext'.original = ext.original /\ ext'.out = ext.out \o <<Trailers>>
      BY <1>6, <2>9, <2>11, <2>14, <3>7, <3>8, <3>9, <3>10, <3>11
    <3>13. PICK o : o = ext.out \o <<Trailers>>
      OBVIOUS
    <3>14. HasTrailers(o) /\ Chunks(o) = Chunks(ext.out) /\ ~Last(o).data /\ o \in Seq(Frames)
      BY <3>5, <3>13, TrailersLast
    <3> QED BY <3>2, <3>6, <3>12, <3>13, <3>14 DEF Flowing, Whole, Delivered
  <2>15. Kept(ext')
    BY <1>1, <2>13, <2>14, KeptIf
  <2> QED BY <2>15 DEF ExtInv
<1>8. CASE ~a.saved
  <2>1. PICK c : c = StatusError(a)
    OBVIOUS
  <2>2. PICK e : e = Close(c)
    OBVIOUS
  <2>3. ext' = SetStreamingBody(e, FALSE)
    BY <1>3, <1>8, <2>1, <2>2 DEF HandleTrailersResponse
  <2>4. Onto(a, c) /\ IsExt(c)
    BY <1>5, <2>1, OntoOperators DEF Onto
  <2>5. Onto(c, e) /\ IsExt(e)
    BY <2>2, <2>4, OntoOperators DEF Onto
  <2>6. Onto(e, ext')
    BY <2>3, <2>5, OntoOperators
  <2>7. Onto(ext, ext')
    <3>1. Onto(ext, c)
      BY <1>5, <2>4, OntoAgain, Zenon
    <3>2. Onto(c, ext')
      BY <2>5, <2>6, OntoAgain, Zenon
    <3> QED BY <3>1, <3>2, OntoAgain, Zenon
  <2>8. ASSUME Clean(ext), ext.open PROVE FALSE
    <3>1. PICK h \in {<<>>, <<"headers">>} : InPieces(ext) /\ Progress(ext) /\ Pending(ext, h)
      BY <1>1, <2>8 DEF Kept, Flowing
    <3>2. IsBody(ext.inflight) /\ ext.inflight \in Seq(Frames) /\ ext.awaiting = h \o Owed(ext.inflight)
      BY <1>1, <3>1 DEF InPieces, IsBody, Pending
    <3>3. h = <<>>
      <4>1. Head(ext.awaiting) = "headers" <=> h = <<"headers">>
        BY <1>1, <3>2, OwedFirst
      <4> QED BY <1>1, <4>1
    <3>4. ext.inflight # <<>> /\ Head(ext.awaiting) = IF ext.inflight[1].data THEN "body" ELSE "trailers"
      BY <1>1, <3>2, <3>3, OwedFirst
    <3>5. ~ext.inflight[1].data
      BY <1>1, <3>4
    <3>6. HasTrailers(ext.inflight)
      BY <3>2, <3>4, <3>5, BodyHeadTail
    <3> QED BY <1>6, <1>8, <3>1, <3>6 DEF Progress
  <2>9. Kept(ext')
    BY <1>1, <2>7, <2>8, KeptIf
  <2> QED BY <2>9 DEF ExtInv
<1> QED BY <1>7, <1>8

(* The frame that is answered comes out.                                   *)
Passed(w, v) ==
    /\ Agree(w, v, {"awaiting", "out", "inflight", "touched"})
    /\ v.out = w.out \o <<Head(w.inflight)>> /\ v.inflight = Tail(w.inflight)
    /\ v.awaiting = Tail(w.awaiting)

LEMMA PassedIs ==
  ASSUME NEW w, IsExt(w), w.open, InPieces(w), Progress(w), Pending(w, <<>>), ~w.options.observe,
         w.inflight # <<>>, Head(w.inflight).data, Tail(w.awaiting) = Owed(Tail(w.inflight)), NEW v, Passed(w, v)
  PROVE  /\ v.open /\ InPieces(v) /\ Pending(v, <<>>)
         /\ (v.eos /\ v.inflight = <<>>) => Ended(w, v, <<>>)
         /\ ~(v.eos /\ v.inflight = <<>>) => Progress(v)
<1>1. /\ v.modes = w.modes /\ v.options = w.options /\ v.original = w.original /\ v.source = w.source /\ v.known = w.known
      /\ v.open = w.open /\ v.data = w.data /\ v.trailers = w.trailers /\ v.parked = w.parked /\ v.saved = w.saved
      /\ v.streaming = w.streaming /\ v.eos = w.eos /\ v.complete = w.complete
  BY DEF Passed, Agree, Major
<1>2. PICK g : g = Head(w.inflight)
  OBVIOUS
<1>3. PICK t : t = Tail(w.inflight)
  OBVIOUS
<1>4. /\ g \in Frames /\ g.data /\ IsBody(t) /\ t \in Seq(Frames) /\ Chunks(w.inflight) = g.chunks \o Chunks(t)
      /\ HasTrailers(w.inflight) <=> HasTrailers(t)
  BY <1>2, <1>3, BodyHeadTail DEF InPieces
<1>5. v.out = w.out \o <<g>> /\ v.inflight = t /\ v.awaiting = Owed(t)
  BY <1>2, <1>3 DEF Passed
<1>6. AllData(v.out) /\ Chunks(v.out) = Chunks(w.out) \o g.chunks /\ AllData(w.out)
  <2>1. AllData(w.out) /\ AllData(<<g>>)
    BY <1>4, AllDataIs DEF InPieces
  <2>2. Chunks(w.out \o <<g>>) = Chunks(w.out) \o Chunks(<<g>>)
    BY <2>1, ChunksConcat DEF AllData
  <2>3. Chunks(<<g>>) = g.chunks
    BY <1>4, ChunksOne
  <2> QED BY <1>5, <2>1, <2>2, <2>3, AllDataConcat
<1>7. Chunks(w.out) \o Chunks(w.inflight) = Chunks(v.out) \o Chunks(v.inflight)
  <2>1. Chunks(w.out) \in Seq(Nat) /\ g.chunks \in Seq(Nat) /\ Chunks(t) \in Seq(Nat)
    BY <1>4, <1>6, ChunksOf DEF AllData, Frames
  <2>2. Associate(Chunks(w.out), g.chunks, Chunks(t))
    BY <2>1, Associates, Zenon
  <2> QED BY <1>4, <1>5, <1>6, <2>2, Zenon DEF Associate
<1>8. InPieces(v)
  <2>1. Chunks(v.original) = Chunks(v.out) \o Chunks(v.inflight) \o Chunks(v.data) \o Chunks(v.source)
    BY <1>1, <1>7, Zenon DEF InPieces
  <2> QED BY <1>1, <1>4, <1>5, <1>6, <2>1 DEF InPieces
<1>9. Owed(t) \in Seq(Kinds)
  BY <1>4, OwedOf
<1>10. v.awaiting = <<>> \o Owed(v.inflight)
  BY <1>5, <1>9, ConcatEmptySeq
<1>11. Pending(v, <<>>)
  BY <1>1, <1>10 DEF Pending
<1>12. (WillEnd(v) <=> WillEnd(w)) /\ (ShouldProcessBody(v) <=> ShouldProcessBody(w))
  BY <1>1 DEF WillEnd, ShouldProcessBody
<1>13. /\ ~(~w.streaming /\ ~w.complete) /\ ~(WillEnd(w) /\ ~w.complete) /\ ~(~ShouldProcessBody(w) /\ ~w.complete)
       /\ w.eos => w.complete
  BY DEF Progress, Unread
<1>14. v.saved <=> HasTrailers(v.inflight)
  BY <1>1, <1>4, <1>5 DEF Progress
<1>15. ASSUME v.eos, v.inflight = <<>> PROVE Ended(w, v, <<>>)
  <2>1. v.complete /\ v.source = <<>> /\ v.data = <<>> /\ ~v.trailers
    BY <1>1, <1>13, <1>15 DEF Progress
  <2>2. ~v.saved
    BY <1>14, <1>15, NoFrames
  <2>3. HasTrailers(w.original) <=> v.parked
    BY <1>1, <1>8, <2>1, <2>2, NoFrames DEF InPieces
  <2>4. v.out \in Seq(Frames) /\ Chunks(v.out) \in Seq(Nat) /\ ~HasTrailers(v.out)
    BY <1>6, AllDataIs, ChunksOf DEF AllData
  <2>5. Chunks(w.original) = Chunks(v.out) \o Chunks(v.inflight)
    <3>1. Chunks(v.original) = ((Chunks(v.out) \o <<>>) \o <<>>) \o <<>> /\ Chunks(v.inflight) = <<>>
      BY <1>8, <1>15, <2>1, NoFrames DEF InPieces
    <3>2. Chunks(v.out) \o <<>> = Chunks(v.out)
      BY <2>4, ConcatEmptySeq
    <3> QED BY <1>1, <3>1, <3>2
  <2> QED BY <1>1, <1>4, <1>5, <1>6, <1>10, <1>14, <2>1, <2>2, <2>3, <2>4, <2>5 DEF Ended
<1>16. ASSUME ~(v.eos /\ v.inflight = <<>>) PROVE Progress(v)
  <2>1. v.complete => v.inflight # <<>>
    BY <1>1, <1>16 DEF Progress
  <2> QED BY <1>1, <1>12, <1>13, <1>14, <2>1 DEF Progress
<1> QED BY <1>1, <1>8, <1>11, <1>15, <1>16

LEMMA AnswerBodyKeeps ==
  ASSUME ExtInv, AnswerBody
  PROVE  ExtInv'
<1>0. PICK m \in {"none", "replace", "continueAndReplace"} : \E ready :
         ext' = HandleBodyResponse(Touch(AnsweredByProcessor([ext EXCEPT !.ready = ready]), m), m)
  BY DEF AnswerBody, Go
<1>1. PICK ready : ext' = HandleBodyResponse(Touch(AnsweredByProcessor([ext EXCEPT !.ready = ready]), m), m)
  BY <1>0
<1>2. IsExt(ext) /\ Kept(ext) /\ ~ext.options.observe /\ ext.awaiting # <<>> /\ Head(ext.awaiting) = "body"
  BY DEF ExtInv, Kept, AnswerBody, Inbound
<1>3. PICK u : u = [ext EXCEPT !.ready = ready]
  OBVIOUS
<1>4. Agree(ext, u, {}) /\ IsExt(u)
  BY <1>2, <1>3 DEF Agree, IsExt, Major
<1>5. PICK b : b = [u EXCEPT !.awaiting = Tail(u.awaiting)]
  OBVIOUS
<1>6. Agree(u, b, {"awaiting"}) /\ b.awaiting = Tail(u.awaiting) /\ IsExt(b)
  <2>1. PICK t : t = Tail(u.awaiting)
    OBVIOUS
  <2>2. Agree(u, b, {"awaiting"}) /\ b.awaiting = t
    BY <1>4, <1>5, <2>1 DEF Agree, IsExt, Major
  <2> QED BY <2>1, <2>2 DEF Agree
<1>7. PICK a : a = Touch(b, m)
  OBVIOUS
<1>8. Onto(b, a) /\ IsExt(a) /\ Agree(b, a, {"touched"}) /\ (Clean(a) => m = "none")
  <2>1. Onto(b, a) /\ Agree(b, a, {"touched"}) /\ (Clean(a) => m = "none")
    BY <1>6, <1>7, TouchIs
  <2> QED BY <2>1 DEF Onto
<1>9. PICK frame : frame = IF m = "none" /\ a.inflight # <<>> THEN <<Head(a.inflight)>>
                           ELSE IF m = "none" THEN <<>> ELSE <<Replacement>>
  OBVIOUS
<1>10. PICK c : c = Ready(a)
  OBVIOUS
<1>11. PICK d : d = Inject(c, frame)
  OBVIOUS
<1>12. PICK v : v = [d EXCEPT !.inflight = IF d.inflight = <<>> THEN d.inflight ELSE Tail(d.inflight)]
  OBVIOUS
<1>13. ext' = HandleBodyResponse(a, m)
  BY <1>1, <1>3, <1>5, <1>7 DEF AnsweredByProcessor
<1>14. ext' = CASE m = "continueAndReplace" -> SetStreamingBody(Close(v), FALSE)
                [] m # "continueAndReplace" /\ v.eos /\ v.inflight = <<>> -> SetStreamingBody(DrainAndClose(v, <<>>), FALSE)
                [] OTHER -> v
  BY <1>9, <1>10, <1>11, <1>12, <1>13 DEF HandleBodyResponse
<1>15. Agree(a, c, {}) /\ IsExt(c) /\ Onto(a, c)
  <2>1. Agree(a, c, {})
    BY <1>8, <1>10, ReadyIs
  <2>2. Onto(a, c)
    BY <2>1, OntoAgree
  <2> QED BY <2>1, <2>2 DEF Agree
<1>16. Agree(c, d, {"out"}) /\ d.out = (IF c.open THEN c.out \o frame ELSE c.out) /\ IsExt(d)
  <2>1. Agree(c, d, {"out"}) /\ d.out = (IF c.open THEN c.out \o frame ELSE c.out)
    BY <1>11, <1>15, InjectIs
  <2> QED BY <2>1 DEF Agree
<1>17. Onto(c, d)
  <2>1. \A fr : Onto(c, Inject(c, fr))
    BY <1>15, OntoOperators, Zenon
  <2> QED BY <1>11, <2>1, Zenon
<1>18. Agree(d, v, {"inflight"}) /\ IsExt(v)
       /\ v.inflight = IF d.inflight = <<>> THEN d.inflight ELSE Tail(d.inflight)
  <2>1. PICK t : t = IF d.inflight = <<>> THEN d.inflight ELSE Tail(d.inflight)
    OBVIOUS
  <2>2. v = [d EXCEPT !.inflight = t]
    BY <1>12, <2>1
  <2>3. Agree(d, v, {"inflight"}) /\ v.inflight = t
    BY <1>16, <2>2 DEF Agree, IsExt, Major
  <2> QED BY <2>1, <2>3 DEF Agree
<1>19. Onto(ext, a)
  <2>1. Onto(ext, u) /\ Onto(u, b)
    BY <1>4, <1>6, OntoAgree
  <2>2. Onto(ext, b)
    BY <2>1, OntoAgain, Zenon
  <2> QED BY <1>8, <2>2, OntoAgain, Zenon
<1>20. Onto(a, v)
  <2>1. Onto(d, v)
    BY <1>18, OntoAgree
  <2>2. Onto(a, d)
    BY <1>15, <1>17, OntoAgain, Zenon
  <2> QED BY <2>1, <2>2, OntoAgain, Zenon
<1>21. Onto(v, ext')
  <2>1. ASSUME NEW x, Onto(v, x) PROVE Onto(v, SetStreamingBody(x, FALSE))
    <3>1. Onto(x, SetStreamingBody(x, FALSE))
      BY <2>1, OntoOperators DEF Onto
    <3> QED BY <2>1, <3>1, OntoAgain, Zenon
  <2>2. Onto(v, Close(v)) /\ Onto(v, v)
    BY <1>18, OntoOperators DEF Onto
  <2>3. Onto(v, DrainAndClose(v, <<>>))
    <3>1. \A fr : Onto(v, DrainAndClose(v, fr))
      BY <1>18, OntoOperators, Zenon
    <3> QED BY <3>1, Zenon
  <2>4. Onto(v, SetStreamingBody(Close(v), FALSE)) /\ Onto(v, SetStreamingBody(DrainAndClose(v, <<>>), FALSE))
    BY <2>1, <2>2, <2>3, Zenon
  <2> QED BY <1>14, <2>2, <2>4
<1>22. Onto(ext, ext')
  <2>1. Onto(ext, v)
    BY <1>19, <1>20, OntoAgain, Zenon
  <2> QED BY <1>21, <2>1, OntoAgain, Zenon
<1>23. ASSUME Clean(ext'), Clean(ext), ext.open PROVE Flowing(ext') /\ Whole(ext')
  <2>1. PICK h \in {<<>>, <<"headers">>} : InPieces(ext) /\ Progress(ext) /\ Pending(ext, h)
    BY <1>2, <1>23 DEF Kept, Flowing
  <2>2. m = "none"
    BY <1>8, <1>20, <1>21, <1>23 DEF Onto
  <2>3. IsBody(ext.inflight) /\ ext.inflight \in Seq(Frames) /\ ext.awaiting = h \o Owed(ext.inflight)
    BY <1>2, <2>1 DEF InPieces, IsBody, Pending
  <2>4. h = <<>>
    <3>1. Head(ext.awaiting) = "headers" <=> h = <<"headers">>
      BY <1>2, <2>3, OwedFirst
    <3> QED BY <1>2, <3>1
  <2>5. /\ ext.inflight # <<>> /\ Head(ext.awaiting) = IF ext.inflight[1].data THEN "body" ELSE "trailers"
        /\ Tail(ext.awaiting) = Owed(Tail(ext.inflight))
    BY <1>2, <2>3, <2>4, OwedFirst
  <2>6. ext.inflight[1].data
    BY <1>2, <2>5
  <2>7. Head(ext.inflight).data
    <3>1. Head(ext.inflight) = ext.inflight[1]
      BY <2>3, <2>5, BodyHeadTail
    <3> QED BY <2>6, <3>1
  <2>8. Agree(ext, v, {"awaiting", "out", "inflight", "touched"})
    <3>1. Agree(ext, b, {} \cup {"awaiting"})
      BY <1>4, <1>6, AgreeAgain, Zenon
    <3>2. Agree(ext, a, ({} \cup {"awaiting"}) \cup {"touched"})
      BY <1>8, <3>1, AgreeAgain, Zenon
    <3>3. Agree(ext, c, (({} \cup {"awaiting"}) \cup {"touched"}) \cup {})
      BY <1>15, <3>2, AgreeAgain, Zenon
    <3>4. Agree(ext, d, ((({} \cup {"awaiting"}) \cup {"touched"}) \cup {}) \cup {"out"})
      BY <1>16, <3>3, AgreeAgain, Zenon
    <3>5. Agree(ext, v, (((({} \cup {"awaiting"}) \cup {"touched"}) \cup {}) \cup {"out"}) \cup {"inflight"})
      BY <1>18, <3>4, AgreeAgain, Zenon
    <3>6. (((({} \cup {"awaiting"}) \cup {"touched"}) \cup {}) \cup {"out"}) \cup {"inflight"}
            \subseteq {"awaiting", "out", "inflight", "touched"}
      OBVIOUS
    <3>7. PICK E : E = (((({} \cup {"awaiting"}) \cup {"touched"}) \cup {}) \cup {"out"}) \cup {"inflight"}
      OBVIOUS
    <3>8. PICK F : F = {"awaiting", "out", "inflight", "touched"}
      OBVIOUS
    <3>9. Agree(ext, v, E) /\ E \subseteq F
      BY <3>5, <3>6, <3>7, <3>8, Zenon
    <3>10. Agree(ext, v, F)
      BY <3>9, AgreeWider, Zenon
    <3> QED BY <3>8, <3>10, Zenon
  <2>9. Passed(ext, v)
    <3>1. u.awaiting = ext.awaiting /\ u.inflight = ext.inflight /\ u.out = ext.out /\ u.open = ext.open
      BY <1>4 DEF Agree, Major
    <3>2. b.inflight = u.inflight /\ b.out = u.out /\ b.open = u.open
      BY <1>6 DEF Agree, Major
    <3>3. a.inflight = b.inflight /\ a.out = b.out /\ a.open = b.open /\ a.awaiting = b.awaiting
      BY <1>8 DEF Agree, Major
    <3>4. c.inflight = a.inflight /\ c.out = a.out /\ c.open = a.open /\ c.awaiting = a.awaiting
      BY <1>15 DEF Agree, Major
    <3>5. d.inflight = c.inflight /\ d.awaiting = c.awaiting
      BY <1>16 DEF Agree, Major
    <3>6. v.out = d.out /\ v.awaiting = d.awaiting
      BY <1>18 DEF Agree, Major
    <3>7. frame = <<Head(ext.inflight)>>
      BY <1>9, <2>2, <2>5, <3>1, <3>2, <3>3
    <3>8. v.awaiting = Tail(ext.awaiting)
      BY <1>6, <3>1, <3>3, <3>4, <3>5, <3>6
    <3>9. v.inflight = Tail(ext.inflight)
      BY <1>18, <2>5, <3>1, <3>2, <3>3, <3>4, <3>5
    <3>10. v.out = ext.out \o <<Head(ext.inflight)>>
      BY <1>16, <1>23, <3>1, <3>2, <3>3, <3>4, <3>6, <3>7
    <3> QED BY <2>8, <3>8, <3>9, <3>10 DEF Passed
  <2>10. /\ v.open /\ InPieces(v) /\ Pending(v, <<>>)
         /\ (v.eos /\ v.inflight = <<>>) => Ended(ext, v, <<>>)
         /\ ~(v.eos /\ v.inflight = <<>>) => Progress(v)
    BY <1>2, <1>23, <2>1, <2>4, <2>5, <2>7, <2>9, PassedIs
  <2>11. CASE v.eos /\ v.inflight = <<>>
    <3>1. PICK x : x = DrainAndClose(v, <<>>)
      OBVIOUS
    <3>2. ext' = SetStreamingBody(x, FALSE)
      BY <1>14, <2>2, <2>11, <3>1
    <3>3. Agree(v, v, {})
      BY <1>18, AgreeSelf
    <3>4. ~x.open /\ Delivered(x) /\ IsExt(x)
      BY <1>18, <2>10, <2>11, <3>1, <3>3, ClosedAtEnd
    <3>5. Agree(x, ext', {"streaming", "eos"})
      BY <3>2, <3>4, SetStreamingBodyIs
    <3>6. ext'.open = x.open /\ ext'.out = x.out /\ ext'.original = x.original
      BY <3>5 DEF Agree, Major
    <3> QED BY <3>4, <3>6 DEF Flowing, Whole, Delivered
  <2>12. CASE ~(v.eos /\ v.inflight = <<>>)
    <3>1. ext' = v
      BY <1>14, <2>2, <2>12
    <3>2. Flowing(v) /\ Whole(v)
      BY <2>10, <2>12 DEF Flowing, Whole
    <3> QED BY <3>1, <3>2
  <2> QED BY <2>11, <2>12
<1>24. Kept(ext')
  BY <1>2, <1>22, <1>23, KeptIf
<1> QED BY <1>24 DEF ExtInv

-----------------------------------------------------------------------------
(* A message is taken up.                                                  *)
LEMMA SourceIs ==
  ASSUME NEW s \in Sources
  PROVE  /\ IsBody(s)
         /\ \A i \in DOMAIN s : s[i].data \/ s[i] = Trailers
<1>1. PICK n \in 0 .. MaxFrames, t \in {<<>>, <<Trailers>>} : s = [i \in 1 .. n |-> DataFrame(<<i>>)] \o t
  <2> DEFINE S(n, t) == [i \in 1 .. n |-> DataFrame(<<i>>)] \o t
  <2>0. Sources = {S(n, t) : n \in 0 .. MaxFrames, t \in {<<>>, <<Trailers>>}}
    BY DEF Sources
  <2> HIDE DEF S
  <2>1. s \in {S(n, t) : n \in 0 .. MaxFrames, t \in {<<>>, <<Trailers>>}}
    BY <2>0
  <2>2. \E n \in 0 .. MaxFrames, t \in {<<>>, <<Trailers>>} : s = S(n, t)
    BY <2>1
  <2> QED BY <2>2, Zenon DEF S
<1>2. PICK o : o = [i \in 1 .. n |-> DataFrame(<<i>>)]
  OBVIOUS
<1>3. n \in Nat
  BY <1>1, ExtProcAssumption
<1>4. \A i \in 1 .. n : DataFrame(<<i>>) \in Frames /\ DataFrame(<<i>>).data
  <2>1. \A i \in 1 .. n : <<i>> \in Seq(Nat)
    BY <1>3
  <2> QED BY <2>1, FrameFacts
<1>5. DOMAIN o = 1 .. n /\ o \in [1 .. n -> Frames] /\ \A i \in 1 .. n : o[i].data
  BY <1>2, <1>4
<1>6. AllData(o)
  <2>1. o \in Seq(Frames)
    BY <1>3, <1>5, SeqDef
  <2> QED BY <1>5, <2>1 DEF AllData
<1>7. CASE t = <<>>
  <2>1. s = o
    BY <1>1, <1>2, <1>6, <1>7, ConcatEmptySeq DEF AllData
  <2> QED BY <1>6, <2>1, AllDataIs DEF AllData
<1>8. CASE t = <<Trailers>>
  <2>1. s = o \o <<Trailers>>
    BY <1>1, <1>2, <1>8
  <2>2. IsBody(s)
    BY <1>6, <2>1, TrailersLast DEF AllData
  <2>3. PICK z : z = Trailers
    OBVIOUS
  <2>4. o \in Seq(Frames) /\ z \in Frames /\ s = o \o <<z>>
    BY <1>6, <2>1, <2>3, FrameFacts DEF AllData
  <2>5. ASSUME NEW i \in DOMAIN s PROVE s[i].data \/ s[i] = z
    <3>1. s[i] = z \/ (i \in DOMAIN o /\ s[i] = o[i])
      BY <2>4
    <3> QED BY <1>6, <3>1 DEF AllData
  <2> QED BY <2>2, <2>3, <2>5
<1> QED BY <1>7, <1>8

(* A collected body is one frame, with the same chunks.                    *)
LEMMA CollectIs ==
  ASSUME NEW s \in Sources
  PROVE  /\ IsBody(Collect(s)) /\ Chunks(Collect(s)) = Chunks(s)
         /\ HasTrailers(Collect(s)) <=> HasTrailers(s)
         /\ ~(\E f \in Range(s) : f.data) => \A i \in DOMAIN Collect(s) : ~Collect(s)[i].data
<1>1. IsBody(s) /\ s \in Seq(Frames) /\ Chunks(s) \in Seq(Nat)
  BY SourceIs, ChunksOf DEF IsBody
<1>2. Trailers \in Range(s) <=> HasTrailers(s)
  <2>1. \A i \in DOMAIN s : s[i].data \/ s[i] = Trailers
    BY SourceIs
  <2>2. ~Trailers.data
    BY FrameFacts
  <2> QED BY <2>1, <2>2 DEF Range, HasTrailers
<1>3. PICK some \in BOOLEAN : some <=> \E f \in Range(s) : f.data
  OBVIOUS
<1>4. PICK o : o = IF some THEN <<DataFrame(Chunks(s))>> ELSE <<>>
  OBVIOUS
<1>5. PICK t : t = IF Trailers \in Range(s) THEN <<Trailers>> ELSE <<>>
  OBVIOUS
<1>6. Collect(s) = o \o t
  BY <1>3, <1>4, <1>5 DEF Collect
<1>7. AllData(o) /\ Chunks(o) = Chunks(s) /\ (~some => o = <<>>)
  <2>1. CASE some
    <3>1. PICK g : g = DataFrame(Chunks(s))
      OBVIOUS
    <3>2. g \in Frames /\ g.data /\ g.chunks = Chunks(s)
      BY <1>1, <3>1, FrameFacts
    <3>3. o = <<g>>
      BY <1>4, <2>1, <3>1
    <3>4. AllData(<<g>>) /\ Chunks(<<g>>) = g.chunks
      BY <3>2, AllDataIs, ChunksOne
    <3> QED BY <2>1, <3>2, <3>3, <3>4
  <2>2. CASE ~some
    <3>1. o = <<>>
      BY <1>4, <2>2
    <3>2. \A i \in DOMAIN s : ~s[i].data
      BY <1>3, <2>2 DEF Range
    <3>3. Chunks(s) = <<>>
      <4>1. CASE s = <<>>
        BY <4>1, NoFrames
      <4>2. CASE s # <<>>
        <5>1. ~Head(s).data
          BY <1>1, <3>2, <4>2, BodyHeadTail
        <5>2. Tail(s) = <<>> /\ Head(s).chunks = <<>> /\ Chunks(s) = Head(s).chunks \o Chunks(Tail(s))
          BY <1>1, <4>2, <5>1, BodyHeadTail
        <5>3. <<>> \o <<>> = <<>>
          OBVIOUS
        <5> QED BY <5>2, <5>3, NoFrames
      <4> QED BY <4>1, <4>2
    <3> QED BY <3>1, <3>3, NoFrames
  <2> QED BY <2>1, <2>2
<1>8. CASE Trailers \in Range(s)
  <2>1. PICK c : c = o \o <<Trailers>>
    OBVIOUS
  <2>2. Collect(s) = c
    BY <1>5, <1>6, <1>8, <2>1
  <2>3. IsBody(c) /\ HasTrailers(c) /\ Chunks(c) = Chunks(o)
    BY <1>7, <2>1, TrailersLast DEF AllData
  <2>4. ASSUME ~some PROVE \A i \in DOMAIN c : ~c[i].data
    <3>1. PICK z : z = Trailers
      OBVIOUS
    <3>2. c = <<>> \o <<z>> /\ ~z.data
      BY <1>7, <2>1, <2>4, <3>1, FrameFacts
    <3>3. c = <<z>>
      BY <3>2
    <3> QED BY <3>2, <3>3
  <2> QED BY <1>2, <1>3, <1>7, <1>8, <2>2, <2>3, <2>4
<1>9. CASE Trailers \notin Range(s)
  <2>1. Collect(s) = o \o <<>>
    BY <1>5, <1>6, <1>9
  <2>2. Collect(s) = o
    BY <1>7, <2>1, ConcatEmptySeq DEF AllData
  <2>3. IsBody(o) /\ ~HasTrailers(o)
    BY <1>7, AllDataIs
  <2>4. DOMAIN <<>> = {}
    OBVIOUS
  <2> QED BY <1>2, <1>3, <1>7, <1>9, <2>2, <2>3, <2>4
<1> QED BY <1>8, <1>9

LEMMA KnownIs ==
  ASSUME NEW s \in Sources, NEW k, k \in {BodyType(s), Unknown(s)}
  PROVE  /\ k.body = "no" => ~(\E f \in Range(s) : f.data)
         /\ k.body = "yes" => k.any
         /\ ~k.any => k.body = "no" /\ k.trailers = "no"
<1>1. s = <<>> => Range(s) = {}
  BY DEF Range
<1> DEFINE some == IF \E f \in Range(s) : f.data THEN "yes" ELSE "no"
           last == IF Trailers \in Range(s) THEN "yes" ELSE "no"
           any == s # <<>>
           yes == TRUE
<1>2. some = "no" => ~(\E f \in Range(s) : f.data)
  OBVIOUS
<1>3. (some = "yes" => any) /\ (~any => some = "no" /\ last = "no")
  BY <1>1
<1>4. BodyType(s) = [body |-> some, trailers |-> last, any |-> any]
  BY DEF BodyType
<1>5. Unknown(s) = BodyType(s) \/ (Unknown(s) = [body |-> "unknown", trailers |-> "unknown", any |-> yes] /\ yes)
  BY DEF Unknown
<1> HIDE DEF some, last, any, yes
<1>6. CASE k = BodyType(s)
  BY <1>2, <1>3, <1>4, <1>6
<1>7. CASE k = [body |-> "unknown", trailers |-> "unknown", any |-> yes] /\ yes
  BY <1>7
<1> QED BY <1>5, <1>6, <1>7

(* Before anything is read.                                                *)
Poised(w) ==
    /\ w.open /\ IsBody(w.source) /\ Chunks(w.source) = Chunks(w.original)
    /\ HasTrailers(w.source) <=> HasTrailers(w.original)
    /\ w.out = <<>> /\ Unread(w) /\ ~w.complete
    /\ w.known.body = "no" => \A i \in DOMAIN w.source : ~w.source[i].data
    /\ w.known.body = "yes" => w.known.any
    /\ ~w.known.any => w.known.body = "no" /\ w.known.trailers = "no"

LEMMA PoisedAgain ==
  ASSUME NEW w, NEW v, Poised(w), Agree(w, v, {"streaming", "eos", "awaiting"})
  PROVE  Poised(v) /\ (WillEnd(v) <=> WillEnd(w)) /\ v.options = w.options /\ v.inflight = <<>>
<1>1. /\ v.modes = w.modes /\ v.options = w.options /\ v.original = w.original /\ v.source = w.source /\ v.known = w.known
      /\ v.open = w.open /\ v.out = w.out /\ v.data = w.data /\ v.trailers = w.trailers
      /\ v.inflight = w.inflight /\ v.parked = w.parked /\ v.saved = w.saved /\ v.complete = w.complete
  BY DEF Agree, Major
<1> QED BY <1>1 DEF Poised, Unread, WillEnd, ShouldProcessBody

LEMMA PoisedIs ==
  ASSUME NEW w, Poised(w), w.eos => WillEnd(w)
  PROVE  InPieces(w) /\ Progress(w)
<1>1. Chunks(w.source) \in Seq(Nat)
  BY ChunksOf DEF Poised, IsBody
<1>2. Chunks(w.original) = Chunks(w.out) \o Chunks(w.inflight) \o Chunks(w.data) \o Chunks(w.source)
  <2>1. <<>> \o <<>> = <<>>
    OBVIOUS
  <2>2. <<>> \o Chunks(w.source) = Chunks(w.source)
    BY <1>1, ConcatEmptySeq
  <2>3. Chunks(w.out) = <<>> /\ Chunks(w.inflight) = <<>> /\ Chunks(w.data) = <<>>
    BY NoFrames DEF Poised, Unread
  <2>4. Chunks(w.original) = ((<<>> \o <<>>) \o <<>>) \o Chunks(w.source)
    BY <2>1, <2>2 DEF Poised
  <2> QED BY <2>3, <2>4
<1>3. Len(w.data) <= 1
  BY DEF Poised, Unread
<1>4. InPieces(w)
  BY <1>2, <1>3, NoFrames DEF Poised, Unread, InPieces
<1>5. Progress(w)
  BY NoFrames DEF Poised, Unread, Progress
<1> QED BY <1>4, <1>5

LEMMA OwedNone == Owed(<<>>) = <<>> /\ <<>> \o Owed(<<>>) = <<>> /\ <<"headers">> \o Owed(<<>>) = <<"headers">>
<1>1. Owed(<<>>) = <<>>
  BY DEF Owed
<1>2. <<>> \in Seq(Kinds) /\ <<"headers">> \in Seq(Kinds)
  BY DEF Kinds
<1>3. <<>> \o <<>> = <<>> /\ <<"headers">> \o <<>> = <<"headers">>
  BY <1>2, ConcatEmptySeq
<1> QED BY <1>1, <1>3

(* The worker as it is handed the message.                                 *)
Start(w) == IsExt(w) /\ Poised(w) /\ ~w.streaming /\ ~w.eos /\ w.awaiting = <<>>

LEMMA StartAgain ==
  ASSUME NEW w, NEW v, Start(w), Agree(w, v, {})
  PROVE  Start(v)
<1>1. Agree(w, v, {"streaming", "eos", "awaiting"})
  BY AgreeWider
<1>2. v.streaming = w.streaming /\ v.eos = w.eos /\ v.awaiting = w.awaiting
  BY DEF Agree, Major
<1>3. Poised(v)
  BY <1>1, PoisedAgain DEF Start
<1> QED BY <1>2, <1>3 DEF Start, Agree

LEMMA ProcessHeadersKeeps ==
  ASSUME NEW w, Start(w), NEW r
  PROVE  Kept(ProcessHeaders(w, r))
<1>1. PICK z \in BOOLEAN : z <=> WillEnd(w)
  OBVIOUS
<1>2. PICK ended : ended = [w EXCEPT !.eos = z]
  OBVIOUS
<1>3. PICK y \in BOOLEAN : y <=> w.options.observe \/ (w.options.early /\ ~z)
  OBVIOUS
<1>4. Agree(w, ended, {"eos"}) /\ ended.eos = z /\ IsExt(ended)
  <2>1. Agree(w, ended, {"eos"}) /\ ended.eos = z
    BY <1>2 DEF Start, Agree, IsExt, Major
  <2> QED BY <2>1 DEF Agree
<1>5. PICK x : x = [ended EXCEPT !.streaming = y]
  OBVIOUS
<1>6. Agree(ended, x, {"streaming"}) /\ x.streaming = y /\ IsExt(x)
  <2>1. Agree(ended, x, {"streaming"}) /\ x.streaming = y
    BY <1>4, <1>5 DEF Agree, IsExt, Major
  <2> QED BY <2>1 DEF Agree
<1>7. PICK v : v = Forward(x, <<"headers">>, r)
  OBVIOUS
<1>8. ProcessHeaders(w, r) = v
  <2>1. ended = [w EXCEPT !.eos = WillEnd(w)]
    <3>1. z = WillEnd(w)
      BY <1>1 DEF WillEnd
    <3> QED BY <1>2, <3>1
  <2>2. x = [ended EXCEPT !.streaming = w.options.observe \/ (w.options.early /\ ~ended.eos)]
    <3>1. y = (w.options.observe \/ (w.options.early /\ ~ended.eos))
      BY <1>3, <1>4
    <3> QED BY <1>5, <3>1
  <2> QED BY <1>7, <2>1, <2>2 DEF ProcessHeaders
<1>9. IsExt(v) /\ (Clean(v) => Agree(x, v, {"awaiting"}) /\ (~x.options.observe => v.awaiting = x.awaiting \o <<"headers">>))
  <2>1. /\ Onto(x, v)
        /\ Clean(v) => Agree(x, v, {"awaiting"}) /\ (~x.options.observe => v.awaiting = x.awaiting \o <<"headers">>)
    BY <1>6, <1>7, ForwardIs
  <2> QED BY <2>1 DEF Onto
<1>10. ASSUME Clean(v) PROVE Flowing(v) /\ Whole(v)
  <2>1. Agree(w, x, {"eos"} \cup {"streaming"})
    BY <1>4, <1>6, AgreeAgain, Zenon
  <2>2. Agree(w, v, ({"eos"} \cup {"streaming"}) \cup {"awaiting"})
    BY <1>9, <1>10, <2>1, AgreeAgain, Zenon
  <2>3. Agree(w, v, {"streaming", "eos", "awaiting"})
    BY <2>2, AgreeWider
  <2>4. Poised(v) /\ (WillEnd(v) <=> WillEnd(w)) /\ v.options = w.options /\ v.inflight = <<>>
    BY <2>3, PoisedAgain DEF Start
  <2>5. x.eos = ended.eos
    BY <1>6 DEF Agree, Major
  <2>6. x.options = w.options /\ x.awaiting = w.awaiting
    BY <2>1 DEF Agree, Major
  <2>7. v.streaming = x.streaming /\ v.eos = x.eos
    BY <1>9, <1>10 DEF Agree, Major
  <2>8. v.eos => WillEnd(v)
    BY <1>1, <1>4, <2>4, <2>5, <2>7
  <2>9. InPieces(v) /\ Progress(v)
    BY <2>4, <2>8, PoisedIs
  <2>10. ~v.options.observe => v.awaiting = <<"headers">> \o Owed(v.inflight)
    <3> SUFFICES ASSUME ~v.options.observe PROVE v.awaiting = <<"headers">> \o Owed(v.inflight)
      OBVIOUS
    <3>1. v.awaiting = <<>> \o <<"headers">>
      BY <1>9, <1>10, <2>4, <2>6 DEF Start
    <3>2. <<>> \o <<"headers">> = <<"headers">>
      OBVIOUS
    <3> QED BY <2>4, <3>1, <3>2, OwedNone
  <2>11. (~v.options.observe /\ WillEnd(v)) => ~v.streaming /\ ~v.complete
    BY <1>1, <1>3, <1>6, <2>4, <2>7 DEF Poised
  <2>12. Pending(v, <<"headers">>)
    BY <2>4, <2>10, <2>11 DEF Pending
  <2> QED BY <2>4, <2>9, <2>12 DEF Flowing, Whole, Poised
<1> QED BY <1>8, <1>9, <1>10 DEF Kept

LEMMA ProcessBodyAndTrailersKeeps ==
  ASSUME NEW w, Start(w), w.known.any
  PROVE  Kept(ProcessBodyAndTrailers(w))
<1>1. PICK v : v = TryEnableStreamingBody(w)
  OBVIOUS
<1>2. Agree(w, v, {"streaming"}) /\ v.streaming /\ IsExt(v)
  <2>1. Agree(w, v, {"streaming"}) /\ v.streaming
    BY <1>1, TryEnableStreamingBodyIs DEF Start
  <2> QED BY <2>1 DEF Agree
<1>3. Kept(v)
  <2>1. Agree(w, v, {"streaming", "eos", "awaiting"})
    BY <1>2, AgreeWider
  <2>2. Poised(v) /\ (WillEnd(v) <=> WillEnd(w)) /\ v.options = w.options /\ v.inflight = <<>>
    BY <2>1, PoisedAgain DEF Start
  <2>3. v.eos = w.eos /\ v.awaiting = w.awaiting
    BY <1>2 DEF Agree, Major
  <2>4. InPieces(v) /\ Progress(v)
    BY <2>2, <2>3, PoisedIs DEF Start
  <2>5. v.awaiting = <<>> \o Owed(v.inflight)
    BY <2>2, <2>3, OwedNone DEF Start
  <2>6. Pending(v, <<>>)
    BY <2>2, <2>5 DEF Pending
  <2>7. Flowing(v) /\ Whole(v)
    BY <2>2, <2>4, <2>6 DEF Flowing, Whole, Poised
  <2> QED BY <1>2, <2>7 DEF Kept
<1>4. Kept(Ready(v))
  <2>1. Agree(v, Ready(v), {})
    BY <1>2, ReadyIs
  <2> QED BY <1>3, <2>1, KeptMinor
<1>5. ProcessBodyAndTrailers(w) = v \/ ProcessBodyAndTrailers(w) = Ready(v)
  BY <1>1 DEF ProcessBodyAndTrailers
<1> QED BY <1>3, <1>4, <1>5

LEMMA ProcessKeeps ==
  ASSUME NEW w, Start(w), NEW r
  PROVE  Kept(Process(w, r))
<1>1. CASE w.modes.headers
  <2>1. Process(w, r) = ProcessHeaders(w, r)
    BY <1>1 DEF Process
  <2> QED BY <2>1, ProcessHeadersKeeps
<1>2. CASE ~w.modes.headers /\ w.known.any /\ (ShouldProcessBody(w) \/ w.modes.trailers)
  <2>1. Process(w, r) = ProcessBodyAndTrailers(w)
    BY <1>2 DEF Process
  <2> QED BY <1>2, <2>1, ProcessBodyAndTrailersKeeps
<1>3. CASE ~w.modes.headers /\ ~(w.known.any /\ (ShouldProcessBody(w) \/ w.modes.trailers))
  <2>1. PICK a : a = Ready(w)
    OBVIOUS
  <2>2. PICK b : b = DrainAndInject(a)
    OBVIOUS
  <2>3. PICK v : v = [b EXCEPT !.open = FALSE]
    OBVIOUS
  <2>4. Process(w, r) = v
    BY <1>3, <2>1, <2>2, <2>3 DEF Process
  <2>5. Agree(w, a, {})
    BY <2>1, ReadyIs DEF Start
  <2>6. Start(a)
    BY <2>5, StartAgain
  <2>7. Agree(a, b, {"out", "source"}) /\ b.out = a.out \o a.source
    BY <2>2, <2>6, DrainAndInjectIs DEF Start, Poised
  <2>8. IsExt(v) /\ ~v.open /\ v.out = b.out /\ v.original = b.original
    BY <2>3, <2>7 DEF Agree, IsExt, Major
  <2>9. b.original = a.original
    BY <2>7 DEF Agree, Major
  <2>10. IsBody(a.source) /\ a.source \in Seq(Frames) /\ a.out = <<>> /\ Chunks(a.source) = Chunks(a.original)
         /\ (HasTrailers(a.source) <=> HasTrailers(a.original))
    BY <2>6 DEF Start, Poised, IsBody
  <2>11. <<>> \o a.source = a.source
    BY <2>10, ConcatEmptySeq
  <2>12. HasTrailers(a.source) => ~Last(a.source).data
    <3>1. HasTrailers(a.source) => ~Last(<<>> \o a.source).data
      BY <2>10, NoFrames, BodyAfter
    <3> QED BY <2>11, <3>1
  <2>13. Delivered(v)
    BY <2>7, <2>8, <2>9, <2>10, <2>11, <2>12 DEF Delivered
  <2> QED BY <2>4, <2>8, <2>13 DEF Kept, Flowing, Whole
<1> QED BY <1>1, <1>2, <1>3

(* What the filter goes on with: decided, or for the worker.               *)
Prepared(w) == IsExt(w) /\ (w.run => Start(w)) /\ (~w.run => Kept(w))

LEMMA PrepareRequestIs ==
  ASSUME NEW m, NEW o, NEW s \in Sources, NEW w \in PrepareRequest(m, o, s)
  PROVE  Prepared(w)
<1>1. PICK begun : begun = [Fresh EXCEPT !.task = "waiting", !.modes = m, !.options = o, !.original = s]
  OBVIOUS
<1>2. PICK source : source = IF m.body = "Buffered" THEN Collect(s) ELSE s
  OBVIOUS
<1>3. PICK known : known = IF m.body = "Buffered" THEN BodyType(s) ELSE Unknown(s)
  OBVIOUS
<1>4. Agree(Fresh, begun, {"modes", "options", "original"}) /\ begun.original = s /\ IsExt(begun) /\ begun.run = Fresh.run
  <2>1. IsExt(Fresh)
    BY FreshIsExt
  <2>2. PICK f : f = Fresh
    OBVIOUS
  <2>3. begun = [f EXCEPT !.task = "waiting", !.modes = m, !.options = o, !.original = s] /\ IsExt(f)
    BY <1>1, <2>1, <2>2
  <2>4. Agree(f, begun, {"modes", "options", "original"}) /\ begun.original = s /\ begun.run = f.run
    BY <2>3 DEF Agree, IsExt, Major, Minor
  <2> QED BY <2>2, <2>4 DEF Agree
<1>5. /\ begun.out = <<>> /\ begun.data = <<>> /\ begun.inflight = <<>> /\ begun.awaiting = <<>> /\ begun.failed = ""
      /\ ~begun.trailers /\ ~begun.parked /\ ~begun.saved /\ ~begun.streaming /\ ~begun.eos /\ ~begun.complete
      /\ ~begun.run /\ ~begun.open
  <2>1. /\ begun.out = Fresh.out /\ begun.data = Fresh.data /\ begun.inflight = Fresh.inflight
        /\ begun.awaiting = Fresh.awaiting /\ begun.failed = Fresh.failed
        /\ begun.trailers = Fresh.trailers /\ begun.parked = Fresh.parked /\ begun.saved = Fresh.saved
        /\ begun.streaming = Fresh.streaming /\ begun.eos = Fresh.eos /\ begun.complete = Fresh.complete
        /\ begun.open = Fresh.open
    BY <1>4 DEF Agree, Major
  <2>2. /\ Fresh.out = <<>> /\ Fresh.data = <<>> /\ Fresh.inflight = <<>> /\ Fresh.awaiting = <<>> /\ Fresh.failed = ""
        /\ ~Fresh.trailers /\ ~Fresh.parked /\ ~Fresh.saved /\ ~Fresh.streaming /\ ~Fresh.eos /\ ~Fresh.complete
        /\ ~Fresh.run /\ ~Fresh.open
    BY DEF Fresh
  <2> QED BY <1>4, <2>1, <2>2
<1>6. IsBody(s) /\ s \in Seq(Frames)
  BY SourceIs DEF IsBody
<1>7. CASE w = [begun EXCEPT !.run = TRUE, !.open = TRUE, !.source = source, !.known = known]
  <2>1. Agree(begun, w, {"open", "source", "known"}) /\ w.run /\ w.open /\ w.source = source /\ w.known = known
    BY <1>4, <1>7 DEF Agree, IsExt, Major, Minor
  <2>2. /\ w.original = begun.original /\ w.out = begun.out /\ w.data = begun.data /\ w.inflight = begun.inflight
        /\ w.awaiting = begun.awaiting /\ w.trailers = begun.trailers /\ w.parked = begun.parked /\ w.saved = begun.saved
        /\ w.streaming = begun.streaming /\ w.eos = begun.eos /\ w.complete = begun.complete
    BY <2>1 DEF Agree, Major
  <2>3. IsBody(source) /\ Chunks(source) = Chunks(s) /\ (HasTrailers(source) <=> HasTrailers(s))
    BY <1>2, <1>6, CollectIs
  <2>4. ~(\E f \in Range(s) : f.data) => \A i \in DOMAIN source : ~source[i].data
    <3>1. CASE m.body = "Buffered"
      BY <1>2, <3>1, CollectIs
    <3>2. CASE m.body # "Buffered"
      BY <1>2, <3>2 DEF Range
    <3> QED BY <3>1, <3>2
  <2>5. /\ known.body = "no" => ~(\E f \in Range(s) : f.data)
        /\ known.body = "yes" => known.any
        /\ ~known.any => known.body = "no" /\ known.trailers = "no"
    <3>1. known \in {BodyType(s), Unknown(s)}
      BY <1>3
    <3> QED BY <3>1, KnownIs
  <2>6. Unread(w)
    BY <1>5, <2>2 DEF Unread
  <2>7. Poised(w)
    BY <1>4, <1>5, <2>1, <2>2, <2>3, <2>4, <2>5, <2>6 DEF Poised
  <2>8. Start(w)
    BY <1>5, <2>1, <2>2, <2>7 DEF Start, Agree
  <2> QED BY <2>1, <2>8 DEF Prepared, Start
<1>8. CASE w = [Ready(begun) EXCEPT !.out = s]
  <2>1. PICK a : a = Ready(begun)
    OBVIOUS
  <2>2. Agree(begun, a, {}) /\ IsExt(a)
    BY <1>4, <2>1, ReadyIs DEF Agree
  <2>3. a.run = begun.run
    BY <1>4, <2>1 DEF Ready, Return, IsExt, Minor
  <2>4. a.open = begun.open /\ a.original = begun.original
    BY <2>2 DEF Agree, Major
  <2>5. w = [a EXCEPT !.out = s]
    BY <1>8, <2>1
  <2>6. IsExt(w) /\ w.out = s /\ w.open = a.open /\ w.original = a.original /\ w.run = a.run
    BY <2>2, <2>5 DEF IsExt, Major, Minor
  <2>7. HasTrailers(s) => ~Last(s).data
    <3>1. <<>> \o s = s
      BY <1>6, ConcatEmptySeq
    <3>2. HasTrailers(s) => ~Last(<<>> \o s).data
      BY <1>6, NoFrames, BodyAfter
    <3> QED BY <3>1, <3>2
  <2>8. ~w.open /\ w.original = s /\ ~w.run
    BY <1>4, <1>5, <2>3, <2>4, <2>6
  <2>9. Delivered(w)
    BY <1>6, <2>6, <2>7, <2>8 DEF Delivered
  <2> QED BY <2>6, <2>8, <2>9 DEF Prepared, Kept, Flowing, Whole
<1>9. CASE w = [StatusError(begun) EXCEPT !.failed = "body"]
  <2>1. PICK a : a = StatusError(begun)
    OBVIOUS
  <2>2. IsExt(a)
    BY <1>4, <2>1, OntoOperators DEF Onto
  <2>3. a.run = begun.run
    BY <1>4, <2>1 DEF StatusError, Return, IsExt, Minor
  <2>4. w = [a EXCEPT !.failed = "body"]
    BY <1>9, <2>1
  <2>5. w.run = a.run
    BY <2>2, <2>4 DEF IsExt, Minor
  <2>6. IsExt(w) /\ Kept(w)
    BY <2>2, <2>4, FailedIs, KeptUnclean
  <2> QED BY <1>5, <2>3, <2>5, <2>6 DEF Prepared
<1> QED BY <1>1, <1>2, <1>3, <1>7, <1>8, <1>9 DEF PrepareRequest

LEMMA SendProcessingDataKeeps ==
  ASSUME NEW prepared, \A w \in prepared : Prepared(w), SendProcessingData(prepared)
  PROVE  ExtInv'
<1>1. PICK w \in prepared : IF w.run THEN \E r \in ExtOutcomes(w) : ext' = Process(w, r) ELSE ext' = w
  BY DEF SendProcessingData, Go
<1>2. Prepared(w)
  BY <1>1
<1>3. CASE w.run
  <2>1. PICK r \in ExtOutcomes(w) : ext' = Process(w, r)
    BY <1>1, <1>3
  <2>2. Kept(ext')
    BY <1>2, <1>3, <2>1, ProcessKeeps DEF Prepared
  <2> QED BY <2>2 DEF ExtInv
<1>4. CASE ~w.run
  <2>1. ext' = w /\ Kept(w)
    BY <1>1, <1>2, <1>4 DEF Prepared
  <2> QED BY <2>1 DEF ExtInv
<1> QED BY <1>3, <1>4

LEMMA ApplyKeeps ==
  ASSUME ApplyToRequest \/ ApplyToResponse
  PROVE  ExtInv'
<1>1. CASE ApplyToRequest
  <2>1. PICK m \in Modes, o \in Options, s \in Sources : SendProcessingData(PrepareRequest(m, o, s))
    BY <1>1 DEF ApplyToRequest
  <2>2. \A w \in PrepareRequest(m, o, s) : Prepared(w)
    BY PrepareRequestIs
  <2> QED BY <2>1, <2>2, SendProcessingDataKeeps
<1>2. CASE ApplyToResponse
  <2>1. PICK m \in Modes, o \in Options, s \in Sources : SendProcessingData(PrepareResponse(m, o, s))
    BY <1>2 DEF ApplyToResponse
  <2>2. ASSUME NEW x \in PrepareResponse(m, o, s) PROVE Prepared(x)
    <3>1. PICK w \in PrepareRequest(m, o, s) : x = [w EXCEPT !.side = "response"]
      BY DEF PrepareResponse
    <3>2. Prepared(w)
      BY PrepareRequestIs
    <3>3. Agree(w, x, {}) /\ x.run = w.run
      BY <3>1, <3>2 DEF Prepared, Agree, IsExt, Major, Minor
    <3>4. w.run => Start(x)
      BY <3>2, <3>3, StartAgain DEF Prepared
    <3>5. ~w.run => Kept(x)
      BY <3>2, <3>3, KeptMinor DEF Prepared
    <3> QED BY <3>3, <3>4, <3>5 DEF Prepared, Agree
  <2> QED BY <2>1, <2>2, SendProcessingDataKeeps
<1> QED BY <1>1, <1>2

LEMMA PrefixOfConcat ==
  ASSUME NEW S, NEW a \in Seq(S), NEW e \in Seq(S)
  PROVE  IsPrefix(a, a) /\ IsPrefix(a, a \o e)
<1>1. PICK t : t = a \o e
  OBVIOUS
<1>2. PICK n : n = Len(a)
  OBVIOUS
<1>3. n \in Nat /\ t \in Seq(S) /\ Len(t) >= n /\ \A i \in 1 .. n : t[i] = a[i]
  BY <1>1, <1>2
<1>4. SubSeq(a, 1, n) = SubSeq(t, 1, n)
  <2>1. SubSeq(a, 1, n) = [i \in 1 .. n |-> a[i]] /\ SubSeq(t, 1, n) = [i \in 1 .. n |-> t[i]]
    BY <1>2, <1>3
  <2>2. [i \in 1 .. n |-> a[i]] = [i \in 1 .. n |-> t[i]]
    BY <1>3
  <2> QED BY <2>1, <2>2
<1>5. Len(a) <= Len(a)
  OBVIOUS
<1> QED BY <1>1, <1>2, <1>3, <1>4, <1>5 DEF IsPrefix

LEMMA ExtInvImpliesBodyIntact == ASSUME ExtInv PROVE BodyIntact
<1> SUFFICES ASSUME ~ext.touched, ext.failed = ""
             PROVE  /\ IsPrefix(Chunks(ext.out), Chunks(ext.original))
                    /\ HasTrailers(ext.out) => ~Last(ext.out).data /\ HasTrailers(ext.original)
                    /\ ~ext.open => Chunks(ext.out) = Chunks(ext.original) /\ (HasTrailers(ext.original) => HasTrailers(ext.out))
  BY DEF BodyIntact
<1>1. Flowing(ext) /\ Whole(ext)
  BY DEF ExtInv, Kept, Clean
<1>2. CASE ~ext.open
  <2>1. Delivered(ext)
    BY <1>1, <1>2 DEF Whole
  <2>2. PICK c : c = Chunks(ext.out)
    OBVIOUS
  <2>3. c \in Seq(Nat)
    BY <2>1, <2>2, ChunksOf DEF Delivered
  <2>4. IsPrefix(c, c)
    BY <2>3, PrefixOfConcat
  <2> QED BY <1>2, <2>1, <2>2, <2>4 DEF Delivered
<1>3. CASE ext.open
  <2>1. InPieces(ext)
    BY <1>1, <1>3 DEF Flowing
  <2>2. ~HasTrailers(ext.out)
    BY <2>1, AllDataIs DEF InPieces
  <2>3. IsPrefix(Chunks(ext.out), Chunks(ext.original))
    <3>1. PICK a : a = Chunks(ext.out)
      OBVIOUS
    <3>2. PICK b : b = Chunks(ext.inflight)
      OBVIOUS
    <3>3. PICK c : c = Chunks(ext.data)
      OBVIOUS
    <3>4. PICK d : d = Chunks(ext.source)
      OBVIOUS
    <3>5. a \in Seq(Nat) /\ b \in Seq(Nat) /\ c \in Seq(Nat) /\ d \in Seq(Nat)
      BY <2>1, <3>1, <3>2, <3>3, <3>4, ChunksOf DEF InPieces, AllData, IsBody
    <3>6. Chunks(ext.original) = ((a \o b) \o c) \o d
      BY <2>1, <3>1, <3>2, <3>3, <3>4 DEF InPieces
    <3>7. b \o c \in Seq(Nat) /\ (b \o c) \o d \in Seq(Nat)
      BY <3>5, ConcatProperties
    <3>8. Associate(a, b, c) /\ Associate(a, b \o c, d)
      BY <3>5, <3>7, Associates, Zenon
    <3>9. Chunks(ext.original) = a \o ((b \o c) \o d)
      BY <3>6, <3>8, Zenon DEF Associate
    <3>10. PICK e : e = (b \o c) \o d
      OBVIOUS
    <3>11. IsPrefix(a, a \o e)
      BY <3>5, <3>7, <3>10, PrefixOfConcat
    <3> QED BY <3>1, <3>9, <3>10, <3>11
  <2> QED BY <1>3, <2>2, <2>3
<1> QED BY <1>2, <1>3

(***************************************************************************)
(* A processor that answers every message without changing it changes      *)
(* nothing: what has come out of the frame bridge (channel_body.rs) is a   *)
(* prefix of the body, trailers come last, and once the bridge is closed   *)
(* nothing is missing, for any number of frames and any merge limit.       *)
(***************************************************************************)
THEOREM BodyStaysIntact == ExtProcSpec => []BodyIntact
<1>1. ExtProcInit => ExtInv
  BY KeptFresh DEF ExtProcInit, ExtInv
<1>2. ASSUME ExtInv, [ExtProcNext]_ext PROVE ExtInv'
  <2>1. CASE ApplyToRequest \/ ApplyToResponse
    BY <2>1, ApplyKeeps
  <2>2. CASE RequestBody \/ ResponseBody
    <3>1. NextFrame \/ SourceFails \/ SourceEnds
      BY <2>2 DEF RequestBody, ResponseBody
    <3> QED BY <1>2, <3>1, NextFrameKeeps, SourceFailsKeeps, SourceEndsKeeps
  <2>3. CASE ObserverStops
    BY <1>2, <2>3, ObserverStopsKeeps
  <2>4. CASE AnswerHeaders
    BY <1>2, <2>4, AnswerHeadersKeeps
  <2>5. CASE AnswerBody
    BY <1>2, <2>5, AnswerBodyKeeps
  <2>6. CASE AnswerTrailers
    BY <1>2, <2>6, AnswerTrailersKeeps
  <2>7. CASE ProcessorFails \/ MessageTimeout
    <3>1. IsExt(ext)
      BY <1>2 DEF ExtInv, Kept
    <3>2. \E why \in {"stream", "timeout"} : ext' = RecoverOrFailure(ext, why)
      BY <2>7 DEF ProcessorFails, MessageTimeout, Go
    <3>3. PICK why \in {"stream", "timeout"} : ext' = RecoverOrFailure(ext, why)
      BY <3>2
    <3>4. Kept(RecoverOrFailure(ext, why))
      BY <3>1, RecoverOrFailureKeeps
    <3> QED BY <3>3, <3>4 DEF ExtInv
  <2>8. CASE ExtendTimeout
    BY <1>2, <2>8, ExtendTimeoutKeeps
  <2>9. CASE AnswerImmediately
    BY <1>2, <2>9, AnswerImmediatelyKeeps
  <2>10. CASE FilterDropped
    BY <1>2, <2>10, FilterDroppedKeeps
  <2>11. CASE Forget
    BY <2>11, KeptFresh DEF Forget, Go, ExtInv
  <2>12. CASE UNCHANGED ext
    BY <1>2, <2>12 DEF ExtInv
  <2> QED BY <1>2, <2>1, <2>2, <2>3, <2>4, <2>5, <2>6, <2>7, <2>8, <2>9, <2>10, <2>11, <2>12 DEF ExtProcNext
<1>3. ExtInv => BodyIntact
  BY ExtInvImpliesBodyIntact
<1> QED BY <1>1, <1>2, <1>3, PTL DEF ExtProcSpec
=============================================================================
