------------------------------ MODULE XdsClient ------------------------------
(***************************************************************************)
(* The delta xDS client (arion-xds/src/xds/client.rs) and the configurator *)
(* task that applies what it receives (arion-proxy/src/xds_configurator.rs)*)
(* with a management server that sends every change once per stream.       *)
(*                                                                         *)
(* The worker serves one response at a time: it forgets the removed        *)
(* resources, decodes the others, hands the batch over and waits for its   *)
(* outcome or for ACK_TIMEOUT. The configurator applies the updates of a   *)
(* batch one by one, in and out of sight of the worker. A stream that      *)
(* fails loses the responses in flight; the next one starts with the       *)
(* versions the worker tracks.                                             *)
(***************************************************************************)
EXTENDS Naturals, Sequences, FiniteSets, SequencesExt

CONSTANTS
    Resources,      \* the names of the resources
    TypeOf,         \* TypeOf[r]: the TypeUrl of r
    EndpointsOf,    \* EndpointsOf[c]: the load assignment of EDS cluster c
    SecretOf,       \* SecretOf[c]: the SDS secrets cluster or listener c refers to
    Undecodable,    \* the <<r, v>> that XdsResourcePayload cannot decode
    Invalid,        \* the <<r, v>> that decode and that the proxy cannot build
    MaxVersion,     \* bound: versions of a resource
    MaxChanges,     \* bound: changes the server makes
    MaxFaults       \* bound: streams that fail, ACK_TIMEOUTs, route timeouts and
                    \*   unsubscriptions, together

TypeUrls == {"Secret", "Cluster", "ClusterLoadAssignment", "Listener",
             "RouteConfiguration", "Extension"}

ASSUME XdsAssumption ==
    /\ TypeOf \in [Resources -> TypeUrls]
    /\ EndpointsOf \in [Resources -> SUBSET Resources]
    /\ \A c \in Resources : \A e \in EndpointsOf[c] :
          TypeOf[c] = "Cluster" /\ TypeOf[e] = "ClusterLoadAssignment"
    /\ SecretOf \in [Resources -> SUBSET Resources]
    /\ {MaxVersion, MaxChanges, MaxFaults} \subseteq Nat

VARIABLES
    want,       \* want[r]: the server's version of r (0: none)
    told,       \* told[r]: the version the server has sent on this stream
    asked,      \* the types and names the server was asked for on this stream
    inbox,      \* responses on their way: [type, versions, gone]
    stream,     \* whether a stream is established
    backoff,    \* seconds
    tracked,    \* tracked[r]: the version of r that is declared (0: none)
    subs,       \* the types in `subscriptions`
    pending,    \* the batch the worker waits for (0: none)
    batches,    \* resources_tx
    todo,       \* the batch the configurator applies
    outcome,    \* what came over the oneshot: "none", "applied" or "rejected"
    inForce,    \* inForce[r]: the version of r in force (0: none)
    spent,      \* [changes, batches, faults] so far
    orphaned,   \* history: load assignments that went with their cluster
    refused     \* history: resources whose last change was answered with an error

xdsVars == <<want, told, asked, inbox, stream, backoff, tracked, subs, pending, batches,
             todo, outcome, inForce, spent, orphaned, refused>>

serverVars == <<want, told, asked>>
workerVars == <<stream, backoff, tracked, subs, pending, inbox>>
configVars == <<todo, inForce, orphaned>>

InitialBackoff == 1
MaxBackoff == 20
BackoffInterval == 2

None == [r \in Resources |-> 0]
Idle == [id |-> 0, versions |-> None, gone |-> {}, rejected |-> FALSE]
Updated(versions) == {r \in Resources : versions[r] # 0}
Named(batch) == Updated(batch.versions) \union batch.gone

(* The state has its types; what is tracked and in force are versions the  *)
(* server had.                                                             *)
XdsTypeOK ==
    /\ {tracked, want, told, inForce} \subseteq [Resources -> 0..MaxVersion]
    /\ asked \subseteq TypeUrls /\ subs \subseteq TypeUrls
    /\ stream \in BOOLEAN
    /\ backoff \in InitialBackoff..MaxBackoff + BackoffInterval
    /\ outcome \in {"none", "applied", "rejected"}
    /\ orphaned \subseteq Resources /\ refused \subseteq Resources
    /\ todo \in [id : Nat, versions : [Resources -> 0..MaxVersion],
                 gone : SUBSET Resources, rejected : BOOLEAN]

XdsInit ==
    /\ want = None /\ told = None /\ asked = {}
    /\ inbox = <<>>
    /\ stream = FALSE
    /\ backoff = InitialBackoff
    /\ tracked = None
    /\ subs = {}
    /\ pending = Idle
    /\ batches = <<>>
    /\ todo = Idle
    /\ outcome = "none"
    /\ inForce = None
    /\ spent = [changes |-> 0, batches |-> 0, faults |-> 0]
    /\ orphaned = {} /\ refused = {}

----------------------------------------------------------------------------
(* The management server.                                                  *)

\* It changes or removes a resource; the versions of a resource grow.
ServerChange(r) ==
    /\ spent.changes < MaxChanges
    /\ spent' = [spent EXCEPT !.changes = @ + 1]
    /\ \/ want[r] < MaxVersion /\ want' = [want EXCEPT ![r] = spent.changes + 1]
       \/ want[r] # 0 /\ want' = [want EXCEPT ![r] = 0]
    /\ UNCHANGED <<told, asked, workerVars, batches, outcome, configVars, refused>>

\* One response with everything of a type that changed since the last one.
ServerSend(type) ==
    LET changed == {r \in Resources : TypeOf[r] = type /\ want[r] # told[r]}
    IN  /\ stream
        /\ type \in asked
        /\ changed # {}
        /\ inbox' = Append(inbox, [type |-> type,
                                   versions |-> [r \in Resources |->
                                                 IF r \in changed THEN want[r] ELSE 0],
                                   gone |-> {r \in changed : want[r] = 0}])
        /\ told' = [r \in Resources |-> IF r \in changed THEN want[r] ELSE told[r]]
        /\ UNCHANGED <<want, asked, stream, backoff, tracked, subs, pending, batches,
                       outcome, configVars, spent, refused>>

----------------------------------------------------------------------------
(* The worker.                                                             *)

\* build_initial_discovery_requests: the five types of the aggregated stream.
InitialTypes == TypeUrls \ {"Extension"}

\* Mutant: the versions that were sent are declared.
InitialVersionsAsSent == told

\* The versions declared with the initial requests.
InitialVersions == [r \in Resources |-> IF TypeOf[r] \in InitialTypes THEN tracked[r] ELSE 0]

\* A stream is established.
Connect ==
    /\ ~stream
    /\ stream' = TRUE
    /\ asked' = InitialTypes
    /\ told' = InitialVersions
    /\ backoff' = InitialBackoff
    /\ inbox' = <<>>
    /\ UNCHANGED <<want, tracked, subs, pending, batches, outcome, configVars, spent,
                   refused>>

\* The bound on faults.
Fault == spent.faults < MaxFaults /\ spent' = [spent EXCEPT !.faults = @ + 1]

\* Mutant: no ceiling.
DoubledUncapped == backoff * 2

Doubled == IF backoff * 2 < MaxBackoff THEN backoff * 2 ELSE MaxBackoff

\* persistently_connect: a stream that cannot be made backs off by doubling.
ConnectFails ==
    /\ ~stream
    /\ backoff' = Doubled
    /\ UNCHANGED <<serverVars, inbox, stream, tracked, subs, pending, batches, outcome,
                   configVars, spent, refused>>

\* So does a stream that ends with a status; one that ends without waits longer.
StreamFails ==
    /\ stream /\ pending = Idle
    /\ Fault
    /\ stream' = FALSE
    /\ inbox' = <<>>
    /\ asked' = {}
    /\ backoff' \in {Doubled, Doubled + BackoffInterval}
    /\ UNCHANGED <<want, told, tracked, subs, pending, batches, outcome, configVars, refused>>

\* process_subscription_event: a request only for a name that is new. The MCP
\* gateway subscribes to its extension types once.
Subscribe(type) ==
    /\ stream /\ pending = Idle
    /\ type \notin subs
    /\ subs' = subs \union {type}
    /\ asked' = asked \union {type}
    /\ UNCHANGED <<want, told, inbox, stream, backoff, tracked, pending, batches, outcome,
                   configVars, spent, refused>>

Unsubscribe(type) ==
    /\ stream /\ pending = Idle
    /\ type \in subs
    /\ Fault
    /\ subs' = subs \ {type}
    /\ asked' = asked \ {type}
    /\ UNCHANGED <<want, told, inbox, stream, backoff, tracked, pending, batches, outcome,
                   configVars, refused>>

Forgotten(gone) == [r \in Resources |-> IF r \in gone THEN 0 ELSE tracked[r]]

CannotDecode(versions) == \E r \in Updated(versions) : <<r, versions[r]>> \in Undecodable

Respond == stream /\ pending = Idle /\ inbox # <<>> /\ inbox' = Tail(inbox)

\* process_discovery_response: the removed resources are forgotten, the batch
\* goes to the configurator.
Receive ==
    LET response == Head(inbox)
        id == spent.batches + 1
        batch == [id |-> id, versions |-> response.versions, gone |-> response.gone,
                  rejected |-> FALSE]
    IN  /\ Respond
        /\ ~CannotDecode(response.versions)
        /\ tracked' = Forgotten(response.gone)
        /\ spent' = [spent EXCEPT !.batches = id]
        /\ batches' = Append(batches, batch)
        /\ pending' = batch
        /\ outcome' = "none"
        /\ UNCHANGED <<serverVars, stream, backoff, subs, configVars, refused>>

\* ... or nothing of the response is applied, and it is answered with an error.
RefuseResponse ==
    LET response == Head(inbox)
    IN  /\ Respond
        /\ CannotDecode(response.versions)
        /\ tracked' = Forgotten(response.gone)
        /\ refused' = refused \union Named(response)
        /\ UNCHANGED <<serverVars, stream, backoff, subs, pending, batches, outcome,
                       configVars, spent>>

\* Mutant: the versions of a rejected batch are tracked too.
AcknowledgeAll ==
    /\ pending # Idle
    /\ outcome # "none"
    /\ tracked' = [r \in Resources |-> IF pending.versions[r] # 0
                                       THEN pending.versions[r] ELSE tracked[r]]
    /\ pending' = Idle
    /\ outcome' = "none"
    /\ UNCHANGED <<serverVars, inbox, stream, backoff, subs, batches, configVars, spent,
                   refused>>

\* The outcome of the batch: an answer to the server, and the versions of an
\* accepted batch are tracked.
Acknowledge ==
    /\ pending # Idle
    /\ outcome # "none"
    /\ tracked' = IF outcome = "applied"
                  THEN [r \in Resources |-> IF pending.versions[r] # 0
                                            THEN pending.versions[r] ELSE tracked[r]]
                  ELSE tracked
    /\ refused' = IF outcome = "applied" THEN refused \ Named(pending)
                  ELSE refused \union Named(pending)
    /\ pending' = Idle
    /\ outcome' = "none"
    /\ UNCHANGED <<serverVars, inbox, stream, backoff, subs, batches, configVars, spent>>

\* ACK_TIMEOUT: an answer with an error, while the batch is still on its way.
AckTimeout ==
    /\ pending # Idle
    /\ Fault
    /\ refused' = refused \union Named(pending)
    /\ pending' = Idle
    /\ outcome' = "none"
    /\ UNCHANGED <<serverVars, inbox, stream, backoff, tracked, subs, batches, configVars>>

----------------------------------------------------------------------------
(* The configurator.                                                       *)

TakeBatch ==
    /\ todo = Idle
    /\ batches # <<>>
    /\ todo' = Head(batches)
    /\ batches' = Tail(batches)
    /\ UNCHANGED <<serverVars, workerVars, outcome, inForce, spent, orphaned, refused>>

ClusterOf(r) == {c \in Resources : r \in EndpointsOf[c]}

\* process_update_event: what makes an update of r an Err.
Accepts(r, version) ==
    /\ <<r, version>> \notin Invalid
    /\ \A s \in SecretOf[r] : inForce[s] # 0
    /\ TypeOf[r] = "ClusterLoadAssignment" => \A c \in ClusterOf(r) : inForce[c] # 0

\* process_remove_event: a cluster must be there, for its load assignment too.
AcceptsRemoval(r) ==
    /\ TypeOf[r] = "Cluster" => inForce[r] # 0
    /\ TypeOf[r] = "ClusterLoadAssignment" => \A c \in ClusterOf(r) : inForce[c] # 0

\* The configuration after r got a version: a cluster that is added, replaced
\* or removed loses its load assignment.
WithVersion(r, version) ==
    [q \in Resources |-> CASE q = r -> version
                           [] q \in EndpointsOf[r] -> 0
                           [] OTHER -> inForce[q]]

Put(r, version, accepted) ==
    IF accepted
    THEN /\ inForce' = WithVersion(r, version)
         /\ orphaned' = (orphaned \union {e \in EndpointsOf[r] : inForce[e] # 0}) \ {r}
    ELSE UNCHANGED <<inForce, orphaned>>

ApplyUpdate(r) ==
    LET accepted == Accepts(r, todo.versions[r])
    IN  /\ todo.versions[r] # 0
        /\ Put(r, todo.versions[r], accepted)
        /\ todo' = [todo EXCEPT !.versions[r] = 0, !.rejected = @ \/ ~accepted]
        /\ UNCHANGED <<serverVars, workerVars, batches, outcome, spent, refused>>

\* The updates of a batch come before its removals.
ApplyRemoval(r) ==
    LET accepted == AcceptsRemoval(r)
    IN  /\ r \in todo.gone
        /\ Updated(todo.versions) = {}
        /\ Put(r, 0, accepted)
        /\ todo' = [todo EXCEPT !.gone = @ \ {r}, !.rejected = @ \/ ~accepted]
        /\ UNCHANGED <<serverVars, workerVars, batches, outcome, spent, refused>>

\* ROUTE_UPDATE_TIMEOUT: the change reached the runtimes, and counts as rejected.
RouteTimeout(r) ==
    /\ TypeOf[r] = "RouteConfiguration"
    /\ Fault
    /\ \/ todo.versions[r] # 0 /\ Put(r, todo.versions[r], TRUE)
       \/ r \in todo.gone /\ Updated(todo.versions) = {} /\ Put(r, 0, TRUE)
    /\ todo' = [todo EXCEPT !.versions[r] = 0, !.gone = @ \ {r}, !.rejected = TRUE]
    /\ UNCHANGED <<serverVars, workerVars, batches, outcome, refused>>

\* Mutant: the outcome of a batch that was given up answers for the next one.
FinishBatchForAny ==
    /\ todo # Idle
    /\ Updated(todo.versions) = {} /\ todo.gone = {}
    /\ outcome' = IF pending = Idle THEN outcome
                  ELSE IF todo.rejected THEN "rejected" ELSE "applied"
    /\ todo' = Idle
    /\ UNCHANGED <<serverVars, workerVars, batches, inForce, spent, orphaned, refused>>

\* The outcome goes over the oneshot, unless the worker has given up.
FinishBatch ==
    /\ todo # Idle
    /\ Updated(todo.versions) = {} /\ todo.gone = {}
    /\ outcome' = IF todo.id # pending.id THEN outcome
                  ELSE IF todo.rejected THEN "rejected" ELSE "applied"
    /\ todo' = Idle
    /\ UNCHANGED <<serverVars, workerVars, batches, inForce, spent, orphaned, refused>>

----------------------------------------------------------------------------
Configure ==
    \/ TakeBatch
    \/ \E r \in Resources : ApplyUpdate(r) \/ ApplyRemoval(r)
    \/ FinishBatch

Work == Connect \/ Receive \/ RefuseResponse \/ Acknowledge

XdsNext ==
    \/ \E r \in Resources : ServerChange(r) \/ RouteTimeout(r)
    \/ \E type \in TypeUrls : ServerSend(type)
    \/ Subscribe("Extension") \/ Unsubscribe("Extension")
    \/ ConnectFails \/ StreamFails \/ AckTimeout
    \/ Work
    \/ Configure

\* The server sends what it has, the worker reconnects and serves its select!,
\* and the configurator task runs.
XdsFairness ==
    /\ WF_xdsVars(\E type \in TypeUrls : ServerSend(type))
    /\ WF_xdsVars(Work)
    /\ WF_xdsVars(Configure)

XdsSpec == XdsInit /\ [][XdsNext]_xdsVars /\ XdsFairness

----------------------------------------------------------------------------
Tracking == INSTANCE XdsTracking WITH declared <- tracked

(* The client declares a version to the server only when that version is   *)
(* in force (client.rs, process_discovery_response): no order of batches,  *)
(* timeouts and reconnects makes it declare what was not applied.          *)
DeclaresWhatIsInForce == Tracking!TrackingInit /\ [][Tracking!TrackingNext]_<<tracked, inForce>>

(* When nothing is on its way, what the client declares is in force, or    *)
(* newer is (a batch that was refused in part, or answered too late), but  *)
(* for a load assignment that went with its replaced cluster               *)
(* (cluster/dynamic.rs, build).                                            *)
DeclaredIsInForce ==
    (pending = Idle /\ batches = <<>> /\ todo = Idle)
        => \A r \in Resources : tracked[r] # 0 => inForce[r] >= tracked[r] \/ r \in orphaned

(* The proxy converges to the server's configuration: in the end every     *)
(* resource is in force as the server has it, but for those whose last     *)
(* change was answered with an error (it may be in force undeclared, and   *)
(* stay when the server removes it), the load assignments lost with their  *)
(* cluster, and the extension types, which a new stream does not ask for.  *)
Converges ==
    <>[](\A r \in Resources : \/ inForce[r] = want[r]
                              \/ r \in orphaned \union refused
                              \/ TypeOf[r] \notin asked)
=============================================================================
