--------------------------- MODULE CircuitBreakers ---------------------------
(***************************************************************************)
(* The circuit breakers of the clusters map (clusters_manager.rs,          *)
(* circuit_breaker.rs) and the permits that hold their slots               *)
(* (RequestPermit in http_upstream.rs, RetryCircuitBreakerPermit in        *)
(* http_channel.rs).                                                       *)
(*                                                                         *)
(* A permit remembers the NAME of its cluster, not the counter it charged: *)
(* the increment and the decrement each look the name up in the copy of    *)
(* the map of the thread they run on.  An update of the map between the    *)
(* two is therefore part of the protocol.  The counters of a breaker are   *)
(* named by the version of the map that allocated them.                    *)
(***************************************************************************)
EXTENDS CachedWatch, FiniteSets

CONSTANTS
    Clusters,     \* cluster names
    Priorities,   \* RoutingPriority
    Requests,     \* request permits: HTTP requests in progress
    Retries,      \* retry permits: requests in their retry loop
    Limits,       \* the thresholds a configuration may set
    Word,         \* counters are unsigned words: they wrap at Word
    Churned,      \* the clusters that the control plane also removes or
                  \* configures without breakers
    NoCluster,    \* the name is not in the map
    NoBreaker,    \* the cluster has no circuit breaker
    None          \* no thread, cluster, priority or counter

ASSUME BreakerAssumption ==
    /\ Limits \subseteq Nat
    /\ Word \in Nat \ {0}
    /\ IsFiniteSet(Requests) /\ IsFiniteSet(Retries)
    /\ Requests \cap Retries = {}
    /\ Cardinality(Requests \cup Retries) < Word
    /\ Churned \subseteq Clusters
    /\ None \notin Threads \cup Clusters \cup Priorities \cup Nat

Permits == Requests \cup Retries

Kinds == {"requests", "retries"}
KindOf(h) == IF h \in Requests THEN "requests" ELSE "retries"

\* The version of the map that allocated the counters of a breaker.
Generations == 0..MaxVersion

\* ClusterCircuitBreaker: thresholds per priority, and shared counters.
Thresholds == [Kinds -> [Priorities -> Limits]]
Breaker == [max : Thresholds, counters : Generations]

\* ClustersMap, reduced to what the breakers depend on.
Maps == [Clusters -> {NoCluster, NoBreaker} \cup Breaker]

LowestLimit == CHOOSE l \in Limits : \A m \in Limits : l <= m

\* At the start every cluster has a breaker with the smallest threshold: it
\* came with the bootstrap.
BootstrapMap ==
    [c \in Clusters |->
        [max |-> [k \in Kinds |-> [p \in Priorities |-> LowestLimit]], counters |-> 0]]

HasBreaker(entry) == entry \notin {NoCluster, NoBreaker}

(* A cluster that is not churned has its breaker from the start. *)
ASSUME MapAssumption ==
    /\ Values = Maps
    /\ NoCluster \notin Breaker
    /\ NoBreaker \notin Breaker
    /\ \A c \in Clusters \ Churned : HasBreaker(InitValue[c])

VARIABLES
    count,        \* count[c][g][k][p]: the active_requests or active_retries
                  \* that cluster c got from the update with number g
    permit        \* permit[h]: where permit h is in its life

vars == <<watchVars, count, permit>>

Idle == [pc |-> "idle", thread |-> None, cluster |-> None,
         priority |-> None, charged |-> None]

PermitStates ==
    [pc : {"idle", "denied", "routing", "held", "dropping"},
     thread : Threads \cup {None},
     cluster : Clusters \cup {None},
     priority : Priorities \cup {None},
     charged : Generations \cup {None}]   \* ghost: the counter it increased

BreakerTypeOK ==
    /\ WatchTypeOK
    /\ count \in [Clusters -> [Generations -> [Kinds -> [Priorities -> 0..(Word - 1)]]]]
    /\ permit \in [Permits -> PermitStates]

\* Code between two awaits runs to its end on its thread.
Busy(t) == \E h \in Permits : permit[h].thread = t

----------------------------------------------------------------------------

BreakerInit ==
    /\ WatchInit
    /\ count = [c \in Clusters |-> [g \in Generations |->
                   [k \in Kinds |-> [p \in Priorities |-> 0]]]]
    /\ permit = [h \in Permits |-> Idle]

----------------------------------------------------------------------------
(* Updates of the clusters map, each under the write lock. *)

\* build / with_counters: the counters of the entry that is replaced are
\* kept when it has a breaker; fresh ones are allocated otherwise.
Build(old, max) ==
    [max |-> max,
     counters |-> IF HasBreaker(old) THEN old.counters ELSE version + 1]

\* add_cluster, with the thresholds of the new configuration.
AddCluster(c, max) ==
    /\ WriteValue([value EXCEPT ![c] = Build(value[c], max)])
    /\ UNCHANGED <<count, permit>>

\* add_cluster with a configuration that has no circuit breakers.
AddClusterWithoutBreaker(c) ==
    /\ c \in Churned
    /\ WriteValue([value EXCEPT ![c] = NoBreaker])
    /\ UNCHANGED <<count, permit>>

\* remove_cluster; removing an absent cluster is an error that changes
\* nothing but the version.
RemoveCluster(c) ==
    /\ c \in Churned
    /\ WriteValue([value EXCEPT ![c] = NoCluster])
    /\ UNCHANGED <<count, permit>>

\* update_endpoint_health, update_tls_context, change and
\* remove_cluster_load_assignment, and an add_cluster whose build fails:
\* the version grows and no breaker changes.
OtherUpdate ==
    /\ WriteValue(value)
    /\ UNCHANGED <<count, permit>>

FinishUpdate ==
    /\ BumpVersion \/ ReleaseWriteLock
    /\ UNCHANGED <<count, permit>>

----------------------------------------------------------------------------
(* Permits. *)

\* Unsigned words wrap around at both ends.
Inc(n) == IF n = Word - 1 THEN 0 ELSE n + 1
Dec(n) == IF n = 0 THEN Word - 1 ELSE n - 1

\* Mutant: a signed counter, given back twice.
FetchSubTwice(c, g, k, p) == count' = [count EXCEPT ![c][g][k][p] = @ - 2]

\* fetch_add and fetch_sub on one counter.
FetchAdd(c, g, k, p) == count' = [count EXCEPT ![c][g][k][p] = Inc(@)]
FetchSub(c, g, k, p) == count' = [count EXCEPT ![c][g][k][p] = Dec(@)]

\* Mutant: off by one.
AdmitsOneMore(prev, max) == prev <= max

\* try_increment_*: the previous value decides.
Admits(prev, max) == prev < max

\* After an admission a request goes on to pick a connection on the same
\* thread; a retry permit is held at once.
Admitted(h, t, c, p, g) ==
    IF h \in Requests
    THEN [pc |-> "routing", thread |-> t, cluster |-> c, priority |-> p, charged |-> g]
    ELSE [pc |-> "held", thread |-> None, cluster |-> c, priority |-> p, charged |-> g]

\* try_increment_requests / try_increment_retries through the thread's copy:
\* without a cluster or a breaker the answer is Ok and nothing is charged.
TryIncrement(h, t, c, p) ==
    /\ permit[h].pc = "idle"
    /\ ~Busy(t)
    /\ CachedOrLatest(t)
    /\ LET entry == local'[t][c]
           k == KindOf(h)
       IN IF HasBreaker(entry)
          THEN LET g == entry.counters IN
               /\ FetchAdd(c, g, k, p)
               /\ permit' = [permit EXCEPT ![h] =
                    IF Admits(count[c][g][k][p], entry.max[k][p])
                    THEN Admitted(h, t, c, p, g)
                    ELSE [pc |-> "denied", thread |-> t, cluster |-> c,
                          priority |-> p, charged |-> g]]
          ELSE /\ permit' = [permit EXCEPT ![h] = Admitted(h, t, c, p, None)]
               /\ UNCHANGED count
    /\ UNCHANGED <<value, version, phase>>

\* Mutant: a denied attempt returns without giving its increment back.
KeepDeniedIncrement(h) ==
    /\ permit[h].pc = "denied"
    /\ permit' = [permit EXCEPT ![h] = Idle]
    /\ UNCHANGED <<watchVars, count>>

\* The denied attempt takes its increment back, on the state it looked up.
UndoIncrement(h) ==
    /\ permit[h].pc = "denied"
    /\ FetchSub(permit[h].cluster, permit[h].charged, KindOf(h), permit[h].priority)
    /\ permit' = [permit EXCEPT ![h] = Idle]
    /\ UNCHANGED watchVars

\* acquire_http_upstream after the permit: the routing context or the
\* connection may fail, and fails when the cluster is gone; the permit is
\* then dropped on the way out, before the thread does anything else.
AcquireConnection(h) ==
    LET t == permit[h].thread IN
    /\ permit[h].pc = "routing"
    /\ CachedOrLatest(t)
    /\ \/ /\ local'[t][permit[h].cluster] # NoCluster
          /\ permit' = [permit EXCEPT ![h].pc = "held", ![h].thread = None]
       \/ permit' = [permit EXCEPT ![h].pc = "dropping"]
    /\ UNCHANGED <<value, version, phase, count>>

\* decrement_requests / decrement_retries: whatever breaker the name has now.
Decrement(c, entry, k, p) ==
    IF HasBreaker(entry)
    THEN FetchSub(c, entry.counters, k, p)
    ELSE UNCHANGED count

\* Drop of RequestPermit and of RetryCircuitBreakerPermit, on the thread the
\* task runs on by then.
DropPermit(h, t) ==
    /\ \/ permit[h].pc = "dropping" /\ permit[h].thread = t
       \/ permit[h].pc = "held" /\ ~Busy(t)
    /\ CachedOrLatest(t)
    /\ LET c == permit[h].cluster
       IN Decrement(c, local'[t][c], KindOf(h), permit[h].priority)
    /\ permit' = [permit EXCEPT ![h] = Idle]
    /\ UNCHANGED <<value, version, phase>>

----------------------------------------------------------------------------

MapUpdate ==
    \/ \E c \in Clusters, max \in Thresholds : AddCluster(c, max)
    \/ \E c \in Clusters : RemoveCluster(c) \/ AddClusterWithoutBreaker(c)
    \/ OtherUpdate

BreakerNext ==
    \/ MapUpdate
    \/ FinishUpdate
    \/ \E h \in Permits, t \in Threads :
          \/ \E c \in Clusters, p \in Priorities : TryIncrement(h, t, c, p)
          \/ DropPermit(h, t)
    \/ \E h \in Permits : UndoIncrement(h) \/ AcquireConnection(h)

BreakerSpec == BreakerInit /\ [][BreakerNext]_vars

----------------------------------------------------------------------------
(* Properties. *)

\* The permits that have increased the counter of cluster c, generation g,
\* kind k and priority p and not yet given the slot back.
Charged(c, g, k, p) ==
    {h \in Permits : /\ KindOf(h) = k
                     /\ permit[h].cluster = c
                     /\ permit[h].charged = g
                     /\ permit[h].priority = p}

Holding(c, g, k, p) == {h \in Charged(c, g, k, p) : permit[h].pc # "denied"}

(* The tests of clusters_manager.rs ask that a replacement keeps the       *)
(* in-flight count: every counter equals the number of permits that        *)
(* charged it, at every instant and whatever copy each thread works on,    *)
(* attempts about to be undone included. No slot leaks and none is given   *)
(* back twice, and the churn of one cluster does not disturb another.      *)
CountIsExact ==
    \A c \in Clusters \ Churned, g \in Generations, k \in Kinds, p \in Priorities :
        count[c][g][k][p] = Cardinality(Charged(c, g, k, p))

(* try_increment_* grants a permit only while fewer permits than the       *)
(* threshold the granting thread sees are held: concurrent attempts cannot *)
(* overshoot the limit, because each one counts itself before it looks.    *)
AdmissionWithinLimit ==
    [][\A h \in Permits :
         /\ permit[h].pc = "idle"
         /\ permit'[h].pc \in {"routing", "held"}
         /\ permit'[h].cluster \notin Churned
         => \E t \in Threads :
              LET c == permit'[h].cluster
                  k == KindOf(h)
                  p == permit'[h].priority
                  entry == local'[t][c]
              IN /\ HasBreaker(entry)
                 /\ entry.counters = permit'[h].charged
                 /\ Cardinality(Holding(c, entry.counters, k, p)) < entry.max[k][p]
      ]_vars

(* clusters_manager.rs, simulated_race_increment_replace_decrement:        *)
(* "counter must be zero, not underflow to u32::MAX". A permit that        *)
(* increased a counter when it was granted makes no counter grow when it   *)
(* is dropped, whatever became of its cluster in between.                  *)
NoUnderflow ==
    [][\A h \in Permits :
         permit[h].charged # None /\ permit'[h].charged = None
         => \A c \in Clusters, g \in Generations, k \in Kinds, p \in Priorities :
               count'[c][g][k][p] <= count[c][g][k][p]
      ]_vars
=============================================================================
