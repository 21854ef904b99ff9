------------------------------ MODULE Clusters ------------------------------
(***************************************************************************)
(* The map of clusters (clusters/clusters_manager.rs, clusters/cluster.rs, *)
(* clusters/cluster/, clusters/load_assignment.rs) and what the updates of *)
(* xDS, of the health checkers and of the secrets leave in it: the load    *)
(* assignment, the balancer built from it (balancers/default_balancer.rs,  *)
(* balancers/healthy.rs, balancers/override_host.rs), and the version of   *)
(* the secret their endpoints were built with.  Which endpoint a balancer  *)
(* picks among the healthy ones is the second part of this module.         *)
(***************************************************************************)
EXTENDS Integers, Sequences, FiniteSets, SequencesExt, FiniteSetsExt, Functions

CONSTANTS
    ClusterNames,    \* names of clusters, a sequence in the map's order
    Authorities,     \* endpoint addresses
    MaxMapUpdates,   \* bound on the updates of the map
    NoCluster        \* no entry, no load assignment

ASSUME ClustersAssumption == IsInjective(ClusterNames) /\ MaxMapUpdates \in Nat

VARIABLES
    cmap,            \* CLUSTERS_MAP
    told,            \* told[n][a]: health of the endpoint a last told to the cluster n
    secret,          \* version of the upstream secret
    mapUpdates,      \* updates so far
    picked           \* the endpoint of the last connection

clusterVars == <<cmap, told, secret, mapUpdates, picked>>

Names == Range(ClusterNames)
NothingPicked == [auth |-> NoCluster]

(* A locality of a ClusterLoadAssignment: priority, and endpoints with the *)
(* health the control plane gives them.  convert_non_empty_vec leaves none *)
(* of them empty.                                                          *)
LocalityConfigs ==
    [prio : 0 .. 1,
     eps : {<<[auth |-> a, up |-> u]>> : a \in Authorities, u \in BOOLEAN}
           \cup {<<[auth |-> a, up |-> TRUE], [auth |-> b, up |-> TRUE]>> :
                   a \in Authorities, b \in Authorities}]

ClaConfigs == {<<l>> : l \in LocalityConfigs}
              \cup {<<l, m>> : l \in LocalityConfigs, m \in {x \in LocalityConfigs : Len(x.eps) = 1}}

ClustersInit ==
    /\ cmap = [n \in Names |-> [kind |-> "none"]]
    /\ told = [n \in Names |-> [a \in Authorities |-> "configured"]]
    /\ secret = 0 /\ mapUpdates = 0
    /\ picked = NothingPicked

-----------------------------------------------------------------------------
(* DefaultBalancer: per priority the items with their health, and the      *)
(* number of the healthy ones.  HealthyBalancer::reload keeps the inner    *)
(* balancer equal to the healthy items, so it is not a variable.           *)
IsUp(items) == Cardinality({i \in DOMAIN items : items[i].up})

AllEndpoints(cla) == FlattenSeq([i \in DOMAIN cla |-> cla[i].eps])

EndpointsOf(cla, p) == FlattenSeq([i \in DOMAIN cla |-> IF cla[i].prio = p THEN cla[i].eps ELSE <<>>])

Priorities(cla) == {cla[i].prio : i \in DOMAIN cla}

FromSlice(cla) ==
    [p \in Priorities(cla) |-> [items |-> EndpointsOf(cla, p), healthy |-> IsUp(EndpointsOf(cla, p))]]

(* The map of an override host balancer, by authority: the last wins.      *)
OverrideHealth(cla) ==
    LET all == AllEndpoints(cla)
    IN [a \in {all[i].auth : i \in DOMAIN all} |->
          all[CHOOSE i \in DOMAIN all : /\ all[i].auth = a
                                        /\ \A j \in DOMAIN all : all[j].auth = a => j <= i].up]

(* ClusterLoadAssignmentBuilder::build; `order` is the one in which the    *)
(* hash map of priorities is walked.                                       *)
Built(cla, policy, tls, order) ==
    [ cla |-> cla, policy |-> policy, tls |-> tls,
      lb |-> FromSlice(cla), lbTls |-> tls, order |-> order,
      over |-> IF policy = "override" THEN OverrideHealth(cla) ELSE <<>> ]

Orders(cla) == {o \in [1 .. Cardinality(Priorities(cla)) -> Priorities(cla)] : Range(o) = Priorities(cla)}

Position(items, a) ==
    CHOOSE i \in DOMAIN items :
        items[i].auth = a /\ \A j \in DOMAIN items : items[j].auth = a => i <= j

Has(items, a) == \E i \in DOMAIN items : items[i].auth = a

(* Mutant: the count follows the report and not the change.                *)
PriorityHealthEager(info, a, up) ==
    [ items |-> [info.items EXCEPT ![Position(info.items, a)].up = up],
      healthy |-> IF up THEN info.healthy + 1 ELSE info.healthy - 1 ]

(* HealthyBalancer::update_health and the count that goes with it.         *)
PriorityHealth(info, a, up) ==
    LET i == Position(info.items, a)
    IN IF info.items[i].up = up THEN info
       ELSE [ items |-> [info.items EXCEPT ![i].up = up],
              healthy |-> IF up THEN info.healthy + 1 ELSE info.healthy - 1 ]

(* DefaultBalancer::update_health: the first priority that has it.         *)
BalancerHealth(la, a, up) ==
    LET with == {k \in DOMAIN la.order : Has(la.lb[la.order[k]].items, a)}
        first == la.order[CHOOSE k \in with : \A j \in with : k <= j]
    IN IF with = {} THEN la
       ELSE [la EXCEPT !.lb = [la.lb EXCEPT ![first] = PriorityHealth(@, a, up)]]

(* OverrideHostLoadBalancer::update_health, then the fallback's.           *)
BalancerTypeHealth(la, a, up) ==
    BalancerHealth(IF a \in DOMAIN la.over THEN [la EXCEPT !.over = [la.over EXCEPT ![a] = up]] ELSE la, a, up)

(* ClusterLoadAssignment::update_endpoint_health: once for every endpoint  *)
(* of every locality that has the address.                                 *)
UpdateEndpointHealth(la, a, up) ==
    LET all == AllEndpoints(la.cla)
        after[k \in 0 .. Len(all)] ==
            IF k = 0 THEN la
            ELSE IF all[k].auth = a THEN BalancerTypeHealth(after[k - 1], a, up) ELSE after[k - 1]
    IN after[Len(all)]

(* Mutant: the endpoints of the override map start over.                   *)
RebuiltFresh(la, tls) ==
    [la EXCEPT !.tls = tls, !.over = IF la.policy = "override" THEN OverrideHealth(la.cla) ELSE @]

(* ClusterLoadAssignment::rebuild: new endpoints in the localities and in  *)
(* the override map, where their health is kept; the other balancers keep  *)
(* the endpoints they have.                                                *)
RebuiltCluster(la, tls) == [la EXCEPT !.tls = tls]

-----------------------------------------------------------------------------
CanUpdate == mapUpdates < MaxMapUpdates
UpdateCounted == mapUpdates' = mapUpdates + 1
Untold(n) == told' = [told EXCEPT ![n] = [a \in Authorities |-> "configured"]]

(* The load assignments that can be built with the secret v.               *)
Assignments(v) ==
    UNION {{Built(cla, policy, v, o) : policy \in {"standard", "override"}, o \in Orders(cla)} :
             cla \in ClaConfigs}

(* PartialClusterType::build.  A static cluster is built with its          *)
(* endpoints; a dynamic one starts without any, also when it replaces one  *)
(* that had them.                                                          *)
NewClusters(v) ==
    {[kind |-> "static", tls |-> v, la |-> la] : la \in Assignments(v)}
    \cup {[kind |-> "dynamic", tls |-> v, la |-> NoCluster]}
    \cup {[kind |-> "on_demand", tls |-> v, cached |-> {}]}

(* add_cluster.                                                            *)
AddCluster(n) ==
    /\ CanUpdate /\ UpdateCounted
    /\ \E c \in NewClusters(secret) : cmap' = [cmap EXCEPT ![n] = c]
    /\ Untold(n)
    /\ UNCHANGED <<secret, picked>>

(* A static cluster whose endpoints cannot be built leaves the old one.    *)
AddClusterFails(n) ==
    /\ CanUpdate /\ UpdateCounted
    /\ UNCHANGED <<cmap, told, secret, picked>>

RemoveCluster(n) ==
    /\ CanUpdate /\ UpdateCounted
    /\ cmap[n].kind # "none"
    /\ cmap' = [cmap EXCEPT ![n] = [kind |-> "none"]]
    /\ Untold(n)
    /\ UNCHANGED <<secret, picked>>

(* change_cluster_load_assignment, remove_cluster_load_assignment: only a  *)
(* dynamic cluster takes one.                                              *)
ChangeLoadAssignment(n) ==
    /\ CanUpdate /\ UpdateCounted
    /\ cmap[n].kind = "dynamic"
    /\ \E la \in Assignments(cmap[n].tls) \cup {NoCluster} : cmap' = [cmap EXCEPT ![n].la = la]
    /\ Untold(n)
    /\ UNCHANGED <<secret, picked>>

HasAssignment(n) == cmap[n].kind \in {"static", "dynamic"} /\ cmap[n].la # NoCluster

(* update_endpoint_health of the map.                                      *)
ReportHealth(n, a, up) ==
    /\ CanUpdate /\ UpdateCounted
    /\ HasAssignment(n)
    /\ cmap' = [cmap EXCEPT ![n].la = UpdateEndpointHealth(@, a, up)]
    /\ told' = [told EXCEPT ![n][a] = IF up THEN "up" ELSE "down"]
    /\ UNCHANGED <<secret, picked>>

(* change_tls_context.  A rebuild that fails leaves a static cluster with  *)
(* the endpoints it had, and a dynamic one, from which they were taken,    *)
(* without; an ORIGINAL_DST cluster changes what later endpoints get.      *)
ChangeTlsContext(c, v, fails) ==
    IF c.kind = "none" THEN c
    ELSE IF c.kind = "on_demand" THEN IF fails THEN c ELSE [c EXCEPT !.tls = v]
    ELSE IF c.la = NoCluster THEN [c EXCEPT !.tls = v]
    ELSE IF fails THEN [c EXCEPT !.tls = v, !.la = IF c.kind = "static" THEN @ ELSE NoCluster]
    ELSE [c EXCEPT !.tls = v, !.la = RebuiltCluster(@, v)]

(* update_tls_context: the clusters in order, up to the one that fails.    *)
UpdateTlsContext ==
    /\ CanUpdate /\ UpdateCounted
    /\ secret' = secret + 1
    /\ \E stop \in 1 .. Len(ClusterNames) + 1 :
         /\ stop <= Len(ClusterNames) => cmap[ClusterNames[stop]].kind # "none"
         /\ cmap' = [n \in Names |->
                      LET i == CHOOSE j \in DOMAIN ClusterNames : ClusterNames[j] = n
                      IN IF i > stop THEN cmap[n]
                         ELSE ChangeTlsContext(cmap[n], secret + 1, i = stop)]
         /\ told' = [n \in Names |->
                      IF HasAssignment(n) /\ cmap'[n].la = NoCluster
                      THEN [a \in Authorities |-> "configured"] ELSE told[n]]
    /\ UNCHANGED picked

-----------------------------------------------------------------------------
Served(n, a, tls) == picked' = [auth |-> a, cluster |-> n, tls |-> tls, told |-> told[n][a]]

(* next_item of the balancer: a healthy item of some priority.             *)
NextItem(n, a) ==
    \E p \in DOMAIN cmap[n].la.lb :
        \E i \in DOMAIN cmap[n].la.lb[p].items : cmap[n].la.lb[p].items[i] = [auth |-> a, up |-> TRUE]

(* RoutingContext::try_from: what a request brings for the cluster that    *)
(* get_cluster_routing_requirements described.                             *)
RoutingContexts(c) ==
    CASE c.kind = "on_demand" -> {"authority", "header", "dynamic_dest"}
      [] c.kind \in {"static", "dynamic"} /\ c.la # NoCluster /\ c.la.policy = "override" ->
           {"override", "hash", "none"}
      [] OTHER -> {"hash", "none"}

(* with_cluster, or the balancer, has nothing.                             *)
ConnectionFails(n) ==
    /\ \/ cmap[n].kind = "none"
       \/ cmap[n].kind = "dynamic" /\ ~HasAssignment(n)
       \/ HasAssignment(n) /\ \A a \in Authorities : ~NextItem(n, a)
    /\ picked' = NothingPicked
    /\ UNCHANGED <<cmap, told, secret, mapUpdates>>

(* get_http_channel, get_tcp_channel, get_grpc_channel.                    *)
GetConnection(n) ==
    /\ HasAssignment(n)
    /\ \E a \in Authorities : NextItem(n, a) /\ Served(n, a, cmap[n].la.lbTls)
    /\ UNCHANGED <<cmap, told, secret, mapUpdates>>

(* select_override: the first address of the header that is healthy.       *)
SelectOverride(n) ==
    /\ "override" \in RoutingContexts(cmap[n])
    /\ \E a \in DOMAIN cmap[n].la.over :
         cmap[n].la.over[a] /\ Served(n, a, cmap[n].la.tls)
    /\ UNCHANGED <<cmap, told, secret, mapUpdates>>

(* get_http_connection_by_authority of an ORIGINAL_DST cluster: the cached *)
(* endpoint, or a new one; the address is the request's, a header's or the *)
(* metadata's.                                                             *)
GetOriginalDst(n) ==
    /\ "authority" \in RoutingContexts(cmap[n])
    /\ \E a \in Authorities :
         \/ \E e \in cmap[n].cached :
              e.auth = a /\ Served(n, a, e.tls) /\ UNCHANGED cmap
         \/ /\ \A e \in cmap[n].cached : e.auth # a
            /\ cmap' = [cmap EXCEPT ![n].cached = @ \cup {[auth |-> a, tls |-> cmap[n].tls]}]
            /\ Served(n, a, cmap[n].tls)
    /\ UNCHANGED <<told, secret, mapUpdates>>

(* The expiry of the cache, or its limit of endpoints.                     *)
EvictOriginalDst(n) ==
    /\ cmap[n].kind = "on_demand"
    /\ \E e \in cmap[n].cached : cmap' = [cmap EXCEPT ![n].cached = @ \ {e}]
    /\ UNCHANGED <<told, secret, mapUpdates, picked>>

ClustersNext ==
    \/ UpdateTlsContext
    \/ \E n \in Names :
         \/ AddCluster(n) \/ AddClusterFails(n) \/ RemoveCluster(n) \/ ChangeLoadAssignment(n)
         \/ \E a \in Authorities, up \in BOOLEAN : ReportHealth(n, a, up)
         \/ ConnectionFails(n)
         \/ GetConnection(n) \/ SelectOverride(n) \/ GetOriginalDst(n) \/ EvictOriginalDst(n)

ClustersSpec == ClustersInit /\ [][ClustersNext]_clusterVars

-----------------------------------------------------------------------------
(* The number of healthy endpoints of a priority, from which its share of  *)
(* the load is computed, is that of its items, whatever is reported and    *)
(* also when an address occurs more than once.                             *)
HealthyCountsAgree ==
    \A n \in Names : HasAssignment(n) =>
        \A p \in DOMAIN cmap[n].la.lb :
            cmap[n].la.lb[p].healthy = IsUp(cmap[n].la.lb[p].items)

OccursOnce(la, a) ==
    LET places == {x \in UNION {{p} \X DOMAIN la.lb[p].items : p \in DOMAIN la.lb} : la.lb[x[1]].items[x[2]].auth = a}
    IN \E x \in places : places = {x}

(* An endpoint whose address occurs once in the load assignment and that   *)
(* was last reported down is served by no balancer, not by the override    *)
(* map either, also after a secret made its endpoints anew.                *)
DownIsNotServed ==
    \A n \in Names : HasAssignment(n) =>
        \A a \in Authorities :
            told[n][a] = "down" /\ OccursOnce(cmap[n].la, a) =>
                /\ ~NextItem(n, a)
                /\ a \in DOMAIN cmap[n].la.over => ~cmap[n].la.over[a]

(* The health the balancers use is the one that was reported last: in the  *)
(* counts that share the load out, and in what may be served.              *)
HealthIsServed == HealthyCountsAgree /\ DownIsNotServed

-----------------------------------------------------------------------------
(***************************************************************************)
(* How an endpoint is chosen (clusters/balancers/).  The share of the load *)
(* of each priority (priority.rs), and in a priority the smooth weighted   *)
(* round robin (wrr.rs), least request (least.rs), random (random.rs),     *)
(* ring hash (ring.rs) and Maglev (maglev.rs) balancers, over the healthy  *)
(* endpoints 1 .. n with their weights.  What a hash function returns is   *)
(* chosen: the properties hold for every hash.  Fractions are kept as      *)
(* integers over a common denominator.                                     *)
(***************************************************************************)

CONSTANTS
    MaxEndpoints,    \* endpoints of a balancer
    MaxWeight,       \* largest load_balancing_weight
    MinRingSize,     \* DEFAULT_MIN_RING_SIZE
    MaxRingSize,     \* DEFAULT_MAX_RING_SIZE
    TableSize        \* DEFAULT_TABLE_SIZE, a prime

IsPrime(n) == n > 1 /\ \A d \in 2 .. n - 1 : n % d # 0

ASSUME BalancersAssumption ==
    /\ {MaxEndpoints, MaxWeight, MinRingSize, MaxRingSize} \subseteq Nat \ {0}
    /\ IsPrime(TableSize)

VARIABLE bal         \* a balancer being used, or one that was built

WeightsUpTo(n) == UNION {[1 .. k -> 1 .. MaxWeight] : k \in 1 .. n}
Total(w) == SumFunction(w)
CeilDiv(a, b) == (a + b - 1) \div b

BalancersInit == bal = [kind |-> "none"]

-----------------------------------------------------------------------------
(* WeightedRoundRobinBalancer.  With equal weights the index turns.        *)
EqualWeights(w) == \A i, j \in DOMAIN w : w[i] = w[j]

FirstMax(cur) ==
    CHOOSE i \in DOMAIN cur : /\ \A j \in DOMAIN cur : cur[j] <= cur[i]
                              /\ \A j \in 1 .. i - 1 : cur[j] < cur[i]

(* Mutant: the chosen endpoint pays its own weight, not everybody's.       *)
AfterChoiceOwn(w, cur, best) == [cur EXCEPT ![best] = @ - w[best]]

(* adjust_current_weight of the chosen endpoint by -total_weight.          *)
AfterChoice(w, cur, best) == [cur EXCEPT ![best] = @ - Total(w)]

StartRoundRobin ==
    /\ bal.kind = "none"
    /\ \E w \in WeightsUpTo(MaxEndpoints) :
         bal' = [ kind |-> "wrr", w |-> w, cur |-> [i \in DOMAIN w |-> 0], index |-> 1,
                  count |-> [i \in DOMAIN w |-> 0], picks |-> 0 ]

NextRoundRobin ==
    /\ bal.kind = "wrr" /\ bal.picks < 2 * Total(bal.w)
    /\ LET raised == [i \in DOMAIN bal.w |-> bal.cur[i] + bal.w[i]]
           best == IF EqualWeights(bal.w) THEN bal.index ELSE FirstMax(raised)
       IN bal' = [bal EXCEPT
                    !.cur = IF EqualWeights(bal.w) THEN @ ELSE AfterChoice(bal.w, raised, best),
                    !.index = IF EqualWeights(bal.w) THEN (@ % Len(bal.w)) + 1 ELSE @,
                    !.count[best] = @ + 1,
                    !.picks = @ + 1]

-----------------------------------------------------------------------------
(* WeightedLeastRequestBalancer.  With equal weights the less loaded of    *)
(* two random endpoints; otherwise the round robin above, with weights     *)
(* divided by the load and one (in units of the product of those).         *)
LeastWeights(w, load) ==
    LET unit == FoldFunction(LAMBDA a, b : a * b, 1, [i \in DOMAIN load |-> load[i] + 1])
    IN [i \in DOMAIN w |-> w[i] * (unit \div (load[i] + 1))]

PowerOfTwo(load, i, j) == IF load[j] < load[i] THEN j ELSE i

NextLeast ==
    /\ bal.kind = "none"
    /\ \E w \in WeightsUpTo(MaxEndpoints) : \E load \in [DOMAIN w -> 0 .. 2] :
         \E i, j \in DOMAIN w :
           /\ Len(w) > 1 => i # j
           /\ bal' = [ kind |-> "least", load |-> load, equal |-> EqualWeights(w),
                       pick |-> IF EqualWeights(w) THEN PowerOfTwo(load, i, j)
                                ELSE FirstMax(LeastWeights(w, load)) ]

(* RandomBalancer: whichever has a weight.                                 *)
NextRandom ==
    /\ bal.kind = "none"
    /\ \E w \in WeightsUpTo(MaxEndpoints) : \E i \in DOMAIN w :
         bal' = [kind |-> "random", pick |-> i]

-----------------------------------------------------------------------------
(* RingHashBalancer.  The scale gives the lightest endpoint a whole number *)
(* of slots, unless the ring would be too large; an endpoint gets the      *)
(* slots between its predecessor's target and its own.                     *)
MinWeight(w) == Min(Range(w))

(* scale = num / den, and the slots of endpoint i are scale * w[i] / total *)
Scale(w) ==
    LET slots == CeilDiv(MinWeight(w) * MinRingSize, Total(w))
    IN IF slots * Total(w) > MaxRingSize * MinWeight(w)
       THEN [num |-> MaxRingSize, den |-> 1]
       ELSE [num |-> slots * Total(w), den |-> MinWeight(w)]

Target(w, i) ==
    CeilDiv(Scale(w).num * SumFunction([k \in 1 .. i |-> w[k]]), Scale(w).den * Total(w))

RingSlots(w) == [i \in DOMAIN w |-> Target(w, i) - (IF i = 1 THEN 0 ELSE Target(w, i - 1))]

(* next_item: the first slot not before the hash, or the last one.  The    *)
(* slots of the ring, in the order of their hashes, are `ring`.            *)
RingPick(ring, hash) == IF hash \in DOMAIN ring THEN ring[hash] ELSE ring[Len(ring)]

BuildRing ==
    /\ bal.kind = "none"
    /\ \E w \in WeightsUpTo(MaxEndpoints) :
         bal' = [kind |-> "ring", w |-> w, slots |-> RingSlots(w)]

(* The hashes put the slots of the endpoints into any order.               *)
UseRing ==
    /\ bal.kind = "ring"
    /\ \E ring \in [1 .. SumFunction(bal.slots) -> DOMAIN bal.w] :
         /\ \A i \in DOMAIN bal.w : Cardinality({k \in DOMAIN ring : ring[k] = i}) = bal.slots[i]
         /\ bal' = [ kind |-> "ring_used", w |-> bal.w,
                     served |-> {RingPick(ring, h) : h \in 1 .. Len(ring) + 1} ]

-----------------------------------------------------------------------------
(* MaglevBalancer.  An endpoint walks the table from its offset by its     *)
(* skip, both of its hash, and takes the next free entry in the rounds in  *)
(* which it has accumulated the weight of the heaviest.                    *)

(* Mutant: nothing accumulated at the start.                               *)
InitialWeightNone(w) == [i \in DOMAIN w |-> 0]

(* Permutation::new: enough for an entry in the first round.               *)
InitialWeight(w) == [i \in DOMAIN w |-> Max(Range(w))]

Probe(perm, k) == (perm.offset + perm.skip * k) % TableSize

FirstFree(table, perm, from) ==
    LET free == {k \in from .. from + TableSize - 1 : table[Probe(perm, k)] = 0}
    IN IF free = {} THEN -1 ELSE Min(free)

Full(table) == \A x \in 0 .. TableSize - 1 : table[x] # 0

StartMaglev ==
    /\ bal.kind = "none"
    /\ \E w \in WeightsUpTo(MaxEndpoints) :
         /\ Len(w) > 1
         /\ \E perms \in [DOMAIN w -> [offset : 0 .. TableSize - 1, skip : {1, TableSize - 1}]] :
              bal' = [ kind |-> "maglev", w |-> w, perms |-> perms, item |-> 1, rounds |-> 0,
                       cur |-> InitialWeight(w), next |-> [i \in DOMAIN w |-> 0],
                       table |-> [x \in 0 .. TableSize - 1 |-> 0] ]

(* One turn of the inner loop of with_size.                                *)
FillMaglev ==
    /\ bal.kind = "maglev"
    /\ ~Full(bal.table) /\ bal.rounds < TableSize
    /\ LET i == bal.item
           has == bal.cur[i] + bal.w[i]
           enough == has >= Max(Range(bal.w))
           at == FirstFree(bal.table, bal.perms[i], bal.next[i])
           b == [bal EXCEPT !.cur[i] = IF enough THEN has - Max(Range(bal.w)) ELSE has,
                            !.item = IF i = Len(bal.w) THEN 1 ELSE i + 1,
                            !.rounds = IF i = Len(bal.w) THEN @ + 1 ELSE @]
       IN bal' = IF enough
                 THEN [b EXCEPT !.table[Probe(bal.perms[i], at)] = i, !.next[i] = at + 1]
                 ELSE b

-----------------------------------------------------------------------------
(* Priority::calculate_priority_loads, of priorities with healthy[p] of    *)
(* total[p] endpoints: in tenths of a percent until they are rounded.      *)
PriorityHealthOf(h, t) == Min({1000, 14 * ((100 * h) \div t)})

SumTo(f, k) == SumFunction([x \in 1 .. k |-> f[x]])

(* The load left by the priorities before, or the share of its own.  All   *)
(* in units of 1 / norm of a tenth, so that nothing is rounded early.      *)
PriorityLoads(healthy, total) ==
    LET health == [p \in DOMAIN healthy |-> PriorityHealthOf(healthy[p], total[p])]
        norm == Min({1000, SumFunction(health)})
        share[p \in 0 .. Len(healthy)] ==
            IF p = 0 THEN <<>>
            ELSE Append(share[p - 1],
                        IF p = 1 THEN health[1] * 1000
                        ELSE Min({norm * 1000 - SumTo(share[p - 1], p - 1), health[p] * 1000}))
        parts == share[Len(healthy)]
    IN IF norm = 0 THEN [p \in DOMAIN healthy |-> 0]
       ELSE [p \in DOMAIN healthy |-> (parts[p] + 5 * norm) \div (10 * norm)]

CalculatePriorityLoads ==
    /\ bal.kind = "none"
    /\ \E n \in 1 .. 3 : \E total \in [1 .. n -> 1 .. 4] :
         \E healthy \in [1 .. n -> 0 .. 4] :
           /\ \A p \in 1 .. n : healthy[p] <= total[p]
           /\ bal' = [ kind |-> "priority", healthy |-> healthy, total |-> total,
                       loads |-> PriorityLoads(healthy, total) ]

BalancersNext ==
    \/ StartRoundRobin \/ NextRoundRobin \/ NextLeast \/ NextRandom
    \/ BuildRing \/ UseRing \/ StartMaglev \/ FillMaglev
    \/ CalculatePriorityLoads

BalancersSpec == BalancersInit /\ [][BalancersNext]_bal

-----------------------------------------------------------------------------
(* In every turn of as many picks as the weights sum up to, the round      *)
(* robin picks each endpoint as often as its weight says.                  *)
RoundRobinIsFair ==
    bal.kind = "wrr" /\ bal.picks % Total(bal.w) = 0 =>
        \A i \in DOMAIN bal.w :
            EqualWeights(bal.w) \/ bal.count[i] = (bal.picks \div Total(bal.w)) * bal.w[i]

(* Of two random endpoints the more loaded one is not picked: the endpoint *)
(* with the strictly largest load never is, when there is another.         *)
LeastAvoidsTheBusiest ==
    bal.kind = "least" /\ bal.equal /\ Len(bal.load) > 1 =>
        \E i \in DOMAIN bal.load : i # bal.pick /\ bal.load[i] >= bal.load[bal.pick]

(* Every endpoint is reached by some hash: in a ring that is not capped it *)
(* has a slot, and the lookup skips none; a Maglev table is filled in the  *)
(* rounds it is given, and every endpoint has an entry of it.              *)
EveryEndpointIsReached ==
    /\ bal.kind = "ring_used" /\ Scale(bal.w).num # MaxRingSize => bal.served = DOMAIN bal.w
    /\ bal.kind = "maglev" /\ (Full(bal.table) \/ bal.rounds = TableSize) =>
           Range(bal.table) = DOMAIN bal.w

(* The load goes to priorities in their order: a priority gets some only   *)
(* when those before it cannot take all, an unhealthy one gets none, and   *)
(* the shares make up the whole, give or take the rounding.                *)
PrioritySharesAddUp ==
    bal.kind = "priority" =>
        LET loads == bal.loads
            health == [p \in DOMAIN loads |-> PriorityHealthOf(bal.healthy[p], bal.total[p])]
        IN /\ \A p \in DOMAIN loads : bal.healthy[p] = 0 => loads[p] = 0
           /\ \A p \in DOMAIN loads : loads[p] > 0 /\ p > 1 => SumTo(health, p - 1) < 1000
           /\ SumFunction(health) > 0 =>
                  SumFunction(loads) - 100 \in -(Len(loads)) .. Len(loads)

(* What the balancers promise.                                             *)
BalancersKeepPromises ==
    RoundRobinIsFair /\ LeastAvoidsTheBusiest /\ EveryEndpointIsReached /\ PrioritySharesAddUp
=============================================================================
