------------------------ MODULE SharedCountersProofs ------------------------
(***************************************************************************)
(* Proofs about what threads share without a common lock: the cached       *)
(* copies of the clusters map (CachedWatch), for every number of threads,  *)
(* values and versions; the circuit breakers that live in the map          *)
(* (CircuitBreakers), for every number of requests, updates and            *)
(* generations and every limit; the connection limiter, for every number   *)
(* of threads, connections, limits and reconfigurations; the token bucket, *)
(* for every number of workers and every configuration; and the connection *)
(* slots of a cluster, for every number of dials, every threshold and      *)
(* every number of faults.                                                 *)
(***************************************************************************)
EXTENDS CircuitBreakers, ConnectionLimit, TokenBucket, UpstreamConnections,
        FiniteSetTheorems, TLAPS

-----------------------------------------------------------------------------
(* CachedWatch.                                                            *)

(* The inductive invariant: besides the two properties, no copy is newer  *)
(* than the shared version, and while a writer that already bumped the    *)
(* version holds the lock every copy is strictly older (nobody can have   *)
(* read the value under the new version yet).                             *)
WatchInv ==
    /\ WatchTypeOK
    /\ phase = "written" => version < MaxVersion
    /\ \A t \in Threads : seen[t] <= version
    /\ phase = "bumped" => \A t \in Threads : seen[t] < version
    /\ CurrentVersionMeansCurrentValue
    /\ OneValuePerVersion

(* WatchInv holds initially. *)
LEMMA WatchInvInit == WatchInit => WatchInv
  BY WatchAssumption DEF WatchInit, WatchInv, WatchTypeOK, Phases,
     CurrentVersionMeansCurrentValue, OneValuePerVersion

(* Every step of `update` and of `cached_or_latest` keeps WatchInv. *)
LEMMA WatchInvStep == WatchInv /\ [WatchNext]_watchVars => WatchInv'
<1> SUFFICES ASSUME WatchInv, [WatchNext]_watchVars PROVE WatchInv'
  OBVIOUS
<1> USE WatchAssumption DEF WatchInv, WatchTypeOK, Phases,
        CurrentVersionMeansCurrentValue, OneValuePerVersion
<1>1. ASSUME NEW new \in Values, WriteValue(new) PROVE WatchInv'
  BY <1>1 DEF WriteValue
<1>2. CASE BumpVersion
  BY <1>2 DEF BumpVersion
<1>3. CASE ReleaseWriteLock
  BY <1>3 DEF ReleaseWriteLock
<1>4. ASSUME NEW t \in Threads, Read(t) PROVE WatchInv'
  <2>1. CASE version # seen[t] /\ TryRead
    BY <1>4, <2>1 DEF Read, CachedOrLatest, TryRead
  <2>2. CASE ~(version # seen[t] /\ TryRead)
    BY <1>4, <2>2 DEF Read, CachedOrLatest
  <2>3. QED BY <2>1, <2>2
<1>5. CASE UNCHANGED watchVars
  BY <1>5 DEF watchVars
<1>6. QED BY <1>1, <1>2, <1>3, <1>4, <1>5 DEF WatchNext

(* The watch is type correct, for any number of threads and updates. *)
THEOREM WatchTypeCorrect == WatchSpec => []WatchTypeOK
<1>1. WatchInv => WatchTypeOK
  BY DEF WatchInv
<1>2. QED BY WatchInvInit, WatchInvStep, <1>1, PTL DEF WatchSpec

(* A copy whose version is the shared one is the shared value whenever no *)
(* writer is active, so `cached_or_latest` may return it unlooked.        *)
THEOREM WatchCurrent == WatchSpec => []CurrentVersionMeansCurrentValue
<1>1. WatchInv => CurrentVersionMeansCurrentValue
  BY DEF WatchInv
<1>2. QED BY WatchInvInit, WatchInvStep, <1>1, PTL DEF WatchSpec

(* Copies with equal versions are equal: no thread sees half an update.   *)
THEOREM WatchCoherent == WatchSpec => []OneValuePerVersion
<1>1. WatchInv => OneValuePerVersion
  BY DEF WatchInv
<1>2. QED BY WatchInvInit, WatchInvStep, <1>1, PTL DEF WatchSpec

(* Both together: what the threads read without a lock is coherent.       *)
THEOREM WatchCopiesCoherent == WatchSpec => []CopiesCoherent
<1>1. WatchInv => CopiesCoherent
  BY DEF WatchInv, CopiesCoherent
<1>2. QED BY WatchInvInit, WatchInvStep, <1>1, PTL DEF WatchSpec

(* No thread's copy ever goes back to an older version. *)
THEOREM WatchMonotone == WatchSpec => NeverBackwards
<1>1. ASSUME WatchInv, [WatchNext]_watchVars
      PROVE  [\A t \in Threads : /\ seen'[t] >= seen[t]
                                 /\ local'[t] # local[t] => seen'[t] > seen[t]]_watchVars
  <2> USE <1>1 DEF WatchInv, WatchTypeOK
  <2>1. CASE UNCHANGED <<local, seen>>
    BY <2>1
  <2>2. ASSUME NEW t \in Threads, Read(t)
        PROVE  \A u \in Threads : /\ seen'[u] >= seen[u]
                                  /\ local'[u] # local[u] => seen'[u] > seen[u]
    BY <2>2 DEF Read, CachedOrLatest
  <2>3. CASE UNCHANGED watchVars
    BY <2>3 DEF watchVars
  <2>4. QED
    BY <2>1, <2>2, <2>3 DEF WatchNext, WriteValue, BumpVersion, ReleaseWriteLock
<1>2. QED
  BY WatchInvInit, WatchInvStep, <1>1, PTL DEF WatchSpec, NeverBackwards

-----------------------------------------------------------------------------
(* CircuitBreakers.                                                        *)

Stable == Clusters \ Churned

\* The counters a stable cluster was created with, and keeps.
Origin(c) == InitValue[c].counters

(* A map in which every stable cluster has a breaker on its own counters.  *)
KeepsOrigin(m) == \A c \in Stable : HasBreaker(m[c]) /\ m[c].counters = Origin(c)

(* A permit that is not idle has charged, if its cluster is stable, the    *)
(* counters that every copy of the map gives that cluster.                 *)
PermitOK(r) ==
    \/ r = Idle
    \/ /\ r.pc # "idle"
       /\ r.cluster \in Clusters
       /\ r.priority \in Priorities
       /\ r.cluster \in Stable => r.charged = Origin(r.cluster)
       /\ r.pc = "denied" => r.charged \in Generations
       /\ r.pc \in {"denied", "routing", "dropping"} => r.thread \in Threads

(* The inductive invariant: replacements keep the counters, so all copies  *)
(* of the map agree on them however stale they are, and the decrement of a *)
(* permit reaches the counter its increment charged.                       *)
BreakerInv ==
    /\ BreakerTypeOK
    /\ phase = "written" => version < MaxVersion
    /\ KeepsOrigin(value)
    /\ \A t \in Threads : KeepsOrigin(local[t])
    /\ \A h \in Permits : PermitOK(permit[h])
    /\ CountIsExact

----------------------------------------------------------------------------

(* Words stay words. *)
LEMMA WordType ==
  ASSUME NEW n \in 0..(Word - 1)
  PROVE  Inc(n) \in 0..(Word - 1) /\ Dec(n) \in 0..(Word - 1)
  BY BreakerAssumption DEF Inc, Dec

(* Setting one counter keeps the type of all. *)
LEMMA CountUpdate ==
  ASSUME BreakerTypeOK,
         NEW c \in Clusters, NEW g \in Generations, NEW k \in Kinds, NEW p \in Priorities,
         NEW v \in 0..(Word - 1), count' = [count EXCEPT ![c][g][k][p] = v]
  PROVE  count' \in [Clusters -> [Generations -> [Kinds -> [Priorities -> 0..(Word - 1)]]]]
<1> USE DEF BreakerTypeOK
<1> DEFINE byP == [count[c][g][k] EXCEPT ![p] = v]
           byK == [count[c][g] EXCEPT ![k] = byP]
           byG == [count[c] EXCEPT ![g] = byK]
<1>1. byP \in [Priorities -> 0..(Word - 1)]
  OBVIOUS
<1>2. byK \in [Kinds -> [Priorities -> 0..(Word - 1)]]
  BY <1>1
<1>3. byG \in [Generations -> [Kinds -> [Priorities -> 0..(Word - 1)]]]
  BY <1>2
<1>4. count' = [count EXCEPT ![c] = byG]
  OBVIOUS
<1>5. QED BY <1>3, <1>4

(* Entries of the map that carry a breaker are breakers. *)
LEMMA EntryType ==
  ASSUME NEW m \in Values, NEW c \in Clusters
  PROVE  /\ m[c] \in {NoCluster, NoBreaker} \cup Breaker
         /\ HasBreaker(m[c]) => /\ m[c] \in Breaker
                                /\ m[c].counters \in Generations
                                /\ m[c].max \in Thresholds
  BY MapAssumption DEF Maps, HasBreaker, Breaker

(* Sets of permits are finite and smaller than a word. *)
LEMMA PermitsFinite ==
  ASSUME NEW S \in SUBSET Permits
  PROVE  /\ IsFiniteSet(S)
         /\ Cardinality(S) \in Nat
         /\ Cardinality(S) < Word
<1>1. IsFiniteSet(Permits)
  BY BreakerAssumption, FS_Union DEF Permits
<1>2. IsFiniteSet(S) /\ Cardinality(S) <= Cardinality(Permits)
  BY <1>1, FS_Subset
<1>3. Cardinality(S) \in Nat /\ Cardinality(Permits) \in Nat
  BY <1>1, <1>2, FS_CardinalityType
<1>4. QED BY <1>2, <1>3, BreakerAssumption DEF Permits

(* In particular the permits that charged one counter. *)
LEMMA ChargedFinite ==
  ASSUME NEW c, NEW g, NEW k, NEW p
  PROVE  /\ IsFiniteSet(Charged(c, g, k, p))
         /\ Cardinality(Charged(c, g, k, p)) \in Nat
         /\ Cardinality(Charged(c, g, k, p)) < Word
<1>1. Charged(c, g, k, p) \in SUBSET Permits
  BY DEF Charged
<1>2. QED BY <1>1, PermitsFinite

(* `cached_or_latest` leaves a copy that is one of the two it chose from.  *)
LEMMA RefreshOK ==
  ASSUME BreakerInv, NEW t \in Threads, CachedOrLatest(t)
  PROVE  /\ local' \in [Threads -> Values]
         /\ seen' \in [Threads -> 0..MaxVersion]
         /\ \A u \in Threads : KeepsOrigin(local'[u])
  BY DEF BreakerInv, BreakerTypeOK, WatchTypeOK, CachedOrLatest

(* Counting one permit more, on the counter it charges and on no other.    *)
LEMMA ChargeOne ==
  ASSUME BreakerInv,
         NEW h \in Permits, permit[h] = Idle,
         NEW r, permit' = [permit EXCEPT ![h] = r],
         r.cluster \in Clusters, r.priority \in Priorities,
         NEW c \in Clusters, NEW g \in Generations, NEW k \in Kinds, NEW p \in Priorities
  PROVE  Cardinality(Charged(c, g, k, p)') =
            IF <<c, g, k, p>> = <<r.cluster, r.charged, KindOf(h), r.priority>>
            THEN Cardinality(Charged(c, g, k, p)) + 1
            ELSE Cardinality(Charged(c, g, k, p))
<1>1. h \notin Charged(c, g, k, p)
  BY BreakerAssumption DEF Charged, Idle
<1>2. permit \in [Permits -> PermitStates]
  BY DEF BreakerInv, BreakerTypeOK
<1>3. CASE <<c, g, k, p>> = <<r.cluster, r.charged, KindOf(h), r.priority>>
  <2>1. Charged(c, g, k, p)' = Charged(c, g, k, p) \cup {h}
    BY <1>2, <1>3 DEF Charged
  <2>2. QED BY <1>1, <1>3, <2>1, ChargedFinite, FS_AddElement
<1>4. CASE <<c, g, k, p>> # <<r.cluster, r.charged, KindOf(h), r.priority>>
  <2>1. Charged(c, g, k, p)' = Charged(c, g, k, p)
    BY <1>1, <1>2, <1>4 DEF Charged
  <2>2. QED BY <1>4, <2>1
<1>5. QED BY <1>3, <1>4

(* A permit that becomes idle leaves the counter it charged and no other.  *)
LEMMA ReleaseOne ==
  ASSUME BreakerInv,
         NEW h \in Permits, permit[h] # Idle,
         permit' = [permit EXCEPT ![h] = Idle],
         NEW c \in Clusters, NEW g \in Generations, NEW k \in Kinds, NEW p \in Priorities
  PROVE  /\ Cardinality(Charged(c, g, k, p)') =
              IF <<c, g, k, p>> =
                 <<permit[h].cluster, permit[h].charged, KindOf(h), permit[h].priority>>
              THEN Cardinality(Charged(c, g, k, p)) - 1
              ELSE Cardinality(Charged(c, g, k, p))
         /\ h \in Charged(c, g, k, p) => Cardinality(Charged(c, g, k, p)) > 0
<1>1. permit \in [Permits -> PermitStates]
  BY DEF BreakerInv, BreakerTypeOK
<1>2. Charged(c, g, k, p)' = Charged(c, g, k, p) \ {h}
  BY <1>1, BreakerAssumption DEF Charged, Idle
<1>3. h \in Charged(c, g, k, p) <=>
        <<c, g, k, p>> = <<permit[h].cluster, permit[h].charged, KindOf(h), permit[h].priority>>
  BY DEF Charged
<1>4. h \in Charged(c, g, k, p) => Cardinality(Charged(c, g, k, p)) > 0
  BY ChargedFinite, FS_EmptySet
<1>5. QED BY <1>2, <1>3, <1>4, ChargedFinite, FS_RemoveElement

(* The invariant holds when the proxy has its first map. *)
LEMMA BreakerInvInit == BreakerInit => BreakerInv
<1> SUFFICES ASSUME BreakerInit PROVE BreakerInv
  OBVIOUS
<1>1. WatchTypeOK
  BY WatchAssumption DEF BreakerInit, WatchInit, WatchTypeOK, Phases
<1>2. BreakerTypeOK
  BY <1>1, BreakerAssumption DEF BreakerInit, BreakerTypeOK, Idle, PermitStates
<1>3. KeepsOrigin(value) /\ \A t \in Threads : KeepsOrigin(local[t])
  BY MapAssumption DEF BreakerInit, WatchInit, KeepsOrigin, Stable, Origin
<1>4. \A h \in Permits : PermitOK(permit[h])
  BY DEF BreakerInit, PermitOK
<1>5. CountIsExact
  <2> SUFFICES ASSUME NEW c \in Clusters \ Churned, NEW g \in Generations,
                      NEW k \in Kinds, NEW p \in Priorities
               PROVE  count[c][g][k][p] = Cardinality(Charged(c, g, k, p))
    BY DEF CountIsExact
  <2>1. Charged(c, g, k, p) = {}
    BY BreakerAssumption DEF BreakerInit, Charged, Idle
  <2>2. QED BY <2>1, FS_EmptySet DEF BreakerInit
<1>6. QED BY <1>2, <1>3, <1>4, <1>5 DEF BreakerInv, BreakerInit, WatchInit

(* A step that leaves counters and permits alone only has to keep the map  *)
(* typed and every stable cluster on its counters.                         *)
LEMMA MapStep ==
  ASSUME BreakerInv, WatchTypeOK', KeepsOrigin(value'),
         phase' = "written" => version' < MaxVersion,
         \A t \in Threads : KeepsOrigin(local'[t]),
         UNCHANGED <<count, permit>>
  PROVE  BreakerInv'
<1>1. BreakerTypeOK'
  BY DEF BreakerInv, BreakerTypeOK
<1>2. CountIsExact'
  BY DEF BreakerInv, CountIsExact, Charged
<1>3. QED BY <1>1, <1>2 DEF BreakerInv, KeepsOrigin

(* add_cluster, remove_cluster and the other updates keep the invariant.   *)
LEMMA UpdateStep ==
  ASSUME BreakerInv, MapUpdate \/ FinishUpdate
  PROVE  BreakerInv'
<1>1. ASSUME NEW new \in Values, WriteValue(new), KeepsOrigin(new),
             UNCHANGED <<count, permit>>
      PROVE  BreakerInv'
  <2>1. WatchTypeOK'
    BY <1>1 DEF WriteValue, WatchTypeOK, BreakerInv, BreakerTypeOK, Phases
  <2>2. QED BY <1>1, <2>1, MapStep DEF WriteValue, BreakerInv
<1> USE DEF BreakerInv, BreakerTypeOK, WatchTypeOK
<1>2. ASSUME NEW c \in Clusters, NEW max \in Thresholds, AddCluster(c, max)
      PROVE  BreakerInv'
  <2> DEFINE new == [value EXCEPT ![c] = Build(value[c], max)]
  <2>1. version + 1 \in Generations
    BY <1>2, WatchAssumption DEF AddCluster, WriteValue, Generations
  <2>2. Build(value[c], max) \in Breaker
    BY <2>1, EntryType DEF Build, Breaker
  <2>3. new \in Values
    BY <2>2, MapAssumption DEF Maps
  <2>4. HasBreaker(Build(value[c], max))
    BY <2>2, MapAssumption DEF HasBreaker
  <2>5. c \in Stable => Build(value[c], max).counters = Origin(c)
    BY DEF Build, KeepsOrigin
  <2>6. KeepsOrigin(new)
    BY <2>3, <2>4, <2>5, MapAssumption DEF KeepsOrigin, Stable, Maps
  <2>7. QED BY <1>1, <1>2, <2>3, <2>6 DEF AddCluster
<1>3. ASSUME NEW c \in Churned, NEW e \in {NoCluster, NoBreaker}
      PROVE  [value EXCEPT ![c] = e] \in Values /\ KeepsOrigin([value EXCEPT ![c] = e])
  BY MapAssumption, BreakerAssumption DEF Maps, KeepsOrigin, Stable
<1>4. ASSUME NEW c \in Clusters, AddClusterWithoutBreaker(c) PROVE BreakerInv'
  BY <1>1, <1>3, <1>4 DEF AddClusterWithoutBreaker
<1>5. ASSUME NEW c \in Clusters, RemoveCluster(c) PROVE BreakerInv'
  BY <1>1, <1>3, <1>5 DEF RemoveCluster
<1>6. CASE OtherUpdate
  BY <1>1, <1>6 DEF OtherUpdate
<1>7. CASE FinishUpdate
  <2>1. CASE BumpVersion
    BY <1>7, <2>1, MapStep, WatchAssumption DEF FinishUpdate, BumpVersion, Phases
  <2>2. CASE ReleaseWriteLock
    BY <1>7, <2>2, MapStep DEF FinishUpdate, ReleaseWriteLock, Phases
  <2>3. QED BY <1>7, <2>1, <2>2 DEF FinishUpdate
<1>8. QED BY <1>2, <1>4, <1>5, <1>6, <1>7 DEF MapUpdate

(* try_increment_*: the attempt is counted, whether it is admitted or not. *)
LEMMA TryIncrementStep ==
  ASSUME BreakerInv, NEW h \in Permits, NEW t \in Threads,
         NEW c \in Clusters, NEW p \in Priorities, TryIncrement(h, t, c, p)
  PROVE  BreakerInv'
<1> DEFINE entry == local'[t][c]
           k == KindOf(h)
           r == permit'[h]
<1>1. /\ permit[h] = Idle
      /\ k \in Kinds
      /\ UNCHANGED <<value, version, phase>>
      /\ CachedOrLatest(t)
  BY DEF TryIncrement, BreakerInv, PermitOK, KindOf, Kinds
<1>2. /\ local' \in [Threads -> Values]
      /\ seen' \in [Threads -> 0..MaxVersion]
      /\ \A u \in Threads : KeepsOrigin(local'[u])
  BY <1>1, RefreshOK
<1>3. WatchTypeOK'
  BY <1>1, <1>2 DEF BreakerInv, BreakerTypeOK, WatchTypeOK
<1>4. /\ HasBreaker(entry) => entry.counters \in Generations
      /\ c \in Stable => HasBreaker(entry) /\ entry.counters = Origin(c)
  BY <1>2, EntryType DEF KeepsOrigin
<1>5. /\ permit' = [permit EXCEPT ![h] = r]
      /\ r \in PermitStates
      /\ r.cluster = c /\ r.priority = p
      /\ r.pc \in {"denied", "routing", "held"}
      /\ r.pc \in {"denied", "routing"} => r.thread = t
      /\ r.charged = IF HasBreaker(entry) THEN entry.counters ELSE None
      /\ r.pc = "denied" => HasBreaker(entry)
  BY <1>1, <1>4 DEF TryIncrement, Admitted, PermitStates, BreakerInv, BreakerTypeOK
<1>6. permit' \in [Permits -> PermitStates] /\ PermitOK(r)
  BY <1>4, <1>5 DEF PermitOK, BreakerInv, BreakerTypeOK
<1>7. \A x \in Permits : PermitOK(permit'[x])
  BY <1>5, <1>6 DEF BreakerInv, BreakerTypeOK
<1>8. CASE HasBreaker(entry)
  <2> DEFINE g == entry.counters
             n == count[c][g][k][p]
  <2>1. count' = [count EXCEPT ![c][g][k][p] = Inc(n)]
    BY <1>8 DEF TryIncrement, FetchAdd
  <2>2. g \in Generations
    BY <1>4, <1>8
  <2>3. n \in 0..(Word - 1)
    BY <1>1, <2>2 DEF BreakerInv, BreakerTypeOK
  <2>4. count' \in [Clusters -> [Generations -> [Kinds -> [Priorities -> 0..(Word - 1)]]]]
    BY <1>1, <2>1, <2>2, <2>3, WordType, CountUpdate DEF BreakerInv
  <2>5. CountIsExact'
    <3> SUFFICES ASSUME NEW d \in Clusters \ Churned, NEW e \in Generations,
                        NEW j \in Kinds, NEW q \in Priorities
                 PROVE  count'[d][e][j][q] = Cardinality(Charged(d, e, j, q)')
      BY DEF CountIsExact
    <3>1. Cardinality(Charged(d, e, j, q)') =
            IF <<d, e, j, q>> = <<c, g, k, p>>
            THEN Cardinality(Charged(d, e, j, q)) + 1
            ELSE Cardinality(Charged(d, e, j, q))
      BY <1>1, <1>5, <1>8, ChargeOne
    <3>2. count[d][e][j][q] = Cardinality(Charged(d, e, j, q))
      BY DEF BreakerInv, CountIsExact
    <3>3. CASE <<d, e, j, q>> = <<c, g, k, p>>
      <4>1. Cardinality(Charged(d, e, j, q)') < Word
        <5>1. Charged(d, e, j, q)' \in SUBSET Permits
          BY DEF Charged
        <5>2. QED BY <5>1, PermitsFinite
      <4>2. count'[d][e][j][q] = Inc(n)
        BY <1>1, <2>1, <2>2, <3>3 DEF BreakerInv, BreakerTypeOK
      <4>3. QED BY <2>3, <3>1, <3>2, <3>3, <4>1, <4>2, BreakerAssumption DEF Inc
    <3>4. CASE <<d, e, j, q>> # <<c, g, k, p>>
      <4>1. count'[d][e][j][q] = count[d][e][j][q]
        BY <1>1, <2>1, <2>2, <3>4 DEF BreakerInv, BreakerTypeOK
      <4>2. QED BY <3>1, <3>2, <3>4, <4>1
    <3>5. QED BY <3>3, <3>4
  <2>6. QED BY <1>1, <1>2, <1>3, <1>6, <1>7, <2>4, <2>5 DEF BreakerInv, BreakerTypeOK, KeepsOrigin
<1>9. CASE ~HasBreaker(entry)
  <2>1. count' = count /\ c \notin Stable
    BY <1>4, <1>9 DEF TryIncrement
  <2>2. CountIsExact'
    <3> SUFFICES ASSUME NEW d \in Clusters \ Churned, NEW e \in Generations,
                        NEW j \in Kinds, NEW q \in Priorities
                 PROVE  count'[d][e][j][q] = Cardinality(Charged(d, e, j, q)')
      BY DEF CountIsExact
    <3>1. Cardinality(Charged(d, e, j, q)') = Cardinality(Charged(d, e, j, q))
      BY <1>1, <1>5, <2>1, ChargeOne DEF Stable
    <3>2. QED BY <2>1, <3>1 DEF BreakerInv, CountIsExact
  <2>3. QED BY <1>1, <1>2, <1>3, <1>6, <1>7, <2>1, <2>2 DEF BreakerInv, BreakerTypeOK, KeepsOrigin
<1>10. QED BY <1>8, <1>9

(* A permit returns to idle and one counter, the one it charged if its     *)
(* cluster is stable, is decremented.                                      *)
LEMMA ReleaseStep ==
  ASSUME BreakerInv, NEW h \in Permits, permit[h] # Idle,
         WatchTypeOK', UNCHANGED <<value, version, phase>>,
         \A u \in Threads : KeepsOrigin(local'[u]),
         permit' = [permit EXCEPT ![h] = Idle],
         NEW g \in Generations,
         permit[h].cluster \in Stable => g = permit[h].charged,
         FetchSub(permit[h].cluster, g, KindOf(h), permit[h].priority)
  PROVE  BreakerInv'
<1> DEFINE c == permit[h].cluster
           k == KindOf(h)
           p == permit[h].priority
           n == count[c][g][k][p]
<1>1. /\ c \in Clusters /\ p \in Priorities /\ k \in Kinds
      /\ Idle \in PermitStates
  BY DEF BreakerInv, PermitOK, KindOf, Kinds, Idle, PermitStates
<1>2. n \in 0..(Word - 1)
  BY <1>1 DEF BreakerInv, BreakerTypeOK
<1>3. /\ count' \in [Clusters -> [Generations -> [Kinds -> [Priorities -> 0..(Word - 1)]]]]
      /\ \A d \in Clusters, e \in Generations, j \in Kinds, q \in Priorities :
           count'[d][e][j][q] = IF d = c /\ e = g /\ j = k /\ q = p
                                THEN Dec(n) ELSE count[d][e][j][q]
  <2>1. count' = [count EXCEPT ![c][g][k][p] = Dec(n)]
    BY DEF FetchSub
  <2>2. count' \in [Clusters -> [Generations -> [Kinds -> [Priorities -> 0..(Word - 1)]]]]
    BY <1>1, <1>2, <2>1, WordType, CountUpdate DEF BreakerInv
  <2>3. ASSUME NEW d \in Clusters, NEW e \in Generations, NEW j \in Kinds, NEW q \in Priorities
        PROVE  count'[d][e][j][q] = IF d = c /\ e = g /\ j = k /\ q = p
                                    THEN Dec(n) ELSE count[d][e][j][q]
    BY <1>1, <2>1 DEF BreakerInv, BreakerTypeOK
  <2>4. QED BY <2>2, <2>3
<1>4. /\ permit' \in [Permits -> PermitStates]
      /\ \A x \in Permits : PermitOK(permit'[x])
  BY <1>1 DEF BreakerInv, BreakerTypeOK, PermitOK
<1>5. CountIsExact'
  <2> SUFFICES ASSUME NEW d \in Clusters \ Churned, NEW e \in Generations,
                      NEW j \in Kinds, NEW q \in Priorities
               PROVE  count'[d][e][j][q] = Cardinality(Charged(d, e, j, q)')
    BY DEF CountIsExact
  <2>1. count[d][e][j][q] = Cardinality(Charged(d, e, j, q))
    BY DEF BreakerInv, CountIsExact
  <2>2. /\ Cardinality(Charged(d, e, j, q)') =
             IF <<d, e, j, q>> = <<c, permit[h].charged, k, p>>
             THEN Cardinality(Charged(d, e, j, q)) - 1
             ELSE Cardinality(Charged(d, e, j, q))
        /\ h \in Charged(d, e, j, q) => Cardinality(Charged(d, e, j, q)) > 0
    BY ReleaseOne
  <2>3. CASE <<d, e, j, q>> = <<c, g, k, p>>
    <3>1. e = permit[h].charged
      BY <2>3 DEF Stable
    <3>2. h \in Charged(d, e, j, q)
      BY <2>3, <3>1 DEF Charged
    <3>3. n = Cardinality(Charged(d, e, j, q)) /\ n > 0
      BY <2>1, <2>2, <2>3, <3>2
    <3>4. Dec(n) = n - 1
      BY <1>2, <3>3 DEF Dec
    <3>5. count'[d][e][j][q] = Dec(n)
      BY <1>3, <2>3
    <3>6. <<d, e, j, q>> = <<c, permit[h].charged, k, p>>
      BY <2>3, <3>1
    <3>7. QED BY <2>2, <3>3, <3>4, <3>5, <3>6
  <2>4. CASE <<d, e, j, q>> # <<c, g, k, p>>
    <3>1. <<d, e, j, q>> # <<c, permit[h].charged, k, p>>
      BY <2>4 DEF Stable
    <3>2. QED BY <1>3, <2>1, <2>2, <2>4, <3>1
  <2>5. QED BY <2>3, <2>4
<1>6. QED BY <1>3, <1>4, <1>5 DEF BreakerInv, BreakerTypeOK, KeepsOrigin

(* A denied attempt takes its increment back. *)
LEMMA UndoIncrementStep ==
  ASSUME BreakerInv, NEW h \in Permits, UndoIncrement(h)
  PROVE  BreakerInv'
<1>1. permit[h] # Idle /\ permit[h].charged \in Generations
  BY DEF UndoIncrement, BreakerInv, PermitOK, Idle
<1>2. /\ WatchTypeOK' /\ UNCHANGED <<value, version, phase>>
      /\ \A u \in Threads : KeepsOrigin(local'[u])
  BY DEF UndoIncrement, watchVars, BreakerInv, BreakerTypeOK, WatchTypeOK
<1>3. QED BY <1>1, <1>2, ReleaseStep DEF UndoIncrement

(* Picking the connection moves the permit on and charges nothing. *)
LEMMA AcquireConnectionStep ==
  ASSUME BreakerInv, NEW h \in Permits, AcquireConnection(h)
  PROVE  BreakerInv'
<1> DEFINE t == permit[h].thread
           r == permit'[h]
<1>1. /\ permit[h].pc = "routing" /\ t \in Threads /\ permit[h] \in PermitStates
      /\ permit[h].cluster \in Clusters /\ permit[h].priority \in Priorities
      /\ permit[h].cluster \in Stable => permit[h].charged = Origin(permit[h].cluster)
  BY DEF AcquireConnection, BreakerInv, BreakerTypeOK, PermitOK, Idle
<1>2. /\ local' \in [Threads -> Values]
      /\ seen' \in [Threads -> 0..MaxVersion]
      /\ \A u \in Threads : KeepsOrigin(local'[u])
  BY <1>1, RefreshOK DEF AcquireConnection
<1>3. WatchTypeOK' /\ UNCHANGED <<value, version, phase, count>>
  BY <1>2 DEF AcquireConnection, BreakerInv, BreakerTypeOK, WatchTypeOK
<1>4. /\ permit' = [permit EXCEPT ![h] = r]
      /\ r \in PermitStates
      /\ r.cluster = permit[h].cluster /\ r.priority = permit[h].priority
      /\ r.charged = permit[h].charged
      /\ r.pc = "held" \/ (r.pc = "dropping" /\ r.thread = t)
  <2>1. CASE permit' = [permit EXCEPT ![h].pc = "held", ![h].thread = None]
    BY <1>1, <2>1 DEF BreakerInv, BreakerTypeOK, PermitStates
  <2>2. CASE permit' = [permit EXCEPT ![h].pc = "dropping"]
    BY <1>1, <2>2 DEF BreakerInv, BreakerTypeOK, PermitStates
  <2>3. QED BY <2>1, <2>2 DEF AcquireConnection
<1>5. PermitOK(r)
  BY <1>1, <1>4 DEF PermitOK
<1>6. /\ permit' \in [Permits -> PermitStates]
      /\ \A x \in Permits : PermitOK(permit'[x])
  BY <1>4, <1>5 DEF BreakerInv, BreakerTypeOK
<1>7. \A c, g, k, p : Charged(c, g, k, p)' = Charged(c, g, k, p)
  BY <1>4 DEF Charged, BreakerInv, BreakerTypeOK
<1>8. CountIsExact'
  BY <1>3, <1>7 DEF CountIsExact, BreakerInv
<1>9. QED BY <1>2, <1>3, <1>6, <1>8 DEF BreakerInv, BreakerTypeOK, KeepsOrigin

(* The decrement by name reaches the counter that was charged. *)
LEMMA DropPermitStep ==
  ASSUME BreakerInv, NEW h \in Permits, NEW t \in Threads, DropPermit(h, t)
  PROVE  BreakerInv'
<1> DEFINE c == permit[h].cluster
           entry == local'[t][c]
<1>1. /\ permit[h] # Idle /\ c \in Clusters
      /\ c \in Stable => permit[h].charged = Origin(c)
  BY DEF DropPermit, BreakerInv, PermitOK, Idle
<1>2. /\ local' \in [Threads -> Values]
      /\ seen' \in [Threads -> 0..MaxVersion]
      /\ \A u \in Threads : KeepsOrigin(local'[u])
  BY RefreshOK DEF DropPermit
<1>3. WatchTypeOK' /\ UNCHANGED <<value, version, phase>>
  BY <1>2 DEF DropPermit, BreakerInv, BreakerTypeOK, WatchTypeOK
<1>4. permit' = [permit EXCEPT ![h] = Idle]
  BY DEF DropPermit
<1>5. CASE HasBreaker(entry)
  <2>1. entry.counters \in Generations /\ c \in Stable => entry.counters = permit[h].charged
    BY <1>1, <1>2, <1>5, EntryType DEF KeepsOrigin
  <2>2. FetchSub(c, entry.counters, KindOf(h), permit[h].priority)
    BY <1>5 DEF DropPermit, Decrement
  <2>3. entry.counters \in Generations
    BY <1>1, <1>2, <1>5, EntryType
  <2>4. QED BY <1>1, <1>2, <1>3, <1>4, <2>1, <2>2, <2>3, ReleaseStep
<1>6. CASE ~HasBreaker(entry)
  <2>1. count' = count /\ c \notin Stable
    BY <1>1, <1>2, <1>6 DEF DropPermit, Decrement, KeepsOrigin
  <2>2. CountIsExact'
    <3> SUFFICES ASSUME NEW d \in Clusters \ Churned, NEW e \in Generations,
                        NEW j \in Kinds, NEW q \in Priorities
                 PROVE  count'[d][e][j][q] = Cardinality(Charged(d, e, j, q)')
      BY DEF CountIsExact
    <3>1. Cardinality(Charged(d, e, j, q)') = Cardinality(Charged(d, e, j, q))
      BY <1>1, <1>4, <2>1, ReleaseOne DEF Stable
    <3>2. QED BY <2>1, <3>1 DEF BreakerInv, CountIsExact
  <2>3. /\ permit' \in [Permits -> PermitStates]
        /\ \A x \in Permits : PermitOK(permit'[x])
    BY <1>4 DEF BreakerInv, BreakerTypeOK, PermitOK, Idle, PermitStates
  <2>4. QED BY <1>2, <1>3, <2>1, <2>2, <2>3 DEF BreakerInv, BreakerTypeOK, KeepsOrigin
<1>7. QED BY <1>5, <1>6

(* The invariant is inductive. *)
LEMMA BreakerInvStep == BreakerInv /\ [BreakerNext]_vars => BreakerInv'
<1> SUFFICES ASSUME BreakerInv, [BreakerNext]_vars PROVE BreakerInv'
  OBVIOUS
<1>1. CASE MapUpdate \/ FinishUpdate
  BY <1>1, UpdateStep
<1>2. ASSUME NEW h \in Permits, NEW t \in Threads, NEW c \in Clusters,
             NEW p \in Priorities, TryIncrement(h, t, c, p)
      PROVE  BreakerInv'
  BY <1>2, TryIncrementStep
<1>3. ASSUME NEW h \in Permits, NEW t \in Threads, DropPermit(h, t) PROVE BreakerInv'
  BY <1>3, DropPermitStep
<1>4. ASSUME NEW h \in Permits, UndoIncrement(h) PROVE BreakerInv'
  BY <1>4, UndoIncrementStep
<1>5. ASSUME NEW h \in Permits, AcquireConnection(h) PROVE BreakerInv'
  BY <1>5, AcquireConnectionStep
<1>6. CASE UNCHANGED vars
  BY <1>6, MapStep DEF vars, watchVars, BreakerInv, BreakerTypeOK, WatchTypeOK
<1>7. QED BY <1>1, <1>2, <1>3, <1>4, <1>5, <1>6 DEF BreakerNext

(* The clusters map, its copies, the counters and the permits keep their   *)
(* types, for any churn.                                                   *)
THEOREM BreakerTypeCorrect == BreakerSpec => []BreakerTypeOK
<1>1. BreakerInv => BreakerTypeOK
  BY DEF BreakerInv
<1>2. QED BY BreakerInvInit, BreakerInvStep, <1>1, PTL DEF BreakerSpec

(* Whatever replacements and stale copies come between the increment and   *)
(* the decrement of a permit, every counter of a cluster that is not       *)
(* churned equals the number of permits charged to it.                     *)
THEOREM BreakerExact == BreakerSpec => []CountIsExact
<1>1. BreakerInv => CountIsExact
  BY DEF BreakerInv
<1>2. QED BY BreakerInvInit, BreakerInvStep, <1>1, PTL DEF BreakerSpec

(* What AdmissionWithinLimit says of one permit in one step. *)
GrantedWithin(h) ==
    \E t \in Threads :
        LET c == permit'[h].cluster
            k == KindOf(h)
            p == permit'[h].priority
            entry == local'[t][c]
        IN /\ HasBreaker(entry)
           /\ entry.counters = permit'[h].charged
           /\ Cardinality(Holding(c, entry.counters, k, p)) < entry.max[k][p]

(* An attempt counts itself before it looks, so the value it finds is at     *)
(* least the number of permits that are held.                                *)
LEMMA AdmissionStep ==
  ASSUME BreakerInv, NEW h \in Permits, NEW t \in Threads,
         NEW c \in Clusters, NEW p \in Priorities, TryIncrement(h, t, c, p),
         permit'[h].pc \in {"routing", "held"}, c \notin Churned
  PROVE  GrantedWithin(h)
<1> DEFINE entry == local'[t][c]
           g == entry.counters
           k == KindOf(h)
<1>1. CachedOrLatest(t) /\ k \in Kinds
  BY DEF TryIncrement, KindOf, Kinds
<1>2. local' \in [Threads -> Values] /\ KeepsOrigin(local'[t])
  BY <1>1, RefreshOK
<1>3. HasBreaker(entry) /\ g \in Generations /\ entry.max \in Thresholds
  BY <1>2, EntryType DEF KeepsOrigin, Stable
<1>4. /\ permit'[h] = IF Admits(count[c][g][k][p], entry.max[k][p])
                      THEN Admitted(h, t, c, p, g)
                      ELSE [pc |-> "denied", thread |-> t, cluster |-> c,
                            priority |-> p, charged |-> g]
  BY <1>3 DEF TryIncrement, BreakerInv, BreakerTypeOK
<1>5. Admits(count[c][g][k][p], entry.max[k][p])
  BY <1>4
<1>6. permit'[h].cluster = c /\ permit'[h].priority = p /\ permit'[h].charged = g
  BY <1>4, <1>5 DEF Admitted
<1>7. count[c][g][k][p] = Cardinality(Charged(c, g, k, p))
  BY <1>1, <1>3 DEF BreakerInv, CountIsExact
<1>8. /\ Cardinality(Holding(c, g, k, p)) <= Cardinality(Charged(c, g, k, p))
      /\ Cardinality(Holding(c, g, k, p)) \in Nat
  <2>1. Holding(c, g, k, p) \subseteq Charged(c, g, k, p)
    BY DEF Holding
  <2>2. IsFiniteSet(Charged(c, g, k, p))
    BY ChargedFinite
  <2> QED BY <2>1, <2>2, FS_Subset, FS_CardinalityType
<1>9. entry.max[k][p] \in Nat
  BY <1>1, <1>3, BreakerAssumption DEF Thresholds
<1>10. Cardinality(Charged(c, g, k, p)) \in Nat
  BY ChargedFinite
<1>11. Cardinality(Holding(c, g, k, p)) < entry.max[k][p]
  BY <1>5, <1>7, <1>8, <1>9, <1>10 DEF Admits
<1> QED BY <1>3, <1>6, <1>11 DEF GrantedWithin

(* try_increment_* never grants beyond the threshold its thread sees, for    *)
(* any number of threads that try at once and any update of the map between. *)
THEOREM BreakerAdmission == BreakerSpec => AdmissionWithinLimit
<1>1. ASSUME BreakerInv, [BreakerNext]_vars, NEW h \in Permits, permit[h].pc = "idle",
             permit'[h].pc \in {"routing", "held"}, permit'[h].cluster \notin Churned
      PROVE  GrantedWithin(h)
  <2>0. permit \in [Permits -> PermitStates] /\ Idle.pc = "idle"
    BY <1>1 DEF BreakerInv, BreakerTypeOK, Idle
  <2>1. ASSUME NEW x \in Permits, NEW t \in Threads, NEW c \in Clusters,
               NEW p \in Priorities, TryIncrement(x, t, c, p)
        PROVE  GrantedWithin(h)
    <3>1. x = h
      BY <1>1, <2>0, <2>1 DEF TryIncrement
    <3>2. permit'[h].cluster = c
      BY <2>0, <2>1, <3>1 DEF TryIncrement, Admitted
    <3> QED BY <1>1, <2>1, <3>1, <3>2, AdmissionStep
  <2>2. ASSUME NEW x \in Permits, permit' = [permit EXCEPT ![x] = Idle] PROVE FALSE
    BY <1>1, <2>0, <2>2
  <2>3. ASSUME NEW x \in Permits, AcquireConnection(x) PROVE FALSE
    <3>1. permit[x].pc = "routing" /\ \A y \in Permits \ {x} : permit'[y] = permit[y]
      BY <2>0, <2>3 DEF AcquireConnection
    <3> QED BY <1>1, <3>1
  <2>4. ASSUME permit' = permit PROVE FALSE
    BY <1>1, <2>4
  <2>5. MapUpdate \/ FinishUpdate => permit' = permit
    BY DEF MapUpdate, FinishUpdate, AddCluster, AddClusterWithoutBreaker, RemoveCluster, OtherUpdate
  <2>6. ASSUME NEW x \in Permits, NEW t \in Threads, DropPermit(x, t) PROVE FALSE
    BY <2>2, <2>6 DEF DropPermit
  <2>7. ASSUME NEW x \in Permits, UndoIncrement(x) PROVE FALSE
    BY <2>2, <2>7 DEF UndoIncrement
  <2>8. UNCHANGED vars => permit' = permit
    BY DEF vars
  <2> QED BY <1>1, <2>1, <2>3, <2>4, <2>5, <2>6, <2>7, <2>8 DEF BreakerNext
<1>2. ASSUME BreakerInv, [BreakerNext]_vars
      PROVE  [\A h \in Permits :
                /\ permit[h].pc = "idle"
                /\ permit'[h].pc \in {"routing", "held"}
                /\ permit'[h].cluster \notin Churned
                => GrantedWithin(h)]_vars
  BY <1>1, <1>2
<1>3. BreakerInv /\ [BreakerNext]_vars =>
        [\A h \in Permits :
           /\ permit[h].pc = "idle"
           /\ permit'[h].pc \in {"routing", "held"}
           /\ permit'[h].cluster \notin Churned
           => \E t \in Threads :
                LET c == permit'[h].cluster
                    k == KindOf(h)
                    p == permit'[h].priority
                    entry == local'[t][c]
                IN /\ HasBreaker(entry)
                   /\ entry.counters = permit'[h].charged
                   /\ Cardinality(Holding(c, entry.counters, k, p)) < entry.max[k][p]
        ]_vars
  BY <1>2 DEF GrantedWithin
<1> QED BY BreakerInvInit, BreakerInvStep, <1>3, PTL DEF BreakerSpec, AdmissionWithinLimit

-----------------------------------------------------------------------------
(* ConnectionLimit.                                                        *)

(* A connection is inside `check` exactly while a thread runs it, and a    *)
(* thread runs one connection at a time.                                   *)
OnePerThread ==
    /\ \A c \in Conns : conn[c].pc = "passed" <=> conn[c].thread \in LimitThreads
    /\ \A c, d \in Passed : conn[c].thread = conn[d].thread => c = d

(* The inductive invariant: the exact counter bounds the guards when a     *)
(* thread compares, and the threads bound how many may have compared and   *)
(* not yet added.                                                          *)
LimitInv ==
    /\ LimitTypeOK
    /\ OnePerThread
    /\ ActiveIsExact
    /\ OvershootBounded

----------------------------------------------------------------------------

(* Sets of connections are finite. *)
LEMMA ConnsFinite ==
  ASSUME NEW S \in SUBSET Conns
  PROVE  IsFiniteSet(S) /\ Cardinality(S) \in Nat
  BY LimitAssumption, FS_Subset, FS_CardinalityType

(* There are finitely many threads, and at least one. *)
LEMMA ThreadsFinite ==
  /\ IsFiniteSet(LimitThreads)
  /\ Cardinality(LimitThreads) \in Nat
  /\ Cardinality(LimitThreads) > 0
  BY LimitAssumption, FS_EmptySet, FS_CardinalityType

(* At most one connection per thread is between its load and its add. *)
LEMMA PassedFitThreads ==
  ASSUME NEW S \in SUBSET Conns, NEW f \in [S -> LimitThreads],
         \A c, d \in S : f[c] = f[d] => c = d
  PROVE  Cardinality(S) <= Cardinality(LimitThreads)
<1>1. f \in Injection(S, LimitThreads)
  BY DEF Injection, IsInjective
<1> QED BY <1>1, LimitAssumption, FS_Injection

(* A connection that is not there yet has no thread. *)
LEMMA AbsentType == Absent \in ConnStates /\ Absent.pc = "absent" /\ Absent.thread = NoThread
<1>1. (CHOOSE l \in LimitValues : TRUE) \in LimitValues
  BY LimitAssumption
<1> QED BY <1>1 DEF Absent, ConnStates

(* The specification starts in the invariant. *)
LEMMA LimitInitInv == LimitInit => LimitInv
<1> SUFFICES ASSUME LimitInit PROVE LimitInv
  OBVIOUS
<1>1. \A c \in Conns : conn[c] = Absent
  BY DEF LimitInit
<1>2. Guarded = {} /\ Passed = {}
  BY <1>1, AbsentType DEF Guarded, Passed
<1>3. LimitTypeOK
  BY AbsentType DEF LimitInit, LimitTypeOK
<1>4. OnePerThread
  BY <1>1, <1>2, AbsentType, LimitAssumption DEF OnePerThread
<1>5. ActiveIsExact /\ OvershootBounded
  BY <1>2, FS_EmptySet, ThreadsFinite, LimitAssumption
  DEF LimitInit, ActiveIsExact, OvershootBounded
<1> QED BY <1>3, <1>4, <1>5 DEF LimitInv

(* Every step keeps the invariant. *)
LEMMA LimitStep == LimitInv /\ [LimitNext]_limitVars => LimitInv'
<1> SUFFICES ASSUME LimitInv, [LimitNext]_limitVars PROVE LimitInv'
  OBVIOUS
<1> USE DEF LimitInv
<1>0. /\ IsFiniteSet(Guarded) /\ Cardinality(Guarded) \in Nat
      /\ IsFiniteSet(Passed) /\ Cardinality(Passed) \in Nat
  BY ConnsFinite DEF Guarded, Passed
<1>1. ASSUME NEW l \in LimitValues, Reconfigure(l) PROVE LimitInv'
  <2>1. Guarded' = Guarded /\ Passed' = Passed
    BY <1>1 DEF Reconfigure, Guarded, Passed
  <2> QED
    BY <1>1, <2>1 DEF Reconfigure, LimitTypeOK, OnePerThread, ActiveIsExact, OvershootBounded
<1>2. ASSUME NEW c \in Conns, Accept(c) PROVE LimitInv'
  <2>1. Guarded' = Guarded /\ Passed' = Passed
    BY <1>2 DEF Accept, Guarded, Passed, LimitTypeOK
  <2>2. LimitTypeOK'
    BY <1>2 DEF Accept, LimitTypeOK, ConnStates
  <2>3. OnePerThread'
    BY <1>2, <2>1, LimitAssumption DEF Accept, OnePerThread, LimitTypeOK, Passed
  <2> QED
    BY <1>2, <2>1, <2>2, <2>3 DEF Accept, ActiveIsExact, OvershootBounded
<1>3. ASSUME NEW c \in Conns, NEW t \in LimitThreads, LoadActive(c, t) PROVE LimitInv'
  <2>a. conn[c] \in ConnStates /\ c \notin Guarded /\ c \notin Passed
    BY <1>3 DEF LoadActive, LimitTypeOK, Guarded, Passed
  <2>1. CASE HasRoom(active, conn[c].max)
    <3>1. conn' = [conn EXCEPT ![c] =
                     [pc |-> "passed", max |-> conn[c].max, thread |-> t]]
      BY <1>3, <2>1 DEF LoadActive, LimitTypeOK
    <3>2. Guarded' = Guarded /\ Passed' = Passed \cup {c}
      BY <3>1, <2>a DEF Guarded, Passed, LimitTypeOK
    <3>3. LimitTypeOK'
      BY <1>3, <3>1, <2>a DEF LoadActive, LimitTypeOK, ConnStates
    <3>4. \A d \in Passed : conn[d].thread # t
      BY <1>3 DEF LoadActive, BusyConns, Passed
    <3>5. \A d, e \in Passed' : conn'[d].thread = conn'[e].thread => d = e
      BY <3>1, <3>2, <3>4, <2>a DEF OnePerThread, Passed, LimitTypeOK
    <3>6. OnePerThread'
      BY <3>1, <3>5, <2>a DEF OnePerThread, LimitTypeOK
    <3>7. Cardinality(Passed') <= Cardinality(LimitThreads)
      <4> DEFINE f == [d \in Passed' |-> conn'[d].thread]
      <4>1. Passed' \in SUBSET Conns
        BY DEF Passed
      <4>2. f \in [Passed' -> LimitThreads]
        BY <3>6 DEF OnePerThread, Passed
      <4>3. \A d, e \in Passed' : f[d] = f[e] => d = e
        BY <3>5
      <4> HIDE DEF f
      <4> QED BY <4>1, <4>2, <4>3, PassedFitThreads
    <3>8. Cardinality(Guarded) < MaxLimit
      <4>1. conn[c].max \in 0..MaxLimit
        BY <2>a, LimitAssumption DEF ConnStates
      <4>2. active < conn[c].max
        BY <2>1 DEF HasRoom
      <4>3. active = Cardinality(Guarded)
        BY DEF ActiveIsExact
      <4> QED BY <4>1, <4>2, <4>3, <1>0, LimitAssumption
    <3>9. Cardinality(Passed') \in Nat
      BY ConnsFinite DEF Passed
    <3>10. OvershootBounded'
      BY <3>2, <3>7, <3>8, <3>9, <1>0, ThreadsFinite, LimitAssumption DEF OvershootBounded
    <3> QED
      BY <1>3, <3>2, <3>3, <3>6, <3>10 DEF LoadActive, ActiveIsExact
  <2>2. CASE ~HasRoom(active, conn[c].max)
    <3>1. conn' = [conn EXCEPT ![c] =
                     [pc |-> "rejected", max |-> conn[c].max, thread |-> NoThread]]
      BY <1>3, <2>2 DEF LoadActive, LimitTypeOK
    <3>2. Guarded' = Guarded /\ Passed' = Passed
      BY <3>1, <2>a DEF Guarded, Passed, LimitTypeOK
    <3>3. LimitTypeOK'
      BY <1>3, <3>1, <2>a DEF LoadActive, LimitTypeOK, ConnStates
    <3>4. OnePerThread'
      BY <3>1, <3>2, <2>a, LimitAssumption DEF OnePerThread, LimitTypeOK, Passed
    <3> QED
      BY <1>3, <3>2, <3>3, <3>4 DEF LoadActive, ActiveIsExact, OvershootBounded
  <2> QED BY <2>1, <2>2
<1>4. ASSUME NEW c \in Conns, FetchAddActive(c) PROVE LimitInv'
  <2>a. conn[c] \in ConnStates /\ c \notin Guarded /\ c \in Passed
    BY <1>4 DEF FetchAddActive, LimitTypeOK, Guarded, Passed
  <2>1. conn' = [conn EXCEPT ![c] =
                   [pc |-> "guarded", max |-> conn[c].max, thread |-> NoThread]]
    BY <1>4 DEF FetchAddActive, LimitTypeOK
  <2>2. Guarded' = Guarded \cup {c} /\ Passed' = Passed \ {c}
    BY <2>1, <2>a DEF Guarded, Passed, LimitTypeOK
  <2>3. LimitTypeOK'
    BY <1>4, <2>1, <2>a DEF FetchAddActive, LimitTypeOK, ConnStates
  <2>4. OnePerThread'
    BY <2>1, <2>2, <2>a, LimitAssumption DEF OnePerThread, LimitTypeOK, Passed
  <2>5. /\ Cardinality(Guarded') = Cardinality(Guarded) + 1
        /\ Cardinality(Passed') = Cardinality(Passed) - 1
    BY <2>2, <2>a, <1>0, FS_AddElement, FS_RemoveElement
  <2>6. ActiveIsExact'
    BY <1>4, <2>5 DEF FetchAddActive, ActiveIsExact
  <2>7. OvershootBounded'
    BY <2>5, <1>0, ThreadsFinite, LimitAssumption DEF OvershootBounded
  <2> QED BY <2>3, <2>4, <2>6, <2>7
<1>5. ASSUME NEW c \in Conns, CloseRejected(c) PROVE LimitInv'
  <2>1. Guarded' = Guarded /\ Passed' = Passed
    BY <1>5, AbsentType DEF CloseRejected, Guarded, Passed, LimitTypeOK
  <2>2. LimitTypeOK'
    BY <1>5, AbsentType DEF CloseRejected, LimitTypeOK
  <2>3. OnePerThread'
    BY <1>5, <2>1, AbsentType, LimitAssumption DEF CloseRejected, OnePerThread, LimitTypeOK, Passed
  <2> QED
    BY <1>5, <2>1, <2>2, <2>3 DEF CloseRejected, ActiveIsExact, OvershootBounded
<1>6. ASSUME NEW c \in Conns, DropGuard(c) PROVE LimitInv'
  <2>a. c \in Guarded /\ c \notin Passed
    BY <1>6 DEF DropGuard, Guarded, Passed
  <2>1. Guarded' = Guarded \ {c} /\ Passed' = Passed
    BY <1>6, <2>a, AbsentType DEF DropGuard, Guarded, Passed, LimitTypeOK
  <2>2. Cardinality(Guarded') = Cardinality(Guarded) - 1 /\ Cardinality(Guarded') \in Nat
    <3>1. Guarded' \in SUBSET Conns
      BY DEF Guarded
    <3> QED BY <2>1, <2>a, <1>0, <3>1, ConnsFinite, FS_RemoveElement
  <2>3. LimitTypeOK'
    BY <1>6, <2>2, AbsentType DEF DropGuard, LimitTypeOK, ActiveIsExact
  <2>4. OnePerThread'
    BY <1>6, <2>1, AbsentType, LimitAssumption DEF DropGuard, OnePerThread, LimitTypeOK, Passed
  <2>5. ActiveIsExact'
    BY <1>6, <2>2 DEF DropGuard, ActiveIsExact
  <2>6. OvershootBounded'
    BY <2>1, <2>2, <1>0, ThreadsFinite, LimitAssumption DEF OvershootBounded
  <2> QED BY <2>3, <2>4, <2>5, <2>6
<1>7. CASE UNCHANGED limitVars
  <2>1. Guarded' = Guarded /\ Passed' = Passed
    BY <1>7 DEF limitVars, Guarded, Passed
  <2> QED
    BY <1>7, <2>1 DEF limitVars, LimitTypeOK, OnePerThread, ActiveIsExact, OvershootBounded
<1> QED
  BY <1>1, <1>2, <1>3, <1>4, <1>5, <1>6, <1>7 DEF LimitNext

(* LimitInv is an invariant of the filter. *)
LEMMA LimitInvariant == LimitSpec => []LimitInv
  BY LimitInitInv, LimitStep, PTL DEF LimitSpec

(* The filter's state is well typed: in particular the counter never goes  *)
(* below zero.                                                             *)
THEOREM LimitTypeCorrect == LimitSpec => []LimitTypeOK
<1>1. LimitInv => LimitTypeOK
  BY DEF LimitInv
<1> QED BY <1>1, LimitInvariant, PTL

(* The counter equals the number of guards that are alive, for any number  *)
(* of racing threads and across any sequence of reconfigurations.          *)
THEOREM LimitExact == LimitSpec => []ActiveIsExact
<1>1. LimitInv => ActiveIsExact
  BY DEF LimitInv
<1> QED BY <1>1, LimitInvariant, PTL

(* The overshoot of the load-then-add in `check` is at most one connection *)
(* less than the number of threads.                                        *)
THEOREM LimitOvershoot == LimitSpec => []OvershootBounded
<1>1. LimitInv => OvershootBounded
  BY DEF LimitInv
<1> QED BY <1>1, LimitInvariant, PTL

-----------------------------------------------------------------------------
(* TokenBucket.                                                            *)

(* Durations are natural numbers. *)
LEMMA Durations == TimePerToken \in Nat /\ TimePerBucket \in Nat
<1> DEFINE interval == FillInterval * NumRuntimes
           both == MaxTokens * interval
<1>1. interval \in Nat
  BY BucketAssumption
<1>2. both \in Nat
  BY <1>1, BucketAssumption
<1> HIDE DEF interval, both
<1>3. (interval \div TokensPerFill) \in Nat
  BY <1>1, BucketAssumption
<1>4. (both \div TokensPerFill) \in Nat
  BY <1>2, BucketAssumption
<1> QED
  BY <1>3, <1>4 DEF TimePerToken, TimePerBucket, AdjustedInterval, interval, both

(* What the workers observe of a request: the new time is at least one    *)
(* token after the old one, and at most one bucket behind the request.    *)
LEMMA NewTimeBounds ==
  ASSUME NEW old \in Int, NEW now \in Nat
  PROVE  /\ NewTime(old, now) \in Int
         /\ NewTime(old, now) >= old + TimePerToken
         /\ NewTime(old, now) >= now - TimePerBucket + TimePerToken
  BY Durations DEF NewTime

(* The type invariant is inductive: a worker's clock reading and the time  *)
(* it loaded are in the past, so the time it exchanges is in the past.     *)
THEOREM BucketTypeCorrect == BucketSpec => []BucketTypeOK
<1>1. BucketInit => BucketTypeOK
  BY Durations, BucketAssumption DEF BucketInit, BucketTypeOK, IdleWorker
<1>2. BucketTypeOK /\ [BucketNext]_bucketVars => BucketTypeOK'
  <2> SUFFICES ASSUME BucketTypeOK, [BucketNext]_bucketVars PROVE BucketTypeOK'
    OBVIOUS
  <2> USE BucketAssumption DEF BucketTypeOK
  <2>1. CASE Tick
    BY <2>1 DEF Tick
  <2>2. ASSUME NEW w \in Workers, Consume(w) PROVE BucketTypeOK'
    BY <2>2 DEF Consume
  <2>3. ASSUME NEW w \in Workers, Load(w) PROVE BucketTypeOK'
    BY <2>3 DEF Load
  <2>4. ASSUME NEW w \in Workers, Deny(w) PROVE BucketTypeOK'
    BY <2>4 DEF Deny, IdleWorker
  <2>5. ASSUME NEW w \in Workers, Grant(w) PROVE BucketTypeOK'
    <3>1. /\ worker[w].old \in Int
          /\ worker[w].now \in Nat
          /\ worker[w].now <= clock
      OBVIOUS
    <3>2. time' \in Int /\ time' <= clock
      BY <2>5, <3>1, NewTimeBounds DEF Grant, Fits
    <3>3. granted' \in Nat
      BY <2>5, <3>1 DEF Grant
    <3>4. QED
      BY <2>5, <3>2, <3>3 DEF Grant, IdleWorker
  <2>6. ASSUME NEW w \in Workers, Retry(w) PROVE BucketTypeOK'
    BY <2>6 DEF Retry
  <2>7. CASE UNCHANGED bucketVars
    BY <2>7 DEF bucketVars
  <2>8. QED
    BY <2>1, <2>2, <2>3, <2>4, <2>5, <2>6, <2>7 DEF BucketNext, WorkerStep
<1>3. QED
  BY <1>1, <1>2, PTL DEF BucketSpec

(* The bucket's time pays for every grant of the window. *)
Paid == granted > 0 => granted * TimePerToken <= time - (from - TimePerBucket)

(* A grant since `from` moves the time by one token; the first one finds   *)
(* it at most one bucket behind `from`.                                    *)
LEMMA GrantPays ==
  ASSUME BucketTypeOK, Paid, NEW w \in Workers, Grant(w)
  PROVE  Paid'
<1> DEFINE old == worker[w].old
           now == worker[w].now
<1>1. /\ old \in Int /\ now \in Nat /\ from \in Nat /\ granted \in Nat /\ time \in Int
      /\ time = old
      /\ from' = from
      /\ time' = NewTime(old, now)
      /\ granted' = IF now >= from THEN granted + 1 ELSE granted
  BY BucketAssumption DEF BucketTypeOK, Grant, Exchanges
<1>2. /\ time' \in Int
      /\ time' >= time + TimePerToken
      /\ time' >= now - TimePerBucket + TimePerToken
  BY <1>1, NewTimeBounds
<1> HIDE DEF old, now
<1>3. (granted + 1) * TimePerToken = granted * TimePerToken + TimePerToken
  BY <1>1, Durations
<1>4. granted * TimePerToken \in Nat
  BY <1>1, Durations
<1>5. CASE now >= from /\ granted = 0
  BY <1>1, <1>2, <1>5, Durations DEF Paid
<1>6. CASE now >= from /\ granted > 0
  <2>1. granted * TimePerToken <= time - (from - TimePerBucket)
    BY <1>6 DEF Paid
  <2>2. (granted + 1) * TimePerToken <= time' - (from - TimePerBucket)
    BY <1>1, <1>2, <1>3, <1>4, <2>1, Durations
  <2>3. QED
    BY <1>1, <1>6, <2>2 DEF Paid
<1>7. CASE ~(now >= from)
  <2>1. granted' = granted
    BY <1>1, <1>7
  <2>2. granted > 0 => granted * TimePerToken <= time' - (from - TimePerBucket)
    BY <1>1, <1>2, <1>4, Durations DEF Paid
  <2>3. QED
    BY <1>1, <2>1, <2>2 DEF Paid
<1>8. QED
  BY <1>1, <1>5, <1>6, <1>7

(* No window of requests is granted more tokens than one bucket and the    *)
(* refill of the window: the time paid for them, and it is in the past.    *)
THEOREM BucketRate == BucketSpec => []RateBounded
<1>1. BucketInit => Paid
  BY DEF BucketInit, Paid
<1>2. BucketTypeOK /\ Paid /\ [BucketNext]_bucketVars => Paid'
  <2> SUFFICES ASSUME BucketTypeOK, Paid, [BucketNext]_bucketVars PROVE Paid'
    OBVIOUS
  <2>1. ASSUME NEW w \in Workers, Grant(w) PROVE Paid'
    BY <2>1, GrantPays
  <2>2. CASE UNCHANGED <<time, from, granted>>
    BY <2>2 DEF Paid
  <2>3. CASE Tick
    BY <2>2, <2>3 DEF Tick
  <2>4. ASSUME NEW w \in Workers, WorkerStep(w) PROVE Paid'
    BY <2>1, <2>2, <2>4 DEF WorkerStep, Consume, Load, Deny, Retry
  <2>5. CASE UNCHANGED bucketVars
    BY <2>2, <2>5 DEF bucketVars
  <2>6. QED
    BY <2>3, <2>4, <2>5 DEF BucketNext
<1>3. BucketTypeOK /\ Paid => RateBounded
  <2> SUFFICES ASSUME BucketTypeOK, Paid, granted > 0
               PROVE  granted * TimePerToken <= TimePerBucket + (clock - from)
    BY DEF RateBounded
  <2>1. granted * TimePerToken <= time - (from - TimePerBucket)
    BY DEF Paid
  <2>2. granted * TimePerToken \in Nat
    BY Durations DEF BucketTypeOK
  <2>3. QED
    BY <2>1, <2>2, Durations, BucketAssumption DEF BucketTypeOK
<1>4. QED
  BY <1>1, <1>2, <1>3, BucketTypeCorrect, PTL DEF BucketSpec

(* Only a grant changes the time, and only from the value it loaded, so it *)
(* never goes back.                                                        *)
THEOREM BucketMonotone == BucketSpec => TimeNeverBack
<1>1. BucketTypeOK /\ [BucketNext]_bucketVars => [time' >= time]_bucketVars
  <2> SUFFICES ASSUME BucketTypeOK, BucketNext PROVE time' >= time
    BY DEF bucketVars
  <2>1. ASSUME NEW w \in Workers, Grant(w) PROVE time' >= time
    <3>1. worker[w].old \in Int /\ worker[w].now \in Nat
      BY BucketAssumption DEF BucketTypeOK
    <3>2. time' = NewTime(time, worker[w].now)
      BY <2>1 DEF Grant, Exchanges
    <3>3. time \in Int
      BY DEF BucketTypeOK
    <3>4. time' \in Int /\ time' >= time + TimePerToken
      BY <3>1, <3>2, <3>3, NewTimeBounds
    <3>5. QED
      BY <3>3, <3>4, Durations
  <2>2. CASE UNCHANGED time
    BY <2>2 DEF BucketTypeOK
  <2>3. QED
    BY <2>1, <2>2 DEF BucketNext, WorkerStep, Tick, Consume, Load, Deny, Retry
<1>2. QED
  BY <1>1, BucketTypeCorrect, PTL DEF BucketSpec, TimeNeverBack

-----------------------------------------------------------------------------
(* UpstreamConnections.                                                    *)

(* What the counter stands for before it wraps: the slots that dials hold  *)
(* and the lost ones, without those that were returned a second time.      *)
Balance == Cardinality(Slots) + lost - returnedTwice

(* The inductive invariant: SlotsAccounted without its modulo, so that the *)
(* wrap of an increment and of a decrement are each other's inverse.       *)
DialInv ==
    /\ DialTypeOK
    /\ connections = IF Balance >= 0 THEN Balance ELSE Balance + ConnectionWord
    /\ LiveWithinLimit

----------------------------------------------------------------------------

(* Sets of dials are finite, and with the lost slots smaller than a word.  *)
LEMMA DialsFinite ==
  ASSUME NEW S \in SUBSET Dials
  PROVE  /\ IsFiniteSet(S)
         /\ Cardinality(S) \in Nat
         /\ Cardinality(S) + MaxFaults < ConnectionWord
<1>1. IsFiniteSet(S) /\ Cardinality(S) <= Cardinality(Dials)
  BY DialAssumption, FS_Subset
<1>2. Cardinality(S) \in Nat /\ Cardinality(Dials) \in Nat
  BY <1>1, DialAssumption, FS_CardinalityType
<1> QED BY <1>1, <1>2, DialAssumption

(* So are the slots in use and the live connections. *)
LEMMA SlotsFinite ==
  /\ IsFiniteSet(Slots) /\ Cardinality(Slots) \in Nat
  /\ Cardinality(Slots) + MaxFaults < ConnectionWord
  /\ IsFiniteSet(Live) /\ Cardinality(Live) \in Nat
  /\ Cardinality(Live) <= Cardinality(Slots)
<1>1. Slots \in SUBSET Dials /\ Live \in SUBSET Slots /\ Live \in SUBSET Dials
  BY DEF Slots, Live
<1>2. Cardinality(Live) <= Cardinality(Slots)
  BY <1>1, DialsFinite, FS_Subset
<1> QED BY <1>1, <1>2, DialsFinite

(* The modulo of SlotsAccounted wraps once at most. *)
LEMMA WrapOnce ==
  ASSUME DialTypeOK
  PROVE  SlotsAccounted <=>
           connections = IF Balance >= 0 THEN Balance ELSE Balance + ConnectionWord
<1> DEFINE x == Cardinality(Slots) + lost + ConnectionWord - returnedTwice
<1>1. /\ x \in Nat /\ x < 2 * ConnectionWord
      /\ Balance = x - ConnectionWord
  BY SlotsFinite, DialAssumption DEF DialTypeOK, Balance
<1>2. x % ConnectionWord = IF x >= ConnectionWord THEN x - ConnectionWord ELSE x
  <2> HIDE DEF x
  <2> QED BY <1>1, DialAssumption
<1>3. SlotsAccounted <=> connections = x % ConnectionWord
  BY DEF SlotsAccounted
<1> HIDE DEF x
<1> QED BY <1>1, <1>2, <1>3, DialAssumption

(* What a step of one dial does to the sets of dials that hold a slot.     *)
LEMMA GoSets ==
  ASSUME DialTypeOK, NEW d \in Dials, NEW s, NEW t, Go(d, s, t),
         t \in {"idle", "denied", "dialing", "securing", "up", "failed"}
  PROVE  /\ dial' \in [Dials -> {"idle", "denied", "dialing", "securing", "up", "failed"}]
         /\ Slots' = IF t \in {"denied", "dialing", "securing", "up"}
                     THEN Slots \cup {d} ELSE Slots \ {d}
         /\ Live' = IF t \in {"dialing", "securing", "up"}
                    THEN Live \cup {d} ELSE Live \ {d}
         /\ d \in Slots <=> s \in {"denied", "dialing", "securing", "up"}
         /\ d \in Live <=> s \in {"dialing", "securing", "up"}
  BY DEF Go, DialTypeOK, Slots, Live

(* The same in numbers. *)
LEMMA GoCounts ==
  ASSUME DialTypeOK, NEW d \in Dials, NEW s, NEW t, Go(d, s, t),
         t \in {"idle", "denied", "dialing", "securing", "up", "failed"}
  PROVE  /\ Cardinality(Slots') =
              IF t \in {"denied", "dialing", "securing", "up"}
              THEN IF s \in {"denied", "dialing", "securing", "up"}
                   THEN Cardinality(Slots) ELSE Cardinality(Slots) + 1
              ELSE IF s \in {"denied", "dialing", "securing", "up"}
                   THEN Cardinality(Slots) - 1 ELSE Cardinality(Slots)
         /\ Cardinality(Live') =
              IF t \in {"dialing", "securing", "up"}
              THEN IF s \in {"dialing", "securing", "up"}
                   THEN Cardinality(Live) ELSE Cardinality(Live) + 1
              ELSE IF s \in {"dialing", "securing", "up"}
                   THEN Cardinality(Live) - 1 ELSE Cardinality(Live)
         /\ Cardinality(Live') <= Cardinality(Slots')
<1>1. /\ Cardinality(Slots \cup {d}) =
           IF d \in Slots THEN Cardinality(Slots) ELSE Cardinality(Slots) + 1
      /\ Cardinality(Slots \ {d}) =
           IF d \in Slots THEN Cardinality(Slots) - 1 ELSE Cardinality(Slots)
  BY SlotsFinite, FS_AddElement, FS_RemoveElement
<1>2. /\ Cardinality(Live \cup {d}) =
           IF d \in Live THEN Cardinality(Live) ELSE Cardinality(Live) + 1
      /\ Cardinality(Live \ {d}) =
           IF d \in Live THEN Cardinality(Live) - 1 ELSE Cardinality(Live)
  BY SlotsFinite, FS_AddElement, FS_RemoveElement
<1>3. Cardinality(Live') <= Cardinality(Slots')
  <2>1. Slots' \in SUBSET Dials /\ Live' \in SUBSET Slots'
    BY DEF Slots, Live
  <2> QED BY <2>1, DialsFinite, FS_Subset
<1> QED BY <1>1, <1>2, <1>3, GoSets

----------------------------------------------------------------------------

(* The specification starts in the invariant. *)
LEMMA DialInitInv == DialInit => DialInv
<1> SUFFICES ASSUME DialInit PROVE DialInv
  OBVIOUS
<1>1. Slots = {} /\ Live = {}
  BY DEF DialInit, Slots, Live
<1>2. Cardinality(Slots) = 0 /\ Cardinality(Live) = 0
  BY <1>1, FS_EmptySet
<1>3. Cardinality(Dials) \in Nat
  BY DialAssumption, FS_CardinalityType
<1>4. DialTypeOK
  BY <1>3, DialAssumption DEF DialInit, DialTypeOK
<1> QED BY <1>2, <1>4, DialAssumption DEF DialInv, DialInit, Balance, LiveWithinLimit

(* Every step keeps it. The only step that adds a live dial is an admitted *)
(* `try_increment_connections`, and there the counter is at least the      *)
(* number of live dials, since nothing was returned twice.                 *)
LEMMA DialStep == DialInv /\ [DialNext]_dialVars => DialInv'
<1> SUFFICES ASSUME DialInv, [DialNext]_dialVars PROVE DialInv'
  OBVIOUS
<1> USE DEF DialInv, Balance, LiveWithinLimit
<1>0. /\ Cardinality(Slots) \in Nat /\ Cardinality(Slots') \in Nat
      /\ Cardinality(Slots) + MaxFaults < ConnectionWord
      /\ Cardinality(Slots') + MaxFaults < ConnectionWord
      /\ Cardinality(Live) \in Nat /\ Cardinality(Live') \in Nat
      /\ Cardinality(Live) <= Cardinality(Slots)
  <2>1. Slots' \in SUBSET Dials /\ Live' \in SUBSET Dials
    BY DEF Slots, Live
  <2> QED BY <2>1, SlotsFinite, DialsFinite
<1>1. ASSUME NEW d \in Dials, TakeSlot(d) PROVE DialInv'
  <2>1. CASE AdmitsConnection(connections)
    <3>1. Go(d, "idle", "dialing")
      BY <1>1, <2>1 DEF TakeSlot
    <3> QED BY <1>0, <1>1, <2>1, <3>1, GoSets, GoCounts, DialAssumption
        DEF TakeSlot, DialTypeOK, IncConnections, AdmitsConnection
  <2>2. CASE ~AdmitsConnection(connections)
    <3>1. Go(d, "idle", "denied")
      BY <1>1, <2>2 DEF TakeSlot
    <3> QED BY <1>0, <1>1, <3>1, GoSets, GoCounts, DialAssumption
        DEF TakeSlot, DialTypeOK, IncConnections
  <2> QED BY <2>1, <2>2
<1>2. ASSUME NEW d \in Dials, DenyDial(d) PROVE DialInv'
  BY <1>0, <1>2, GoSets, GoCounts, DialAssumption DEF DenyDial, DialTypeOK, DecConnections
<1>3. ASSUME NEW d \in Dials, Established(d) PROVE DialInv'
  BY <1>0, <1>3, GoSets, GoCounts, DialAssumption DEF Established, DialTypeOK
<1>4. ASSUME NEW d \in Dials, DialFails(d) PROVE DialInv'
  BY <1>0, <1>4, GoSets, GoCounts, DialAssumption DEF DialFails, DialTypeOK, DecConnections
<1>5. ASSUME NEW d \in Dials, DropDial(d) PROVE DialInv'
  BY <1>0, <1>5, GoSets, GoCounts, DialAssumption DEF DropDial, DialTypeOK
<1>6. ASSUME NEW d \in Dials, Secured(d) PROVE DialInv'
  BY <1>0, <1>6, GoSets, GoCounts, DialAssumption DEF Secured, DialTypeOK
<1>7. ASSUME NEW d \in Dials, SecuringFails(d) PROVE DialInv'
  <2>1. PICK t \in {"failed", "idle"} : Go(d, "securing", t)
    BY <1>7 DEF SecuringFails
  <2> QED BY <1>0, <1>7, <2>1, GoSets, GoCounts, DialAssumption
      DEF SecuringFails, DialTypeOK, DecConnections
<1>8. ASSUME NEW d \in Dials, ErrorPath(d) PROVE DialInv'
  BY <1>0, <1>8, GoSets, GoCounts, DialAssumption DEF ErrorPath, DialTypeOK, DecConnections
<1>9. ASSUME NEW d \in Dials, DropStream(d) PROVE DialInv'
  <2>1. PICK s \in {"securing", "up"} : Go(d, s, "idle")
    BY <1>9 DEF DropStream
  <2> QED BY <1>0, <1>9, <2>1, GoSets, GoCounts, DialAssumption
      DEF DropStream, DialTypeOK, DecConnections
<1>10. CASE UNCHANGED dialVars
  <2>1. Slots' = Slots /\ Live' = Live
    BY <1>10 DEF dialVars, Slots, Live
  <2> QED BY <1>10, <2>1 DEF dialVars, DialTypeOK
<1> QED
  BY <1>1, <1>2, <1>3, <1>4, <1>5, <1>6, <1>7, <1>8, <1>9, <1>10 DEF DialNext

(* Every behaviour satisfies the inductive invariant. *)
LEMMA DialInvariance == DialSpec => []DialInv
<1> QED BY DialInitInv, DialStep, PTL DEF DialSpec

(* The counter of a breaker's connections stays a word and every dial in   *)
(* one of its states, whatever fails and is dropped.                       *)
THEOREM DialTypeCorrect == DialSpec => []DialTypeOK
<1>1. DialInv => DialTypeOK
  BY DEF DialInv
<1> QED BY <1>1, DialInvariance, PTL

(* The slots of the breaker are exactly those that dials hold, plus the    *)
(* lost ones, minus those that TcpChannelConnector::connect returned       *)
(* twice; and while none was returned twice, the dials that are under way  *)
(* or up never exceed max_connections.                                     *)
THEOREM DialSlotsAccounted == DialSpec => []DialsAccounted
<1>1. DialInv => DialsAccounted
  BY WrapOnce DEF DialInv, DialsAccounted
<1> QED BY <1>1, DialInvariance, PTL
=============================================================================
