--------------------------- MODULE MetricsShards ----------------------------
(***************************************************************************)
(* The counters of arion-metrics (sharded.rs): one cell per shard and      *)
(* label set, found through a cache of raw pointers each thread keeps.     *)
(* The shard is the thread a transaction began on and travels with it, so  *)
(* a thread adds to and subtracts from shards that are not its own.  A     *)
(* reset (the admin interface's reset_counters) empties the map and only   *)
(* then moves the epoch the caches are valid for.  One label set is        *)
(* modelled: label sets do not interact.                                   *)
(***************************************************************************)
EXTENDS Integers, Sequences, FiniteSets, Functions, TLC

CONSTANTS
    Workers,      \* worker threads, whose ids are the shard ids
    MaxCells,     \* bound on the cells ever allocated
    MaxActive,    \* bound on the transactions of a shard, and on observations
    MaxResets,    \* bound on the resets
    Bounds,       \* bucket bounds a histogram may be configured with
    MaxValue      \* largest value observed

ASSUME MetricsAssumption ==
    /\ {MaxCells, MaxActive, MaxResets, MaxValue} \subseteq Nat \ {0}
    /\ IsFiniteSet(Workers) /\ \A b \in Bounds : b \in Seq(Nat)

\* The bounds of an instance about the cells alone.
SingleBound == {<<1>>}

VARIABLES
    shards,       \* the cell of each shard in the map, 0 when there is none
    cells,        \* the values of the cells ever allocated
    epoch,        \* ShardedU64::epoch
    resets,       \* what the resetting thread is doing, and whether it ever did
    cached,       \* LAST: each thread's pointer, its shard and its epoch
    op,           \* the add or sub each thread is in
    active,       \* transactions of a shard counted and not yet discounted
    histogram     \* a histogram and the values observed

metricsVars == <<shards, cells, epoch, resets, cached, op, active, histogram>>

NothingCached == [epoch |-> 0, shard |-> {}, cell |-> 0]
NoOp == [st |-> "idle", kind |-> "add", shard |-> {}, epoch |-> 0, cell |-> 0, hit |-> FALSE]

\* ShardedHistogram::new sorts the bounds it is given: the same ones, each as
\* often, in order.
Sortings(b) ==
    {s \in [DOMAIN b -> Range(b)] :
        /\ \A i, j \in DOMAIN b : i < j => s[i] <= s[j]
        /\ \A v \in Range(b) : Cardinality({i \in DOMAIN b : s[i] = v})
                               = Cardinality({i \in DOMAIN b : b[i] = v})}

NewHistogram(sorted) ==
    [ buckets |-> sorted, counts |-> [i \in DOMAIN sorted |-> 0], count |-> 0, sum |-> 0, seen |-> <<>> ]

MetricsInit ==
    /\ shards = [s \in Workers |-> 0]
    /\ cells = <<>>
    /\ epoch = 0
    /\ resets = [st |-> "idle", ever |-> FALSE]
    /\ cached = [w \in Workers |-> NothingCached]
    /\ op = [w \in Workers |-> NoOp]
    /\ active = [s \in Workers |-> 0]
    /\ \E b \in Bounds : \E sorted \in Sortings(b) : histogram = NewHistogram(sorted)

-----------------------------------------------------------------------------
(* The thread's cache.                                                     *)

\* Mutant: the cache is not asked which shard its pointer belongs to.
CacheHitAnyShard(c, e, s) == c.cell # 0 /\ c.epoch = e

CacheHit(c, e, s) == c.cell # 0 /\ c.epoch = e /\ c.shard = {s}

\* cache_lookup: a pointer of another epoch is forgotten.
CacheAfterLookup(c, e) == IF c.epoch # e THEN [NothingCached EXCEPT !.epoch = e] ELSE c

\* load: the value of a shard.
ShardValue(s) == IF shards[s] = 0 THEN 0 ELSE cells[shards[s]]

\* add, sub: load the epoch and look into the cache.
Begin(w, kind, s) ==
    /\ op[w].st = "idle"
    /\ histogram.seen = <<>>    \* the two metrics are explored apart
    /\ kind = "add" => active[s] < MaxActive /\ ShardValue(s) <= MaxActive
    /\ kind = "sub" => active[s] > 0
    /\ LET hit == CacheHit(cached[w], epoch, s)
       IN op' = [op EXCEPT ![w] =
                    [ st |-> IF hit THEN "apply" ELSE "lookup", kind |-> kind, shard |-> {s},
                      epoch |-> epoch, cell |-> IF hit THEN cached[w].cell ELSE 0, hit |-> hit ]]
    /\ cached' = [cached EXCEPT ![w] = CacheAfterLookup(cached[w], epoch)]
    /\ active' = IF kind = "sub" THEN [active EXCEPT ![s] = @ - 1] ELSE active
    /\ UNCHANGED <<shards, cells, epoch, resets, histogram>>

\* lookup_or_insert_ptr (add) and lookup_ptr (sub); a sub that finds no cell
\* returns.
LookUp(w) ==
    /\ op[w].st = "lookup"
    /\ \E s \in op[w].shard :
        \/ /\ shards[s] # 0
           /\ op' = [op EXCEPT ![w].st = "apply", ![w].cell = shards[s]]
           /\ UNCHANGED <<shards, cells>>
        \/ /\ shards[s] = 0
           /\ op[w].kind = "add"
           /\ Len(cells) < MaxCells
           /\ cells' = Append(cells, 0)
           /\ shards' = [shards EXCEPT ![s] = Len(cells) + 1]
           /\ op' = [op EXCEPT ![w].st = "apply", ![w].cell = Len(cells) + 1]
        \/ /\ shards[s] = 0
           /\ op[w].kind = "sub"
           /\ op' = [op EXCEPT ![w] = NoOp]
           /\ UNCHANGED <<shards, cells>>
    /\ UNCHANGED <<epoch, resets, cached, active, histogram>>

\* fetch_add and saturating_sub.
Applied(kind, v) == IF kind = "add" THEN v + 1 ELSE IF v = 0 THEN 0 ELSE v - 1

\* The cell is changed through the pointer, to no effect when it has been
\* removed from the map (its value no longer matters); cache_store remembers a pointer
\* that was looked up.
Apply(w) ==
    /\ op[w].st = "apply"
    /\ cells' = [c \in DOMAIN cells |-> IF c = op[w].cell /\ c \in Range(shards)
                                    THEN Applied(op[w].kind, cells[c]) ELSE cells[c]]
    /\ cached' = IF op[w].hit THEN cached
                 ELSE [cached EXCEPT ![w] = [epoch |-> op[w].epoch, shard |-> op[w].shard,
                                             cell |-> op[w].cell]]
    /\ active' = IF op[w].kind = "sub" THEN active
                 ELSE [s \in Workers |-> active[s] + IF s \in op[w].shard THEN 1 ELSE 0]
    /\ op' = [op EXCEPT ![w] = NoOp]
    /\ UNCHANGED <<shards, epoch, resets, histogram>>

-----------------------------------------------------------------------------
(* Resetting.                                                              *)

\* clear: every shard goes.
Clear ==
    /\ resets.st = "idle"
    /\ epoch < MaxResets
    /\ shards' = [s \in Workers |-> 0]
    /\ resets' = [st |-> "bump", ever |-> TRUE]
    /\ histogram' = NewHistogram(histogram.buckets)
    /\ cells' = [c \in DOMAIN cells |-> 0]
    /\ UNCHANGED <<epoch, cached, op, active>>

\* remove: one shard's cell; the epoch moves only when there was one.
RemoveShard(s) ==
    /\ resets.st = "idle"
    /\ epoch < MaxResets
    /\ shards[s] # 0
    /\ shards' = [shards EXCEPT ![s] = 0]
    /\ cells' = [cells EXCEPT ![shards[s]] = 0]
    /\ resets' = [st |-> "bump", ever |-> TRUE]
    /\ UNCHANGED <<epoch, cached, op, active, histogram>>

\* Mutant: the epoch stays.
NextEpochForgotten == epoch

NextEpoch == epoch + 1

Bump ==
    /\ resets.st = "bump"
    /\ epoch' = NextEpoch
    /\ resets' = [resets EXCEPT !.st = "idle"]
    /\ UNCHANGED <<shards, cells, cached, op, active, histogram>>

-----------------------------------------------------------------------------
(* Histograms.                                                             *)

\* Mutant: a value equal to a bound falls into the next bucket.
PartitionPointUpTo(b, v) == Cardinality({i \in DOMAIN b : b[i] <= v}) + 1

\* partition_point(|bound| bound < value), as a 1-based index.
PartitionPoint(b, v) == Cardinality({i \in DOMAIN b : b[i] < v}) + 1

\* record: the sum, the count, and the one bucket the value falls into.
Record(v) ==
    /\ op = [w \in Workers |-> NoOp] /\ cells = <<>> /\ resets.st = "idle"
    /\ Len(histogram.seen) < 2 * MaxActive
    /\ LET i == PartitionPoint(histogram.buckets, v)
       IN histogram' = [histogram EXCEPT
            !.sum = @ + v, !.count = @ + 1, !.seen = Append(@, v),
            !.counts = [j \in DOMAIN histogram.counts |-> histogram.counts[j] + IF j = i THEN 1 ELSE 0]]
    /\ UNCHANGED <<shards, cells, epoch, resets, cached, op, active>>

\* load_cumulative_counts: a running sum.
CumulativeCounts(h) ==
    LET sum[i \in 0 .. Len(h.counts)] == IF i = 0 THEN 0 ELSE sum[i - 1] + h.counts[i]
    IN sum

MetricsNext ==
    \/ \E w, s \in Workers, kind \in {"add", "sub"} : Begin(w, kind, s)
    \/ \E w \in Workers : LookUp(w) \/ Apply(w)
    \/ Clear
    \/ \E s \in Workers : RemoveShard(s)
    \/ Bump
    \/ \E v \in 0..MaxValue : Record(v)

MetricsSpec == MetricsInit /\ [][MetricsNext]_metricsVars

-----------------------------------------------------------------------------
SubsUnderWay(s) ==
    Cardinality({w \in Workers : op[w].kind = "sub" /\ s \in op[w].shard})

\* Until the first reset, a gauge is the number of transactions counted and
\* not yet discounted, whichever threads counted and discounted them: no
\* update goes to another shard's cell or is lost.
GaugeIsActive ==
    ~resets.ever => \A s \in Workers : ShardValue(s) = active[s] + SubsUnderWay(s)

\* Between resets a pointer that the caches still consider valid is the cell
\* in the map, whatever raced with the reset.
CachedIsInMap ==
    resets.st = "idle" =>
        \A w \in Workers : cached[w].cell # 0 /\ cached[w].epoch = epoch
            => \A s \in cached[w].shard : cached[w].cell = shards[s]

\* The cumulative counts a scrape shows are ranks: as many observations as
\* are at most the bound.
CumulativeIsRank ==
    \A i \in DOMAIN histogram.counts :
        CumulativeCounts(histogram)[i] =
            Cardinality({k \in DOMAIN histogram.seen : histogram.seen[k] <= histogram.buckets[i]})

\* The counters can be believed.
MetricsAccounted == GaugeIsActive /\ CachedIsInMap /\ CumulativeIsRank

\* sharded.rs:248 says of a cached pointer about to be used: "`epoch` matches,
\* so this entry has not been cleared/removed": at the moment a look-up finds
\* it valid, it is the cell in the map.
HitIsInMap ==
    [][\A w \in Workers :
        op[w].st # "apply" /\ op'[w].st = "apply" /\ op'[w].hit
            => \A s \in op'[w].shard : op'[w].cell = shards[s]]_metricsVars
=============================================================================
