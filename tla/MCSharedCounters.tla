------------------------- MODULE MCSharedCounters -------------------------
(* The counters that threads share without a lock: the circuit breakers    *)
(* behind the cached clusters map, the connection limit of a filter chain, *)
(* the token bucket and the slots of upstream connections. They have no    *)
(* state in common, so a behaviour moves one of them, `part`, and leaves   *)
(* the others in their initial states.                                     *)
EXTENDS CircuitBreakers, ConnectionLimit, TokenBucket, UpstreamConnections, TLC

VARIABLE part

CountersInit ==
    /\ part \in {"breakers", "limit", "bucket", "dials"}
    /\ BreakerInit
    /\ LimitInit /\ (part # "limit" => limit = MaxLimit)
    /\ BucketInit /\ (part # "bucket" => from = 0)
    /\ DialInit

CountersNext ==
    /\ \/ part = "breakers" /\ BreakerNext /\ UNCHANGED <<limitVars, bucketVars, dialVars>>
       \/ part = "limit" /\ LimitNext /\ UNCHANGED <<vars, bucketVars, dialVars>>
       \/ part = "bucket" /\ BucketNext /\ UNCHANGED <<vars, limitVars, dialVars>>
       \/ part = "dials" /\ DialNext /\ UNCHANGED <<vars, limitVars, bucketVars>>
    /\ UNCHANGED part

countersVars == <<part, vars, limitVars, bucketVars, dialVars>>

CountersSpec == CountersInit /\ [][CountersNext]_countersVars

\* The threads and the requests are interchangeable; the other components use the same values.
Symmetry == Permutations(Threads) \cup Permutations(Requests)
=============================================================================
