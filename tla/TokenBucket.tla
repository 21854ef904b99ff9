----------------------------- MODULE TokenBucket -----------------------------
(***************************************************************************)
(* The lock-free token bucket of the local rate limiters                   *)
(* (listeners/rate_limiter/token_bucket.rs): the bucket is one atomic      *)
(* timestamp, which every consumed token moves by time_per_token towards   *)
(* the present. Workers share it and update it with a compare-exchange     *)
(* loop; the clock is read once, before the loop.                          *)
(***************************************************************************)
EXTENDS Integers

CONSTANTS
    Workers,        \* the threads that consume from this bucket
    MaxTokens,      \* max_tokens
    TokensPerFill,  \* tokens_per_fill
    FillInterval,   \* the configured fill_interval
    NumRuntimes,    \* runtime_config().num_runtimes
    MaxTime         \* bound: the last instant

ASSUME BucketAssumption ==
    /\ {MaxTokens, TokensPerFill, FillInterval, NumRuntimes} \subseteq Nat \ {0}
    /\ MaxTime \in Nat

VARIABLES
    clock,    \* Instant::now()
    time,     \* TokenBucket::time
    worker,   \* worker[w]: [pc, now, old]
    from,     \* history: the start of the window that is observed
    granted   \* history: tokens granted to requests that came since `from`

bucketVars == <<clock, time, worker, from, granted>>

\* build_token_bucket and TokenBucket::new. Durations divide rounding down.
AdjustedInterval == FillInterval * NumRuntimes
TimePerToken == AdjustedInterval \div TokensPerFill
TimePerBucket == (MaxTokens * AdjustedInterval) \div TokensPerFill

IdleWorker == [pc |-> "idle", now |-> 0, old |-> 0]

(* The bucket's time is never in the future, where it would refuse tokens  *)
(* that are due, and no request reads it there.                            *)
BucketTypeOK ==
    /\ clock \in 0..MaxTime
    /\ time \in Int
    /\ time <= clock
    /\ from \in 0..MaxTime
    /\ granted \in Nat
    /\ worker \in [Workers -> [pc : {"idle", "called", "loop"}, now : 0..MaxTime, old : Int]]
    /\ \A w \in Workers : worker[w].now <= clock /\ worker[w].old <= clock

\* TokenBucket::new: a full bucket.
BucketInit ==
    /\ clock = 0
    /\ time = -2 * TimePerBucket
    /\ worker = [w \in Workers |-> IdleWorker]
    /\ from \in 0..MaxTime
    /\ granted = 0

----------------------------------------------------------------------------

Tick ==
    /\ clock < MaxTime
    /\ clock' = clock + 1
    /\ UNCHANGED <<time, worker, from, granted>>

\* A request: the clock is read.
Consume(w) ==
    /\ worker[w].pc = "idle"
    /\ worker' = [worker EXCEPT ![w] = [pc |-> "called", now |-> clock, old |-> 0]]
    /\ UNCHANGED <<clock, time, from, granted>>

\* The time is loaded.
Load(w) ==
    /\ worker[w].pc = "called"
    /\ worker' = [worker EXCEPT ![w] = [pc |-> "loop", now |-> worker[w].now, old |-> time]]
    /\ UNCHANGED <<clock, time, from, granted>>

\* Mutant: what was not consumed accumulates without limit.
NewTimeUncapped(old, now) == old + TimePerToken

\* The time after one token more, and at most one bucket behind the request.
NewTime(old, now) ==
    (IF now - TimePerBucket > old THEN now - TimePerBucket ELSE old) + TimePerToken

\* Mutant: a token that is due one instant later is granted too.
FitsEarly(old, now) == NewTime(old, now) <= now + 1

Fits(old, now) == NewTime(old, now) <= now

\* consume returns false.
Deny(w) ==
    /\ worker[w].pc = "loop"
    /\ ~Fits(worker[w].old, worker[w].now)
    /\ worker' = [worker EXCEPT ![w] = IdleWorker]
    /\ UNCHANGED <<clock, time, from, granted>>

\* Mutant: the new time is stored whatever the bucket has now.
ExchangesBlindly(w) == TRUE

Exchanges(w) == time = worker[w].old

\* compare_exchange_weak succeeds: consume returns true.
Grant(w) ==
    /\ worker[w].pc = "loop"
    /\ Fits(worker[w].old, worker[w].now)
    /\ Exchanges(w)
    /\ time' = NewTime(worker[w].old, worker[w].now)
    /\ granted' = IF worker[w].now >= from THEN granted + 1 ELSE granted
    /\ worker' = [worker EXCEPT ![w] = IdleWorker]
    /\ UNCHANGED <<clock, from>>

\* compare_exchange_weak fails, perhaps spuriously: the loop goes on.
Retry(w) ==
    /\ worker[w].pc = "loop"
    /\ Fits(worker[w].old, worker[w].now)
    /\ worker' = [worker EXCEPT ![w] = [pc |-> "loop", now |-> worker[w].now, old |-> time]]
    /\ UNCHANGED <<clock, time, from, granted>>

WorkerStep(w) == Consume(w) \/ Load(w) \/ Deny(w) \/ Grant(w) \/ Retry(w)

BucketNext == Tick \/ \E w \in Workers : WorkerStep(w)

BucketSpec == BucketInit /\ [][BucketNext]_bucketVars

----------------------------------------------------------------------------

(* Whatever the workers race for, and however late a worker exchanges the  *)
(* time it computed: the requests since any instant have got no more       *)
(* tokens than a full bucket and the refill since that instant.            *)
RateBounded == granted > 0 => granted * TimePerToken <= TimePerBucket + (clock - from)

(* The bucket's time never goes back, which would grant a token twice.     *)
TimeNeverBack == [][time' >= time]_bucketVars
=============================================================================
