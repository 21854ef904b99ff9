----------------------------- MODULE RateLimits -----------------------------
(***************************************************************************)
(* The limiters whose state every runtime shares through a process-wide    *)
(* map: the quota of the rate limit service                                *)
(* (rate_limiter/global_rate_limiter.rs) and the buckets of users          *)
(* (http_connection_manager/user_rate_limiter.rs).  A connection or        *)
(* request is a task; loads, stores and fetch-and-adds are steps of their  *)
(* own, and so are the calls of the service.  The token buckets themselves *)
(* are TokenBucket's: here a bucket is the number of tokens it has left.   *)
(***************************************************************************)
EXTENDS Integers, FiniteSets

CONSTANTS
    LimitTasks,      \* connections and requests to check
    MaxGrant,        \* largest quota the service grants
    MaxGrants,       \* bound on the number of grants
    BucketSize,      \* max_tokens of a user's bucket
    FailureModeDeny, \* failure_mode_deny
    NoTask           \* nobody holds the update lock

ASSUME RateLimitsAssumption ==
    /\ {MaxGrant, MaxGrants, BucketSize} \subseteq Nat \ {0}
    /\ FailureModeDeny \in BOOLEAN
    /\ NoTask \notin LimitTasks
    /\ IsFiniteSet(LimitTasks)

VARIABLES
    quota,           \* the QuotaBucket of a domain, its lock, and the grants
    user,            \* the bucket of a user in USER_RATE_LIMITERS
    lt               \* lt[t]: where the task t stands and what it was granted

limitVars == <<quota, user, lt>>

NewTask == [st |-> "idle", grant |-> 0, early |-> FALSE]

LimitsInit ==
    /\ quota = [ present |-> FALSE, remaining |-> 0, valid |-> FALSE, lock |-> NoTask,
                 granted |-> 0, grants |-> 0, admitted |-> 0 ]
    /\ user = [present |-> FALSE, tokens |-> 0, made |-> 0, admitted |-> 0]
    /\ lt = [t \in LimitTasks |-> NewTask]

Goto(t, st) == lt' = [lt EXCEPT ![t].st = st]

Admit(q) == [q EXCEPT !.admitted = @ + 1]

-----------------------------------------------------------------------------
(* NetworkGlobalRateLimit::check.  The time is read once, so a quota that  *)
(* was valid on arrival stays so for the task.  try_consume loads the      *)
(* expiry, and only then subtracts; the count goes below zero when there   *)
(* is nothing left.                                                        *)
Arrive(t) ==
    /\ lt[t].st = "idle"
    /\ lt' = [lt EXCEPT ![t].st = IF quota.present THEN "expiry" ELSE "call",
                        ![t].early = quota.valid]
    /\ UNCHANGED <<quota, user>>

LoadExpiry(t) ==
    /\ lt[t].st \in {"expiry", "recheck"}
    /\ LET again == lt[t].st = "recheck"
           valid == quota.valid \/ lt[t].early
       IN Goto(t, IF valid THEN (IF again THEN "resubtract" ELSE "subtract")
                  ELSE (IF again THEN "call" ELSE "lock"))
    /\ UNCHANGED <<quota, user>>

(* Mutant: a quota that is used up still lets one task through.            *)
ConsumedAtZero(remaining) == remaining >= 0

Consumed(remaining) == remaining > 0

Subtract(t) ==
    /\ lt[t].st \in {"subtract", "resubtract"}
    /\ LET taken == Consumed(quota.remaining)
           again == lt[t].st = "resubtract"
           q == [quota EXCEPT !.remaining = @ - 1,
                              !.lock = IF taken /\ again THEN NoTask ELSE @]
       IN /\ quota.remaining > -(2 * Cardinality(LimitTasks))
          /\ quota' = IF taken THEN Admit(q) ELSE q
          /\ Goto(t, IF taken THEN "done" ELSE IF again THEN "call" ELSE "lock")
    /\ UNCHANGED user

(* update_lock: one task refreshes, the others wait and check again with   *)
(* the time they read before they waited.                                  *)
Lock(t) ==
    /\ lt[t].st = "lock"
    /\ quota.lock = NoTask
    /\ quota' = [quota EXCEPT !.lock = t]
    /\ Goto(t, "recheck")
    /\ UNCHANGED user

Unlocked(q, t) == [q EXCEPT !.lock = IF @ = t THEN NoTask ELSE @]

(* The service answers: over the limit, within it, or within it with a     *)
(* quota for the requests to come, the calling one included.               *)
ServiceAnswers(t) ==
    /\ lt[t].st = "call"
    /\ \/ /\ quota' = Unlocked(quota, t)
          /\ Goto(t, "refused")
       \/ /\ quota' = Unlocked(quota, t)
          /\ Goto(t, "done")
       \/ /\ quota.grants < MaxGrants
          /\ \E n \in 1 .. MaxGrant :
               /\ lt' = [lt EXCEPT ![t].st = "valid", ![t].grant = n]
               /\ quota' = [quota EXCEPT !.present = TRUE, !.grants = @ + 1, !.granted = @ + n]
    /\ UNCHANGED user

ServiceFails(t) ==
    /\ lt[t].st = "call"
    /\ quota' = Unlocked(quota, t)
    /\ Goto(t, IF FailureModeDeny THEN "refused" ELSE "done")
    /\ UNCHANGED user

(* Mutant: the quota is given out in full beside the call that asked.      *)
QuotaInFull(n) == n

(* extract_quota: the request that called the service has used one.        *)
ExtractQuota(n) == n - 1

(* The two stores of a grant; the expiry is the first of them.  The answer *)
(* that brought it is judged after them: it may be over the limit.         *)
StoreValidUntil(t) ==
    /\ lt[t].st = "valid"
    /\ quota' = [quota EXCEPT !.valid = TRUE]
    /\ Goto(t, "remaining")
    /\ UNCHANGED user

StoreRemaining(t) ==
    /\ lt[t].st = "remaining"
    /\ LET q == Unlocked([quota EXCEPT !.remaining = ExtractQuota(lt[t].grant)], t)
       IN \/ quota' = Admit(q) /\ Goto(t, "done")
          \/ quota' = q /\ Goto(t, "refused")
    /\ UNCHANGED user

Expire ==
    /\ quota.valid
    /\ quota' = [quota EXCEPT !.valid = FALSE]
    /\ UNCHANGED <<user, lt>>

-----------------------------------------------------------------------------
(* UserRateLimiter::apply_request of a user who has a limit; a missing,    *)
(* empty or overlong user id, or no configured limit, is let through.      *)
UserArrives(t) ==
    /\ lt[t].st = "idle"
    /\ \/ Goto(t, "passed") /\ UNCHANGED user
       \/ /\ user.present
          /\ user' = IF user.tokens > 0
                     THEN [user EXCEPT !.tokens = @ - 1, !.admitted = @ + 1] ELSE user
          /\ Goto(t, IF user.tokens > 0 THEN "done" ELSE "refused")
       \/ ~user.present /\ Goto(t, "new_bucket") /\ UNCHANGED user
    /\ UNCHANGED quota

(* Mutant: the bucket made for the request replaces the one in the map.    *)
BucketReplaced == [user EXCEPT !.present = TRUE, !.tokens = BucketSize, !.made = @ + 1]

(* get_or_insert: the winner's bucket is used.                             *)
BucketOrInsert ==
    IF user.present THEN user
    ELSE [user EXCEPT !.present = TRUE, !.tokens = BucketSize, !.made = @ + 1]

InsertBucket(t) ==
    /\ lt[t].st = "new_bucket"
    /\ LET b == BucketOrInsert
       IN /\ user' = IF b.tokens > 0 THEN [b EXCEPT !.tokens = @ - 1, !.admitted = @ + 1] ELSE b
          /\ Goto(t, IF b.tokens > 0 THEN "done" ELSE "refused")
    /\ UNCHANGED quota

(* The cleaner forgets a bucket nobody used for a minute, by when it has   *)
(* been refilled, and what was admitted before no longer counts.           *)
CleanBucket ==
    /\ user.present
    /\ user' = [present |-> FALSE, tokens |-> 0, made |-> 0, admitted |-> 0]
    /\ UNCHANGED <<quota, lt>>

LimitsNext ==
    \/ Expire \/ CleanBucket
    \/ \E t \in LimitTasks :
         \/ Arrive(t) \/ LoadExpiry(t) \/ Subtract(t) \/ Lock(t)
         \/ ServiceAnswers(t) \/ ServiceFails(t)
         \/ StoreValidUntil(t) \/ StoreRemaining(t)
         \/ UserArrives(t) \/ InsertBucket(t)

LimitsSpec == LimitsInit /\ [][LimitsNext]_limitVars

-----------------------------------------------------------------------------
(* What the quota admits, with the calls that brought it, is never more    *)
(* than the service granted: however the subtractions, the two stores of a *)
(* grant and the herd of first calls interleave.                           *)
QuotaNotExceeded == quota.admitted <= quota.granted

(* A user's bucket is created once, however many requests find none, and   *)
(* no more are admitted on it than it holds.                               *)
UserBudgetKept == user.admitted <= BucketSize /\ user.made <= 1

(* Nobody is admitted beyond a quota or a user's budget, however requests, *)
(* grants and cleanups interleave.                                         *)
QuotasKept == QuotaNotExceeded /\ UserBudgetKept
=============================================================================
