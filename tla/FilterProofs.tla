---------------------------- MODULE FilterProofs ----------------------------
(***************************************************************************)
(* Proofs about the HTTP filters that keep state between requests: the     *)
(* quotas and buckets of the rate limits (RateLimits), for every number of *)
(* tasks and every grant and bucket; the filters that admit requests       *)
(* (HttpAuthFilters), for every lifetime of keys, tokens and cookies and   *)
(* every number of logins; and the instances of a WebAssembly plugin       *)
(* (WasmFilter), for every plugin, every number of transactions and of     *)
(* instances and every size of the pool, with what its SDK reads and       *)
(* mutates, for every buffer and value (WasmHostCalls), and the variables  *)
(* its instances share, for every number of guests and width of a word.    *)
(* And about what is observed of requests: the gauges, for every number of *)
(* threads, and the histograms, for every choice of bounds (MetricsShards), *)
(* and the lines of the access log (AccessLog), for every format and every *)
(* number of threads and of loggers.                                       *)
(***************************************************************************)
EXTENDS MCFilters, Induction, FiniteSetTheorems, SequenceTheorems, TLAPS

-----------------------------------------------------------------------------
(* RateLimits.                                                             *)

TaskRecords ==
    [st : {"idle", "expiry", "recheck", "subtract", "resubtract", "lock", "call", "valid",
           "remaining", "done", "refused", "passed", "new_bucket"},
     grant : 0 .. MaxGrant, early : BOOLEAN]

QuotaRecords ==
    [present : BOOLEAN, remaining : Int, valid : BOOLEAN, lock : LimitTasks \cup {NoTask},
     granted : Nat, grants : Nat, admitted : Nat]

UserRecords == [present : BOOLEAN, tokens : Nat, made : Nat, admitted : Nat]

LimitsShape ==
    /\ lt \in [LimitTasks -> TaskRecords]
    /\ quota \in QuotaRecords
    /\ user \in UserRecords

(* The grants that tasks have been given and have not stored yet, one       *)
(* element for each request they are good for.                              *)
Storing(x) == x.st \in {"valid", "remaining"}
Share(t, n) == {p \in {t} \X (1 .. MaxGrant) : p[2] <= n}
Owed == {p \in LimitTasks \X (1 .. MaxGrant) : Storing(lt[p[1]]) /\ p[2] <= lt[p[1]].grant}

(* What was granted covers what was admitted, what is left in the quota and *)
(* what is on its way into it. A store of a grant forgets what was left.    *)
QuotaCovered ==
    /\ quota.admitted + Cardinality(Owed) <= quota.granted
    /\ quota.admitted + quota.remaining + Cardinality(Owed) <= quota.granted

(* The tokens of a user's bucket and the requests admitted on it make it    *)
(* full; nothing was made or admitted when there is none.                   *)
BucketCovered ==
    /\ user.present => user.made = 1 /\ user.tokens + user.admitted = BucketSize
    /\ ~user.present => user.made = 0 /\ user.admitted = 0

(* No grant is empty: the call that brings it is paid from it. *)
GrantsPay == \A t \in LimitTasks : Storing(lt[t]) => lt[t].grant >= 1

LimitsInv == LimitsShape /\ GrantsPay /\ QuotaCovered /\ BucketCovered

-----------------------------------------------------------------------------

(* A grant for n requests is n elements. *)
LEMMA ShareSize ==
  ASSUME NEW t, NEW n \in 0 .. MaxGrant
  PROVE  IsFiniteSet(Share(t, n)) /\ Cardinality(Share(t, n)) = n
<1>0. MaxGrant \in Nat /\ n \in Nat
  BY RateLimitsAssumption
<1> DEFINE f == [i \in 1 .. n |-> <<t, i>>]
<1>1. f \in [1 .. n -> Share(t, n)]
  BY <1>0 DEF Share
<1>2. \A i, j \in 1 .. n : f[i] = f[j] => i = j
  OBVIOUS
<1>3. \A p \in Share(t, n) : \E i \in 1 .. n : f[i] = p
  <2> SUFFICES ASSUME NEW p \in Share(t, n) PROVE \E i \in 1 .. n : f[i] = p
    OBVIOUS
  <2>1. p = <<t, p[2]>> /\ p[2] \in 1 .. n
    BY <1>0 DEF Share
  <2> QED BY <2>1
<1> HIDE DEF f
<1>4. f \in Bijection(1 .. n, Share(t, n))
  BY <1>1, <1>2, <1>3 DEF Bijection, Injection, Surjection, IsInjective
<1>5. ExistsBijection(1 .. n, Share(t, n))
  BY <1>4 DEF ExistsBijection
<1>6. IsFiniteSet(1 .. n) /\ Cardinality(1 .. n) = n
  BY <1>0, FS_Interval
<1> QED BY <1>5, <1>6, FS_Bijection

(* What is owed is finite. *)
LEMMA OwedFinite ==
  IsFiniteSet(Owed) /\ Cardinality(Owed) \in Nat
<1>1. IsFiniteSet(LimitTasks) /\ IsFiniteSet(1 .. MaxGrant)
  BY RateLimitsAssumption, FS_Interval
<1>2. IsFiniteSet(LimitTasks \X (1 .. MaxGrant))
  BY <1>1, FS_Product
<1>3. IsFiniteSet(Owed)
  BY <1>2, FS_Subset DEF Owed
<1> QED BY <1>3, FS_CardinalityType

(* The requests that the grant in a task's record is good for. *)
OwedBy(x) == IF Storing(x) THEN x.grant ELSE 0

(* A step of one task changes what is owed by that task's share. *)
LEMMA OwedMoves ==
  ASSUME LimitsShape, lt' \in [LimitTasks -> TaskRecords], NEW t \in LimitTasks,
         \A u \in LimitTasks \ {t} : lt'[u] = lt[u]
  PROVE  /\ Cardinality(Owed) \in Nat /\ Cardinality(Owed') \in Nat
         /\ OwedBy(lt[t]) \in Nat /\ OwedBy(lt'[t]) \in Nat
         /\ Cardinality(Owed') + OwedBy(lt[t]) = Cardinality(Owed) + OwedBy(lt'[t])
<1> DEFINE rest == {p \in Owed : p[1] # t}
           m == OwedBy(lt[t])
           n == OwedBy(lt'[t])
<1>0. lt \in [LimitTasks -> TaskRecords] /\ MaxGrant \in Nat
  BY RateLimitsAssumption DEF LimitsShape
<1>1. m \in 0 .. MaxGrant /\ n \in 0 .. MaxGrant /\ m \in Nat /\ n \in Nat
  BY <1>0 DEF OwedBy, TaskRecords
<1>2. IsFiniteSet(rest) /\ Cardinality(rest) \in Nat
  BY OwedFinite, FS_Subset, FS_CardinalityType
<1>3. Owed = rest \cup Share(t, m)
  BY <1>0, <1>1 DEF Owed, Share, OwedBy
<1>4. Owed' = rest \cup Share(t, n)
  BY <1>0, <1>1 DEF Owed, Share, OwedBy
<1>5. rest \cap Share(t, m) = {} /\ rest \cap Share(t, n) = {}
  BY DEF Share
<1> HIDE DEF rest, m, n
<1>6. Cardinality(Owed) = Cardinality(rest) + m
  BY <1>1, <1>2, <1>3, <1>5, ShareSize, FS_Union, FS_EmptySet
<1>7. Cardinality(Owed') = Cardinality(rest) + n
  <2>1. IsFiniteSet(Share(t, n)) /\ Cardinality(Share(t, n)) = n
    BY <1>1, ShareSize
  <2>2. Cardinality(rest \cup Share(t, n))
          = Cardinality(rest) + Cardinality(Share(t, n)) - Cardinality(rest \cap Share(t, n))
    BY <2>1, <1>2, FS_Union
  <2>3. Cardinality(rest \cap Share(t, n)) = 0
    BY <1>5, FS_EmptySet
  <2> QED BY <2>1, <2>2, <2>3, <1>1, <1>2, <1>4
<1> QED BY <1>1, <1>2, <1>6, <1>7 DEF m, n

-----------------------------------------------------------------------------

(* A step of t: the records of the other tasks stay, and t's is one that    *)
(* has a grant when it is to store one.                                     *)
TaskMoves(t) ==
    /\ lt' \in [LimitTasks -> TaskRecords]
    /\ \A u \in LimitTasks \ {t} : lt'[u] = lt[u]
    /\ Storing(lt'[t]) => lt'[t].grant >= 1

(* The steps of a task keep the invariant if they keep the types and pay   *)
(* for what they admit, whatever the other tasks are owed.                 *)
LEMMA TaskStepKeeps ==
  ASSUME LimitsInv, NEW t \in LimitTasks, TaskMoves(t),
         quota' \in QuotaRecords, user' \in UserRecords, BucketCovered',
         \A owed \in Nat :
            /\ quota.admitted + owed + OwedBy(lt[t]) <= quota.granted
            /\ quota.admitted + quota.remaining + owed + OwedBy(lt[t]) <= quota.granted
            => /\ quota'.admitted + owed + OwedBy(lt'[t]) <= quota'.granted
               /\ quota'.admitted + quota'.remaining + owed + OwedBy(lt'[t]) <= quota'.granted
  PROVE  LimitsInv'
<1> DEFINE q == quota'
           x == lt'[t]
<1>1. /\ lt \in [LimitTasks -> TaskRecords] /\ lt' \in [LimitTasks -> TaskRecords]
      /\ lt'[t] = x /\ \A u \in LimitTasks \ {t} : lt'[u] = lt[u]
  BY DEF LimitsInv, LimitsShape, TaskMoves
<1>2. LimitsShape'
  BY <1>1 DEF LimitsShape
<1>3. /\ Cardinality(Owed) \in Nat /\ Cardinality(Owed') \in Nat
      /\ OwedBy(lt[t]) \in Nat /\ OwedBy(x) \in Nat
      /\ Cardinality(Owed') + OwedBy(lt[t]) = Cardinality(Owed) + OwedBy(x)
  BY <1>1, OwedMoves DEF LimitsInv
<1>4. /\ quota.admitted + Cardinality(Owed) <= quota.granted
      /\ quota.admitted + quota.remaining + Cardinality(Owed) <= quota.granted
      /\ quota.admitted \in Nat /\ quota.remaining \in Int /\ quota.granted \in Nat
      /\ q.admitted \in Nat /\ q.remaining \in Int /\ q.granted \in Nat
  BY DEF LimitsInv, LimitsShape, QuotaCovered, QuotaRecords
<1>5. OwedBy(lt[t]) <= Cardinality(Owed)
  <2>1. OwedBy(lt[t]) \in 0 .. MaxGrant
    BY <1>1, RateLimitsAssumption DEF OwedBy, TaskRecords
  <2>2. Share(t, OwedBy(lt[t])) \subseteq Owed
    BY <1>1, <2>1, RateLimitsAssumption DEF Share, Owed, OwedBy
  <2> QED BY <2>1, <2>2, ShareSize, OwedFinite, FS_Subset
<1>6. QuotaCovered'
  <2> DEFINE owed == Cardinality(Owed) - OwedBy(lt[t])
  <2>1. owed \in Nat /\ Cardinality(Owed) = owed + OwedBy(lt[t]) /\ Cardinality(Owed') = owed + OwedBy(x)
    BY <1>3, <1>5
  <2> HIDE DEF owed
  <2>2. /\ q.admitted + owed + OwedBy(x) <= q.granted
        /\ q.admitted + q.remaining + owed + OwedBy(x) <= q.granted
    BY <1>3, <1>4, <2>1
  <2> QED BY <1>3, <1>4, <2>1, <2>2 DEF QuotaCovered
<1>7. GrantsPay'
  BY <1>1 DEF LimitsInv, GrantsPay, TaskMoves, Storing
<1> QED BY <1>2, <1>6, <1>7 DEF LimitsInv

(* What Goto does to the record of its task. *)
LEMMA GoneTo ==
  ASSUME LimitsInv, NEW t \in LimitTasks, NEW st, Goto(t, st),
         [st |-> st, grant |-> 0, early |-> FALSE] \in TaskRecords,
         st \in {"valid", "remaining"} => lt[t].st = "valid"
  PROVE  /\ TaskMoves(t)
         /\ lt[t] \in TaskRecords /\ lt[t].grant \in 0 .. MaxGrant /\ lt[t].grant \in Nat
         /\ lt'[t].st = st /\ lt'[t].grant = lt[t].grant
<1>1. /\ lt' \in [LimitTasks -> TaskRecords]
      /\ \A u \in LimitTasks \ {t} : lt'[u] = lt[u]
      /\ lt[t] \in TaskRecords /\ lt[t].grant \in 0 .. MaxGrant
      /\ lt'[t].st = st /\ lt'[t].grant = lt[t].grant
  BY DEF Goto, LimitsInv, LimitsShape, TaskRecords
<1>2. Storing(lt'[t]) => lt'[t].grant >= 1
  BY <1>1 DEF LimitsInv, GrantsPay, Storing
<1> QED BY <1>1, <1>2, RateLimitsAssumption DEF TaskMoves

(* The arithmetic of the counters. *)
LEMMA QuotaNumbers ==
  ASSUME LimitsInv
  PROVE  /\ quota \in QuotaRecords /\ user \in UserRecords
         /\ quota.admitted \in Nat /\ quota.remaining \in Int /\ quota.granted \in Nat
         /\ quota.grants \in Nat /\ quota.lock \in LimitTasks \cup {NoTask}
  BY DEF LimitsInv, LimitsShape, QuotaRecords

(* What steps do to a quota beside releasing the lock and admitting one. *)
LessOne(q, lock) == [q EXCEPT !.remaining = @ - 1, !.lock = lock]
More(q, n) == [q EXCEPT !.present = TRUE, !.grants = @ + 1, !.granted = @ + n]

(* They keep the type of a quota and change one number each. *)
LEMMA QuotaChanges ==
  ASSUME NEW q \in QuotaRecords, NEW n \in Nat, NEW lock \in LimitTasks \cup {NoTask}
  PROVE  /\ LessOne(q, lock) \in QuotaRecords /\ LessOne(q, lock).remaining = q.remaining - 1
         /\ LessOne(q, lock).admitted = q.admitted /\ LessOne(q, lock).granted = q.granted
         /\ More(q, n) \in QuotaRecords /\ More(q, n).remaining = q.remaining
         /\ More(q, n).admitted = q.admitted /\ More(q, n).granted = q.granted + n
<1>1. /\ q.remaining \in Int /\ q.grants \in Nat /\ q.granted \in Nat
      /\ q.remaining - 1 \in Int /\ q.grants + 1 \in Nat /\ q.granted + n \in Nat
  BY DEF QuotaRecords
<1>2. /\ LessOne(q, lock) \in QuotaRecords /\ LessOne(q, lock).remaining = q.remaining - 1
      /\ LessOne(q, lock).admitted = q.admitted /\ LessOne(q, lock).granted = q.granted
  BY <1>1 DEF QuotaRecords, LessOne
<1>3. /\ More(q, n) \in QuotaRecords /\ More(q, n).remaining = q.remaining
      /\ More(q, n).admitted = q.admitted /\ More(q, n).granted = q.granted + n
  BY <1>1 DEF QuotaRecords, More
<1> QED BY <1>2, <1>3

(* A request on a user's bucket takes a token and is admitted, or neither; *)
(* a bucket is made full.                                                  *)
OnBucket(b) == IF b.tokens > 0 THEN [b EXCEPT !.tokens = @ - 1, !.admitted = @ + 1] ELSE b

NewBucket(u) == [u EXCEPT !.present = TRUE, !.tokens = BucketSize, !.made = @ + 1]

(* A new bucket holds its tokens and has admitted nobody new. *)
LEMMA BucketMade ==
  ASSUME NEW u \in UserRecords
  PROVE  /\ NewBucket(u) \in UserRecords /\ NewBucket(u).present
         /\ NewBucket(u).tokens = BucketSize /\ NewBucket(u).made = u.made + 1
         /\ NewBucket(u).admitted = u.admitted
<1>1. u.made \in Nat /\ u.made + 1 \in Nat /\ BucketSize \in Nat
  BY RateLimitsAssumption DEF UserRecords
<1> QED BY <1>1 DEF NewBucket, UserRecords

(* A token leaves the bucket for an admission. *)
LEMMA BucketUsed ==
  ASSUME NEW b \in UserRecords
  PROVE  /\ OnBucket(b) \in UserRecords
         /\ OnBucket(b).present = b.present /\ OnBucket(b).made = b.made
         /\ OnBucket(b).tokens + OnBucket(b).admitted = b.tokens + b.admitted
<1>1. b.tokens \in Nat /\ b.admitted \in Nat /\ b.admitted + 1 \in Nat
  BY DEF UserRecords
<1>2. CASE b.tokens > 0
  <2>1. b.tokens - 1 \in Nat
    BY <1>1, <1>2
  <2>2. OnBucket(b) = [b EXCEPT !.tokens = @ - 1, !.admitted = @ + 1]
    BY <1>2 DEF OnBucket
  <2>3. /\ OnBucket(b) \in UserRecords /\ OnBucket(b).tokens = b.tokens - 1
        /\ OnBucket(b).admitted = b.admitted + 1
        /\ OnBucket(b).present = b.present /\ OnBucket(b).made = b.made
    BY <1>1, <2>1, <2>2 DEF UserRecords
  <2> QED BY <1>1, <2>3
<1>3. CASE ~(b.tokens > 0)
  BY <1>3 DEF OnBucket
<1> QED BY <1>2, <1>3

(* Releasing the lock and admitting one. *)
LEMMA QuotaUpdates ==
  ASSUME NEW q \in QuotaRecords, NEW t
  PROVE  /\ Unlocked(q, t) \in QuotaRecords /\ Unlocked(q, t).remaining = q.remaining
         /\ Unlocked(q, t).admitted = q.admitted /\ Unlocked(q, t).granted = q.granted
         /\ Admit(q) \in QuotaRecords /\ Admit(q).remaining = q.remaining
         /\ Admit(q).admitted = q.admitted + 1 /\ Admit(q).granted = q.granted
  BY DEF Unlocked, Admit, QuotaRecords

(* Every step keeps the invariant. *)
LEMMA LimitsStep == LimitsInv /\ [LimitsNext]_limitVars => LimitsInv'
<1> SUFFICES ASSUME LimitsInv, [LimitsNext]_limitVars PROVE LimitsInv'
  OBVIOUS
<1>0. /\ quota \in QuotaRecords /\ user \in UserRecords
      /\ quota.admitted \in Nat /\ quota.remaining \in Int /\ quota.granted \in Nat
      /\ quota.grants \in Nat
  BY QuotaNumbers
<1>1. CASE UNCHANGED limitVars
  BY <1>1 DEF limitVars, LimitsInv, LimitsShape, GrantsPay, QuotaCovered, BucketCovered, Owed
<1>2. CASE Expire
  <2>1. /\ lt' = lt /\ user' = user /\ quota' \in QuotaRecords
        /\ quota'.admitted = quota.admitted /\ quota'.remaining = quota.remaining
        /\ quota'.granted = quota.granted
    BY <1>0, <1>2 DEF Expire, QuotaRecords
  <2> QED BY <2>1 DEF LimitsInv, LimitsShape, GrantsPay, QuotaCovered, BucketCovered, Owed
<1>3. CASE CleanBucket
  <2>1. /\ lt' = lt /\ quota' = quota /\ user' \in UserRecords
        /\ user'.present = FALSE /\ user'.made = 0 /\ user'.admitted = 0
    BY <1>3 DEF CleanBucket, UserRecords
  <2> QED BY <2>1 DEF LimitsInv, LimitsShape, GrantsPay, QuotaCovered, BucketCovered, Owed
<1>4. ASSUME NEW t \in LimitTasks, Arrive(t) \/ LoadExpiry(t) PROVE LimitsInv'
  <2>1. TaskMoves(t) /\ OwedBy(lt[t]) = 0 /\ OwedBy(lt'[t]) = 0 /\ UNCHANGED <<quota, user>>
    <3>1. CASE Arrive(t)
      <4> DEFINE st == IF quota.present THEN "expiry" ELSE "call"
                 x == [lt[t] EXCEPT !.st = st, !.early = quota.valid]
      <4>1. lt \in [LimitTasks -> TaskRecords] /\ quota.valid \in BOOLEAN
        BY DEF LimitsInv, LimitsShape, QuotaRecords
      <4>2. st \in {"expiry", "call"}
        OBVIOUS
      <4>3. lt[t].st = "idle" /\ UNCHANGED <<quota, user>> /\ lt' = [lt EXCEPT ![t] = x]
        BY <3>1 DEF Arrive
      <4> HIDE DEF st
      <4>4. x \in TaskRecords /\ x.st = st
        BY <4>1, <4>2 DEF TaskRecords
      <4> HIDE DEF x
      <4>5. lt' \in [LimitTasks -> TaskRecords] /\ lt'[t] = x /\ TaskMoves(t)
        BY <4>1, <4>2, <4>3, <4>4 DEF TaskMoves, Storing
      <4> QED BY <4>2, <4>3, <4>4, <4>5 DEF OwedBy, Storing
    <3>2. CASE LoadExpiry(t)
      <4>1. PICK st \in {"subtract", "resubtract", "call", "lock"} : Goto(t, st)
        BY <3>2 DEF LoadExpiry
      <4>2. [st |-> st, grant |-> 0, early |-> FALSE] \in TaskRecords
        BY RateLimitsAssumption DEF TaskRecords
      <4> QED BY <3>2, <4>1, <4>2, GoneTo DEF LoadExpiry, OwedBy, Storing
    <3> QED BY <1>4, <3>1, <3>2
  <2>2. BucketCovered'
    BY <2>1 DEF LimitsInv, BucketCovered
  <2> QED BY <1>0, <2>1, <2>2, TaskStepKeeps
<1>5. ASSUME NEW t \in LimitTasks, Subtract(t) PROVE LimitsInv'
  <2> DEFINE taken == Consumed(quota.remaining)
             again == lt[t].st = "resubtract"
             q == [quota EXCEPT !.remaining = @ - 1,
                                !.lock = IF taken /\ again THEN NoTask ELSE @]
             st == IF taken THEN "done" ELSE IF again THEN "call" ELSE "lock"
  <2>1. /\ q \in QuotaRecords /\ q.remaining = quota.remaining - 1
        /\ q.admitted = quota.admitted /\ q.granted = quota.granted
    <3>1. (IF taken /\ again THEN NoTask ELSE quota.lock) \in LimitTasks \cup {NoTask}
      BY <1>0 DEF QuotaRecords
    <3>2. q = LessOne(quota, IF taken /\ again THEN NoTask ELSE quota.lock)
      BY DEF LessOne
    <3> HIDE DEF q, taken, again
    <3> QED BY <1>0, <3>1, <3>2, QuotaChanges
  <2>2. /\ lt[t].st \in {"subtract", "resubtract"} /\ user' = user /\ Goto(t, st)
        /\ quota' = IF taken THEN Admit(q) ELSE q
    BY <1>5 DEF Subtract
  <2>3. [st |-> st, grant |-> 0, early |-> FALSE] \in TaskRecords /\ st \in {"done", "call", "lock"}
    BY RateLimitsAssumption DEF TaskRecords
  <2> HIDE DEF q, st
  <2>4. TaskMoves(t) /\ OwedBy(lt[t]) = 0 /\ OwedBy(lt'[t]) = 0
    BY <2>2, <2>3, GoneTo DEF OwedBy, Storing
  <2>5. BucketCovered' /\ user' \in UserRecords
    BY <1>0, <2>2 DEF LimitsInv, BucketCovered
  <2>6. CASE taken
    <3>1. /\ quota' \in QuotaRecords /\ quota'.remaining = quota.remaining - 1
          /\ quota'.admitted = quota.admitted + 1 /\ quota'.granted = quota.granted
      BY <2>1, <2>2, <2>6, QuotaUpdates
    <3>2. quota.remaining > 0
      BY <2>6 DEF Consumed
    <3> QED BY <1>0, <2>4, <2>5, <3>1, <3>2, TaskStepKeeps
  <2>7. CASE ~taken
    <3>1. quota' = q
      BY <2>2, <2>7
    <3> QED BY <1>0, <2>1, <2>4, <2>5, <3>1, TaskStepKeeps
  <2> QED BY <2>6, <2>7
<1>6. ASSUME NEW t \in LimitTasks, Lock(t) PROVE LimitsInv'
  <2>1. /\ lt[t].st = "lock" /\ user' = user /\ Goto(t, "recheck") /\ quota' \in QuotaRecords
        /\ quota'.admitted = quota.admitted /\ quota'.remaining = quota.remaining
        /\ quota'.granted = quota.granted
    BY <1>0, <1>6 DEF Lock, QuotaRecords
  <2>2. [st |-> "recheck", grant |-> 0, early |-> FALSE] \in TaskRecords
    BY RateLimitsAssumption DEF TaskRecords
  <2>3. TaskMoves(t) /\ OwedBy(lt[t]) = 0 /\ OwedBy(lt'[t]) = 0
    BY <2>1, <2>2, GoneTo DEF OwedBy, Storing
  <2>4. BucketCovered' /\ user' \in UserRecords
    BY <1>0, <2>1 DEF LimitsInv, BucketCovered
  <2> QED BY <1>0, <2>1, <2>3, <2>4, TaskStepKeeps
<1>7. ASSUME NEW t \in LimitTasks, NEW st \in {"refused", "done"}, lt[t].st = "call",
             quota' = Unlocked(quota, t), Goto(t, st), user' = user
      PROVE  LimitsInv'
  <2>1. [st |-> st, grant |-> 0, early |-> FALSE] \in TaskRecords
    BY RateLimitsAssumption DEF TaskRecords
  <2>2. TaskMoves(t) /\ OwedBy(lt[t]) = 0 /\ OwedBy(lt'[t]) = 0
    BY <1>7, <2>1, GoneTo DEF OwedBy, Storing
  <2>3. BucketCovered' /\ user' \in UserRecords
    BY <1>0, <1>7 DEF LimitsInv, BucketCovered
  <2>4. /\ quota' \in QuotaRecords /\ quota'.admitted = quota.admitted
        /\ quota'.remaining = quota.remaining /\ quota'.granted = quota.granted
    BY <1>0, <1>7, QuotaUpdates
  <2> QED BY <1>0, <2>2, <2>3, <2>4, TaskStepKeeps
<1>8. ASSUME NEW t \in LimitTasks, NEW n \in 1 .. MaxGrant, lt[t].st = "call",
             lt' = [lt EXCEPT ![t].st = "valid", ![t].grant = n],
             quota' = [quota EXCEPT !.present = TRUE, !.grants = @ + 1, !.granted = @ + n],
             user' = user
      PROVE  LimitsInv'
  <2>0. n \in Nat /\ n \in 0 .. MaxGrant
    BY RateLimitsAssumption
  <2>1. TaskMoves(t) /\ lt'[t].st = "valid" /\ lt'[t].grant = n
    <3>1. /\ lt' \in [LimitTasks -> TaskRecords]
          /\ \A u \in LimitTasks \ {t} : lt'[u] = lt[u]
          /\ lt'[t].st = "valid" /\ lt'[t].grant = n
      BY <1>8, <2>0 DEF LimitsInv, LimitsShape, TaskRecords
    <3> QED BY <2>0, <3>1 DEF TaskMoves
  <2>2. OwedBy(lt[t]) = 0 /\ OwedBy(lt'[t]) = n
    BY <1>8, <2>1 DEF OwedBy, Storing
  <2>3. BucketCovered' /\ user' \in UserRecords
    BY <1>0, <1>8 DEF LimitsInv, BucketCovered
  <2>4. /\ quota' \in QuotaRecords /\ quota'.admitted = quota.admitted
        /\ quota'.remaining = quota.remaining /\ quota'.granted = quota.granted + n
    <3>1. quota' = More(quota, n)
      BY <1>8 DEF More
    <3>2. quota.lock \in LimitTasks \cup {NoTask}
      BY <1>0 DEF QuotaRecords
    <3> QED BY <1>0, <2>0, <3>1, <3>2, QuotaChanges
  <2> QED BY <1>0, <2>0, <2>1, <2>2, <2>3, <2>4, TaskStepKeeps
<1>9. ASSUME NEW t \in LimitTasks, ServiceAnswers(t) \/ ServiceFails(t) PROVE LimitsInv'
  <2>1. CASE ServiceFails(t)
    <3>1. PICK st \in {"refused", "done"} : Goto(t, st)
      BY <2>1 DEF ServiceFails
    <3> QED BY <1>7, <2>1, <3>1 DEF ServiceFails
  <2>2. CASE ServiceAnswers(t)
    BY <1>7, <1>8, <2>2 DEF ServiceAnswers
  <2> QED BY <1>9, <2>1, <2>2
<1>10. ASSUME NEW t \in LimitTasks, StoreValidUntil(t) PROVE LimitsInv'
  <2>1. /\ lt[t].st = "valid" /\ user' = user /\ Goto(t, "remaining") /\ quota' \in QuotaRecords
        /\ quota'.admitted = quota.admitted /\ quota'.remaining = quota.remaining
        /\ quota'.granted = quota.granted
    BY <1>0, <1>10 DEF StoreValidUntil, QuotaRecords
  <2>2. [st |-> "remaining", grant |-> 0, early |-> FALSE] \in TaskRecords
    BY RateLimitsAssumption DEF TaskRecords
  <2>3. TaskMoves(t) /\ OwedBy(lt'[t]) = OwedBy(lt[t])
    BY <2>1, <2>2, GoneTo DEF OwedBy, Storing
  <2>4. BucketCovered' /\ user' \in UserRecords
    BY <1>0, <2>1 DEF LimitsInv, BucketCovered
  <2> QED BY <1>0, <2>1, <2>3, <2>4, TaskStepKeeps
<1>11. ASSUME NEW t \in LimitTasks, StoreRemaining(t) PROVE LimitsInv'
  <2> DEFINE p == [quota EXCEPT !.remaining = ExtractQuota(lt[t].grant)]
             q == Unlocked(p, t)
  <2>0. lt[t].grant \in Nat
    BY RateLimitsAssumption DEF LimitsInv, LimitsShape, TaskRecords
  <2>1. /\ p \in QuotaRecords /\ p.remaining = lt[t].grant - 1
        /\ p.admitted = quota.admitted /\ p.granted = quota.granted
    BY <1>0, <2>0 DEF QuotaRecords, ExtractQuota
  <2>2. /\ lt[t].st = "remaining" /\ user' = user
        /\ \/ quota' = Admit(q) /\ Goto(t, "done")
           \/ quota' = q /\ Goto(t, "refused")
    BY <1>11 DEF StoreRemaining
  <2> HIDE DEF p
  <2>3. /\ q \in QuotaRecords /\ q.remaining = lt[t].grant - 1
        /\ q.admitted = quota.admitted /\ q.granted = quota.granted
    BY <2>1, QuotaUpdates
  <2> HIDE DEF q
  <2>4. OwedBy(lt[t]) = lt[t].grant
    BY <2>2 DEF OwedBy, Storing
  <2>5. BucketCovered' /\ user' \in UserRecords
    BY <1>0, <2>2 DEF LimitsInv, BucketCovered
  <2>6. CASE quota' = Admit(q) /\ Goto(t, "done")
    <3>1. [st |-> "done", grant |-> 0, early |-> FALSE] \in TaskRecords
      BY RateLimitsAssumption DEF TaskRecords
    <3>2. TaskMoves(t) /\ OwedBy(lt'[t]) = 0
      BY <2>6, <3>1, GoneTo DEF OwedBy, Storing
    <3>3. /\ quota' \in QuotaRecords /\ quota'.remaining = lt[t].grant - 1
          /\ quota'.admitted = quota.admitted + 1 /\ quota'.granted = quota.granted
      BY <2>3, <2>6, QuotaUpdates
    <3>4. ASSUME NEW owed \in Nat, quota.admitted + owed + OwedBy(lt[t]) <= quota.granted
          PROVE  /\ quota'.admitted + owed + OwedBy(lt'[t]) <= quota'.granted
                 /\ quota'.admitted + quota'.remaining + owed + OwedBy(lt'[t]) <= quota'.granted
      <4>1. lt[t].grant >= 1
        BY <2>2 DEF LimitsInv, GrantsPay, Storing
      <4> QED BY <1>0, <2>0, <2>4, <3>2, <3>3, <3>4, <4>1
    <3> QED BY <2>5, <3>2, <3>3, <3>4, TaskStepKeeps
  <2>7. CASE quota' = q /\ Goto(t, "refused")
    <3>1. [st |-> "refused", grant |-> 0, early |-> FALSE] \in TaskRecords
      BY RateLimitsAssumption DEF TaskRecords
    <3>2. TaskMoves(t) /\ OwedBy(lt'[t]) = 0
      BY <2>7, <3>1, GoneTo DEF OwedBy, Storing
    <3> QED BY <1>0, <2>0, <2>3, <2>4, <2>5, <2>7, <3>2, TaskStepKeeps
  <2> QED BY <2>2, <2>6, <2>7
<1>12. ASSUME NEW t \in LimitTasks, UserArrives(t) \/ InsertBucket(t) PROVE LimitsInv'
  <2>1. PICK st \in {"passed", "done", "refused", "new_bucket"} : Goto(t, st)
    BY <1>12 DEF UserArrives, InsertBucket
  <2>2. [st |-> st, grant |-> 0, early |-> FALSE] \in TaskRecords
    BY RateLimitsAssumption DEF TaskRecords
  <2>3. lt[t].st \in {"idle", "new_bucket"} /\ quota' = quota
    BY <1>12 DEF UserArrives, InsertBucket
  <2>4. TaskMoves(t) /\ OwedBy(lt[t]) = 0 /\ OwedBy(lt'[t]) = 0
    BY <2>1, <2>2, <2>3, GoneTo DEF OwedBy, Storing
  <2>5. BucketCovered' /\ user' \in UserRecords
    <3>1. ASSUME NEW b \in UserRecords, b.made = 1, b.tokens + b.admitted = BucketSize,
                 b.present, user' = OnBucket(b)
          PROVE  BucketCovered' /\ user' \in UserRecords
      BY <3>1, BucketUsed DEF BucketCovered
    <3>2. CASE user' = user
      BY <1>0, <3>2 DEF LimitsInv, BucketCovered
    <3>3. CASE UserArrives(t) /\ user' # user
      <4>1. user.present /\ user' = OnBucket(user)
        BY <3>3 DEF UserArrives, OnBucket
      <4> QED BY <1>0, <3>1, <4>1 DEF LimitsInv, BucketCovered
    <3>4. CASE InsertBucket(t)
      <4> DEFINE b == BucketOrInsert
      <4>1. b \in UserRecords /\ b.present /\ b.made = 1 /\ b.tokens + b.admitted = BucketSize
        <5>1. CASE user.present
          BY <1>0, <5>1 DEF BucketOrInsert, LimitsInv, BucketCovered
        <5>2. CASE ~user.present
          <6>1. user.made = 0 /\ user.admitted = 0 /\ BucketSize \in Nat
            BY <5>2, RateLimitsAssumption DEF LimitsInv, BucketCovered
          <6>2. b = NewBucket(user)
            BY <5>2 DEF BucketOrInsert, NewBucket
          <6> HIDE DEF b
          <6>3. b \in UserRecords /\ b.present /\ b.made = 1 /\ b.tokens = BucketSize /\ b.admitted = 0
            BY <1>0, <6>1, <6>2, BucketMade
          <6> QED BY <6>1, <6>3
        <5> QED BY <5>1, <5>2
      <4>2. user' = OnBucket(b)
        BY <3>4 DEF InsertBucket, OnBucket
      <4> HIDE DEF b
      <4> QED BY <3>1, <4>1, <4>2
    <3> QED BY <1>12, <3>2, <3>3, <3>4
  <2> QED BY <1>0, <2>3, <2>4, <2>5, TaskStepKeeps
<1> QED BY <1>1, <1>2, <1>3, <1>4, <1>5, <1>6, <1>9, <1>10, <1>11, <1>12 DEF LimitsNext

(* The invariant of the limiters is inductive. *)
LEMMA LimitsInvariant == LimitsSpec => []LimitsInv
<1>1. LimitsInit => LimitsInv
  <2> SUFFICES ASSUME LimitsInit PROVE LimitsInv
    OBVIOUS
  <2>1. LimitsShape
    BY RateLimitsAssumption DEF LimitsInit, LimitsShape, TaskRecords, QuotaRecords, UserRecords, NewTask
  <2>2. Owed = {}
    BY DEF LimitsInit, Owed, Storing, NewTask
  <2>3. Cardinality(Owed) = 0
    BY <2>2, FS_EmptySet
  <2>4. GrantsPay
    BY DEF LimitsInit, GrantsPay, Storing, NewTask
  <2> QED BY <2>1, <2>3, <2>4 DEF LimitsInit, LimitsInv, QuotaCovered, BucketCovered
<1> QED BY <1>1, LimitsStep, PTL DEF LimitsSpec

(* The quota of the rate limit service and the buckets of users: however    *)
(* subtractions, the two stores of a grant, the herd of first calls, the    *)
(* inserts of a bucket and the cleaner interleave, nobody is admitted       *)
(* beyond what the service granted or what the user's bucket holds.         *)
THEOREM LimitsNotExceeded == LimitsSpec => []QuotasKept
<1>1. LimitsInv => QuotasKept
  <2> SUFFICES ASSUME LimitsInv PROVE QuotasKept
    OBVIOUS
  <2>1. QuotaNotExceeded
    BY OwedFinite, QuotaNumbers DEF LimitsInv, QuotaCovered, QuotaNotExceeded
  <2>2. UserBudgetKept
    BY QuotaNumbers, RateLimitsAssumption DEF LimitsInv, BucketCovered, UserBudgetKept, UserRecords
  <2> QED BY <2>1, <2>2 DEF QuotasKept
<1> QED BY <1>1, LimitsInvariant, PTL

-----------------------------------------------------------------------------
(* HttpAuthFilters.                                                        *)

(* An entry of the cache is not older than the cache keeps one, and the    *)
(* token had not expired when it was decoded.                              *)
EntryOK(e) ==
    /\ e.at \in Nat /\ e.at <= jclock /\ e.until = e.at + CacheTtl /\ jclock < e.until
    /\ e.tok \in JwtTokens /\ e.tok.exp >= e.at

(* A request that waits for a key set: any provider, place and keys.       *)
FetchRecords(P, L, O, K) ==
    [st : {"fetch", "store"}, prov : P, tok : JwtTokens, place : L, old : O, key : K]

(* A request that waits for a key set has a token in hand; one that is     *)
(* admitted had a good one.                                                *)
RequestGood(r) ==
    /\ r.st \in {"idle", "fetch", "store", "admitted", "refused"}
    /\ r.st \in {"fetch", "store"} => \E P, L, O, K : r \in FetchRecords(P, L, O, K)
    /\ r.st = "admitted" => r.wasGood /\ r.age < CacheTtl

Answered(c, r) == [st |-> "done", conf |-> c, req |-> r, answer |-> CorsAnswer(c, r)]

JwtInv ==
    /\ jclock \in Nat
    /\ \A e \in jcache : EntryOK(e)
    /\ jt = [t \in AuthTasks |-> jt[t]]
    /\ \A t \in AuthTasks : RequestGood(jt[t])

CorsInv == cors = NoCors \/ \E c \in CorsConfigs, r \in CorsRequests : cors = Answered(c, r)

AuthInv == JwtInv /\ CorsInv

(* A token has an expiry. *)
LEMMA TokenExpiry == \A tok \in JwtTokens : tok.exp \in Nat
<1>1. MaxAuthTime \in Nat /\ 1 \in Nat
  BY AuthAssumption
<1>2. \A tok \in JwtTokens : tok.exp = 1 \/ tok.exp = MaxAuthTime
  BY Zenon DEF JwtTokens
<1> QED BY <1>1, <1>2

(* A token that was good when it was decoded, less than a time to live ago, *)
(* admits.                                                                  *)
LEMMA AdmittedGood ==
  ASSUME NEW tok, NEW place, NEW at, tok.exp >= at, jclock - at < CacheTtl
  PROVE  RequestGood(Admitted(tok, place, at))
<1> DEFINE r == Admitted(tok, place, at)
<1>1. r.st = "admitted" /\ r.age = jclock - at
  BY DEF Admitted
<1>2. r.wasGood = (tok.exp >= at)
  BY Zenon DEF Admitted
<1> HIDE DEF r
<1>3. RequestGood(r)
  BY <1>1, <1>2 DEF RequestGood
<1> QED BY <1>3 DEF r

(* The answer of the key server is noted in the request. *)
Noted(q, k) == [q EXCEPT !.st = "store", !.key = k]

LEMMA KeyNoted ==
  ASSUME NEW P, NEW L, NEW O, NEW K, NEW q \in FetchRecords(P, L, O, K), NEW k
  PROVE  Noted(q, k) \in FetchRecords(P, L, O, K \cup {k}) /\ Noted(q, k).st = "store"
  BY DEF FetchRecords, Noted

(* A request goes on with a state of its own, the others stay. *)
LEMMA TaskGoesOn ==
  ASSUME JwtInv, NEW t \in AuthTasks, NEW r, RequestGood(r), jt' = [jt EXCEPT ![t] = r],
         jclock' = jclock, \A e \in jcache' : EntryOK(e)
  PROVE  JwtInv'
<1>1. jt' = [u \in AuthTasks |-> jt'[u]] /\ \A u \in AuthTasks : RequestGood(jt'[u])
  BY DEF JwtInv
<1>2. \A e \in jcache' : EntryOK(e)'
  BY DEF EntryOK
<1> QED BY <1>1, <1>2 DEF JwtInv, RequestGood

(* Decoding with a key admits a token that verifies, and caches it from now *)
(* on; a token that is refused changes nothing else.                        *)
LEMMA DecodeStep ==
  ASSUME JwtInv, NEW t \in AuthTasks, NEW prov, NEW key, NEW tok \in JwtTokens, NEW place,
         jclock' = jclock, Decode(t, prov, key, tok, place) \/ RefuseToken(t)
  PROVE  JwtInv'
<1>0. jclock \in Nat /\ CacheTtl \in Nat /\ CacheTtl >= 1 /\ tok.exp \in Nat
  BY AuthAssumption, TokenExpiry DEF JwtInv
<1>1. CASE jt' = [jt EXCEPT ![t] = Refused] /\ UNCHANGED jcache
  <2>1. RequestGood(Refused)
    BY DEF RequestGood, Refused
  <2> QED BY <1>1, <2>1, TaskGoesOn DEF JwtInv
<1>2. CASE Verifies(prov, key, tok) /\ Decode(t, prov, key, tok, place)
  <2> DEFINE e == [tok |-> tok, at |-> jclock, until |-> jclock + CacheTtl]
             r == Admitted(tok, place, jclock)
  <2>1. jt' = [jt EXCEPT ![t] = r] /\ jcache' \subseteq jcache \cup {e}
    BY <1>2 DEF Decode
  <2>2. EntryOK(e)
    BY <1>0, <1>2 DEF EntryOK, Verifies
  <2>3. RequestGood(r)
    BY <1>0, <1>2, AdmittedGood DEF Verifies
  <2> HIDE DEF e, r
  <2> QED BY <2>1, <2>2, <2>3, TaskGoesOn DEF JwtInv
<1> QED BY <1>1, <1>2 DEF Decode, RefuseToken

(* A request that goes to fetch keeps its token. *)
LEMMA FetchingStep ==
  ASSUME JwtInv, NEW t \in AuthTasks, NEW prov, NEW tok \in JwtTokens, NEW place, NEW old,
         jclock' = jclock, Fetching(t, prov, tok, place, old)
  PROVE  JwtInv'
<1> DEFINE r == [st |-> "fetch", prov |-> prov, tok |-> tok, place |-> place, old |-> old, key |-> 0]
<1>1. r \in FetchRecords({prov}, {place}, {old}, {0}) /\ r.st = "fetch"
  BY DEF FetchRecords
<1>2. jt' = [jt EXCEPT ![t] = r] /\ jcache' = jcache
  BY DEF Fetching
<1> HIDE DEF r
<1>3. RequestGood(r)
  BY <1>1 DEF RequestGood
<1> QED BY <1>2, <1>3, TaskGoesOn DEF JwtInv

LEMMA JwtInvStep == JwtInv /\ [AuthNext]_authVars => JwtInv'
<1> SUFFICES ASSUME JwtInv, [AuthNext]_authVars PROVE JwtInv'
  OBVIOUS
<1>1. ASSUME NEW t \in AuthTasks, Authenticate(t) PROVE JwtInv'
  <2>0. jt[t].st = "idle" /\ jclock' = jclock
    BY <1>1 DEF Authenticate
  <2>1. CASE RefuseToken(t)
    <3>1. RequestGood(Refused)
      BY DEF RequestGood, Refused
    <3> QED BY <2>0, <2>1, <3>1, TaskGoesOn DEF RefuseToken, JwtInv
  <2>2. ASSUME NEW prov \in Providers, NEW tok \in JwtTokens, NEW place,
               NEW e \in jcache, e.tok = tok, jcache' = AfterHit(e),
               jt' = [jt EXCEPT ![t] = Admitted(tok, place, e.at)]
        PROVE  JwtInv'
    <3>1. EntryOK(e) /\ jclock \in Nat /\ CacheTtl \in Nat
      BY AuthAssumption DEF JwtInv
    <3>2. RequestGood(Admitted(tok, place, e.at))
      BY <2>2, <3>1, AdmittedGood DEF EntryOK
    <3> QED BY <2>0, <2>2, <3>2, TaskGoesOn DEF AfterHit, JwtInv
  <2>3. ASSUME NEW prov \in Providers, NEW tok \in JwtTokens, NEW place, Lookup(t, prov, tok, place)
        PROVE  JwtInv'
    <3>1. \/ RefuseToken(t)
          \/ \E key : Decode(t, prov, key, tok, place)
          \/ \E old : Fetching(t, prov, tok, place, old)
      BY <2>3 DEF Lookup
    <3> QED BY <2>0, <2>1, <3>1, DecodeStep, FetchingStep
  <2> QED BY <1>1, <2>1, <2>2, <2>3 DEF Authenticate
<1>2. ASSUME NEW t \in AuthTasks, RequestFetched(t) PROVE JwtInv'
  <2> DEFINE q == jt[t]
             r == Noted(q, issuer)
  <2>0. jt[t].st = "fetch" /\ jclock' = jclock /\ jcache' = jcache
        /\ jt' = [jt EXCEPT ![t].st = "store", ![t].key = issuer]
    BY <1>2 DEF RequestFetched
  <2>1. PICK P, L, O, K : q \in FetchRecords(P, L, O, K)
    BY <2>0 DEF JwtInv, RequestGood
  <2>2. jt' = [jt EXCEPT ![t] = r]
    BY <2>0 DEF JwtInv, Noted
  <2> HIDE DEF q
  <2>3. r \in FetchRecords(P, L, O, K \cup {issuer}) /\ r.st = "store"
    BY <2>1, KeyNoted
  <2> HIDE DEF r
  <2>4. RequestGood(r)
    BY <2>3 DEF RequestGood
  <2> QED BY <2>0, <2>2, <2>4, TaskGoesOn DEF JwtInv
<1>3. ASSUME NEW t \in AuthTasks, RequestFetchFails(t) \/ RequestStores(t) PROVE JwtInv'
  <2>1. jt[t].st \in {"fetch", "store"} /\ jclock' = jclock
    BY <1>3 DEF RequestFetchFails, RequestStores
  <2>2. jt[t].tok \in JwtTokens
    BY <2>1 DEF JwtInv, RequestGood, FetchRecords
  <2>3. RefuseToken(t) \/ \E key : Decode(t, jt[t].prov, key, jt[t].tok, jt[t].place)
    BY <1>3 DEF RequestFetchFails, RequestStores
  <2> QED BY <2>1, <2>2, <2>3, DecodeStep
<1>4. ASSUME NEW t \in AuthTasks, FinishRequest(t) PROVE JwtInv'
  <2>1. RequestGood(IdleAuth)
    BY DEF RequestGood, IdleAuth
  <2> QED BY <1>4, <2>1, TaskGoesOn DEF FinishRequest, JwtInv
<1>5. CASE JwtTick
  <2>1. jclock' \in Nat /\ jt' = jt
    BY <1>5 DEF JwtTick, JwtInv
  <2>2. ASSUME NEW e \in jcache' PROVE EntryOK(e)'
    <3>1. EntryOK(e) /\ jclock + 1 < e.until /\ jclock' = jclock + 1 /\ jclock \in Nat
      BY <1>5 DEF JwtTick, JwtInv
    <3> QED BY <3>1 DEF EntryOK
  <2> QED BY <2>1, <2>2 DEF JwtInv, RequestGood
<1>6. CASE UNCHANGED <<jclock, jcache, jt>>
  BY <1>6 DEF JwtInv, EntryOK, RequestGood
<1> QED
  BY <1>1, <1>2, <1>3, <1>4, <1>5, <1>6
  DEF AuthNext, HandleCors, FetcherFetches, FetcherStores, FetcherTicks, RotateKey, authVars, jwtVars

(* What an answer of the CORS filter may be reused for. *)
LEMMA CorsReuse ==
  ASSUME NEW c \in CorsConfigs, NEW r \in CorsRequests
  PROVE  /\ CorsAnswer(c, r).allow # "none" /\ "origin" \notin CorsAnswer(c, r).vary =>
               \A o \in Origins : CorsAnswer(c, [r EXCEPT !.origin = o]).allow = CorsAnswer(c, r).allow
         /\ CorsAnswer(c, r).cred =>
               "*" \notin {CorsAnswer(c, r).allow} \cup CorsAnswer(c, r).methods \cup CorsAnswer(c, r).headers
<1>0. /\ c.cred \in BOOLEAN /\ c.methods \in {{"*"}, {"GET"}}
      /\ r.origin \in Origins /\ r.method \in {"GET", "PUT"}
      /\ r.headers \subseteq {"h", "x", "mcp-session-id"}
  BY DEF CorsConfigs, CorsRequests
<1> DEFINE o == DetermineAllowedOrigin(c, r.origin)
<1>1. ASSUME NEW q \in CorsRequests
      PROVE  /\ CorsAnswer(c, q).allow \in {"none", DetermineAllowedOrigin(c, q.origin).val}
             /\ DetermineAllowedOrigin(c, q.origin).val # "none" =>
                   CorsAnswer(c, q).allow = DetermineAllowedOrigin(c, q.origin).val
             /\ CorsAnswer(c, q).allow # "none" =>
                   VaryOrigin(c, DetermineAllowedOrigin(c, q.origin)) \subseteq CorsAnswer(c, q).vary
  BY DEF CorsAnswer, CorsResponse, GeneratePreflight, BareAnswer
<1>2. ASSUME CorsAnswer(c, r).allow # "none", "origin" \notin CorsAnswer(c, r).vary, NEW d \in Origins
      PROVE  CorsAnswer(c, [r EXCEPT !.origin = d]).allow = CorsAnswer(c, r).allow
  <2>1. o.wildcard /\ ~c.cred
    BY <1>1, <1>2 DEF VaryOrigin
  <2>2. "*" \in c.origins
    BY <2>1 DEF DetermineAllowedOrigin
  <2>3. \A d2 : DetermineAllowedOrigin(c, d2) = [val |-> "*", wildcard |-> TRUE]
    BY <2>1, <2>2 DEF DetermineAllowedOrigin
  <2>4. [r EXCEPT !.origin = d] \in CorsRequests
    BY DEF CorsRequests
  <2> QED BY <1>1, <2>3, <2>4
<1>3. ASSUME CorsAnswer(c, r).cred
      PROVE  "*" \notin {CorsAnswer(c, r).allow} \cup CorsAnswer(c, r).methods \cup CorsAnswer(c, r).headers
  <2>1. o.val # "*" \/ ~c.cred
    BY <1>0 DEF DetermineAllowedOrigin, Origins
  <2>2. c.cred
    BY <1>3 DEF CorsAnswer, CorsResponse, GeneratePreflight, BareAnswer
  <2>3. CorsAnswer(c, r).allow # "*"
    BY <1>1, <2>1, <2>2
  <2>4. CorsAnswer(c, r).methods \in {{}, c.methods \ {"*"}, {r.method}}
    BY <1>0, <2>2 DEF CorsAnswer, CorsResponse, GeneratePreflight, BareAnswer
  <2>5. CorsAnswer(c, r).headers \in {{}, r.headers}
    BY <2>2 DEF CorsAnswer, CorsResponse, GeneratePreflight, BareAnswer
  <2> QED BY <1>0, <2>3, <2>4, <2>5
<1> QED BY <1>2, <1>3

LEMMA CorsInvStep == CorsInv /\ [AuthNext]_authVars => CorsInv'
  BY DEF CorsInv, AuthNext, authVars, HandleCors, Answered

-----------------------------------------------------------------------------

(* The cookie that a login f got when it was redirected. *)
FlowCookie(f, life) == [value |-> <<f, flow[f].started>>, until |-> flow[f].started + life]

(* A login that is under way has both of its cookies as it got them.       *)
FlowsHaveCookies ==
    \A f \in Flows : flow[f].st \in {"at_provider", "code", "error", "exchanging"} =>
        jar.nonce[f] = FlowCookie(f, CsrfLife) /\ jar.verifier[f] = FlowCookie(f, VerifierLife)

(* Tokens that are of the login f, or none. *)
OfLogin(tokens, f) == tokens \subseteq {<<>>, <<f>>}

(* What a signature covers is of one login.                                *)
SignsOneLogin(value) ==
    value # <<>> => \E e, a, i, r, f : value = <<Signed(e, a, i, r)>> /\ OfLogin({a, i, r}, f)

OAuthInv ==
    /\ clock \in Nat
    /\ flow \in [Flows -> [st : {"new", "at_provider", "code", "error", "exchanging", "failed", "done"},
                           started : Nat]]
    /\ jar = [nonce |-> jar.nonce, verifier |-> jar.verifier, session |-> jar.session]
    /\ jar.nonce = [f \in Flows |-> jar.nonce[f]] /\ jar.verifier = [f \in Flows |-> jar.verifier[f]]
    /\ FlowsHaveCookies
    /\ SignsOneLogin(jar.session["hmac"].value)
    /\ LoginsIndependent /\ SessionIsOneLogin

(* A cookie of a login is refused only when the login has grown too old. *)
LEMMA RefusedIsOld ==
  ASSUME OAuthInv, NEW f \in Flows, NEW life \in Nat, ~Verified(FlowCookie(f, life), f, life)
  PROVE  clock - flow[f].started >= life
<1>1. clock \in Nat /\ flow[f].started \in Nat
  BY DEF OAuthInv
<1> DEFINE c == FlowCookie(f, life)
<1>2. c.value = <<f, flow[f].started>> /\ c.until = flow[f].started + life
  BY DEF FlowCookie
<1>3. CASE c.until > clock
  <2>1. Sent(c) = <<f, flow[f].started>>
    BY <1>2, <1>3 DEF Sent
  <2>2. ~(clock - flow[f].started <= life)
    BY <2>1 DEF Verified
  <2> QED BY <1>1, <2>2
<1>4. CASE ~(c.until > clock)
  BY <1>1, <1>2, <1>4
<1> QED BY <1>3, <1>4

(* An authenticated request carries the tokens of one login. *)
LEMMA AuthenticatedOneLogin ==
  ASSUME OAuthInv, Authenticated
  PROVE  \E f : OfLogin({Sent(jar.session[c]) : c \in TokenCookies}, f)
<1> DEFINE s == [c \in SessionCookies |-> Sent(jar.session[c])]
<1>1. /\ s["hmac"] # <<>>
      /\ s["hmac"] = <<Signed(s["expires"], s["access"], s["id"], s["refresh"])>>
  BY DEF Authenticated
<1>2. \A c \in SessionCookies : s[c] = Sent(jar.session[c])
  OBVIOUS
<1>3. s["hmac"] = jar.session["hmac"].value
  BY <1>1, <1>2 DEF Sent, SessionCookies
<1> HIDE DEF s
<1>4. PICK e, a, i, r, f : s["hmac"] = <<Signed(e, a, i, r)>> /\ OfLogin({a, i, r}, f)
  BY <1>1, <1>3 DEF OAuthInv, SignsOneLogin
<1>5. s["access"] = a /\ s["id"] = i /\ s["refresh"] = r
  BY <1>1, <1>4 DEF Signed
<1> QED BY <1>2, <1>4, <1>5 DEF OfLogin, TokenCookies, SessionCookies

(* A new session is signed for its own login. *)
LEMMA NewSessionSigned ==
  ASSUME OAuthInv, NEW f \in Flows, NEW sent
  PROVE  SignsOneLogin(NewSession(f, sent)["hmac"].value)
<1> DEFINE token(c) == IF c \in sent THEN <<f>> ELSE <<>>
           expires == <<clock + SessionLife>>
<1>1. NewSession(f, sent)["hmac"].value
      = <<Signed(expires, token("access"), token("id"), token("refresh"))>>
  BY DEF NewSession, SessionCookies, TokenCookies, SetCookie
<1>2. OfLogin({token("access"), token("id"), token("refresh")}, f)
  BY DEF OfLogin
<1> HIDE DEF expires, token
<1> QED BY <1>1, <1>2 DEF SignsOneLogin

(* A step that refuses no callback and continues no request. *)
Quiet == answer'.kind \notin {"callback_refused", "continue"}

LEMMA QuietAnswer == Quiet => LoginsIndependent' /\ SessionIsOneLogin'
  BY DEF Quiet, LoginsIndependent, SessionIsOneLogin

(* A step of a login changes no cookie but its own. *)
Cleared(f) == /\ jar'.nonce = [jar.nonce EXCEPT ![f] = NoCookie]
              /\ jar'.verifier = [jar.verifier EXCEPT ![f] = NoCookie]
              /\ jar' = [nonce |-> jar'.nonce, verifier |-> jar'.verifier, session |-> jar'.session]

LEMMA ClearedCookies ==
  ASSUME OAuthInv, NEW f \in Flows, NEW session,
         \/ jar' = ClearTransaction(f) /\ session = jar.session
         \/ jar' = [ClearTransaction(f) EXCEPT !.session = session]
  PROVE  Cleared(f) /\ jar'.session = session
  BY DEF OAuthInv, ClearTransaction, FlowCookieName, Cleared

(* Logins other than f keep their state, and f goes on to st. *)
LEMMA FlowGoesOn ==
  ASSUME OAuthInv, NEW f \in Flows, NEW st \in {"code", "error", "exchanging", "failed", "done"},
         flow' = [flow EXCEPT ![f].st = st], clock' = clock,
         \/ flow[f].st \in {"at_provider", "code", "exchanging"} /\ jar' = jar
         \/ st \in {"failed", "done"} /\ Cleared(f) /\ SignsOneLogin(jar'.session["hmac"].value),
         LoginsIndependent', SessionIsOneLogin'
  PROVE  OAuthInv'
<1>1. flow' \in [Flows -> [st : {"new", "at_provider", "code", "error", "exchanging", "failed", "done"},
                           started : Nat]]
  BY DEF OAuthInv
<1>2. /\ \A g \in Flows : flow'[g].started = flow[g].started
      /\ \A g \in Flows : g # f => flow'[g] = flow[g]
      /\ flow'[f].st = st
  BY DEF OAuthInv
<1>3. /\ jar' = [nonce |-> jar'.nonce, verifier |-> jar'.verifier, session |-> jar'.session]
      /\ jar'.nonce = [g \in Flows |-> jar'.nonce[g]] /\ jar'.verifier = [g \in Flows |-> jar'.verifier[g]]
      /\ SignsOneLogin(jar'.session["hmac"].value)
  BY DEF OAuthInv, Cleared
<1>4. ASSUME NEW g \in Flows, flow'[g].st \in {"at_provider", "code", "error", "exchanging"}
      PROVE  jar'.nonce[g] = FlowCookie(g, CsrfLife)' /\ jar'.verifier[g] = FlowCookie(g, VerifierLife)'
  <2>1. jar'.nonce[g] = jar.nonce[g] /\ jar'.verifier[g] = jar.verifier[g]
        /\ flow[g].st \in {"at_provider", "code", "error", "exchanging"}
    BY <1>2, <1>4 DEF OAuthInv, Cleared
  <2> QED BY <1>2, <2>1 DEF OAuthInv, FlowsHaveCookies, FlowCookie
<1>5. FlowsHaveCookies'
  BY <1>4 DEF FlowsHaveCookies
<1> QED BY <1>1, <1>3, <1>5 DEF OAuthInv, SignsOneLogin

(* A callback is refused for its own age, and continues no request. *)
LEMMA RefusedCallback ==
  ASSUME OAuthInv, NEW f \in Flows, flow[f].st \in {"code", "error"}, clock' = clock,
         ~Verified(jar.nonce[f], f, CsrfLife) \/ ~Verified(jar.verifier[f], f, VerifierLife),
         OAuthAnswer("callback_refused", f, <<>>), flow'[f].started = flow[f].started
  PROVE  LoginsIndependent' /\ SessionIsOneLogin'
<1>1. jar.nonce[f] = FlowCookie(f, CsrfLife) /\ jar.verifier[f] = FlowCookie(f, VerifierLife)
  BY DEF OAuthInv, FlowsHaveCookies
<1>2. CsrfLife \in Nat /\ VerifierLife \in Nat /\ clock \in Nat /\ flow[f].started \in Nat
  BY OAuthAssumption DEF OAuthInv
<1>3. clock - flow[f].started >= CsrfLife \/ clock - flow[f].started >= VerifierLife
  BY <1>1, <1>2, RefusedIsOld
<1>4. answer'.kind = "callback_refused" /\ answer'.flow = f
  BY DEF OAuthAnswer
<1> QED BY <1>2, <1>3, <1>4 DEF LoginsIndependent, SessionIsOneLogin

(* Every request of the browser and every answer of the provider keeps the *)
(* invariant.                                                              *)
LEMMA OAuthInvStep == OAuthInv /\ [OAuthNext]_oauthVars => OAuthInv'
<1> SUFFICES ASSUME OAuthInv, [OAuthNext]_oauthVars PROVE OAuthInv'
  OBVIOUS
<1>0. /\ clock \in Nat
      /\ flow \in [Flows -> [st : {"new", "at_provider", "code", "error", "exchanging", "failed", "done"},
                             started : Nat]]
      /\ SignsOneLogin(jar.session["hmac"].value)
  BY DEF OAuthInv
<1>1. ASSUME clock' \in Nat, jar' = jar, flow' = flow, LoginsIndependent', SessionIsOneLogin'
      PROVE  OAuthInv'
  BY <1>1 DEF OAuthInv, FlowsHaveCookies, FlowCookie, SignsOneLogin
<1>2. CASE OAuthTick
  <2>1. Quiet
    BY <1>2 DEF OAuthTick, Quiet
  <2> QED BY <1>0, <1>1, <1>2, <2>1, QuietAnswer DEF OAuthTick
<1>3. CASE OtherAnswers
  <2>1. Quiet
    BY <1>3 DEF OtherAnswers, OAuthAnswer, Quiet
  <2> QED BY <1>0, <1>1, <1>3, <2>1, QuietAnswer DEF OtherAnswers
<1>4. CASE HandleSignout
  <2>1. Quiet /\ clock' = clock /\ flow' = flow
    BY <1>4 DEF HandleSignout, OAuthAnswer, Quiet
  <2>2. /\ jar' = [nonce |-> jar'.nonce, verifier |-> jar'.verifier, session |-> jar'.session]
        /\ jar'.nonce = jar.nonce /\ jar'.verifier = jar.verifier
        /\ jar'.session = [c \in SessionCookies |-> NoCookie]
    BY <1>4 DEF HandleSignout, OAuthInv
  <2>3. jar'.session["hmac"].value = <<>>
    BY <2>2 DEF SessionCookies, NoCookie
  <2>4. FlowsHaveCookies'
    BY <2>1, <2>2 DEF OAuthInv, FlowsHaveCookies, FlowCookie
  <2>5. /\ jar'.nonce = [f \in Flows |-> jar'.nonce[f]]
        /\ jar'.verifier = [f \in Flows |-> jar'.verifier[f]]
    BY <2>2 DEF OAuthInv
  <2>6. SignsOneLogin(jar'.session["hmac"].value)
    BY <2>3 DEF SignsOneLogin
  <2> QED BY <1>0, <2>1, <2>2, <2>4, <2>5, <2>6, QuietAnswer DEF OAuthInv, SignsOneLogin
<1>5. ASSUME NEW f \in Flows, Visit(f) PROVE OAuthInv'
  <2>0. clock' = clock
    BY <1>5 DEF Visit
  <2>1. CASE /\ Authenticated /\ UNCHANGED <<jar, flow>>
             /\ OAuthAnswer("continue", 0, [c \in TokenCookies |-> Sent(jar.session[c])])
    <3>1. PICK g : OfLogin({Sent(jar.session[c]) : c \in TokenCookies}, g)
      BY <2>1, AuthenticatedOneLogin
    <3>2. answer'.kind = "continue" /\ \A c \in TokenCookies : answer'.tokens[c] \in {<<>>, <<g>>}
      BY <2>1, <3>1 DEF OAuthAnswer, OfLogin
    <3>3. LoginsIndependent' /\ SessionIsOneLogin'
      BY <3>2 DEF LoginsIndependent, SessionIsOneLogin
    <3> QED BY <1>0, <1>1, <2>0, <2>1, <3>3
  <2>2. CASE OAuthAnswer("denied", 0, <<>>) /\ UNCHANGED <<jar, flow>>
    <3>1. Quiet
      BY <2>2 DEF OAuthAnswer, Quiet
    <3> QED BY <1>0, <1>1, <2>0, <2>2, <3>1, QuietAnswer
  <2>3. CASE /\ flow[f].st = "new"
             /\ flow' = [flow EXCEPT ![f] = [st |-> "at_provider", started |-> clock]]
             /\ jar' = [jar EXCEPT !.nonce[f] = SetCookie(<<f, clock>>, CsrfLife),
                                   !.verifier[f] = SetCookie(<<f, clock>>, VerifierLife)]
             /\ OAuthAnswer("redirect", f, <<>>)
    <3>1. Quiet
      BY <2>3 DEF OAuthAnswer, Quiet
    <3>2. /\ jar' = [nonce |-> jar'.nonce, verifier |-> jar'.verifier, session |-> jar'.session]
          /\ jar'.nonce = [jar.nonce EXCEPT ![f] = SetCookie(<<f, clock>>, CsrfLife)]
          /\ jar'.verifier = [jar.verifier EXCEPT ![f] = SetCookie(<<f, clock>>, VerifierLife)]
          /\ jar'.session = jar.session
      BY <2>3 DEF OAuthInv
    <3>3. /\ jar'.nonce = [g \in Flows |-> jar'.nonce[g]]
          /\ jar'.verifier = [g \in Flows |-> jar'.verifier[g]]
          /\ jar'.nonce[f] = SetCookie(<<f, clock>>, CsrfLife)
          /\ jar'.verifier[f] = SetCookie(<<f, clock>>, VerifierLife)
          /\ \A g \in Flows : g # f => jar'.nonce[g] = jar.nonce[g] /\ jar'.verifier[g] = jar.verifier[g]
      BY <3>2 DEF OAuthInv
    <3>4. /\ flow' \in [Flows -> [st : {"new", "at_provider", "code", "error", "exchanging", "failed", "done"},
                                  started : Nat]]
          /\ flow'[f].started = clock
          /\ \A g \in Flows : g # f => flow'[g] = flow[g]
      BY <1>0, <2>3
    <3>5. FlowsHaveCookies'
      BY <3>3, <3>4 DEF OAuthInv, FlowsHaveCookies, FlowCookie, SetCookie
    <3>6. SignsOneLogin(jar.session["hmac"].value)'
      BY <1>0, <3>2 DEF SignsOneLogin
    <3>7. LoginsIndependent' /\ SessionIsOneLogin' /\ clock' \in Nat
      BY <1>0, <2>0, <3>1, QuietAnswer
    <3>8. /\ jar' = [nonce |-> jar'.nonce, verifier |-> jar'.verifier, session |-> jar'.session]
          /\ jar'.nonce = [g \in Flows |-> jar'.nonce[g]]
          /\ jar'.verifier = [g \in Flows |-> jar'.verifier[g]]
      BY <3>2, <3>3
    <3> QED BY <3>4, <3>5, <3>6, <3>7, <3>8, Zenon DEF OAuthInv
  <2> QED BY <1>5, <2>1, <2>2, <2>3 DEF Visit, Protected, FlowCookieName
<1>6. ASSUME NEW f \in Flows, ProviderReturns(f) PROVE OAuthInv'
  <2>1. PICK st \in {"code", "error"} : flow' = [flow EXCEPT ![f].st = st]
    BY <1>6 DEF ProviderReturns
  <2>2. Quiet
    BY <1>6 DEF ProviderReturns, Quiet
  <2> QED BY <1>6, <2>1, <2>2, QuietAnswer, FlowGoesOn DEF ProviderReturns
<1>7. ASSUME NEW f \in Flows, HandleCallback(f) PROVE OAuthInv'
  <2> DEFINE known == Verified(jar.nonce[f], f, CsrfLife)
             verifier == Verified(jar.verifier[f], f, VerifierLife)
  <2>0. flow[f].st \in {"code", "error"} /\ clock' = clock
    BY <1>7 DEF HandleCallback
  <2>c. ASSUME jar' = ClearTransaction(f)
        PROVE  Cleared(f) /\ SignsOneLogin(jar'.session["hmac"].value)
    BY <1>0, <2>c, ClearedCookies
  <2>s. \A st : flow' = [flow EXCEPT ![f].st = st] => flow'[f].started = flow[f].started
    BY <1>0
  <2>1. CASE ~known /\ jar' = jar /\ flow' = flow /\ OAuthAnswer("callback_refused", f, <<>>)
    <3>1. LoginsIndependent' /\ SessionIsOneLogin'
      BY <2>0, <2>1, RefusedCallback
    <3> QED BY <1>0, <1>1, <2>0, <2>1, <3>1
  <2>2. CASE /\ jar' = ClearTransaction(f) /\ OAuthAnswer("unauthorized", f, <<>>)
             /\ flow' = [flow EXCEPT ![f].st = "failed"]
    <3>1. Quiet
      BY <2>2 DEF OAuthAnswer, Quiet
    <3> QED BY <2>0, <2>2, <2>c, <3>1, QuietAnswer, FlowGoesOn
  <2>3. CASE /\ ~verifier /\ jar' = ClearTransaction(f)
             /\ OAuthAnswer("callback_refused", f, <<>>)
             /\ flow' = [flow EXCEPT ![f].st = "failed"]
    <3>1. LoginsIndependent' /\ SessionIsOneLogin'
      BY <2>0, <2>3, <2>s, RefusedCallback
    <3> QED BY <2>0, <2>3, <2>c, <3>1, FlowGoesOn
  <2>4. CASE /\ flow[f].st = "code" /\ flow' = [flow EXCEPT ![f].st = "exchanging"]
             /\ jar' = jar /\ OAuthAnswer("none", f, <<>>)
    <3>1. Quiet
      BY <2>4 DEF OAuthAnswer, Quiet
    <3> QED BY <2>0, <2>4, <3>1, QuietAnswer, FlowGoesOn
  <2> QED BY <1>7, <2>1, <2>2, <2>3, <2>4 DEF HandleCallback, FlowCookieName
<1>8. ASSUME NEW f \in Flows, ExchangeFails(f) PROVE OAuthInv'
  <2>1. Quiet /\ jar' = ClearTransaction(f) /\ clock' = clock
        /\ flow' = [flow EXCEPT ![f].st = "failed"]
    BY <1>8 DEF ExchangeFails, OAuthAnswer, Quiet
  <2>2. Cleared(f) /\ SignsOneLogin(jar'.session["hmac"].value)
    BY <1>0, <2>1, ClearedCookies
  <2> QED BY <2>1, <2>2, QuietAnswer, FlowGoesOn
<1>9. ASSUME NEW f \in Flows, ExchangeSucceeds(f) PROVE OAuthInv'
  <2>1. Quiet /\ clock' = clock /\ flow' = [flow EXCEPT ![f].st = "done"]
    BY <1>9 DEF ExchangeSucceeds, OAuthAnswer, Quiet
  <2>2. PICK sent : jar' = [ClearTransaction(f) EXCEPT !.session = NewSession(f, sent)]
    BY <1>9 DEF ExchangeSucceeds
  <2>3. Cleared(f) /\ jar'.session = NewSession(f, sent)
    BY <2>2, ClearedCookies
  <2>4. SignsOneLogin(jar'.session["hmac"].value)
    BY <2>3, NewSessionSigned
  <2> QED BY <2>1, <2>3, <2>4, QuietAnswer, FlowGoesOn
<1>10. ASSUME NEW f \in Flows, ResponseLost(f) PROVE OAuthInv'
  <2>1. Quiet
    BY <1>10 DEF ResponseLost, Quiet
  <2> QED BY <1>10, <2>1, QuietAnswer, FlowGoesOn DEF ResponseLost
<1>11. CASE UNCHANGED oauthVars
  <2>1. LoginsIndependent' /\ SessionIsOneLogin'
    BY <1>11 DEF OAuthInv, LoginsIndependent, SessionIsOneLogin, oauthVars
  <2> QED BY <1>0, <1>1, <1>11, <2>1 DEF oauthVars
<1> QED BY <1>2, <1>3, <1>4, <1>5, <1>6, <1>7, <1>8, <1>9, <1>10, <1>11 DEF OAuthNext

(* However the fetches of a key set, the stores of the fetcher and of the   *)
(* requests, the cache of decoded tokens and the clock interleave, and      *)
(* however many logins one browser has under way in several tabs, who is    *)
(* admitted was authenticated, by one login, and a CORS answer that may be  *)
(* cached for every origin is the same for every origin.                    *)
THEOREM AdmittedWereAuthenticated == AuthSpec /\ OAuthSpec => []AdmissionsKept
<1>1. AuthInit => AuthInv
  BY DEF AuthInit, AuthInv, JwtInv, CorsInv, RequestGood, IdleAuth
<1>2. AuthInv /\ [AuthNext]_authVars => AuthInv'
  BY JwtInvStep, CorsInvStep DEF AuthInv
<1>3. OAuthInit => OAuthInv
  BY DEF OAuthInit, OAuthInv, FlowsHaveCookies, SignsOneLogin, LoginsIndependent, SessionIsOneLogin,
         SessionCookies, TokenCookies, NoCookie
<1>4. AuthInv /\ OAuthInv => AdmissionsKept
  <2> SUFFICES ASSUME AuthInv, OAuthInv PROVE AdmissionsKept
    OBVIOUS
  <2>1. AdmittedWasValid
    BY DEF AuthInv, JwtInv, RequestGood, AdmittedWasValid
  <2>2. CorsCacheable
    <3>1. CASE cors = NoCors
      BY <3>1 DEF NoCors, CorsCacheable
    <3>2. ASSUME NEW c \in CorsConfigs, NEW r \in CorsRequests, cors = Answered(c, r)
          PROVE  CorsCacheable
      <4>1. cors.conf = c /\ cors.req = r /\ cors.answer = CorsAnswer(c, r)
        BY <3>2 DEF Answered
      <4> QED BY <4>1, CorsReuse DEF CorsCacheable
    <3> QED BY <3>1, <3>2 DEF AuthInv, CorsInv
  <2> QED BY <2>1, <2>2 DEF OAuthInv, AdmissionsKept
<1> QED BY <1>1, <1>2, <1>3, <1>4, OAuthInvStep, PTL DEF AuthSpec, OAuthSpec

-----------------------------------------------------------------------------
(* WasmFilter.                                                             *)

(* Stages in which the filter has an instance. *)
Serving == {"start", "started", "reqHeaders", "collectRequest", "reqBody", "rspHeaders",
            "collectResponse", "rspBody", "completing"}
Stages == Serving \cup {"unconfigured", "idle", "forwarded", "finished", "refused", "answered"}

Owners == Txs \cup {Nobody}

MessageRecords == [body : Nat, cl : Int, broken : BOOLEAN, by : Owners]

TxRecords ==
    [stage : Stages, inst : Instances \cup {Nobody}, calls : Nat,
     msg : MessageRecords, sent : Owners, logged : Owners]

VmStates ==
    [direct : Owners, body : [Sides -> Nat \cup {None}], trailers : [Sides -> Owners], ops : Owners,
     deadline : Owners, active : Sides \cup {"none"}, ctx : Owners]

(* The message m of the transaction t: without a last hook, which runs on  *)
(* when its message is gone, no other transaction writes it.               *)
MessageOK(t, m) ==
    /\ m \in MessageRecords
    /\ m.by = Nobody => m.cl \in {None, m.body}
    /\ "complete" \notin hooks => Belongs(m.by, t)

(* The transaction t may be in the state w. *)
TxOK(t, w) ==
    /\ w \in TxRecords
    /\ Belongs(w.sent, t) /\ Belongs(w.logged, t)
    /\ MessageOK(t, w.msg)
    /\ w.stage = "completing" => "complete" \in hooks
    /\ w.stage \in Serving => w.inst # Nobody
    /\ w.stage \in {"unconfigured", "idle"} => w.inst = Nobody

(* The instance of the transaction t, at the stage, may be in the state s. *)
VmOK(t, stage, s) ==
    /\ s \in VmStates
    /\ Belongs(s.direct, t) /\ Belongs(s.ops, t) /\ Belongs(s.deadline, t) /\ Belongs(s.ctx, t)
    /\ stage \in {"reqHeaders", "collectRequest", "reqBody"} => s.active = "request" /\ s.ctx = t
    /\ stage \in {"rspHeaders", "collectResponse", "rspBody"} => s.active = "response" /\ s.ctx = t

Unheld(i) == \A u \in Txs : tx[u].inst # i

WasmInv ==
    /\ tx = [t \in Txs |-> tx[t]]
    /\ vm = [i \in Instances |-> vm[i]]
    /\ pool \subseteq Instances
    /\ \A t \in Txs : TxOK(t, tx[t]) /\ (tx[t].inst # Nobody => VmOK(t, tx[t].stage, vm[tx[t].inst]))
    /\ \A t, u \in Txs : t # u => tx[t].inst = Nobody \/ tx[t].inst # tx[u].inst
    /\ \A i \in Instances : Unheld(i) => vm[i] = FreshState
    /\ \A i \in pool : Unheld(i)

(* A fresh instance and a fresh filter belong to anybody. *)
LEMMA FreshOK ==
  ASSUME NEW t \in Txs
  PROVE  /\ FreshState \in VmStates
         /\ \A x \in {FreshState.direct, FreshState.ops, FreshState.deadline, FreshState.ctx} : x = Nobody
         /\ TxOK(t, FreshTx) /\ FreshTx.inst = Nobody
         /\ TxOK(t, [FreshTx EXCEPT !.stage = "unconfigured"])
<1>1. /\ FreshState \in VmStates
      /\ \A x \in {FreshState.direct, FreshState.ops, FreshState.deadline, FreshState.ctx} : x = Nobody
  BY DEF FreshState, VmStates, Owners, None
<1>2. /\ FreshTx \in TxRecords /\ [FreshTx EXCEPT !.stage = "unconfigured"] \in TxRecords
  <2>1. 0 \in Nat /\ None \in Int /\ FALSE \in BOOLEAN
    BY DEF None
  <2>2. Message(0, None, FALSE) \in MessageRecords
    BY <2>1, Zenon DEF Message, MessageRecords, Owners
  <2>3. FreshTx \in TxRecords
    BY <2>1, <2>2 DEF FreshTx, TxRecords, Stages, Owners
  <2>4. \A w \in TxRecords : [w EXCEPT !.stage = "unconfigured"] \in TxRecords
    BY DEF TxRecords, Stages
  <2> QED BY <2>3, <2>4
<1>3. TxOK(t, FreshTx) /\ FreshTx.inst = Nobody
  BY <1>2 DEF FreshTx, TxOK, Belongs, Serving, Message, MessageOK, TxRecords
<1>4. TxOK(t, [FreshTx EXCEPT !.stage = "unconfigured"])
  BY <1>2 DEF FreshTx, TxOK, Belongs, Serving, Message, MessageOK, TxRecords
<1> QED BY <1>1, <1>3, <1>4

(* A step of the transaction t, which may take an instance that nobody has *)
(* and may give its own back, fresh.                                       *)
LEMMA TxStep ==
  ASSUME WasmInv, NEW t \in Txs, NEW w, TxOK(t, w), tx' = [tx EXCEPT ![t] = w], hooks' = hooks,
         vm' = [i \in Instances |-> vm'[i]],
         \A i \in Instances : i \notin {tx[t].inst, w.inst} => vm'[i] = vm[i],
         w.inst \in {Nobody, tx[t].inst} \/ Unheld(w.inst),
         w.inst # Nobody => VmOK(t, w.stage, vm'[w.inst]),
         w.inst # tx[t].inst /\ tx[t].inst # Nobody => vm'[tx[t].inst] = FreshState,
         pool' \subseteq (pool \cup {tx[t].inst}) \ {w.inst, Nobody}
  PROVE  WasmInv'
<1>1. /\ tx' = [u \in Txs |-> tx'[u]] /\ tx'[t] = w
      /\ \A u \in Txs : u # t => tx'[u] = tx[u]
  BY DEF WasmInv
<1>2. /\ \A u \in Txs : tx[u].inst \in Instances \cup {Nobody}
      /\ w.inst \in Instances \cup {Nobody}
  BY DEF WasmInv, TxOK, TxRecords
<1>3. ASSUME NEW u \in Txs, u # t, tx[u].inst # Nobody PROVE tx[u].inst \notin {tx[t].inst, w.inst}
  BY <1>3 DEF WasmInv, Unheld
<1>4. pool' \subseteq Instances
  BY <1>2 DEF WasmInv
<1>5. ASSUME NEW u \in Txs
      PROVE  TxOK(u, tx'[u]) /\ (tx'[u].inst # Nobody => VmOK(u, tx'[u].stage, vm'[tx'[u].inst]))
  <2>1. CASE u = t
    BY <1>1, <2>1
  <2>2. CASE u # t
    BY <1>1, <1>2, <1>3, <2>2 DEF WasmInv
  <2> QED BY <2>1, <2>2
<1>6. ASSUME NEW u \in Txs, NEW v \in Txs, u # v
      PROVE  tx'[u].inst = Nobody \/ tx'[u].inst # tx'[v].inst
  <2>1. CASE u # t /\ v # t
    BY <1>1, <1>6, <2>1 DEF WasmInv
  <2>2. CASE u = t \/ v = t
    BY <1>1, <1>3, <1>6, <2>2
  <2> QED BY <2>1, <2>2
<1>7. ASSUME NEW i \in Instances, \A u \in Txs : tx'[u].inst # i PROVE vm'[i] = FreshState
  <2>1. i # w.inst /\ \A u \in Txs : u # t => tx[u].inst # i
    BY <1>1, <1>7
  <2>2. CASE i = tx[t].inst
    <3>1. i # Nobody
      BY WasmAssumption
    <3> QED BY <2>1, <2>2, <3>1
  <2>3. CASE i # tx[t].inst
    <3>1. Unheld(i)
      BY <2>1, <2>3 DEF Unheld
    <3> QED BY <2>1, <2>3, <3>1 DEF WasmInv
  <2> QED BY <2>2, <2>3
<1>8. ASSUME NEW i \in pool', NEW u \in Txs PROVE tx'[u].inst # i
  <2>1. CASE u = t
    BY <1>1, <2>1
  <2>2. CASE u # t
    <3>1. i \in pool \/ i = tx[t].inst
      OBVIOUS
    <3>2. i # Nobody
      OBVIOUS
    <3> QED BY <1>1, <1>3, <2>2, <3>1, <3>2 DEF WasmInv, Unheld
  <2> QED BY <2>1, <2>2
<1>9. ASSUME NEW i \in Instances, Unheld(i)' PROVE vm'[i] = FreshState'
  BY <1>7, <1>9 DEF Unheld, FreshState
<1>10. \A i \in pool' : Unheld(i)'
  BY <1>8 DEF Unheld
<1>11. ASSUME NEW u \in Txs
       PROVE  TxOK(u, tx[u])' /\ (tx'[u].inst # Nobody => VmOK(u, tx[u].stage, vm[tx[u].inst])')
  BY <1>5 DEF TxOK, VmOK, MessageOK
<1> QED BY <1>1, <1>4, <1>6, <1>9, <1>10, <1>11 DEF WasmInv

(* Stages whose hooks see a message. *)
Handling == {"reqHeaders", "collectRequest", "reqBody", "rspHeaders", "collectResponse", "rspBody"}

LEMMA Loosened ==
  ASSUME NEW t, NEW st, NEW s, VmOK(t, st, s), NEW stage, stage \notin Handling
  PROVE  VmOK(t, stage, s)
  BY DEF VmOK, Handling

(* A fresh instance is fit for a stage that handles no message. *)
LEMMA FreshFits ==
  ASSUME NEW t \in Txs, NEW stage, stage \notin Handling
  PROVE  VmOK(t, stage, FreshState)
  BY FreshOK DEF VmOK, Handling, Belongs

(* A step of the transaction t that keeps its instance. *)
LEMMA KeepStep ==
  ASSUME WasmInv, NEW t \in Txs, NEW w, TxOK(t, w), w.inst = tx[t].inst, NEW s,
         tx' = [tx EXCEPT ![t] = w], pool' = pool, hooks' = hooks,
         \/ vm' = vm /\ (tx[t].inst # Nobody => VmOK(t, w.stage, vm[tx[t].inst]))
         \/ tx[t].inst # Nobody /\ vm' = [vm EXCEPT ![tx[t].inst] = s] /\ VmOK(t, w.stage, s)
  PROVE  WasmInv'
<1>1. /\ vm' = [i \in Instances |-> vm'[i]]
      /\ \A i \in Instances : i \notin {tx[t].inst, w.inst} => vm'[i] = vm[i]
  BY DEF WasmInv
<1>2. w.inst \in Instances \cup {Nobody}
  BY DEF TxOK, TxRecords
<1>3. w.inst # Nobody => VmOK(t, w.stage, vm'[w.inst])
  BY <1>2 DEF WasmInv
<1>4. pool' \subseteq (pool \cup {tx[t].inst}) \ {w.inst, Nobody}
  BY WasmAssumption DEF WasmInv, Unheld
<1> QED BY <1>1, <1>3, <1>4, TxStep

(* The instance of a transaction, and the one that it takes. *)
LEMMA Facts ==
  ASSUME WasmInv, NEW t \in Txs
  PROVE  /\ tx[t] \in TxRecords /\ tx[t].inst \in Instances \cup {Nobody}
         /\ tx[t].stage \in Stages /\ TxOK(t, tx[t])
         /\ tx[t].stage \in Serving => /\ tx[t].inst \in Instances
                                       /\ tx[t].inst # Nobody
         /\ tx[t].inst # Nobody => /\ tx[t].inst \in Instances
                                   /\ VmOK(t, tx[t].stage, vm[tx[t].inst])
         /\ \A i \in GetState(t) : \/ i = tx[t].inst
                                   \/ tx[t].inst = Nobody /\ i \in Instances /\ Unheld(i)
<1>1. TxOK(t, tx[t]) /\ (tx[t].inst # Nobody => VmOK(t, tx[t].stage, vm[tx[t].inst]))
  BY DEF WasmInv
<1>2. tx[t] \in TxRecords /\ tx[t].inst \in Instances \cup {Nobody} /\ tx[t].stage \in Stages
  BY <1>1 DEF TxOK, TxRecords
<1>3. tx[t].stage \in Serving => tx[t].inst # Nobody
  BY <1>1 DEF TxOK
<1>4. ASSUME NEW i \in GetState(t), i # tx[t].inst
      PROVE  tx[t].inst = Nobody /\ i \in Instances /\ Unheld(i)
  <2>1. tx[t].inst = Nobody
    BY <1>4 DEF GetState
  <2>2. i \in pool \/ i \in Unused
    BY <1>4, <2>1 DEF GetState
  <2>3. i \in Unused => i \in Instances /\ Unheld(i)
    BY <1>4, <2>1 DEF Unused, Held, Unheld
  <2> QED BY <2>1, <2>2, <2>3 DEF WasmInv
<1> QED BY <1>1, <1>2, <1>3, <1>4

LEMMA MessagesOK == \A t \in Txs, m \in Messages : MessageOK(t, m)
<1> SUFFICES ASSUME NEW t \in Txs PROVE \A m \in Messages : MessageOK(t, m)
  OBVIOUS
<1>1. \A n \in Sizes : n \in Nat /\ n \in Int
  BY WasmAssumption DEF Sizes
<1>2. None \in Int /\ 0 \in Nat /\ TRUE \in BOOLEAN /\ FALSE \in BOOLEAN
  BY DEF None
<1>3. ASSUME NEW n \in Nat, NEW cl \in {None, n}, NEW b \in BOOLEAN
      PROVE  MessageOK(t, Message(n, cl, b))
  <2>1. cl \in Int
    BY <1>2, <1>3
  <2>2. Message(n, cl, b) \in MessageRecords
    BY <1>2, <2>1, Zenon DEF Message, MessageRecords, Owners
  <2>3. Message(n, cl, b).cl = cl /\ Message(n, cl, b).body = n /\ Message(n, cl, b).by = Nobody
    BY DEF Message
  <2> QED BY <2>2, <2>3 DEF MessageOK, Belongs
<1>4. ASSUME NEW m \in Messages PROVE MessageOK(t, m)
  <2>1. \/ \E n \in Sizes : m = Message(n, None, FALSE)
        \/ \E n \in Sizes : m = Message(n, n, FALSE)
        \/ m = Message(0, None, TRUE)
    BY DEF Messages
  <2>2. CASE \E n \in Sizes : m = Message(n, None, FALSE) \/ m = Message(n, n, FALSE)
    <3>1. PICK n \in Sizes : m = Message(n, None, FALSE) \/ m = Message(n, n, FALSE)
      BY <2>2
    <3> QED BY <1>1, <1>2, <1>3, <3>1, Zenon
  <2>3. CASE m = Message(0, None, TRUE)
    BY <1>2, <1>3, <2>3, Zenon
  <2> QED BY <2>1, <2>2, <2>3
<1> QED BY <1>4

(* The filter enters a stage with a message, on an instance. *)
Entered(w, stage, i, m) == [w EXCEPT !.msg = m, !.stage = stage, !.inst = i]

LEMMA EnteredOK ==
  ASSUME NEW t \in Txs, NEW w, TxOK(t, w), NEW i \in Instances \cup {Nobody}, NEW m, MessageOK(t, m),
         NEW stage \in Stages \ {"unconfigured", "idle", "completing"}, stage \in Serving => i # Nobody
  PROVE  /\ TxOK(t, Entered(w, stage, i, m)) /\ Entered(w, stage, i, m).inst = i
         /\ Entered(w, stage, i, m).stage = stage
<1>1. w \in TxRecords /\ m \in MessageRecords
  BY DEF TxOK, MessageOK
<1> DEFINE e == Entered(w, stage, i, m)
<1>2. /\ e \in TxRecords /\ e.msg = m /\ e.stage = stage /\ e.inst = i
      /\ e.sent = w.sent /\ e.logged = w.logged
  BY <1>1 DEF TxRecords, Entered
<1> HIDE DEF e
<1>3. TxOK(t, e)
  BY <1>2 DEF TxOK, MessageOK
<1> QED BY <1>2, <1>3 DEF e

(* The handles of the message are those of the transaction. *)
LEMMA HandlesOK ==
  ASSUME NEW t \in Txs, NEW s, NEW st, VmOK(t, st, s), NEW side \in Sides,
         NEW stage, side = "request" => stage \notin {"rspHeaders", "collectResponse", "rspBody"},
         side = "response" => stage \notin {"reqHeaders", "collectRequest", "reqBody"}
  PROVE  VmOK(t, stage, SetHandles(s, t, side))
<1> DEFINE p == SetHandles(s, t, side)
<1>1. /\ p \in VmStates /\ p.direct = s.direct /\ p.ops = s.ops /\ p.deadline = s.deadline
      /\ p.ctx = t /\ p.active = side
  BY DEF VmOK, VmStates, SetHandles, Owners
<1> HIDE DEF p
<1>2. VmOK(t, stage, p)
  BY <1>1 DEF VmOK, Belongs, Sides
<1> QED BY <1>2 DEF p

LEMMA EnterStep ==
  ASSUME WasmInv, NEW t \in Txs, NEW i \in GetState(t), NEW m, MessageOK(t, m), NEW side \in Sides,
         NEW stage \in IF side = "request" THEN {"start", "forwarded", "reqHeaders", "collectRequest"}
                       ELSE {"finished", "rspHeaders", "collectResponse"},
         EnterStage(t, i, stage, side, m)
  PROVE  WasmInv'
<1> DEFINE needs == stage \notin {"forwarded", "finished"}
           st == IF needs /\ i = Nobody THEN "refused" ELSE stage
           k == IF needs THEN i ELSE tx[t].inst
           w == Entered(tx[t], st, k, m)
<1>1. tx' = [tx EXCEPT ![t] = w]
  BY DEF EnterStage, Entered
<1>2. /\ st \in Stages \ {"unconfigured", "idle", "completing"} /\ k \in Instances \cup {Nobody}
      /\ st \in Serving => k # Nobody
  BY Facts DEF Stages, Serving, Sides
<1>3. TxOK(t, w) /\ w.inst = k /\ w.stage = st
  <2> HIDE DEF st, k
  <2> QED BY <1>2, EnteredOK, Facts
<1>4. k \in {Nobody, tx[t].inst} \/ Unheld(k)
  BY Facts
<1>5. /\ vm' = IF needs /\ i # Nobody /\ stage # "start" THEN [vm EXCEPT ![i] = SetHandles(vm[i], t, side)] ELSE vm
      /\ pool' = (IF needs THEN pool \ {i} ELSE pool) /\ hooks' = hooks
  BY DEF EnterStage
<1>6. /\ vm' = [j \in Instances |-> vm'[j]]
      /\ \A j \in Instances : j \notin {tx[t].inst, k} => vm'[j] = vm[j]
  BY <1>5 DEF WasmInv
<1>7. k # Nobody => \E old : VmOK(t, old, vm[k]) /\ k \in Instances
  <2>1. CASE k = tx[t].inst
    BY <2>1, Facts
  <2>2. CASE Unheld(k) /\ k # Nobody
    <3>1. k \in Instances /\ vm[k] = FreshState
      BY <1>2, <2>2 DEF WasmInv
    <3>2. "start" \notin Handling
      BY DEF Handling
    <3> QED BY <3>1, <3>2, FreshFits
  <2> QED BY <1>4, <2>1, <2>2
<1>8. k # Nobody => VmOK(t, st, vm'[k])
  <2> SUFFICES ASSUME k # Nobody PROVE VmOK(t, st, vm'[k])
    OBVIOUS
  <2>1. PICK old : VmOK(t, old, vm[k]) /\ k \in Instances
    BY <1>7
  <2>2. CASE vm' = vm /\ st \notin Handling
    BY <2>1, <2>2, Loosened
  <2>3. CASE needs /\ i # Nobody /\ stage # "start"
    <3>1. vm'[k] = SetHandles(vm[k], t, side) /\ st = stage
      BY <1>5, <2>1, <2>3 DEF WasmInv
    <3>2. VmOK(t, stage, SetHandles(vm[k], t, side))
      <4> HIDE DEF k
      <4> QED BY <2>1, HandlesOK, Zenon DEF Sides
    <3> QED BY <3>1, <3>2
  <2> QED BY <1>5, <2>2, <2>3 DEF Handling
<1>9. k # tx[t].inst => tx[t].inst = Nobody
  BY Facts
<1>10. pool' \subseteq (pool \cup {tx[t].inst}) \ {k, Nobody}
  <2>1. pool' \subseteq pool /\ (needs => i \notin pool')
    BY <1>5
  <2>2. \A j \in pool : j # Nobody /\ j # tx[t].inst
    BY WasmAssumption DEF WasmInv, Unheld
  <2> QED BY <2>1, <2>2
<1>11. hooks' = hooks
  BY <1>5
<1> HIDE DEF w, k, st, needs
<1> QED BY <1>1, <1>3, <1>4, <1>6, <1>8, <1>9, <1>10, <1>11, TxStep

(* A host call leaves in the instance what belongs to the transaction. *)
LEMMA CallOK ==
  ASSUME NEW t \in Txs, NEW stage, NEW s, VmOK(t, stage, s), NEW p \in Calls(s, t)
  PROVE  VmOK(t, stage, p)
<1>0. s \in VmStates
  BY DEF VmOK
<1>1. \A n \in Sizes : n \in Nat
  BY WasmAssumption DEF Sizes
<1>2. /\ p \in VmStates /\ p.active = s.active /\ p.ctx = s.ctx
      /\ p.direct \in {s.direct, t} /\ p.ops \in {s.ops, t} /\ p.deadline \in {s.deadline, t, Nobody}
  <2>1. CASE p = SendDirectResponse(s, t)
    BY <1>0, <2>1 DEF SendDirectResponse, VmStates, Owners
  <2>2. CASE p = SetTrailers(s, t)
    <3>1. CASE s.active = "none"
      BY <1>0, <2>2, <3>1 DEF SetTrailers
    <3>2. CASE s.active # "none"
      <4>1. p = [s EXCEPT !.trailers[s.active] = t] /\ s.active \in Sides
        BY <1>0, <2>2, <3>2 DEF SetTrailers, VmStates
      <4> QED BY <1>0, <4>1 DEF VmStates, Owners
    <3> QED BY <3>1, <3>2
  <2>3. CASE p = SetAccessLogOperators(s, t)
    BY <1>0, <2>3 DEF SetAccessLogOperators, VmStates, Owners
  <2>4. CASE p = SetIoTimeout(s, t) \/ p = ClearIoTimeout(s)
    BY <1>0, <2>4 DEF SetIoTimeout, ClearIoTimeout, VmStates, Owners
  <2>5. ASSUME NEW n \in Sizes, p = SetBody(s, n)
        PROVE  /\ p \in VmStates /\ p.active = s.active /\ p.ctx = s.ctx
               /\ p.direct = s.direct /\ p.ops = s.ops /\ p.deadline = s.deadline
    <3>1. CASE s.active = "none"
      BY <1>0, <2>5, <3>1 DEF SetBody
    <3>2. CASE s.active # "none"
      <4>1. p = [s EXCEPT !.body[s.active] = n] /\ s.active \in Sides /\ n \in Nat
        BY <1>0, <1>1, <2>5, <3>2 DEF SetBody, VmStates
      <4> QED BY <1>0, <4>1 DEF VmStates
    <3> QED BY <3>1, <3>2
  <2> QED BY <2>1, <2>2, <2>3, <2>4, <2>5 DEF Calls
<1> QED BY <1>2 DEF VmOK, Belongs

(* The stage of a transaction changes, and its count of calls. *)
LEMMA StageOK ==
  ASSUME NEW t \in Txs, NEW w, TxOK(t, w), NEW stage \in Stages \ {"unconfigured", "idle"},
         stage \in Serving => w.inst # Nobody, stage = "completing" => "complete" \in hooks
  PROVE  /\ TxOK(t, [w EXCEPT !.stage = stage]) /\ [w EXCEPT !.stage = stage].inst = w.inst
         /\ [w EXCEPT !.stage = stage].stage = stage
<1> DEFINE e == [w EXCEPT !.stage = stage]
<1>1. /\ e \in TxRecords /\ e.msg = w.msg /\ e.stage = stage /\ e.inst = w.inst
      /\ e.sent = w.sent /\ e.logged = w.logged
  BY DEF TxOK, TxRecords
<1> HIDE DEF e
<1>2. TxOK(t, e)
  BY <1>1 DEF TxOK
<1> QED BY <1>1, <1>2 DEF e

(* The operators of an instance go to the transaction that has it. *)
LEMMA OperatorsOK ==
  ASSUME NEW t \in Txs, NEW w, TxOK(t, w), NEW st, NEW s, VmOK(t, st, s)
  PROVE  /\ TxOK(t, WithOperators(w, s)) /\ WithOperators(w, s).inst = w.inst
         /\ WithOperators(w, s).stage = w.stage
<1> DEFINE e == WithOperators(w, s)
<1>1. /\ e \in TxRecords /\ e.msg = w.msg /\ e.stage = w.stage /\ e.inst = w.inst
      /\ e.sent = w.sent /\ e.logged \in {w.logged, s.ops}
  BY DEF TxOK, TxRecords, VmOK, VmStates, WithOperators
<1> HIDE DEF e
<1>2. TxOK(t, e)
  BY <1>1 DEF TxOK, VmOK
<1> QED BY <1>1, <1>2 DEF e

(* A direct response is the one that the transaction staged. *)
LEMMA DirectOK ==
  ASSUME NEW t \in Txs, NEW w, TxOK(t, w), NEW st, NEW s, VmOK(t, st, s)
  PROVE  /\ TxOK(t, Direct(t, w, s)) /\ Direct(t, w, s).inst = w.inst
         /\ Direct(t, w, s).stage \in {"refused", "answered"}
<1> DEFINE e == Direct(t, w, s)
<1>1. /\ e \in TxRecords /\ e.msg = w.msg /\ e.stage \in {"refused", "answered"} /\ e.inst = w.inst
      /\ e.sent \in {w.sent, s.direct} /\ e.logged = w.logged
  BY DEF TxOK, TxRecords, VmOK, VmStates, Direct, Stages
<1> HIDE DEF e
<1>2. TxOK(t, e)
  BY <1>1 DEF TxOK, VmOK, Serving
<1> QED BY <1>1, <1>2 DEF e

(* What the filter leaves in an instance between two hooks. *)
Left(s, d) == [s EXCEPT !.ops = Nobody, !.direct = d]
LeftOf(s, side, n, x, o, d) ==
    [s EXCEPT !.body[side] = n, !.trailers[side] = x, !.ops = o, !.direct = d]

LEMMA LeftOK ==
  ASSUME NEW t \in Txs, NEW st, NEW s, VmOK(t, st, s), NEW side \in Sides,
         NEW n \in Nat \cup {None}, NEW x \in Owners, NEW d \in {s.direct, Nobody}, NEW o \in {s.ops, Nobody}
  PROVE  VmOK(t, st, Left(s, d)) /\ VmOK(t, st, LeftOf(s, side, n, x, o, d))
<1>0. s \in VmStates /\ d \in Owners /\ o \in Owners
  BY DEF VmOK, VmStates, Owners
<1> DEFINE p == Left(s, d)
           q == LeftOf(s, side, n, x, o, d)
<1>1. /\ p \in VmStates /\ p.direct = d /\ p.ops = Nobody /\ p.deadline = s.deadline
      /\ p.ctx = s.ctx /\ p.active = s.active
  BY <1>0 DEF VmStates, Left, Owners
<1>2. /\ q \in VmStates /\ q.direct = d /\ q.ops = o /\ q.deadline = s.deadline
      /\ q.ctx = s.ctx /\ q.active = s.active
  BY <1>0 DEF VmStates, LeftOf
<1> HIDE DEF p, q
<1>3. VmOK(t, st, p) /\ VmOK(t, st, q)
  BY <1>1, <1>2 DEF VmOK, Belongs
<1> QED BY <1>3 DEF p, q

(* A hook gives the operators to the transaction as it goes on with w. *)
LEMMA ExtractStep ==
  ASSUME WasmInv, NEW t \in Txs, tx[t].stage \in Serving, NEW w, TxOK(t, w), w.inst = tx[t].inst,
         w.stage \notin Handling, pool' = pool, hooks' = hooks, ExtractOperators(t, tx[t].inst, w)
  PROVE  WasmInv'
<1> DEFINE i == tx[t].inst
           s == vm[i]
<1>0. i \in Instances /\ i # Nobody /\ VmOK(t, tx[t].stage, s)
  BY Facts
<1>1. tx' = [tx EXCEPT ![t] = WithOperators(w, s)]
  BY DEF ExtractOperators
<1>2. vm' = [vm EXCEPT ![i] = Left(s, s.direct)]
  <2>1. s \in VmStates
    BY <1>0 DEF VmOK
  <2>2. [s EXCEPT !.ops = Nobody] = Left(s, s.direct)
    BY <2>1 DEF VmStates, Left
  <2> QED BY <2>2 DEF ExtractOperators
<1>3. VmOK(t, tx[t].stage, Left(s, s.direct))
  <2> HIDE DEF s
  <2>1. "request" \in Sides /\ 0 \in Nat \cup {None} /\ Nobody \in Owners
    BY DEF Sides, Owners
  <2> QED BY <1>0, <2>1, LeftOK, Zenon
<1>4. VmOK(t, w.stage, Left(s, s.direct))
  <2> HIDE DEF s
  <2> QED BY <1>3, Loosened
<1>5. TxOK(t, WithOperators(w, s)) /\ WithOperators(w, s).inst = i /\ WithOperators(w, s).stage = w.stage
  <2> HIDE DEF s
  <2> QED BY <1>0, OperatorsOK
<1> HIDE DEF i, s
<1> QED BY <1>0, <1>1, <1>2, <1>4, <1>5, KeepStep DEF i

(* A new filter: nobody has an instance, before and after. *)
LEMMA TryNewStep ==
  ASSUME WasmInv, TryNew
  PROVE  WasmInv'
<1>1. \A t \in Txs : tx[t].inst = Nobody
  BY DEF WasmInv, TxOK, TryNew
<1>2. tx' = [t \in Txs |-> FreshTx] /\ vm' = vm /\ pool' = pool
  BY DEF TryNew
<1>3. \A t \in Txs : TxOK(t, FreshTx) /\ FreshTx.inst = Nobody
  BY FreshOK
<1>4. \A t \in Txs : tx'[t] = FreshTx /\ tx'[t].inst = Nobody
  BY <1>2, <1>3
<1>5. \A i : Unheld(i)' <=> Unheld(i)
  BY <1>1, <1>4 DEF Unheld
<1>6. \A t \in Txs : TxOK(t, tx[t])'
  <2> SUFFICES ASSUME NEW t \in Txs PROVE TxOK(t, tx[t])'
    OBVIOUS
  <2>1. tx'[t] = FreshTx /\ FreshTx \in TxRecords
    BY <1>3, <1>4 DEF TxOK
  <2>2. /\ FreshTx.sent = Nobody /\ FreshTx.logged = Nobody /\ FreshTx.msg = Message(0, None, FALSE)
        /\ FreshTx.stage = "idle" /\ Message(0, None, FALSE).by = Nobody /\ FreshTx.inst = Nobody
    BY DEF FreshTx, Message
  <2>3. MessageOK(t, FreshTx.msg)'
    BY <1>3, <2>2 DEF TxOK, MessageOK, Belongs
  <2> HIDE DEF FreshTx
  <2> QED BY <2>1, <2>2, <2>3 DEF TxOK, Belongs, Serving
<1>7. tx' = [t \in Txs |-> tx'[t]]
  BY <1>2
<1> QED BY <1>2, <1>4, <1>5, <1>6, <1>7 DEF WasmInv

LEMMA HostCallStep ==
  ASSUME WasmInv, NEW t \in Txs, HostCall(t)
  PROVE  WasmInv'
<1> DEFINE i == tx[t].inst
           w == [tx[t] EXCEPT !.calls = @ + 1]
<1>1. tx[t].stage \in Serving
  BY Facts DEF HostCall, InHook, Running, HookFlags, Serving, Stages
<1>2. i \in Instances /\ i # Nobody /\ VmOK(t, tx[t].stage, vm[i]) /\ TxOK(t, tx[t]) /\ tx[t] \in TxRecords
  BY <1>1, Facts
<1>3. PICK s \in Calls(vm[i], t) : vm' = [vm EXCEPT ![i] = s]
  BY DEF HostCall
<1>4. VmOK(t, tx[t].stage, s)
  BY <1>2, CallOK
<1>5. tx' = [tx EXCEPT ![t] = w] /\ pool' = pool /\ hooks' = hooks
  BY DEF HostCall
<1>6. /\ w \in TxRecords /\ w.stage = tx[t].stage /\ w.inst = i /\ w.msg = tx[t].msg
      /\ w.sent = tx[t].sent /\ w.logged = tx[t].logged
  BY <1>2 DEF TxRecords
<1> HIDE DEF w
<1>7. TxOK(t, w)
  BY <1>2, <1>6 DEF TxOK
<1> QED BY <1>2, <1>3, <1>4, <1>5, <1>6, <1>7, KeepStep

(* The plugin of t replaces the message of u: what it leaves need not agree. *)
Overwritten(m, n, t) == [m EXCEPT !.cl = n, !.by = t]
Through(w, v, t, u, n) ==
    [w EXCEPT !.calls = IF v = t THEN w.calls + 1 ELSE w.calls,
              !.msg = IF v = u THEN Overwritten(w.msg, n, t) ELSE w.msg]

LEMMA ThroughOK ==
  ASSUME NEW t \in Txs, NEW v \in Txs, NEW w, TxOK(v, w), NEW n \in Nat, NEW u,
         u = t \/ "complete" \in hooks
  PROVE  /\ TxOK(v, Through(w, v, t, u, n)) /\ Through(w, v, t, u, n).inst = w.inst
         /\ Through(w, v, t, u, n).stage = w.stage
<1>0. w \in TxRecords /\ w.msg \in MessageRecords /\ w.calls \in Nat /\ MessageOK(v, w.msg)
  BY DEF TxOK, TxRecords
<1> DEFINE m == Overwritten(w.msg, n, t)
           x == IF v = u THEN m ELSE w.msg
           c == IF v = t THEN w.calls + 1 ELSE w.calls
           e == Through(w, v, t, u, n)
<1>1. m \in MessageRecords /\ m.by = t
  <2>1. \A y \in MessageRecords, j \in Int, o \in Owners :
           Overwritten(y, j, o) \in MessageRecords /\ Overwritten(y, j, o).by = o
    BY DEF MessageRecords, Overwritten
  <2> QED BY <1>0, <2>1 DEF Owners
<1>2. t # Nobody /\ c \in Nat
  BY <1>0, WasmAssumption
<1>3. v = u => MessageOK(v, m)
  <2> HIDE DEF m
  <2> QED BY <1>1, <1>2 DEF MessageOK, Belongs
<1>4. x \in MessageRecords /\ MessageOK(v, x)
  BY <1>0, <1>1, <1>3
<1>5. e = [w EXCEPT !.calls = c, !.msg = x]
  BY DEF Through
<1> HIDE DEF m, x, c
<1>6. /\ e \in TxRecords /\ e.msg = x /\ e.stage = w.stage /\ e.inst = w.inst
      /\ e.sent = w.sent /\ e.logged = w.logged
  BY <1>0, <1>2, <1>4, <1>5 DEF TxRecords
<1> HIDE DEF e
<1>7. TxOK(v, e)
  BY <1>4, <1>6 DEF TxOK
<1> QED BY <1>6, <1>7 DEF e

LEMMA ReplaceStep ==
  ASSUME WasmInv, NEW t \in Txs, NEW side \in Sides, ReplaceMessage(t, side)
  PROVE  WasmInv'
<1> DEFINE i == tx[t].inst
           s == vm[i]
<1>1. tx[t].stage \in Serving
  BY Facts DEF ReplaceMessage, InHook, Running, HookFlags, Serving, Stages
<1>2. i \in Instances /\ i # Nobody /\ VmOK(t, tx[t].stage, s)
  BY <1>1, Facts
<1>3. PICK n \in Sizes, u \in PointsTo(t) :
        /\ vm' = [vm EXCEPT ![i].body[side] = n]
        /\ tx' = [v \in Txs |-> [tx[v] EXCEPT !.calls = IF v = t THEN @ + 1 ELSE @,
                                              !.msg = IF v = u THEN [@ EXCEPT !.cl = n, !.by = t] ELSE @]]
  BY DEF ReplaceMessage
<1>4. n \in Nat /\ pool' = pool /\ hooks' = hooks
  <2>1. \A j \in Sizes : j \in Nat
    BY WasmAssumption DEF Sizes
  <2>2. UNCHANGED <<hooks, pool>>
    BY Zenon DEF ReplaceMessage
  <2> QED BY <2>1, <2>2
<1>5. u = t \/ "complete" \in hooks
  BY Facts DEF PointsTo, TxOK
<1> DEFINE q(v) == Through(tx[v], v, t, u, n)
           p == LeftOf(s, side, n, s.trailers[side], s.ops, s.direct)
<1>6. tx' = [v \in Txs |-> q(v)]
  BY <1>3 DEF Through, Overwritten
<1>7. vm' = [vm EXCEPT ![i] = p]
  <2>1. \A x \in VmStates :
           [x EXCEPT !.body[side] = n] = LeftOf(x, side, n, x.trailers[side], x.ops, x.direct)
    BY DEF LeftOf, VmStates
  <2>2. vm' = [vm EXCEPT ![i] = [s EXCEPT !.body[side] = n]]
    BY <1>3
  <2> QED BY <1>2, <2>1, <2>2 DEF VmOK
<1>8. VmOK(t, tx[t].stage, p)
  <2>1. s.trailers[side] \in Owners
    BY <1>2 DEF VmOK, VmStates
  <2> HIDE DEF s
  <2> QED BY <1>2, <1>4, <2>1, LeftOK
<1>9. ASSUME NEW v \in Txs
      PROVE  TxOK(v, q(v)) /\ q(v).inst = tx[v].inst /\ q(v).stage = tx[v].stage
  BY <1>4, <1>5, Facts, ThroughOK
<1> HIDE DEF q, p
<1>10. /\ tx' = [v \in Txs |-> tx'[v]] /\ vm' = [j \in Instances |-> vm'[j]]
       /\ vm'[i] = p /\ \A j \in Instances : j # i => vm'[j] = vm[j]
       /\ \A v \in Txs : tx'[v] = q(v)
  BY <1>2, <1>6, <1>7 DEF WasmInv
<1>11. \A j : Unheld(j)' <=> Unheld(j)
  BY <1>9, <1>10 DEF Unheld
<1>12. ASSUME NEW v \in Txs
       PROVE  TxOK(v, tx'[v]) /\ (tx'[v].inst # Nobody => VmOK(v, tx'[v].stage, vm'[tx'[v].inst]))
  <2>1. CASE v = t
    BY <1>2, <1>8, <1>9, <1>10, <2>1
  <2>2. CASE v # t
    <3>1. tx[v].inst # Nobody => tx[v].inst # i /\ tx[v].inst \in Instances /\ VmOK(v, tx[v].stage, vm[tx[v].inst])
      BY <2>2, Facts DEF WasmInv
    <3> QED BY <1>9, <1>10, <3>1
  <2> QED BY <2>1, <2>2
<1>13. ASSUME NEW v \in Txs
       PROVE  TxOK(v, tx[v])' /\ (tx'[v].inst # Nobody => VmOK(v, tx[v].stage, vm[tx[v].inst])')
  BY <1>4, <1>12 DEF TxOK, VmOK, MessageOK
<1>14. ASSUME NEW j \in Instances, Unheld(j)' PROVE vm'[j] = FreshState'
  <2>1. Unheld(j) /\ j # i
    BY <1>11, <1>14 DEF Unheld
  <2> QED BY <1>10, <2>1 DEF WasmInv, FreshState
<1>15. \A v, z \in Txs : v # z => tx'[v].inst = Nobody \/ tx'[v].inst # tx'[z].inst
  BY <1>9, <1>10 DEF WasmInv
<1>16. pool' \subseteq Instances /\ \A j \in pool' : Unheld(j)'
  BY <1>4, <1>11 DEF WasmInv
<1> QED BY <1>10, <1>13, <1>14, <1>15, <1>16 DEF WasmInv

LEMMA HeadersStep ==
  ASSUME WasmInv, NEW t \in Txs, NEW side \in Sides, OnHeaders(t, side)
  PROVE  WasmInv'
<1> DEFINE i == tx[t].inst
           s == vm[i]
<1>1. tx[t].stage \in Serving /\ tx[t].stage = HeadersOf(side) /\ pool' = pool /\ hooks' = hooks
  BY DEF OnHeaders, HeadersOf, Serving
<1>2. i \in Instances /\ i # Nobody /\ VmOK(t, tx[t].stage, s) /\ TxOK(t, tx[t])
  BY <1>1, Facts
<1>3. ASSUME NEW st \in {"forwarded", "finished", "refused"},
             ExtractOperators(t, i, [tx[t] EXCEPT !.stage = st])
      PROVE  WasmInv'
  <2> DEFINE w == [tx[t] EXCEPT !.stage = st]
  <2>1. st \in Stages \ {"unconfigured", "idle"} /\ st \notin Serving /\ st \notin Handling
    BY DEF Stages, Serving, Handling
  <2>2. TxOK(t, w) /\ w.inst = i /\ w.stage = st
    BY <1>2, <2>1, StageOK DEF Serving
  <2> HIDE DEF w
  <2>3. ExtractOperators(t, i, w)
    BY <1>3 DEF w
  <2> QED BY <1>1, <2>1, <2>2, <2>3, ExtractStep
<1>4. CASE /\ tx' = [tx EXCEPT ![t].stage = IF side = "request" THEN "collectRequest" ELSE "collectResponse"]
           /\ UNCHANGED vm
  <2> DEFINE st == IF side = "request" THEN "collectRequest" ELSE "collectResponse"
             w == [tx[t] EXCEPT !.stage = st]
  <2>1. st \in Stages \ {"unconfigured", "idle"} /\ st # "completing" /\ tx' = [tx EXCEPT ![t] = w]
    BY <1>4 DEF Stages, Serving
  <2>2. TxOK(t, w) /\ w.inst = i /\ w.stage = st
    <3> HIDE DEF st
    <3> QED BY <1>2, <2>1, StageOK
  <2>3. VmOK(t, st, s)
    BY <1>1, <1>2 DEF VmOK, HeadersOf, Sides
  <2> HIDE DEF w, st
  <2> QED BY <1>1, <1>2, <1>4, <2>1, <2>2, <2>3, KeepStep
<1>5. CASE /\ tx' = [tx EXCEPT ![t] = WithOperators(Direct(t, tx[t], s), s)]
           /\ vm' = [vm EXCEPT ![i].ops = Nobody, ![i].direct = Nobody]
  <2> DEFINE d == Direct(t, tx[t], s)
             w == WithOperators(d, s)
  <2>1. TxOK(t, d) /\ d.inst = i /\ d.stage \in {"refused", "answered"}
    BY <1>2, DirectOK
  <2> HIDE DEF d
  <2>2. TxOK(t, w) /\ w.inst = i /\ w.stage \in {"refused", "answered"}
    BY <1>2, <2>1, OperatorsOK
  <2>3. vm' = [vm EXCEPT ![i] = Left(s, Nobody)]
    BY <1>2, <1>5 DEF Left, WasmInv, VmOK, VmStates
  <2>4. VmOK(t, tx[t].stage, Left(s, Nobody))
    <3>1. 0 \in Nat \cup {None} /\ Nobody \in Owners
      BY DEF Owners
    <3> HIDE DEF s
    <3> QED BY <1>2, <3>1, LeftOK, Zenon
  <2>5. w.stage \notin Handling
    BY <2>2 DEF Handling
  <2>6. VmOK(t, w.stage, Left(s, Nobody))
    <3> HIDE DEF s, w
    <3> QED BY <2>4, <2>5, Loosened
  <2>7. tx' = [tx EXCEPT ![t] = w]
    BY <1>5 DEF d
  <2> HIDE DEF w, s, i
  <2> QED BY <1>1, <1>2, <2>2, <2>3, <2>6, <2>7, KeepStep DEF i
<1> QED BY <1>3, <1>4, <1>5 DEF OnHeaders, After

LEMMA CollectStep ==
  ASSUME WasmInv, NEW t \in Txs, NEW side \in Sides, Collect(t, side)
  PROVE  WasmInv'
<1> DEFINE i == tx[t].inst
           s == vm[i]
           m == tx[t].msg
<1>1. /\ tx[t].stage = IF side = "request" THEN "collectRequest" ELSE "collectResponse"
      /\ tx[t].stage \in Serving /\ pool' = pool /\ hooks' = hooks
  BY DEF Collect, Serving
<1>2. i \in Instances /\ i # Nobody /\ VmOK(t, tx[t].stage, s) /\ TxOK(t, tx[t]) /\ m.body \in Nat
  BY <1>1, Facts DEF TxRecords, MessageRecords
<1>3. ASSUME NEW st \in {"forwarded", "finished", "refused"}
      PROVE  /\ TxOK(t, [tx[t] EXCEPT !.stage = st]) /\ [tx[t] EXCEPT !.stage = st].inst = i
             /\ [tx[t] EXCEPT !.stage = st].stage = st /\ st \notin Handling
  <2>1. st \in Stages \ {"unconfigured", "idle"} /\ st \notin Serving /\ st \notin Handling
    BY DEF Stages, Serving, Handling
  <2> QED BY <1>2, <2>1, StageOK DEF Serving
<1>4. CASE Fails(t, tx[t])
  <2> DEFINE w == [tx[t] EXCEPT !.stage = "refused"]
  <2>1. TxOK(t, w) /\ w.inst = i /\ w.stage = "refused" /\ "refused" \notin Handling
    BY <1>3
  <2>2. VmOK(t, "refused", s)
    BY <1>2, <2>1, Loosened
  <2> HIDE DEF w
  <2>3. tx' = [tx EXCEPT ![t] = w] /\ vm' = vm
    BY <1>4 DEF Fails, w
  <2> QED BY <1>1, <2>1, <2>2, <2>3, KeepStep
<1>5. CASE /\ tx' = [tx EXCEPT ![t].stage = BodyOf(side)]
           /\ vm' = [vm EXCEPT ![i].body[side] = m.body, ![i].trailers[side] = t]
  <2> DEFINE w == [tx[t] EXCEPT !.stage = BodyOf(side)]
             p == LeftOf(s, side, m.body, t, s.ops, s.direct)
  <2>1. BodyOf(side) \in Stages \ {"unconfigured", "idle"} /\ BodyOf(side) # "completing" /\ tx' = [tx EXCEPT ![t] = w]
    BY <1>5 DEF Stages, Serving, BodyOf
  <2>2. TxOK(t, w) /\ w.inst = i /\ w.stage = BodyOf(side)
    BY <1>2, <2>1, StageOK
  <2>3. vm' = [vm EXCEPT ![i] = p]
    <3>1. \A x \in VmStates, n \in Nat :
             [x EXCEPT !.body[side] = n, !.trailers[side] = t] = LeftOf(x, side, n, t, x.ops, x.direct)
      BY DEF LeftOf, VmStates
    <3>2. vm' = [vm EXCEPT ![i] = [s EXCEPT !.body[side] = m.body, !.trailers[side] = t]]
      BY <1>5
    <3> QED BY <1>2, <3>1, <3>2 DEF VmOK
  <2>4. VmOK(t, tx[t].stage, p)
    <3>1. t \in Owners /\ m.body \in Nat \cup {None}
      BY <1>2 DEF Owners
    <3> HIDE DEF s, m
    <3> QED BY <1>2, <3>1, LeftOK
  <2> HIDE DEF p
  <2>5. VmOK(t, BodyOf(side), p)
    BY <1>1, <2>4 DEF VmOK, BodyOf, Sides
  <2> HIDE DEF w
  <2> QED BY <1>1, <1>2, <2>1, <2>2, <2>3, <2>5, KeepStep
<1>6. CASE ExtractOperators(t, i, [tx[t] EXCEPT !.stage = After(side)])
  <2> DEFINE w == [tx[t] EXCEPT !.stage = After(side)]
  <2>1. After(side) \in {"forwarded", "finished", "refused"}
    BY DEF After
  <2>2. TxOK(t, w) /\ w.inst = i /\ w.stage \notin Handling
    BY <1>3, <2>1
  <2> HIDE DEF w
  <2>3. ExtractOperators(t, i, w)
    BY <1>6 DEF w
  <2> QED BY <1>1, <2>2, <2>3, ExtractStep
<1> QED BY <1>4, <1>5, <1>6 DEF Collect

(* What a body hook leaves goes back into the message. *)
Resized(m, cl, n) == [m EXCEPT !.cl = cl, !.body = n]
Restored(w, new, stage) ==
    [w EXCEPT !.msg = Resized(w.msg, MaybeUpdateContentLength(w.msg, new), new), !.stage = stage]

LEMMA RestoredOK ==
  ASSUME NEW t \in Txs, NEW w, TxOK(t, w), NEW new \in Nat, NEW stage \in {"forwarded", "finished", "refused"}
  PROVE  TxOK(t, Restored(w, new, stage)) /\ Restored(w, new, stage).inst = w.inst
         /\ Restored(w, new, stage).stage = stage
<1>0. w \in TxRecords /\ w.msg \in MessageRecords
  BY DEF TxOK, TxRecords
<1> DEFINE cl == MaybeUpdateContentLength(w.msg, new)
           m == Resized(w.msg, cl, new)
           e == Restored(w, new, stage)
<1>1. cl \in Int /\ (w.msg.by = Nobody => cl \in {None, new})
  BY <1>0 DEF MaybeUpdateContentLength, MessageRecords, TxOK, MessageOK
<1> HIDE DEF cl
<1>2. m \in MessageRecords /\ m.by = w.msg.by /\ m.cl = cl /\ m.body = new
  <2>1. \A x \in MessageRecords, j \in Int, n \in Nat :
           /\ Resized(x, j, n) \in MessageRecords /\ Resized(x, j, n).by = x.by
           /\ Resized(x, j, n).cl = j /\ Resized(x, j, n).body = n
    BY DEF MessageRecords, Resized
  <2> QED BY <1>0, <1>1, <2>1
<1>3. e = [w EXCEPT !.msg = m, !.stage = stage]
  BY DEF Restored, cl
<1> HIDE DEF m
<1>4. /\ e \in TxRecords /\ e.msg = m /\ e.stage = stage /\ e.inst = w.inst
      /\ e.sent = w.sent /\ e.logged = w.logged
  BY <1>0, <1>2, <1>3 DEF TxRecords, Stages
<1> HIDE DEF e
<1>5. TxOK(t, e)
  BY <1>1, <1>2, <1>4 DEF TxOK, MessageOK, Serving
<1> QED BY <1>4, <1>5 DEF e

LEMMA BodyStep ==
  ASSUME WasmInv, NEW t \in Txs, NEW side \in Sides, OnBody(t, side)
  PROVE  WasmInv'
<1> DEFINE i == tx[t].inst
           s == vm[i]
           m == tx[t].msg
           new == IF s.body[side] = None THEN 0 ELSE s.body[side]
           restored == [tx[t] EXCEPT !.msg.cl = MaybeUpdateContentLength(m, new), !.msg.body = new]
           went(outcome) == CASE outcome = "continue" -> [restored EXCEPT !.stage = After(side)]
                             [] outcome = "error" -> [restored EXCEPT !.stage = "refused"]
                             [] OTHER -> Direct(t, tx[t], s)
<1>1. tx[t].stage = BodyOf(side) /\ tx[t].stage \in Serving /\ pool' = pool /\ hooks' = hooks
  BY DEF OnBody, BodyOf, Serving
<1>2. /\ i \in Instances /\ i # Nobody /\ VmOK(t, tx[t].stage, s) /\ TxOK(t, tx[t])
      /\ tx[t] \in TxRecords /\ s \in VmStates
  BY <1>1, Facts DEF VmOK
<1>3. new \in Nat
  BY <1>2 DEF VmStates
<1>4. PICK outcome \in {"continue", "direct", "error"} :
        /\ tx' = [tx EXCEPT ![t] = WithOperators(went(outcome), s)]
        /\ vm' = [vm EXCEPT ![i].body[side] = None, ![i].trailers[side] = Nobody, ![i].ops = Nobody,
                            ![i].direct = IF outcome = "direct" THEN Nobody ELSE s.direct]
  BY DEF OnBody
<1>5. \A st : [restored EXCEPT !.stage = st] = Restored(tx[t], new, st)
  <2> HIDE DEF new
  <2> QED BY <1>2 DEF Restored, Resized, TxRecords, MessageRecords
<1>6. TxOK(t, went(outcome)) /\ went(outcome).inst = i
      /\ went(outcome).stage \in {"forwarded", "finished", "refused", "answered"}
  <2>1. CASE outcome = "direct"
    <3>1. went(outcome) = Direct(t, tx[t], s)
      BY <2>1
    <3>2. TxOK(t, Direct(t, tx[t], s)) /\ Direct(t, tx[t], s).inst = i
          /\ Direct(t, tx[t], s).stage \in {"refused", "answered"}
      <4> HIDE DEF s
      <4> QED BY <1>2, DirectOK
    <3> QED BY <3>1, <3>2
  <2>2. CASE outcome # "direct"
    <3>1. PICK st \in {"forwarded", "finished", "refused"} : went(outcome) = [restored EXCEPT !.stage = st]
      BY <2>2 DEF After
    <3>2. went(outcome) = Restored(tx[t], new, st)
      BY <1>5, <3>1
    <3>3. /\ TxOK(t, Restored(tx[t], new, st)) /\ Restored(tx[t], new, st).inst = i
          /\ Restored(tx[t], new, st).stage = st
      <4> HIDE DEF new
      <4> QED BY <1>2, <1>3, RestoredOK
    <3> QED BY <3>2, <3>3
  <2> QED BY <2>1, <2>2
<1> DEFINE g == went(outcome)
           d == IF outcome = "direct" THEN Nobody ELSE s.direct
           p == LeftOf(s, side, None, Nobody, Nobody, d)
           w == WithOperators(g, s)
<1>7. vm' = [vm EXCEPT ![i] = p]
  <2> HIDE DEF d
  <2>1. \A x \in VmStates : [x EXCEPT !.body[side] = None, !.trailers[side] = Nobody, !.ops = Nobody, !.direct = d]
                            = LeftOf(x, side, None, Nobody, Nobody, d)
    BY DEF LeftOf
  <2>2. vm' = [vm EXCEPT ![i] = [s EXCEPT !.body[side] = None, !.trailers[side] = Nobody, !.ops = Nobody, !.direct = d]]
    BY <1>4 DEF d
  <2> QED BY <1>2, <2>1, <2>2
<1>8. VmOK(t, tx[t].stage, p)
  <2>1. None \in Nat \cup {None} /\ Nobody \in Owners /\ d \in {s.direct, Nobody} /\ Nobody \in {s.ops, Nobody}
    BY DEF Owners
  <2> HIDE DEF s, d
  <2> QED BY <1>2, <2>1, LeftOK
<1>9. TxOK(t, g) /\ g.inst = i /\ g.stage \notin Handling
  <2> HIDE DEF went
  <2> QED BY <1>6 DEF Handling
<1>10. tx' = [tx EXCEPT ![t] = w]
  BY <1>4
<1> HIDE DEF p, g
<1>11. TxOK(t, w) /\ w.inst = i /\ w.stage = g.stage
  <2> HIDE DEF s
  <2> QED BY <1>2, <1>9, OperatorsOK
<1>12. VmOK(t, w.stage, p)
  BY <1>8, <1>9, <1>11, Loosened
<1> HIDE DEF w, i, s
<1> QED BY <1>1, <1>2, <1>7, <1>10, <1>11, <1>12, KeepStep DEF i

(* An instance is given back fresh, whether or not the pool takes it. *)
LEMMA GiveBackStep ==
  ASSUME WasmInv, NEW t \in Txs, tx[t].inst # Nobody, GiveBack(t, tx[t].inst), hooks' = hooks
  PROVE  WasmInv'
<1> DEFINE i == tx[t].inst
<1>1. i \in Instances
  BY Facts
<1>2. vm' = [vm EXCEPT ![i] = FreshState] /\ pool' \subseteq pool \cup {i} /\ tx' = [tx EXCEPT ![t] = FreshTx]
  BY DEF GiveBack, ResetEphemeral
<1>3. TxOK(t, FreshTx) /\ FreshTx.inst = Nobody
  BY FreshOK
<1>4. /\ vm' = [j \in Instances |-> vm'[j]] /\ vm'[i] = FreshState
      /\ \A j \in Instances : j # i => vm'[j] = vm[j]
  BY <1>1, <1>2 DEF WasmInv
<1>5. pool' \subseteq (pool \cup {i}) \ {Nobody}
  BY <1>1, <1>2, WasmAssumption DEF WasmInv
<1> QED BY <1>2, <1>3, <1>4, <1>5, TxStep

LEMMA DropStep ==
  ASSUME WasmInv, NEW t \in Txs, DropFilter(t)
  PROVE  WasmInv'
<1>0. hooks' = hooks
  BY DEF DropFilter
<1>1. CASE tx[t].inst = Nobody
  <2>1. tx' = [tx EXCEPT ![t] = FreshTx] /\ vm' = vm /\ pool' = pool
    BY <1>1 DEF DropFilter
  <2>2. TxOK(t, FreshTx) /\ FreshTx.inst = Nobody
    BY FreshOK
  <2> QED BY <1>0, <1>1, <2>1, <2>2, KeepStep
<1>2. CASE tx[t].inst # Nobody /\ "complete" \in hooks
  <2> DEFINE w == [tx[t] EXCEPT !.stage = "completing", !.msg = FreshTx.msg]
  <2>1. tx' = [tx EXCEPT ![t] = w] /\ vm' = vm /\ pool' = pool
    BY <1>2 DEF DropFilter, FreshTx
  <2>2. "completing" \in Stages \ {"unconfigured", "idle"} /\ "completing" \notin Handling
    BY DEF Stages, Serving, Handling
  <2>3. /\ w \in TxRecords /\ w.msg = FreshTx.msg /\ w.inst = tx[t].inst /\ w.stage = "completing"
        /\ w.sent = tx[t].sent /\ w.logged = tx[t].logged
    BY <2>2, Facts, FreshOK DEF TxOK, TxRecords
  <2> HIDE DEF w
  <2>4. TxOK(t, w)
    BY <1>2, <2>3, Facts, FreshOK DEF TxOK
  <2>5. VmOK(t, "completing", vm[tx[t].inst])
    BY <1>2, <2>2, Loosened, Facts
  <2> QED BY <1>0, <2>1, <2>3, <2>4, <2>5, KeepStep
<1>3. CASE tx[t].inst # Nobody /\ "complete" \notin hooks
  BY <1>0, <1>3, GiveBackStep DEF DropFilter
<1> QED BY <1>1, <1>2, <1>3

LEMMA WasmInvStep == WasmInv /\ [WasmNext]_wasmVars => WasmInv'
<1> SUFFICES ASSUME WasmInv, [WasmNext]_wasmVars PROVE WasmInv'
  OBVIOUS
<1>0. "request" \in Sides /\ "response" \in Sides
  BY DEF Sides
<1>1. ASSUME NEW t \in Txs, ApplyRequest(t) PROVE WasmInv'
  <2>1. PICK i \in GetState(t), m \in IF tx[t].stage = "idle" THEN Messages ELSE {tx[t].msg} :
          EnterStage(t, i, BeginRequest(t), "request", m)
    BY <1>1 DEF ApplyRequest
  <2>2. MessageOK(t, m)
    <3>1. MessageOK(t, tx[t].msg)
      BY Facts DEF TxOK
    <3> QED BY <3>1, MessagesOK
  <2>3. BeginRequest(t) \in {"start", "forwarded", "reqHeaders", "collectRequest"}
    BY DEF BeginRequest
  <2> QED BY <1>0, <2>1, <2>2, <2>3, EnterStep
<1>2. ASSUME NEW t \in Txs, ApplyResponse(t) PROVE WasmInv'
  <2>1. PICK i \in GetState(t), m \in Messages : EnterStage(t, i, BeginResponse, "response", m)
    BY <1>2 DEF ApplyResponse
  <2>2. BeginResponse \in {"finished", "rspHeaders", "collectResponse"} /\ "response" # "request"
    BY DEF BeginResponse
  <2> QED BY <1>0, <2>1, <2>2, MessagesOK, EnterStep
<1>3. ASSUME NEW t \in Txs, OnTransactionStart(t) PROVE WasmInv'
  <2> DEFINE w == [tx[t] EXCEPT !.stage = "started"]
  <2>1. tx[t].stage = "start" /\ tx' = [tx EXCEPT ![t] = w] /\ vm' = vm /\ pool' = pool /\ hooks' = hooks
    BY <1>3 DEF OnTransactionStart
  <2>2. /\ "started" \in Stages \ {"unconfigured", "idle"} /\ "started" \notin Handling
        /\ tx[t].inst # Nobody
    BY <2>1, Facts DEF Stages, Serving, Handling
  <2>3. TxOK(t, w) /\ w.inst = tx[t].inst /\ w.stage = "started"
    BY <2>2, StageOK, Facts
  <2>4. VmOK(t, "started", vm[tx[t].inst])
    BY <2>2, Loosened, Facts
  <2> HIDE DEF w
  <2> QED BY <2>1, <2>3, <2>4, KeepStep
<1>4. ASSUME NEW t \in Txs, OnTransactionComplete(t) PROVE WasmInv'
  <2>1. tx[t].inst # Nobody
    BY <1>4, Facts DEF OnTransactionComplete, Serving
  <2> QED BY <1>4, <2>1, GiveBackStep DEF OnTransactionComplete
<1>5. CASE UNCHANGED wasmVars
  BY <1>5 DEF wasmVars, WasmInv, TxOK, MessageOK, VmOK, Unheld
<1> QED
  BY <1>0, <1>1, <1>2, <1>3, <1>4, <1>5, TryNewStep, HostCallStep, ReplaceStep, HeadersStep, CollectStep,
     BodyStep, DropStep
  DEF WasmNext, WasmStep, SetRequest, SetResponse, OnRequestHeaders, OnResponseHeaders, CollectRequest,
      CollectResponse, OnRequestBody, OnResponseBody

LEMMA WasmInitInv == WasmInit => WasmInv
<1> SUFFICES ASSUME WasmInit PROVE WasmInv
  OBVIOUS
<1>1. \A t \in Txs : /\ tx[t] = [FreshTx EXCEPT !.stage = "unconfigured"]
                     /\ TxOK(t, tx[t]) /\ tx[t].inst = Nobody
  <2>1. [FreshTx EXCEPT !.stage = "unconfigured"].inst = Nobody
    BY DEF FreshTx
  <2> QED BY <2>1, FreshOK DEF WasmInit
<1>2. /\ tx = [t \in Txs |-> tx[t]] /\ vm = [i \in Instances |-> vm[i]] /\ pool \subseteq Instances
      /\ \A i \in Instances : vm[i] = FreshState
      /\ pool = {}
  BY DEF WasmInit
<1> QED BY <1>1, <1>2 DEF WasmInv

LEMMA WasmHolds == WasmInv => NothingLeaks /\ LengthAgrees
<1> SUFFICES ASSUME WasmInv PROVE NothingLeaks /\ LengthAgrees
  OBVIOUS
<1>1. \A i \in pool : vm[i] = FreshState /\ i \notin Held
  BY DEF WasmInv, Unheld, Held
<1>2. NothingLeaks
  BY <1>1 DEF WasmInv, NothingLeaks, Belongs, TxOK, MessageOK, VmOK
<1>3. LengthAgrees
  BY DEF WasmInv, TxOK, MessageOK, LengthAgrees
<1> QED BY <1>2, <1>3

(* Whatever the plugin does in its hooks, and wherever its filter is        *)
(* dropped, an instance of the pool serves one transaction at a time and    *)
(* nothing of a transaction that it keeps reaches another; what a plugin    *)
(* without on_transaction_complete writes through a handle lands in the     *)
(* message of its own transaction (the handles of that hook are those of a  *)
(* message that is gone, and it may overwrite another's); and a message     *)
(* that goes on declares the length of its body, unless a plugin replaced   *)
(* it as a whole.                                                           *)
THEOREM InstancesDoNotLeak == WasmSpec => [](NothingLeaks /\ LengthAgrees)
BY WasmInitInv, WasmHolds, WasmInvStep, PTL DEF WasmSpec

-----------------------------------------------------------------------------
(* Header mutations.                                                       *)
HeaderMaps == [values : Seq(Nat), made : BOOLEAN]

(* What a mutation leaves depends on the values alone.                     *)
Leaves(values, m) ==
    IF ~m.valid THEN values
    ELSE IF m.op = "Set" \/ (m.op = "Replace" /\ values # <<>>) THEN <<m.value>>
    ELSE IF m.op = "Add" THEN Append(values, m.value)
    ELSE IF m.op = "Remove" THEN <<>> ELSE values

LEMMA MutationLeaves ==
  ASSUME NEW map \in HeaderMaps, NEW m \in HeaderMutations
  PROVE  /\ Mutate(map, m) \in HeaderMaps /\ Mutate(map, m).values = Leaves(map.values, m)
         /\ SingleMutation(map, m) \in HeaderMaps /\ SingleMutation(map, m).values = Leaves(map.values, m)
<1> DEFINE v == m.value
           R(vs, b) == [values |-> vs, made |-> b]
<1>1. v \in Nat /\ m.valid \in BOOLEAN /\ m.op \in {"Set", "Add", "Replace", "Remove"}
  BY DEF HeaderMutations
<1>2. map = R(map.values, map.made) /\ map.values \in Seq(Nat) /\ map.made \in BOOLEAN
  BY DEF HeaderMaps
<1>3. \A vs \in Seq(Nat), b \in BOOLEAN : R(vs, b) \in HeaderMaps /\ R(vs, b).values = vs
  BY DEF HeaderMaps
<1>4. <<v>> \in Seq(Nat) /\ <<>> \in Seq(Nat) /\ Append(map.values, v) \in Seq(Nat) /\ TRUE \in BOOLEAN
  BY <1>1, <1>2
<1>5. /\ Insert(map, m) = R(<<v>>, map.made) /\ SetHeader(map, m) = R(<<v>>, TRUE)
      /\ AddHeader(map, m) = R(Append(map.values, v), TRUE) /\ RemoveHeader(map, m) = R(<<>>, map.made)
      /\ ReplaceHeader(map, m) = IF map.values = <<>> THEN R(map.values, TRUE) ELSE R(<<v>>, TRUE)
      /\ [map EXCEPT !.values = Append(@, m.value)] = R(Append(map.values, v), map.made)
      /\ [map EXCEPT !.values = <<>>] = R(<<>>, map.made)
  <2> DEFINE made == [map EXCEPT !.made = TRUE]
  <2>1. \A vs : [map EXCEPT !.values = vs] = R(vs, map.made)
    BY DEF HeaderMaps
  <2>2. made = R(map.values, TRUE) /\ (\A vs : [made EXCEPT !.values = vs] = R(vs, TRUE)) /\ made.values = map.values
    <3>1. \A b : [map EXCEPT !.made = b] = R(map.values, b)
      BY DEF HeaderMaps
    <3>2. \A x, us, vs, b : x = R(us, b) => [x EXCEPT !.values = vs] = R(vs, b) /\ x.values = us
      OBVIOUS
    <3> HIDE DEF R
    <3>3. made = R(map.values, TRUE)
      BY <3>1, Zenon
    <3> HIDE DEF made
    <3> DEFINE yes == TRUE
    <3>4. made = R(map.values, yes)
      BY <3>3, Zenon
    <3> HIDE DEF yes
    <3>5. (\A vs : [made EXCEPT !.values = vs] = R(vs, yes)) /\ made.values = map.values
      BY <3>2, <3>4
    <3>6. \A vs : [made EXCEPT !.values = vs] = R(vs, yes)
      BY <3>5, Zenon
    <3> QED BY <3>3, <3>5, <3>6, Zenon DEF yes
  <2>3. Insert(map, m) = R(<<v>>, map.made) /\ Insert(made, m) = R(<<v>>, TRUE)
    <3>1. Insert(map, m) = [map EXCEPT !.values = <<v>>] /\ Insert(made, m) = [made EXCEPT !.values = <<v>>]
      BY DEF Insert
    <3> HIDE DEF made
    <3> QED BY <2>1, <2>2, <3>1
  <2>4. SetHeader(map, m) = Insert(made, m)
    BY DEF SetHeader
  <2>5. AddHeader(map, m) = R(Append(map.values, v), TRUE)
    <3>1. AddHeader(map, m) = [map EXCEPT !.made = TRUE, !.values = Append(map.values, v)]
      BY DEF AddHeader, HeaderMaps
    <3> QED BY <3>1 DEF HeaderMaps
  <2>6. RemoveHeader(map, m) = R(<<>>, map.made) /\ [map EXCEPT !.values = <<>>] = R(<<>>, map.made)
    BY <2>1 DEF RemoveHeader
  <2>7. ReplaceHeader(map, m) = IF map.values = <<>> THEN made ELSE Insert(made, m)
    BY DEF ReplaceHeader
  <2>8. [map EXCEPT !.values = Append(@, m.value)] = R(Append(map.values, v), map.made)
    <3>1. [map EXCEPT !.values = Append(@, m.value)] = [map EXCEPT !.values = Append(map.values, v)]
      OBVIOUS
    <3> QED BY <2>1, <3>1
  <2> HIDE DEF made, R
  <2> QED BY <2>2, <2>3, <2>4, <2>5, <2>6, <2>7, <2>8
<1>6. CASE ~m.valid
  <2>1. Mutate(map, m) = map /\ SingleMutation(map, m) = map
    BY <1>6 DEF Mutate, SingleMutation
  <2> QED BY <1>6, <2>1 DEF Leaves
<1>7. CASE m.valid /\ m.op = "Set"
  <2>1. Mutate(map, m) = R(<<v>>, map.made) /\ SingleMutation(map, m) = R(<<v>>, TRUE)
    BY <1>5, <1>7 DEF Mutate, SingleMutation
  <2> QED BY <1>2, <1>3, <1>4, <1>7, <2>1 DEF Leaves
<1>8. CASE m.valid /\ m.op = "Add"
  <2>1. Mutate(map, m) = R(Append(map.values, v), map.made) /\ SingleMutation(map, m) = R(Append(map.values, v), TRUE)
    BY <1>5, <1>8 DEF Mutate, SingleMutation
  <2> QED BY <1>2, <1>3, <1>4, <1>8, <2>1 DEF Leaves
<1>9. CASE m.valid /\ m.op = "Remove"
  <2>1. Mutate(map, m) = R(<<>>, map.made) /\ SingleMutation(map, m) = R(<<>>, map.made)
    BY <1>5, <1>9 DEF Mutate, SingleMutation
  <2> QED BY <1>2, <1>3, <1>4, <1>9, <2>1 DEF Leaves
<1>10. CASE m.valid /\ m.op = "Replace" /\ map.values = <<>>
  <2>1. Mutate(map, m) = map /\ SingleMutation(map, m) = R(map.values, TRUE)
    BY <1>5, <1>10 DEF Mutate, SingleMutation
  <2> QED BY <1>2, <1>3, <1>4, <1>10, <2>1 DEF Leaves
<1>11. CASE m.valid /\ m.op = "Replace" /\ map.values # <<>>
  <2>1. Mutate(map, m) = R(<<v>>, map.made) /\ SingleMutation(map, m) = R(<<v>>, TRUE)
    BY <1>5, <1>11 DEF Mutate, SingleMutation
  <2> QED BY <1>2, <1>3, <1>4, <1>11, <2>1 DEF Leaves
<1> QED BY <1>1, <1>6, <1>7, <1>8, <1>9, <1>10, <1>11

(* h follows the mutations from vs on.                                     *)
ValuesFollow(h, vs, ms) ==
    h[0] = vs /\ \A n \in 1 .. Len(ms) : h[n] = Leaves(h[n - 1], ms[n])

LEMMA BatchInTurn ==
  ASSUME NEW map \in HeaderMaps, NEW ms \in Seq(HeaderMutations)
  PROVE  \E h : InTurn(Mutate, map, ms).values = h[Len(ms)] /\ ValuesFollow(h, map.values, ms)
<1> DEFINE N == Len(ms)
           F == [i \in 1 .. N |-> [x \in HeaderMaps |-> Mutate(x, ms[i])]]
           Def(g) == g = [i \in 0 .. N |-> IF i = 0 THEN map ELSE Mutate(g[i - 1], ms[i])]
<1>1. N \in Nat /\ \A i \in 1 .. N : ms[i] \in HeaderMutations
  OBVIOUS
<1>2. F \in [1 .. N -> [HeaderMaps -> HeaderMaps]]
  BY <1>1, MutationLeaves
<1>3. PICK g : Follows(g, HeaderMaps, map, N, F)
  <2> HIDE DEF F, N
  <2> QED BY <1>1, <1>2, RecursionUpTo
<1>4. ASSUME NEW i \in 1 .. N PROVE g[i - 1] \in HeaderMaps /\ g[i] = Mutate(g[i - 1], ms[i])
  <2>1. i \in 1 .. N /\ i - 1 \in 0 .. N
    BY <1>1
  <2>2. g[i - 1] \in HeaderMaps /\ g[i] = F[i][g[i - 1]]
    BY <1>3, <2>1 DEF Follows
  <2>3. F[i] = [x \in HeaderMaps |-> Mutate(x, ms[i])]
    BY <2>1
  <2> QED BY <2>2, <2>3
<1>5. g = [i \in 0 .. N |-> g[i]] /\ g[0] = map
  BY <1>3 DEF Follows
<1>6. Def(g)
  <2>1. \A i \in 0 .. N : i # 0 => i \in 1 .. N
    BY <1>1
  <2> HIDE DEF F, N
  <2> QED BY <1>4, <1>5, <2>1
<1> DEFINE a == CHOOSE x : Def(x)
<1>7. Def(a)
  <2> HIDE DEF Def
  <2> QED BY <1>6
<1>8. InTurn(Mutate, map, ms) = a[N]
  BY DEF InTurn
<1> HIDE DEF a
<1>9. a[0] = map /\ \A i \in 1 .. N : a[i] = Mutate(a[i - 1], ms[i])
  BY <1>1, <1>7
<1> DEFINE P == {i \in Nat : i <= N => a[i] \in HeaderMaps}
<1>10. 0 \in P /\ \A i \in Nat : i \in P => i + 1 \in P
  <2>1. ASSUME NEW i \in Nat, i + 1 <= N, a[i] \in HeaderMaps PROVE a[i + 1] \in HeaderMaps
    <3>1. i + 1 \in 1 .. N /\ (i + 1) - 1 = i
      BY <1>1, <2>1
    <3>2. a[i + 1] = Mutate(a[i], ms[i + 1]) /\ ms[i + 1] \in HeaderMutations
      BY <1>1, <1>9, <3>1
    <3> QED BY <2>1, <3>2, MutationLeaves
  <2>2. \A i \in Nat : i + 1 <= N => i <= N
    BY <1>1
  <2> QED BY <1>1, <1>9, <2>1, <2>2
<1>11. \A i \in Nat : i \in P
  <2> HIDE DEF P
  <2> QED BY <1>10, NatSetInduction
<1> DEFINE h == [i \in 0 .. N |-> a[i].values]
<1>12. ASSUME NEW i \in 1 .. N PROVE h[i] = Leaves(h[i - 1], ms[i])
  <2>1. i - 1 \in 0 .. N /\ i - 1 \in Nat /\ i - 1 <= N /\ i \in 0 .. N
    BY <1>1
  <2>2. a[i - 1] \in HeaderMaps /\ a[i] = Mutate(a[i - 1], ms[i]) /\ ms[i] \in HeaderMutations
    BY <1>1, <1>9, <1>11, <2>1
  <2>3. a[i].values = Leaves(a[i - 1].values, ms[i])
    BY <2>2, MutationLeaves
  <2> QED BY <2>1, <2>3
<1>13. h[0] = map.values /\ h[N] = a[N].values
  BY <1>1, <1>9
<1> HIDE DEF h, Def
<1> QED BY <1>8, <1>12, <1>13 DEF ValuesFollow

LEMMA SingleInTurn ==
  ASSUME NEW map \in HeaderMaps, NEW ms \in Seq(HeaderMutations)
  PROVE  \E h : InTurn(SingleMutation, map, ms).values = h[Len(ms)] /\ ValuesFollow(h, map.values, ms)
<1> DEFINE N == Len(ms)
           F == [i \in 1 .. N |-> [x \in HeaderMaps |-> SingleMutation(x, ms[i])]]
           Def(g) == g = [i \in 0 .. N |-> IF i = 0 THEN map ELSE SingleMutation(g[i - 1], ms[i])]
<1>1. N \in Nat /\ \A i \in 1 .. N : ms[i] \in HeaderMutations
  OBVIOUS
<1>2. F \in [1 .. N -> [HeaderMaps -> HeaderMaps]]
  BY <1>1, MutationLeaves
<1>3. PICK g : Follows(g, HeaderMaps, map, N, F)
  <2> HIDE DEF F, N
  <2> QED BY <1>1, <1>2, RecursionUpTo
<1>4. ASSUME NEW i \in 1 .. N PROVE g[i - 1] \in HeaderMaps /\ g[i] = SingleMutation(g[i - 1], ms[i])
  <2>1. i \in 1 .. N /\ i - 1 \in 0 .. N
    BY <1>1
  <2>2. g[i - 1] \in HeaderMaps /\ g[i] = F[i][g[i - 1]]
    BY <1>3, <2>1 DEF Follows
  <2>3. F[i] = [x \in HeaderMaps |-> SingleMutation(x, ms[i])]
    BY <2>1
  <2> QED BY <2>2, <2>3
<1>5. g = [i \in 0 .. N |-> g[i]] /\ g[0] = map
  BY <1>3 DEF Follows
<1>6. Def(g)
  <2>1. \A i \in 0 .. N : i # 0 => i \in 1 .. N
    BY <1>1
  <2> HIDE DEF F, N
  <2> QED BY <1>4, <1>5, <2>1
<1> DEFINE a == CHOOSE x : Def(x)
<1>7. Def(a)
  <2> HIDE DEF Def
  <2> QED BY <1>6
<1>8. InTurn(SingleMutation, map, ms) = a[N]
  BY DEF InTurn
<1> HIDE DEF a
<1>9. a[0] = map /\ \A i \in 1 .. N : a[i] = SingleMutation(a[i - 1], ms[i])
  BY <1>1, <1>7
<1> DEFINE P == {i \in Nat : i <= N => a[i] \in HeaderMaps}
<1>10. 0 \in P /\ \A i \in Nat : i \in P => i + 1 \in P
  <2>1. ASSUME NEW i \in Nat, i + 1 <= N, a[i] \in HeaderMaps PROVE a[i + 1] \in HeaderMaps
    <3>1. i + 1 \in 1 .. N /\ (i + 1) - 1 = i
      BY <1>1, <2>1
    <3>2. a[i + 1] = SingleMutation(a[i], ms[i + 1]) /\ ms[i + 1] \in HeaderMutations
      BY <1>1, <1>9, <3>1
    <3> QED BY <2>1, <3>2, MutationLeaves
  <2>2. \A i \in Nat : i + 1 <= N => i <= N
    BY <1>1
  <2> QED BY <1>1, <1>9, <2>1, <2>2
<1>11. \A i \in Nat : i \in P
  <2> HIDE DEF P
  <2> QED BY <1>10, NatSetInduction
<1> DEFINE h == [i \in 0 .. N |-> a[i].values]
<1>12. ASSUME NEW i \in 1 .. N PROVE h[i] = Leaves(h[i - 1], ms[i])
  <2>1. i - 1 \in 0 .. N /\ i - 1 \in Nat /\ i - 1 <= N /\ i \in 0 .. N
    BY <1>1
  <2>2. a[i - 1] \in HeaderMaps /\ a[i] = SingleMutation(a[i - 1], ms[i]) /\ ms[i] \in HeaderMutations
    BY <1>1, <1>9, <1>11, <2>1
  <2>3. a[i].values = Leaves(a[i - 1].values, ms[i])
    BY <2>2, MutationLeaves
  <2> QED BY <2>1, <2>3
<1>13. h[0] = map.values /\ h[N] = a[N].values
  BY <1>1, <1>9
<1> HIDE DEF h, Def
<1> QED BY <1>8, <1>12, <1>13 DEF ValuesFollow

LEMMA FollowsSame ==
  ASSUME NEW ms \in Seq(HeaderMutations), NEW vs, NEW g, NEW h, ValuesFollow(g, vs, ms), ValuesFollow(h, vs, ms)
  PROVE  g[Len(ms)] = h[Len(ms)]
<1> DEFINE N == Len(ms)
           P == {i \in Nat : i <= N => g[i] = h[i]}
<1>1. N \in Nat
  OBVIOUS
<1>2. 0 \in P
  BY DEF ValuesFollow
<1>3. ASSUME NEW i \in Nat, i \in P PROVE i + 1 \in P
  <2> SUFFICES ASSUME i + 1 <= N PROVE g[i + 1] = h[i + 1]
    OBVIOUS
  <2>1. g[i] = h[i] /\ i + 1 \in 1 .. N /\ (i + 1) - 1 = i
    BY <1>1, <1>3
  <2>2. g[i + 1] = Leaves(g[i], ms[i + 1]) /\ h[i + 1] = Leaves(h[i], ms[i + 1])
    BY <2>1 DEF ValuesFollow
  <2> QED BY <2>1, <2>2
<1>4. \A i \in Nat : i \in P
  <2> HIDE DEF P
  <2> QED BY <1>2, <1>3, NatSetInduction
<1> QED BY <1>1, <1>4

(* apply_header_mutations leaves what the single calls leave, for every    *)
(* list of mutations.                                                      *)
LEMMA BatchSame ==
  ASSUME NEW map \in HeaderMaps, NEW ms \in Seq(HeaderMutations)
  PROVE  ApplyHeaderMutations(map, ms).values = InTurn(SingleMutation, map, ms).values
<1> DEFINE made == [map EXCEPT !.made = TRUE]
<1>1. made \in HeaderMaps /\ made.values = map.values
  BY DEF HeaderMaps
<1> HIDE DEF made
<1>2. PICK g : InTurn(Mutate, made, ms).values = g[Len(ms)] /\ ValuesFollow(g, map.values, ms)
  BY <1>1, BatchInTurn
<1>3. PICK h : InTurn(SingleMutation, map, ms).values = h[Len(ms)] /\ ValuesFollow(h, map.values, ms)
  BY SingleInTurn
<1>4. g[Len(ms)] = h[Len(ms)]
  BY <1>2, <1>3, FollowsSame
<1> QED BY <1>2, <1>3, <1>4 DEF ApplyHeaderMutations, made

-----------------------------------------------------------------------------
(* Reads.                                                                  *)
ReadFields == {"call", "kind", "side", "value", "cap", "tries", "written", "result"}
Reporting == {"header", "uri", "body"}
ReadFine(s) ==
    /\ DOMAIN s = ReadFields /\ s.kind \in Reads /\ s.side \in {"none", "request", "response"}
    /\ s.value \in {Absent} \cup 0 .. MaxSize /\ (s.value = Absent => CanBeAbsent(s.kind))
    /\ s.cap \in Nat /\ s.tries \in Nat
    /\ s.result = "none" /\ s.kind # "config" => s.tries <= 1
    /\ s.result = "none" /\ s.kind \in Reporting /\ s.tries > 0 => s.cap = s.value
    /\ s.result = "none" /\ s.kind \notin Reporting \cup {"config"} => s.tries = 0 /\ s.written = 0

HostCallsInv ==
    /\ "call" \in DOMAIN sdk
    /\ sdk.call = "read" => ReadFine(sdk)
    /\ SdkReadsWhole /\ BatchIsSequence

LEMMA HostReads ==
  ASSUME NEW kind \in Reads, NEW side, NEW value \in {Absent} \cup 0 .. MaxSize, value = Absent => CanBeAbsent(kind), NEW cap \in Nat
  PROVE  LET a == HostRead(kind, side, value, cap)
         IN  /\ a.code = "Ok" => a.written = value /\ value # Absent
             /\ a.code = "BufferTooSmall" =>
                  /\ value # Absent /\ value > cap /\ kind \notin {"metadata", "status"}
                  /\ a.written = IF kind \in Reporting THEN value ELSE Absent
             /\ a.written \in {Absent, value}
<1> DEFINE a == HostRead(kind, side, value, cap)
<1>0. value # Absent => value \in Nat
  BY HostCallsAssumption
<1>1. \A c, w : Answer(c, w).code = c /\ Answer(c, w).written = w
  BY DEF Answer
<1>2. /\ value # Absent => /\ Reported(value, cap) = Answer(IF value <= cap THEN "Ok" ELSE "BufferTooSmall", value)
                           /\ Unreported(value, cap) = IF value <= cap THEN Answer("Ok", value) ELSE Answer("BufferTooSmall", Absent)
      /\ NotFound = Answer("NotFound", Absent) /\ InternalError = Answer("InternalError", Absent)
  BY DEF Reported, Unreported, Fits, NotFound, InternalError
<1>3. value # Absent => (~(value <= cap) <=> value > cap)
  BY <1>0
<1>4. CASE kind \in {"header", "body"}
  <2>1. a = InternalError \/ a = NotFound \/ (a = Reported(value, cap) /\ value # Absent)
    BY <1>4 DEF HostRead, GetHeader, GetBody
  <2> HIDE DEF a
  <2> QED BY <1>1, <1>2, <1>3, <1>4, <2>1 DEF a, Reporting
<1>5. CASE kind = "config"
  <2>1. a = NotFound \/ (a = Unreported(value, cap) /\ value # Absent)
    BY <1>5 DEF HostRead, GetPluginConfig
  <2> HIDE DEF a
  <2> QED BY <1>1, <1>2, <1>3, <1>5, <2>1 DEF a, Reporting
<1>6. CASE kind = "uri"
  <2>1. (a = InternalError \/ a = Reported(value, cap)) /\ value # Absent
    BY <1>6 DEF HostRead, GetUri, CanBeAbsent
  <2> HIDE DEF a
  <2> QED BY <1>1, <1>2, <1>3, <1>6, <2>1 DEF a, Reporting
<1>7. CASE kind \in {"headers", "request", "response"}
  <2>1. (a = InternalError \/ a = Unreported(value, cap)) /\ value # Absent
    BY <1>7 DEF HostRead, GetHeadersMap, GetRequest, GetResponse, CanBeAbsent
  <2> HIDE DEF a
  <2> QED BY <1>1, <1>2, <1>3, <1>7, <2>1 DEF a, Reporting
<1>8. CASE kind \in {"metadata", "status"}
  <2>1. (a = InternalError \/ a = NotFound \/ a = Answer("Ok", value)) /\ value # Absent
    BY <1>8 DEF HostRead, GetDownstreamMetadata, GetStatusCode, CanBeAbsent
  <2> HIDE DEF a
  <2> QED BY <1>1, <1>2, <1>8, <2>1 DEF a
<1> QED BY <1>4, <1>5, <1>6, <1>7, <1>8 DEF Reads

LEMMA RetryFacts ==
  ASSUME NEW cap \in Nat, NEW w, NEW t \in Nat
  PROVE  /\ \A kind \in {"header", "uri"} : Retry(kind, cap, w, t) = IF t = 0 THEN w ELSE Absent
         /\ \A kind \in {"body", "headers"} : Retry(kind, cap, w, t) = IF w > cap THEN w ELSE Absent
         /\ Retry("config", cap, w, t) \in Nat
         /\ \A kind \in {"request", "response"} : Retry(kind, cap, w, t) = Absent
<1>1. \A kind \in {"header", "uri"} : Retry(kind, cap, w, t) = IF t = 0 THEN w ELSE Absent
  BY DEF Retry, RetryHeader, RetryUri
<1>2. \A kind \in {"body", "headers"} : Retry(kind, cap, w, t) = IF w > cap THEN w ELSE Absent
  BY DEF Retry, RetryBody, RetryHeadersMap
<1>3. Retry("config", cap, w, t) \in Nat
  BY DEF Retry, RetryPluginConfig
<1>4. \A kind \in {"request", "response"} : Retry(kind, cap, w, t) = Absent
  BY DEF Retry, RetryTakeRequest, RetryTakeResponse
<1> QED BY <1>1, <1>2, <1>3, <1>4

LEMMA SdkReadStep ==
  ASSUME HostCallsInv, SdkRead
  PROVE  HostCallsInv'
<1> DEFINE s == sdk
           a == HostRead(s.kind, s.side, s.value, s.cap)
           w == IF a.written = Absent THEN s.written ELSE a.written
           grown == Retry(s.kind, s.cap, w, s.tries)
           t == s.tries + 1
           b == [s EXCEPT !.cap = grown, !.tries = t, !.written = w]
           d == [s EXCEPT !.result = a.code, !.written = w]
<1>1. /\ s.call = "read" /\ s.result = "none"
      /\ sdk' = IF a.code = "BufferTooSmall" /\ grown # Absent THEN b ELSE d
  BY DEF SdkRead
<1>2. ReadFine(s)
  BY <1>1 DEF HostCallsInv
<1>3. /\ a.code = "Ok" => a.written = s.value /\ s.value # Absent
      /\ a.code = "BufferTooSmall" =>
           /\ s.value # Absent /\ s.value > s.cap /\ s.kind \notin {"metadata", "status"}
           /\ a.written = IF s.kind \in Reporting THEN s.value ELSE Absent
      /\ a.written \in {Absent, s.value}
  BY <1>2, HostReads DEF ReadFine
<1>4. s.value \in {Absent} \cup 0 .. MaxSize /\ s.cap \in Nat /\ s.tries \in Nat /\ s.kind \in Reads /\ Absent \notin Nat
  BY <1>2 DEF ReadFine, Absent
<1>5. /\ s.kind # "config" => s.tries <= 1
      /\ s.kind \in Reporting /\ s.tries > 0 => s.cap = s.value
      /\ s.kind \notin Reporting \cup {"config"} => s.tries = 0 /\ s.written = 0
  BY <1>1, <1>2 DEF ReadFine
<1>6. /\ b.call = "read" /\ b.result = "none" /\ b.cap = grown /\ b.tries = t /\ b.written = w
      /\ b.kind = s.kind /\ b.side = s.side /\ b.value = s.value /\ DOMAIN b = ReadFields
  BY <1>1, <1>2 DEF ReadFine, ReadFields
<1>7. /\ d.call = "read" /\ d.result = a.code /\ d.cap = s.cap /\ d.tries = s.tries /\ d.written = w
      /\ d.kind = s.kind /\ d.side = s.side /\ d.value = s.value /\ DOMAIN d = ReadFields
  BY <1>1, <1>2 DEF ReadFine, ReadFields
<1>8. MaxSize \in Nat /\ 0 .. MaxSize \subseteq Nat
  BY HostCallsAssumption
<1>r. /\ s.kind \in {"header", "uri"} => grown = IF s.tries = 0 THEN w ELSE Absent
      /\ s.kind \in {"body", "headers"} => grown = IF w > s.cap THEN w ELSE Absent
      /\ s.kind = "config" => grown \in Nat
      /\ s.kind \in {"request", "response"} => grown = Absent
  BY <1>4, RetryFacts
<1> HIDE DEF b, d, a, grown
<1>9. CASE a.code = "BufferTooSmall" /\ grown # Absent
  <2>1. s.kind \in Reads \ {"metadata", "status"} /\ s.value \in Nat /\ s.value > s.cap
    BY <1>3, <1>4, <1>8, <1>9
  <2>2. s.kind \in Reporting => w = s.value /\ s.tries = 0 /\ grown = s.value
    <3>1. s.kind \in Reporting => w = s.value
      BY <1>3, <1>9, <2>1
    <3>2. s.kind \in Reporting => s.tries = 0
      BY <1>4, <1>5, <2>1
    <3> QED BY <1>r, <1>9, <2>1, <3>1, <3>2 DEF Reporting
  <2>3. s.kind \in Reporting \cup {"config"}
    <3>1. s.kind \notin Reporting \cup {"config"} => w = 0 /\ ~(0 > s.cap)
      BY <1>3, <1>4, <1>5, <1>9
    <3> QED BY <1>r, <1>9, <2>1, <3>1 DEF Reads, Reporting
  <2>4. grown \in Nat /\ t \in Nat
    BY <1>4, <1>r, <2>1, <2>2, <2>3
  <2>5. s.kind # "config" => t = 1
    BY <2>2, <2>3
  <2>6. ReadFine(b)
    BY <1>2, <1>4, <1>6, <2>1, <2>2, <2>3, <2>4, <2>5 DEF ReadFine
  <2>7. sdk' = b
    BY <1>1, <1>9
  <2>8. SdkReadsWhole' /\ BatchIsSequence'
    BY <1>6, <2>5, <2>7 DEF SdkReadsWhole, BatchIsSequence
  <2> QED BY <1>6, <2>6, <2>7, <2>8 DEF HostCallsInv, ReadFields
<1>10. CASE ~(a.code = "BufferTooSmall" /\ grown # Absent)
  <2>1. sdk' = d
    BY <1>1, <1>10
  <2>2. a.code # "none"
    <3>1. a.code \in {"Ok", "BufferTooSmall", "NotFound", "InternalError"}
      BY <1>4 DEF a, HostRead, Reads, GetHeader, GetBody, GetPluginConfig, GetUri, GetHeadersMap, GetRequest, GetResponse,
         GetDownstreamMetadata, GetStatusCode, Reported, Unreported, NotFound, InternalError, Answer
    <3> QED BY <3>1
  <2>3. ReadFine(d)
    BY <1>2, <1>7, <2>2 DEF ReadFine
  <2>4. a.code = "Ok" => w = s.value /\ s.value <= MaxSize
    BY <1>3, <1>4, <1>8
  <2>5. a.code = "BufferTooSmall" => s.kind \in {"headers", "request", "response"}
    <3> SUFFICES ASSUME a.code = "BufferTooSmall", s.kind \notin {"headers", "request", "response"} PROVE FALSE
      OBVIOUS
    <3>1. grown = Absent /\ s.value \in Nat /\ s.value > s.cap
      BY <1>3, <1>4, <1>8, <1>10
    <3>2. s.kind \in Reporting => w = s.value /\ s.tries = 0
      BY <1>3, <1>4, <1>5, <3>1
    <3>3. s.kind \in Reporting \cup {"config"}
      BY <1>3, <1>4 DEF Reads, Reporting
    <3> QED BY <1>4, <1>r, <3>1, <3>2, <3>3 DEF Reporting
  <2>6. s.tries > 1 => s.kind = "config"
    BY <1>4, <1>5
  <2>7. SdkReadsWhole' /\ BatchIsSequence'
    BY <1>7, <2>1, <2>4, <2>5, <2>6 DEF SdkReadsWhole, BatchIsSequence
  <2> QED BY <1>7, <2>1, <2>3, <2>7 DEF HostCallsInv, ReadFields
<1> QED BY <1>9, <1>10

LEMMA HostCallsInitInv == HostCallsInit => HostCallsInv
BY DEF HostCallsInit, Idle, HostCallsInv, SdkReadsWhole, BatchIsSequence

LEMMA HostCallsStep == HostCallsInv /\ [HostCallsNext]_sdk => HostCallsInv'
<1> SUFFICES ASSUME HostCallsInv, [HostCallsNext]_sdk PROVE HostCallsInv'
  OBVIOUS
<1>1. CASE UNCHANGED sdk
  BY <1>1 DEF HostCallsInv, SdkReadsWhole, BatchIsSequence
<1>2. CASE BeginRead
  <2>1. PICK kind \in Reads, side \in {"none", "request", "response"}, value \in {Absent} \cup 0 .. MaxSize :
          /\ value = Absent => CanBeAbsent(kind)
          /\ sdk' = [call |-> "read", kind |-> kind, side |-> side, value |-> value, cap |-> FirstBuffer(kind),
                     tries |-> 0, written |-> 0, result |-> "none"]
    BY <1>2 DEF BeginRead
  <2> DEFINE c == FirstBuffer(kind)
             s == [call |-> "read", kind |-> kind, side |-> side, value |-> value, cap |-> c,
                   tries |-> 0, written |-> 0, result |-> "none"]
  <2>2. c \in Nat
    <3>1. StackBuf \in Nat /\ HeapBuf \in Nat /\ RequestBuf \in Nat
      BY HostCallsAssumption
    <3>2. c \in {StackBuf, HeapBuf, RequestBuf}
      <4>1. kind \in {"header", "uri"} => ~(kind \in {"body", "headers", "config"})
        OBVIOUS
      <4> QED BY <4>1 DEF FirstBuffer
    <3> QED BY <3>1, <3>2
  <2> HIDE DEF c
  <2>3. /\ DOMAIN s = ReadFields /\ s.call = "read" /\ s.kind = kind /\ s.side = side /\ s.value = value /\ s.cap = c /\ s.tries = 0
        /\ s.written = 0 /\ s.result = "none"
    BY DEF ReadFields
  <2>4. sdk' = s
    BY <2>1 DEF c
  <2> HIDE DEF s
  <2>5. ReadFine(s)
    BY <2>1, <2>2, <2>3 DEF ReadFine
  <2>6. SdkReadsWhole' /\ BatchIsSequence'
    BY <2>3, <2>4 DEF SdkReadsWhole, BatchIsSequence
  <2> QED BY <2>3, <2>4, <2>5, <2>6 DEF HostCallsInv, ReadFields
<1>3. CASE SdkRead
  BY <1>3, SdkReadStep
<1>4. CASE MutateHeaders
  <2>1. PICK map \in [values : {<<>>, <<3>>, <<3, 4>>}, made : BOOLEAN], ms \in TupleOf(HeaderMutations, 2) :
          sdk' = [call |-> "mutate", batch |-> ApplyHeaderMutations(map, ms), single |-> InTurn(SingleMutation, map, ms)]
    BY <1>4 DEF MutateHeaders
  <2>2. map \in HeaderMaps
    <3>1. <<>> \in Seq(Nat) /\ <<3>> \in Seq(Nat) /\ <<3, 4>> \in Seq(Nat)
      OBVIOUS
    <3> QED BY <3>1 DEF HeaderMaps
  <2>3. ms \in Seq(HeaderMutations)
    <3>1. \E n \in Nat : ms \in [1 .. n -> HeaderMutations]
      BY DEF TupleOf
    <3> QED BY <3>1, SeqDef
  <2> DEFINE x == ApplyHeaderMutations(map, ms)
             y == InTurn(SingleMutation, map, ms)
  <2>4. x.values = y.values
    BY <2>2, <2>3, BatchSame
  <2>5. sdk' = [call |-> "mutate", batch |-> x, single |-> y]
    BY <2>1
  <2> HIDE DEF x, y
  <2> QED BY <2>4, <2>5 DEF HostCallsInv, SdkReadsWhole, BatchIsSequence
<1>5. CASE BeginCallout
  <2>1. PICK kind \in {"http", "grpc", "sleep"}, left \in {Absent} \cup 0..MaxTime :
          sdk' = [call |-> "wait", kind |-> kind, left |-> left, phase |-> "resolve", result |-> "none"]
    BY <1>5 DEF BeginCallout
  <2> QED BY <2>1 DEF HostCallsInv, SdkReadsWhole, BatchIsSequence
<1>6. CASE Resolve \/ DispatchHttpCall \/ DispatchGrpcCall \/ Sleep \/ Tick
  <2>1. sdk.call = "wait"
    BY <1>6 DEF Resolve, DispatchHttpCall, DispatchGrpcCall, Sleep, Tick
  <2>2. sdk'.call = "wait" /\ "call" \in DOMAIN sdk'
    <3>1. "call" \in DOMAIN sdk
      BY DEF HostCallsInv
    <3> QED BY <1>6, <2>1, <3>1 DEF Resolve, DispatchHttpCall, DispatchGrpcCall, Sleep, Tick, Finish
  <2> QED BY <2>2 DEF HostCallsInv, SdkReadsWhole, BatchIsSequence
<1> QED BY <1>1, <1>2, <1>3, <1>4, <1>5, <1>6 DEF HostCallsNext

(* arion-wasm-sdk and wasm/hostcalls.rs: whatever the first buffer and the  *)
(* length of the value, a read that ends well has the whole value, only    *)
(* the calls that report no length give up on a buffer that is too small,  *)
(* and nothing but the plugin's configuration is asked for more than       *)
(* twice; and a batch of header mutations leaves what the single calls     *)
(* leave.                                                                  *)
THEOREM SdkKeeps == HostCallsSpec => [](SdkReadsWhole /\ BatchIsSequence)
<1>2. HostCallsInv => SdkReadsWhole /\ BatchIsSequence
  BY DEF HostCallsInv
<1> QED BY <1>2, HostCallsInitInv, HostCallsStep, PTL DEF HostCallsSpec

-----------------------------------------------------------------------------
(* Words.                                                                  *)
LEMMA WordPositive == Word \in Nat /\ Word > 0
<1> DEFINE S == 1 .. Width
           n == Cardinality(SUBSET S)
<1>1. IsFiniteSet(S) /\ Cardinality(S) = Width
  <2>1. 1 \in Int /\ Width \in Int /\ Width >= 1
    BY SharedAssumption
  <2> QED BY <2>1, FS_Interval
<1>2. IsFiniteSet(SUBSET S) /\ n = Word
  BY <1>1, FS_SUBSET DEF Word
<1>3. n \in Nat /\ n # 0
  <2>1. n \in Nat /\ (n = 0 <=> SUBSET S = {})
    BY <1>2, FS_CardinalityType, FS_EmptySet
  <2>2. {} \in SUBSET S
    OBVIOUS
  <2> QED BY <2>1, <2>2
<1> QED BY <1>2, <1>3

(* Numbers that are the same as words.                                     *)
Cong(a, c) == \E k \in Int : a = c + Word * k

LEMMA ModFacts == ASSUME NEW a \in Int
                  PROVE  a % Word \in 0 .. Word - 1 /\ a \div Word \in Int /\ a = Word * (a \div Word) + (a % Word)
<1> DEFINE W == Word
<1>1. W \in Nat /\ W > 0
  BY WordPositive
<1> HIDE DEF W
<1>2. a % W \in 0 .. W - 1 /\ a \div W \in Int /\ a = W * (a \div W) + (a % W)
  BY <1>1
<1> QED BY <1>2 DEF W

LEMMA QuotientUnique ==
  ASSUME NEW W \in Nat, W > 0, NEW p \in Int, NEW q \in Int, NEW r \in 0 .. W - 1, NEW s \in 0 .. W - 1, W * p + r = W * q + s
  PROVE  r = s
<1>1. CASE p = q
  BY <1>1
<1>2. CASE p < q
  <2>1. PICK d \in Nat : q = p + 1 + d
    <3>1. q - p - 1 \in Nat /\ q = p + 1 + (q - p - 1)
      BY <1>2
    <3> QED BY <3>1
  <2>2. W * q = W * p + W + W * d
    BY <2>1
  <2>3. W * d >= 0 /\ W * d \in Int /\ W * p \in Int
    OBVIOUS
  <2> QED BY <2>2, <2>3
<1>3. CASE q < p
  <2>1. PICK d \in Nat : p = q + 1 + d
    <3>1. p - q - 1 \in Nat /\ p = q + 1 + (p - q - 1)
      BY <1>3
    <3> QED BY <3>1
  <2>2. W * p = W * q + W + W * d
    BY <2>1
  <2>3. W * d >= 0 /\ W * d \in Int /\ W * q \in Int
    OBVIOUS
  <2> QED BY <2>2, <2>3
<1> QED BY <1>1, <1>2, <1>3

LEMMA CongMod == ASSUME NEW a \in Int, NEW c \in Int, Cong(a, c) PROVE a % Word = c % Word
<1> DEFINE W == Word
           p == a \div W
           q == c \div W
           r == a % W
           s == c % W
<1>1. W \in Nat /\ W > 0
  BY WordPositive
<1>2. r \in 0 .. W - 1 /\ p \in Int /\ a = W * p + r /\ s \in 0 .. W - 1 /\ q \in Int /\ c = W * q + s
  BY ModFacts
<1>3. PICK k \in Int : a = c + W * k
  BY DEF Cong
<1> HIDE DEF W, p, q, r, s
<1>4. W * (q + k) = W * q + W * k /\ q + k \in Int
  BY <1>1, <1>2
<1>5. W * p \in Int /\ W * q \in Int /\ W * k \in Int /\ W * (q + k) \in Int
  BY <1>1, <1>2
<1>6. W * p + r = W * (q + k) + s
  BY <1>1, <1>2, <1>3, <1>4, <1>5
<1>7. r = s
  BY <1>1, <1>2, <1>4, <1>6, QuotientUnique
<1> QED BY <1>7 DEF r, s, W

LEMMA ModCong == ASSUME NEW a \in Int
                 PROVE  a % Word \in Int /\ (a % Word) - Word \in Int /\ Cong(a, a) /\ Cong(a % Word, a) /\ Cong((a % Word) - Word, a)
<1> DEFINE W == Word
           q == a \div W
           r == a % W
<1>0. W \in Nat /\ W > 0
  BY WordPositive
<1>1. r \in Int /\ q \in Int /\ a = W * q + r
  BY ModFacts, <1>0
<1> HIDE DEF q, r, W
<1>2. a = a + W * 0 /\ r = a + W * (0 - q) /\ r - W = a + W * ((0 - q) - 1)
  <2>1. W * (0 - q) = 0 - W * q /\ W * 0 = 0 /\ W * ((0 - q) - 1) = (0 - W * q) - W /\ W * q \in Int
    BY <1>0, <1>1
  <2> QED BY <1>0, <1>1, <2>1
<1>3. 0 \in Int /\ 0 - q \in Int /\ (0 - q) - 1 \in Int /\ r - W \in Int
  BY <1>0, <1>1
<1>4. Cong(a, a) /\ Cong(r, a) /\ Cong(r - W, a)
  BY <1>2, <1>3 DEF Cong, W
<1> QED BY <1>1, <1>3, <1>4 DEF r, W

LEMMA CongFacts ==
  /\ \A a, c, x, y \in Int : Cong(a, c) /\ Cong(x, y) => Cong(a + x, c + y) /\ Cong(a - x, c - y)
  /\ \A a, c, x \in Int : Cong(a, c) /\ Cong(c, x) => Cong(a, x)
<1> DEFINE W == Word
<1>0. W \in Nat /\ W > 0
  BY WordPositive
<1>2. ASSUME NEW a \in Int, NEW c \in Int, NEW x \in Int, NEW y \in Int, Cong(a, c), Cong(x, y)
      PROVE  Cong(a + x, c + y) /\ Cong(a - x, c - y)
  <2>1. PICK k \in Int : a = c + W * k
    BY <1>2 DEF Cong
  <2>2. PICK l \in Int : x = y + W * l
    BY <1>2 DEF Cong
  <2> HIDE DEF W
  <2>3. W * (k + l) = W * k + W * l /\ W * (k - l) = W * k - W * l /\ W * k \in Int /\ W * l \in Int
    BY <1>0
  <2>4. k + l \in Int /\ k - l \in Int /\ a + x = (c + y) + W * (k + l) /\ a - x = (c - y) + W * (k - l)
    BY <1>0, <2>1, <2>2, <2>3
  <2> QED BY <2>4 DEF Cong, W
<1>3. ASSUME NEW a \in Int, NEW c \in Int, NEW x \in Int, Cong(a, c), Cong(c, x) PROVE Cong(a, x)
  <2>1. PICK k \in Int : a = c + W * k
    BY <1>3 DEF Cong
  <2>2. PICK l \in Int : c = x + W * l
    BY <1>3 DEF Cong
  <2> HIDE DEF W
  <2>3. W * (k + l) = W * k + W * l /\ W * k \in Int /\ W * l \in Int
    BY <1>0
  <2>4. k + l \in Int /\ a = x + W * (k + l)
    BY <1>0, <2>1, <2>2, <2>3
  <2> QED BY <2>4 DEF Cong, W
<1> QED BY <1>2, <1>3

LEMMA WrapFacts ==
  ASSUME NEW y, NEW n \in Int
  PROVE  /\ Wrap(y, n) \in Int /\ Cong(Wrap(y, n), n)
         /\ \A m \in Int : Cong(m, n) => Wrap(y, m) = Wrap(y, n)
<1>1. Word \in Int /\ n % Word \in Int
  BY WordPositive, ModCong
<1>2. Wrap(y, n) = n % Word \/ Wrap(y, n) = (n % Word) - Word
  BY DEF Wrap
<1>3. Wrap(y, n) \in Int /\ Cong(Wrap(y, n), n)
  BY <1>2, ModCong
<1>4. ASSUME NEW m \in Int, Cong(m, n) PROVE Wrap(y, m) = Wrap(y, n)
  <2>1. m % Word = n % Word
    BY <1>4, CongMod
  <2> QED BY <2>1 DEF Wrap
<1> QED BY <1>3, <1>4

(* Adding one, by either operation, to a value that counts n.              *)
Operand(y, way) == IF way = "add" THEN 1 ELSE Wrap(y, -1)
LEMMA AtomicAdds ==
  ASSUME NEW y \in {"u64", "i64"}, NEW way \in {"add", "sub"}, NEW cur \in Int, NEW n \in Int, cur = Wrap(y, n)
  PROVE  Atomic(y, way, cur, Operand(y, way)) = Wrap(y, n + 1) /\ Wrap(y, cur + 1) = Wrap(y, n + 1)
<1> DEFINE v == Operand(y, way)
           d == IF way = "add" THEN 1 ELSE -1
           e(a, b) == IF way = "add" THEN a + b ELSE a - b
<1>0. -1 \in Int /\ 1 \in Int /\ d \in Int /\ n + 1 \in Int /\ cur + 1 \in Int
  OBVIOUS
<1>1. v \in Int /\ Cong(v, d) /\ Cong(cur, n)
  <2>1. Wrap(y, -1) \in Int /\ Cong(Wrap(y, -1), -1)
    BY <1>0, WrapFacts
  <2>2. Cong(1, 1)
    BY <1>0, ModCong
  <2>3. Cong(cur, n)
    BY WrapFacts
  <2> QED BY <2>1, <2>2, <2>3 DEF Operand
<1>2. \A a, b \in Int : Cong(a, n) /\ Cong(b, d) => e(a, b) \in Int /\ Cong(e(a, b), n + 1)
  <2> SUFFICES ASSUME NEW a \in Int, NEW b \in Int, Cong(a, n), Cong(b, d) PROVE e(a, b) \in Int /\ Cong(e(a, b), n + 1)
    OBVIOUS
  <2>1. CASE way = "add"
    <3>1. d = 1 /\ e(a, b) = a + b
      BY <2>1
    <3> QED BY <3>1, CongFacts
  <2>2. CASE way = "sub"
    <3>1. d = -1 /\ e(a, b) = a - b /\ n - (-1) = n + 1
      BY <2>2
    <3>2. Cong(a - b, n - (-1))
      BY <1>0, <3>1, CongFacts
    <3> QED BY <3>1, <3>2
  <2> QED BY <2>1, <2>2
<1>3. \A a, b : AtomicU64(way, a, b) = Wrap("u64", e(a, b))
  <2>1. CASE way = "add"
    BY <2>1 DEF AtomicU64
  <2>2. CASE way = "sub"
    BY <2>2 DEF AtomicU64
  <2> QED BY <2>1, <2>2
<1> HIDE DEF v, e, d
<1>4. Wrap(y, cur + 1) = Wrap(y, n + 1)
  <2>1. Cong(1, 1)
    BY <1>0, ModCong
  <2>2. Cong(cur + 1, n + 1)
    BY <1>0, <1>1, <2>1, CongFacts
  <2> QED BY <1>0, <2>2, WrapFacts
<1>5. CASE y = "u64"
  <2>1. Atomic(y, way, cur, v) = Wrap("u64", e(cur, v))
    BY <1>3, <1>5 DEF Atomic
  <2>2. Wrap("u64", e(cur, v)) = Wrap("u64", n + 1)
    BY <1>0, <1>1, <1>2, WrapFacts
  <2> QED BY <1>4, <1>5, <2>1, <2>2 DEF v
<1>6. CASE y = "i64"
  <2> DEFINE a == Unsigned(cur)
             b == Unsigned(v)
             u == Wrap("u64", e(a, b))
  <2>1. way \notin {"max", "min", "store", "swap", "load"}
    OBVIOUS
  <2>2. Atomic(y, way, cur, v) = Wrap("i64", u)
    BY <1>3, <1>6, <2>1 DEF Atomic, AtomicI64
  <2>3. a \in Int /\ b \in Int /\ Cong(a, cur) /\ Cong(b, v)
    BY <1>1, ModCong DEF Unsigned
  <2> HIDE DEF a, b
  <2>4. Cong(a, n) /\ Cong(b, d)
    BY <1>0, <1>1, <2>3, CongFacts
  <2>5. e(a, b) \in Int /\ Cong(e(a, b), n + 1)
    BY <1>2, <2>3, <2>4
  <2>6. u \in Int /\ Cong(u, e(a, b))
    BY <2>5, WrapFacts
  <2> HIDE DEF u
  <2>7. Cong(u, n + 1)
    BY <1>0, <2>5, <2>6, CongFacts
  <2>8. Wrap("i64", u) = Wrap("i64", n + 1)
    BY <1>0, <2>6, <2>7, WrapFacts
  <2> QED BY <1>4, <1>6, <2>2, <2>8 DEF v
<1> QED BY <1>5, <1>6

-----------------------------------------------------------------------------
(* The guests and the variables.                                           *)
Slots == 0 .. Capacity - 1
SharedCells == [value : Int, version : Nat]
GuestFields == {"pc", "name", "type", "id", "seen", "version", "cap", "left"}

(* A guest about to swap read the version it will compare, or an older one. *)
GuestFine(w, at) ==
    /\ DOMAIN w = GuestFields
    /\ w.type \in Types /\ w.seen \in Int /\ w.version \in Nat
    /\ w.pc \in {"insert", "ready", "exchange", "swap"} => w.id \in Slots
    /\ w.pc = "exchange" => w.type # "blob"
    /\ w.pc = "swap" => /\ w.type = "blob" /\ w.version <= at["blob"][w.id].version
                        /\ w.version = at["blob"][w.id].version => w.seen = at["blob"][w.id].value

NamesFine ==
    /\ nextId \in [Types -> Nat] /\ DOMAIN nameToId = SharedNames
    /\ \A n \in SharedNames : nameToId[n] # <<>> => nameToId[n][1].type \in Types /\ nameToId[n][1].id \in Slots

SharedInv ==
    /\ atomics \in [Types -> [Slots -> SharedCells]] /\ adds \in [Types -> [Slots -> Nat]]
    /\ NamesFine /\ DOMAIN guest = Guests /\ \A g \in Guests : GuestFine(guest[g], atomics)
    /\ CountsKept

LEMMA CountWraps == Wrap("u64", 0) = 0 /\ Wrap("i64", 0) = 0
<1> DEFINE W == Word
<1>1. W \in Nat /\ W > 1
  <2>1. Word \in Nat /\ Word > 0
    BY WordPositive
  <2>2. Word # 1
    <3> DEFINE S == 1 .. Width
    <3>1. IsFiniteSet(S) /\ Cardinality(S) = Width
      <4>1. 1 \in Int /\ Width \in Int /\ Width >= 1
        BY SharedAssumption
      <4> QED BY <4>1, FS_Interval
    <3>2. IsFiniteSet(SUBSET S) /\ Cardinality(SUBSET S) = Word
      BY <3>1, FS_SUBSET DEF Word
    <3>3. {} \in SUBSET S /\ {1} \in SUBSET S /\ {} # {1}
      BY SharedAssumption
    <3> HIDE DEF S
    <3>4. ASSUME Cardinality(SUBSET S) = 1 PROVE FALSE
      <4>1. PICK x : SUBSET S = {x}
        BY <3>2, <3>4, FS_Singleton
      <4>2. {} = x /\ {1} = x
        BY <3>3, <4>1
      <4> QED BY <3>3, <4>2
    <3> QED BY <3>2, <3>4
  <2> QED BY <2>1, <2>2
<1> HIDE DEF W
<1>2. 0 % W = 0 /\ ~(0 >= W \div 2)
  BY <1>1
<1>3. Wrap("u64", 0) = 0 % W /\ (~(0 % W >= W \div 2) => Wrap("i64", 0) = 0 % W)
  BY DEF Wrap, W
<1> QED BY <1>2, <1>3

LEMMA SharedInitInv == SharedInit => SharedInv
<1> SUFFICES ASSUME SharedInit PROVE SharedInv
  OBVIOUS
<1> DEFINE z == [value |-> 0, version |-> 0]
           w == [pc |-> "start", name |-> <<>>, type |-> "u64", id |-> Failed, seen |-> 0, version |-> 0, cap |-> 0, left |-> MaxAdds]
<1>1. z \in SharedCells /\ z.value = 0
  BY DEF SharedCells
<1>2. GuestFine(w, atomics)
  BY DEF GuestFine, GuestFields, Types
<1> HIDE DEF z, w
<1>3. /\ atomics = [y \in Types |-> [i \in Slots |-> z]] /\ adds = [y \in Types |-> [i \in Slots |-> 0]]
      /\ guest = [g \in Guests |-> w] /\ NamesFine
  BY DEF SharedInit, Slots, z, w, NamesFine
<1>4. CountsKept
  BY <1>1, <1>3, CountWraps DEF CountsKept, Slots, Types
<1> QED BY <1>1, <1>2, <1>3, <1>4 DEF SharedInv

(* A guest moves and leaves the variables alone.                           *)
LEMMA GuestMoves ==
  ASSUME SharedInv, NEW g \in Guests, NEW w, Set(g, w), GuestFine(w, atomics), NamesFine', UNCHANGED <<atomics, adds>>
  PROVE  SharedInv'
<1>1. \A h \in Guests : guest'[h] = guest[h] \/ guest'[h] = w
  BY DEF Set, SharedInv
<1>2. DOMAIN guest' = Guests
  BY DEF Set, SharedInv
<1> QED BY <1>1, <1>2 DEF SharedInv, CountsKept

(* A guest changes the variable it resolved, or writes what was there.     *)
LEMMA CellMoves ==
  ASSUME SharedInv, NEW g \in Guests, NEW w, Set(g, w), NEW y \in Types, NEW i \in Slots, NEW c \in SharedCells,
         atomics' = [atomics EXCEPT ![y][i] = c], GuestFine(w, atomics'), UNCHANGED <<nameToId, nextId>>,
         \/ c = atomics[y][i] \/ y # "blob" \/ c.version > atomics[y][i].version,
         \/ adds' = adds /\ c.value = atomics[y][i].value
         \/ /\ adds' = [adds EXCEPT ![y][i] = @ + 1]
            /\ c.value = IF y = "blob" THEN adds[y][i] + 1 ELSE Wrap(y, adds[y][i] + 1)
  PROVE  SharedInv'
<1>1. /\ atomics' \in [Types -> [Slots -> SharedCells]]
      /\ \A x \in Types, j \in Slots : (x # y \/ j # i) => atomics'[x][j] = atomics[x][j]
      /\ atomics'[y][i] = c
  BY DEF SharedInv
<1>2. adds' \in [Types -> [Slots -> Nat]] /\ \A x \in Types, j \in Slots : (x # y \/ j # i) => adds'[x][j] = adds[x][j]
  <2>1. CASE adds' = adds
    BY <2>1 DEF SharedInv
  <2>2. CASE adds' = [adds EXCEPT ![y][i] = @ + 1]
    <3> DEFINE r == [adds[y] EXCEPT ![i] = @ + 1]
    <3>1. r \in [Slots -> Nat] /\ \A j \in Slots : j # i => r[j] = adds[y][j]
      BY DEF SharedInv
    <3>2. adds' = [adds EXCEPT ![y] = r]
      BY <2>2
    <3> HIDE DEF r
    <3> QED BY <3>1, <3>2 DEF SharedInv
  <2> QED BY <2>1, <2>2
<1>3. adds'[y][i] = adds[y][i] \/ adds'[y][i] = adds[y][i] + 1
  BY DEF SharedInv
<1>4. CountsKept'
  <2> SUFFICES ASSUME NEW x \in Types, NEW j \in Slots
               PROVE  atomics'[x][j].value = IF x = "blob" THEN adds'[x][j] ELSE Wrap(x, adds'[x][j])
    BY DEF CountsKept, Slots
  <2>0. atomics[x][j].value = IF x = "blob" THEN adds[x][j] ELSE Wrap(x, adds[x][j])
    BY DEF SharedInv, CountsKept, Slots
  <2>1. CASE x # y \/ j # i
    BY <1>1, <1>2, <2>0, <2>1
  <2>2. CASE x = y /\ j = i
    <3>1. CASE adds' = adds /\ c.value = atomics[y][i].value
      BY <1>1, <2>0, <2>2, <3>1
    <3>2. CASE adds' = [adds EXCEPT ![y][i] = @ + 1] /\ c.value = IF y = "blob" THEN adds[y][i] + 1 ELSE Wrap(y, adds[y][i] + 1)
      <4>1. adds'[y][i] = adds[y][i] + 1
        BY <3>2 DEF SharedInv
      <4> QED BY <1>1, <2>2, <3>2, <4>1
    <3> QED BY <3>1, <3>2
  <2> QED BY <2>1, <2>2
<1>5. \A h \in Guests : guest'[h] = guest[h] \/ guest'[h] = w
  BY DEF Set, SharedInv
<1>6. DOMAIN guest' = Guests
  BY DEF Set, SharedInv
<1>7. ASSUME NEW v, GuestFine(v, atomics) PROVE GuestFine(v, atomics')
  <2> SUFFICES ASSUME v.pc = "swap"
               PROVE  /\ v.version <= atomics'["blob"][v.id].version
                      /\ v.version = atomics'["blob"][v.id].version => v.seen = atomics'["blob"][v.id].value
    BY <1>7 DEF GuestFine
  <2>1. /\ v.id \in Slots /\ "blob" \in Types /\ v.version <= atomics["blob"][v.id].version /\ v.version \in Nat
        /\ v.version = atomics["blob"][v.id].version => v.seen = atomics["blob"][v.id].value
    BY <1>7 DEF GuestFine, Types
  <2>2. atomics["blob"][v.id].version \in Nat /\ c.version \in Nat
    BY <2>1 DEF SharedInv, SharedCells
  <2>3. CASE y # "blob" \/ v.id # i \/ c = atomics[y][i]
    BY <1>1, <2>1, <2>3
  <2>4. CASE y = "blob" /\ v.id = i /\ c.version > atomics[y][i].version
    BY <1>1, <2>1, <2>2, <2>4
  <2> QED BY <2>3, <2>4
<1>8. \A h \in Guests : GuestFine(guest'[h], atomics')
  BY <1>5, <1>7 DEF SharedInv
<1>9. NamesFine'
  BY DEF SharedInv, NamesFine
<1> QED BY <1>1, <1>2, <1>4, <1>6, <1>8, <1>9 DEF SharedInv

(* shared_resolve.                                                         *)
LEMMA ResolveStep ==
  ASSUME SharedInv, NEW g \in Guests, ResolveLookup(g) \/ ResolveAllocate(g) \/ ResolveInsert(g)
  PROVE  SharedInv'
<1> DEFINE o == guest[g]
<1>0. GuestFine(o, atomics) /\ NamesFine
  BY DEF SharedInv
<1> HIDE DEF o
<1>1. CASE ResolveLookup(g)
  <2>1. PICK n \in SharedNames, y \in Types :
          Set(g, IF nameToId[n] = <<>> THEN [[o EXCEPT !.name = <<n>>, !.type = y] EXCEPT !.pc = "allocate"]
                 ELSE IF nameToId[n][1].type = y
                      THEN [[o EXCEPT !.name = <<n>>, !.type = y] EXCEPT !.pc = "ready", !.id = nameToId[n][1].id]
                      ELSE [[o EXCEPT !.name = <<n>>, !.type = y] EXCEPT !.pc = "done"])
    BY <1>1 DEF ResolveLookup, o
  <2> DEFINE v == [o EXCEPT !.name = <<n>>, !.type = y]
             a == [v EXCEPT !.pc = "allocate"]
             r == [v EXCEPT !.pc = "ready", !.id = nameToId[n][1].id]
             d == [v EXCEPT !.pc = "done"]
             w == IF nameToId[n] = <<>> THEN a ELSE IF nameToId[n][1].type = y THEN r ELSE d
  <2>2. DOMAIN v = GuestFields /\ v.type = y /\ v.seen = o.seen /\ v.version = o.version
    BY <1>0 DEF GuestFine, GuestFields
  <2> HIDE DEF v
  <2>3. GuestFine(a, atomics) /\ GuestFine(d, atomics)
    BY <1>0, <2>2 DEF GuestFine, GuestFields
  <2>4. nameToId[n][1].id \in Slots => GuestFine(r, atomics)
    BY <1>0, <2>2 DEF GuestFine, GuestFields
  <2>5. GuestFine(w, atomics)
    BY <1>0, <2>3, <2>4 DEF NamesFine
  <2>6. Set(g, w)
    BY <2>1 DEF v
  <2>7. NamesFine' /\ UNCHANGED <<atomics, adds>>
    BY <1>0, <1>1 DEF ResolveLookup, NamesFine
  <2> HIDE DEF w
  <2> QED BY <2>5, <2>6, <2>7, GuestMoves
<1>2. CASE ResolveAllocate(g)
  <2> DEFINE y == o.type
             d == [o EXCEPT !.pc = "done"]
             r == [o EXCEPT !.pc = "insert", !.id = nextId[y]]
             w == IF nextId[y] >= Capacity THEN d ELSE r
  <2>1. Set(g, w) /\ nextId' = [nextId EXCEPT ![y] = @ + 1] /\ UNCHANGED <<nameToId, atomics, adds>>
    BY <1>2 DEF ResolveAllocate, o
  <2>2. y \in Types /\ nextId[y] \in Nat /\ Capacity \in Nat
    BY <1>0, SharedAssumption DEF GuestFine, NamesFine
  <2>3. ~(nextId[y] >= Capacity) => nextId[y] \in Slots
    BY <2>2 DEF Slots
  <2>4. GuestFine(d, atomics) /\ (nextId[y] \in Slots => GuestFine(r, atomics))
    BY <1>0 DEF GuestFine, GuestFields
  <2>5. GuestFine(w, atomics)
    BY <2>3, <2>4
  <2>6. NamesFine'
    BY <1>0, <2>1, <2>2 DEF NamesFine
  <2> HIDE DEF w
  <2> QED BY <2>1, <2>5, <2>6, GuestMoves
<1>3. CASE ResolveInsert(g)
  <2> DEFINE w == [o EXCEPT !.pc = "ready"]
             k == [type |-> o.type, id |-> o.id]
             e == <<k>>
  <2>1. Set(g, w) /\ nameToId' = [nameToId EXCEPT ![o.name[1]] = e] /\ UNCHANGED <<nextId, atomics, adds>> /\ o.pc = "insert"
    BY <1>3 DEF ResolveInsert, o
  <2>2. GuestFine(w, atomics)
    BY <1>0, <2>1 DEF GuestFine, GuestFields
  <2>3. e[1].type \in Types /\ e[1].id \in Slots
    <3>1. e[1] = k /\ k.type = o.type /\ k.id = o.id
      OBVIOUS
    <3> QED BY <1>0, <2>1, <3>1 DEF GuestFine
  <2> HIDE DEF w, e
  <2>4. NamesFine'
    <3>1. \A n \in SharedNames : nameToId'[n] = nameToId[n] \/ nameToId'[n] = e
      BY <1>0, <2>1 DEF NamesFine
    <3>2. DOMAIN nameToId' = SharedNames
      BY <1>0, <2>1 DEF NamesFine
    <3> QED BY <1>0, <2>1, <2>3, <3>1, <3>2 DEF NamesFine
  <2> QED BY <2>1, <2>2, <2>4, GuestMoves
<1> QED BY <1>1, <1>2, <1>3

(* What a guest that is ready has in hand.                                 *)
LEMMA MineFine ==
  ASSUME SharedInv, NEW g \in Guests, guest[g].pc \in {"ready", "exchange", "swap"}
  PROVE  /\ guest[g].type \in Types /\ guest[g].id \in Slots /\ Mine(g) \in SharedCells
         /\ Mine(g) = atomics[guest[g].type][guest[g].id] /\ adds[guest[g].type][guest[g].id] \in Nat
         /\ Mine(g).value = IF guest[g].type = "blob" THEN adds[guest[g].type][guest[g].id]
                            ELSE Wrap(guest[g].type, adds[guest[g].type][guest[g].id])
<1>1. guest[g].type \in Types /\ guest[g].id \in Slots
  BY DEF SharedInv, GuestFine
<1> QED BY <1>1 DEF SharedInv, Mine, CountsKept, Slots

LEMMA AgainFine ==
  ASSUME NEW o, NEW at, NEW bt, GuestFine(o, at), o.pc \in {"ready", "exchange", "swap"}
  PROVE  GuestFine([o EXCEPT !.pc = "ready", !.left = @ - 1], bt)
BY DEF GuestFine, GuestFields

LEMMA FetchAddStep ==
  ASSUME SharedInv, NEW g \in Guests, FetchAdd(g)
  PROVE  SharedInv'
<1> DEFINE o == guest[g]
           m == Mine(g)
           y == o.type
           i == o.id
<1>1. o.pc = "ready" /\ y # "blob" /\ UNCHANGED <<nameToId, nextId>> /\ adds' = [adds EXCEPT ![y][i] = @ + 1]
  BY DEF FetchAdd, Counted
<1>2. y \in Types /\ i \in Slots /\ m \in SharedCells /\ m = atomics[y][i] /\ adds[y][i] \in Nat /\ m.value = Wrap(y, adds[y][i])
  BY <1>1, MineFine
<1>3. PICK way \in {"add", "sub"} : Store(g, [m EXCEPT !.value = Atomic(y, way, m.value, IF way = "add" THEN 1 ELSE Wrap(y, -1))])
  BY DEF FetchAdd
<1> DEFINE n == Atomic(y, way, m.value, Operand(y, way))
           c == [m EXCEPT !.value = n]
           w == [o EXCEPT !.pc = "ready", !.left = @ - 1]
<1>4. atomics' = [atomics EXCEPT ![y][i] = c] /\ Set(g, w)
  BY <1>3 DEF Store, Operand, FetchAdd, Again
<1>5. n = Wrap(y, adds[y][i] + 1)
  <2>1. y \in {"u64", "i64"} /\ m.value \in Int /\ adds[y][i] \in Int
    BY <1>1, <1>2 DEF Types, SharedCells
  <2> HIDE DEF m
  <2> QED BY <1>2, <2>1, AtomicAdds
<1>6. n \in Int
  <2>1. adds[y][i] + 1 \in Int
    BY <1>2
  <2> QED BY <1>5, <2>1, WrapFacts
<1> HIDE DEF n
<1>7. c \in SharedCells /\ c.value = n
  BY <1>2, <1>6 DEF SharedCells
<1>8. GuestFine(w, atomics')
  BY <1>1, AgainFine DEF SharedInv
<1> HIDE DEF c, w, m, y, i
<1> QED BY <1>1, <1>2, <1>4, <1>5, <1>7, <1>8, CellMoves

LEMMA ExchangeStep ==
  ASSUME SharedInv, NEW g \in Guests, Exchange(g)
  PROVE  SharedInv'
<1> DEFINE o == guest[g]
           m == Mine(g)
           y == o.type
           i == o.id
           n == Wrap(y, o.seen + 1)
<1>1. o.pc = "exchange" /\ UNCHANGED <<nameToId, nextId>>
  BY DEF Exchange
<1>2. y \in Types /\ i \in Slots /\ m \in SharedCells /\ m = atomics[y][i] /\ adds[y][i] \in Nat
  BY <1>1, MineFine
<1>3. GuestFine(o, atomics) /\ y # "blob" /\ o.seen \in Int
  BY <1>1 DEF SharedInv, GuestFine
<1>4. m.value = Wrap(y, adds[y][i])
  BY <1>1, <1>3, MineFine
<1>5. CASE m.value = o.seen
  <2> DEFINE c == [m EXCEPT !.value = n]
             w == [o EXCEPT !.pc = "ready", !.left = @ - 1]
  <2>1. atomics' = [atomics EXCEPT ![y][i] = c] /\ Set(g, w) /\ adds' = [adds EXCEPT ![y][i] = @ + 1]
    BY <1>5 DEF Exchange, Store, CompareExchange, Again, Counted
  <2>2. n = Wrap(y, adds[y][i] + 1)
    <3>1. y \in {"u64", "i64"} /\ m.value \in Int /\ adds[y][i] \in Int /\ "add" \in {"add", "sub"}
      BY <1>2, <1>3 DEF Types, SharedCells
    <3>2. Wrap(y, m.value + 1) = Wrap(y, adds[y][i] + 1)
      <4> HIDE DEF m
      <4> QED BY <1>4, <3>1, AtomicAdds
    <3> QED BY <1>5, <3>2
  <2>3. n \in Int
    <3>1. o.seen + 1 \in Int
      BY <1>3
    <3> QED BY <3>1, WrapFacts
  <2> HIDE DEF n
  <2>4. c \in SharedCells /\ c.value = n
    BY <1>2, <2>3 DEF SharedCells
  <2>5. GuestFine(w, atomics')
    BY <1>1, <1>3, AgainFine
  <2> HIDE DEF c, w, m, y, i
  <2> QED BY <1>1, <1>2, <1>3, <2>1, <2>2, <2>4, <2>5, CellMoves
<1>6. CASE m.value # o.seen
  <2> DEFINE w == [o EXCEPT !.seen = m.value]
  <2>1. atomics' = [atomics EXCEPT ![y][i] = m] /\ Set(g, w) /\ adds' = adds
    BY <1>6 DEF Exchange, Store, CompareExchange
  <2>2. m.value \in Int
    BY <1>2 DEF SharedCells
  <2>3. GuestFine(w, atomics')
    BY <1>1, <1>3, <2>2 DEF GuestFine, GuestFields
  <2> HIDE DEF w, m, y, i
  <2> QED BY <1>1, <1>2, <2>1, <2>3, CellMoves
<1> QED BY <1>5, <1>6

LEMMA ReadStep ==
  ASSUME SharedInv, NEW g \in Guests, Load(g) \/ BlobRead(g)
  PROVE  SharedInv'
<1> DEFINE o == guest[g]
           m == Mine(g)
<1>1. o.pc = "ready" /\ UNCHANGED <<nameToId, nextId, atomics, adds>>
  BY DEF Load, BlobRead
<1>2. GuestFine(o, atomics) /\ NamesFine
  BY DEF SharedInv
<1>3. NamesFine'
  BY <1>1, <1>2 DEF NamesFine
<1>4. m \in SharedCells /\ m = atomics[o.type][o.id] /\ o.id \in Slots
  BY <1>1, MineFine
<1>5. m.value \in Int /\ m.version \in Nat
  BY <1>4 DEF SharedCells
<1>6. CASE Load(g)
  <2> DEFINE w == [o EXCEPT !.pc = "exchange", !.seen = m.value]
  <2>1. Set(g, w) /\ o.type # "blob"
    BY <1>6 DEF Load
  <2>2. GuestFine(w, atomics)
    BY <1>1, <1>2, <1>5, <2>1 DEF GuestFine, GuestFields
  <2> HIDE DEF w
  <2> QED BY <1>1, <1>3, <2>1, <2>2, GuestMoves
<1>7. CASE BlobRead(g)
  <2> DEFINE a == [o EXCEPT !.pc = "swap", !.seen = m.value, !.version = m.version, !.cap = 0]
             b == [o EXCEPT !.cap = m.value]
             w == IF m.value <= o.cap THEN a ELSE b
  <2>1. Set(g, w) /\ o.type = "blob"
    BY <1>7 DEF BlobRead
  <2>2. GuestFine(a, atomics)
    <3>1. /\ DOMAIN a = GuestFields /\ a.type = o.type /\ a.seen = m.value /\ a.version = m.version /\ a.pc = "swap" /\ a.id = o.id
      BY <1>2 DEF GuestFine, GuestFields
    <3> HIDE DEF a
    <3> QED BY <1>2, <1>4, <1>5, <2>1, <3>1 DEF GuestFine
  <2>3. GuestFine(b, atomics)
    BY <1>1, <1>2 DEF GuestFine, GuestFields
  <2>4. GuestFine(w, atomics)
    BY <2>2, <2>3
  <2> HIDE DEF w
  <2> QED BY <1>1, <1>3, <2>1, <2>4, GuestMoves
<1> QED BY <1>6, <1>7

LEMMA BlobCasStep ==
  ASSUME SharedInv, NEW g \in Guests, BlobCas(g)
  PROVE  SharedInv'
<1> DEFINE o == guest[g]
           m == Mine(g)
           y == o.type
           i == o.id
<1>1. o.pc = "swap" /\ UNCHANGED <<nameToId, nextId>>
  BY DEF BlobCas
<1>2. y \in Types /\ i \in Slots /\ m \in SharedCells /\ m = atomics[y][i] /\ adds[y][i] \in Nat
  BY <1>1, MineFine
<1>3. GuestFine(o, atomics) /\ y = "blob"
  BY <1>1 DEF SharedInv, GuestFine
<1>4. m.value = adds[y][i] /\ m.version \in Nat
  BY <1>1, <1>2, <1>3, MineFine DEF SharedCells
<1>5. CASE m.version = o.version
  <2> DEFINE c == BlobWrite(m, o.seen + 1)
             w == [o EXCEPT !.pc = "ready", !.left = @ - 1]
  <2>1. atomics' = [atomics EXCEPT ![y][i] = c] /\ Set(g, w) /\ adds' = [adds EXCEPT ![y][i] = @ + 1]
    BY <1>5 DEF BlobCas, Store, Again, Counted
  <2>2. o.seen = m.value
    BY <1>1, <1>2, <1>3, <1>5 DEF GuestFine
  <2>3. c \in SharedCells /\ c.value = adds[y][i] + 1 /\ c.version > atomics[y][i].version
    BY <1>2, <1>4, <2>2 DEF SharedCells, BlobWrite
  <2>4. GuestFine(w, atomics')
    BY <1>1, <1>3, AgainFine
  <2> HIDE DEF c, w, m, y, i
  <2> QED BY <1>1, <1>2, <1>3, <2>1, <2>3, <2>4, CellMoves
<1>6. CASE m.version # o.version
  <2> DEFINE w == [o EXCEPT !.pc = "ready"]
  <2>1. atomics' = [atomics EXCEPT ![y][i] = m] /\ Set(g, w) /\ adds' = adds
    BY <1>6 DEF BlobCas, Store
  <2>2. GuestFine(w, atomics')
    BY <1>1, <1>3 DEF GuestFine, GuestFields
  <2> HIDE DEF w, m, y, i
  <2> QED BY <1>1, <1>2, <2>1, <2>2, CellMoves
<1> QED BY <1>5, <1>6

LEMMA SharedStepKeeps == SharedInv /\ [SharedNext]_sharedVars => SharedInv'
<1> SUFFICES ASSUME SharedInv, [SharedNext]_sharedVars PROVE SharedInv'
  OBVIOUS
<1>1. CASE UNCHANGED sharedVars
  BY <1>1 DEF sharedVars, SharedInv, NamesFine, CountsKept
<1>2. ASSUME NEW g \in Guests, SharedStep(g) PROVE SharedInv'
  BY <1>2, ResolveStep, FetchAddStep, ExchangeStep, ReadStep, BlobCasStep DEF SharedStep
<1> QED BY <1>1, <1>2 DEF SharedNext

(* wasm/shared.rs and the SDK's fetch_update and compare_and_swap: no       *)
(* increment is lost, for every number of guests, of variables and of bits *)
(* of a word, whichever way each guest increments: an atomic operation,    *)
(* which wraps, a load and an exchange, or a blob's read and swap.         *)
THEOREM CountsAreKept == SharedSpec => []CountsKept
<1>1. SharedInv => CountsKept
  BY DEF SharedInv
<1> QED BY <1>1, SharedInitInv, SharedStepKeeps, PTL DEF SharedSpec

--------------------------------------------------------------------------
(* MetricsShards.                                                          *)

(* An operation has its shard while it lasts and its cell once found.      *)
OpFine(o, e, n) ==
    /\ DOMAIN o = DOMAIN NoOp /\ o.st \in {"idle", "lookup", "apply"}
    /\ o.kind \in {"add", "sub"} /\ o.epoch \in 0 .. e
    /\ o.st = "idle" => o.kind = "add" /\ o.shard = {}
    /\ o.st # "idle" => \E s \in Workers : o.shard = {s}
    /\ o.st = "apply" => o.cell \in 1 .. n

(* What a thread found under the epoch of now is in the map.               *)
InMap(c, e, m) == c.cell # 0 /\ c.epoch = e => \A s \in c.shard : c.cell = m[s]

CacheFine(c, e, n) ==
    /\ c.epoch \in 0 .. e /\ c.cell \in 0 .. n
    /\ c.shard = {} \/ \E s \in Workers : c.shard = {s}

CellsShape ==
    /\ shards \in [Workers -> 0 .. Len(cells)] /\ cells \in Seq(Nat) /\ epoch \in Nat
    /\ active \in [Workers -> Nat]
    /\ \A r, s \in Workers : shards[r] = shards[s] /\ shards[r] # 0 => r = s
    /\ DOMAIN resets = {"st", "ever"} /\ (~resets.ever => resets.st = "idle" /\ epoch = 0)
    /\ op = [w \in Workers |-> op[w]] /\ cached = [w \in Workers |-> cached[w]]

ThreadFine(w) ==
    /\ OpFine(op[w], epoch, Len(cells)) /\ CacheFine(cached[w], epoch, Len(cells))
    /\ resets.st = "idle" => /\ InMap(cached[w], epoch, shards)
                             /\ op[w].st = "apply" => InMap(op[w], epoch, shards)

MetricsInv == CellsShape /\ (\A w \in Workers : ThreadFine(w)) /\ GaugeIsActive

LEMMA MetricsInitInv == MetricsInit => MetricsInv
<1> SUFFICES ASSUME MetricsInit PROVE MetricsInv
  OBVIOUS
<1>1. CellsShape
  BY DEF MetricsInit, CellsShape
<1>2. ASSUME NEW w \in Workers PROVE ThreadFine(w)
  BY <1>2 DEF MetricsInit, ThreadFine, OpFine, CacheFine, InMap, NoOp, NothingCached
<1>3. ASSUME NEW s \in Workers PROVE ShardValue(s) = active[s] + SubsUnderWay(s)
  <2>1. {w \in Workers : op[w].kind = "sub" /\ s \in op[w].shard} = {}
    BY DEF MetricsInit, NoOp
  <2>2. SubsUnderWay(s) = 0
    BY <2>1, FS_EmptySet DEF SubsUnderWay
  <2> QED BY <1>3, <2>2 DEF MetricsInit, ShardValue
<1> QED BY <1>1, <1>2, <1>3 DEF MetricsInv, GaugeIsActive

-----------------------------------------------------------------------------
(* The subtractions under way.                                             *)
Subtracts(o, s) == o.kind = "sub" /\ s \in o.shard
Weight(b) == IF b THEN 1 ELSE 0

LEMMA SubsOfOne ==
  ASSUME NEW w \in Workers, NEW o, op' = [x \in Workers |-> IF x = w THEN o ELSE op[x]], NEW s
  PROVE  /\ SubsUnderWay(s) \in Nat
         /\ SubsUnderWay(s)' = SubsUnderWay(s) + Weight(Subtracts(o, s)) - Weight(Subtracts(op[w], s))
<1> DEFINE S == {x \in Workers : op[x].kind = "sub" /\ s \in op[x].shard}
           T == {x \in Workers : op'[x].kind = "sub" /\ s \in op'[x].shard}
<1>0. IsFiniteSet(S) /\ Cardinality(S) \in Nat
  <2>1. IsFiniteSet(S)
    BY MetricsAssumption, FS_Subset
  <2> QED BY <2>1, FS_CardinalityType
<1>1. S \ {w} = T \ {w} /\ (w \in S <=> Subtracts(op[w], s)) /\ (w \in T <=> Subtracts(o, s))
  BY DEF Subtracts
<1>2. SubsUnderWay(s) = Cardinality(S) /\ SubsUnderWay(s)' = Cardinality(T)
  BY DEF SubsUnderWay
<1> HIDE DEF S, T
<1>3. CASE w \in S /\ w \in T
  <2>1. S = T
    BY <1>1, <1>3
  <2> QED BY <1>0, <1>1, <1>2, <1>3, <2>1 DEF Weight
<1>4. CASE w \notin S /\ w \notin T
  <2>1. S = T
    BY <1>1, <1>4
  <2> QED BY <1>0, <1>1, <1>2, <1>4, <2>1 DEF Weight
<1>5. CASE w \notin S /\ w \in T
  <2>1. T = S \cup {w}
    BY <1>1, <1>5
  <2> QED BY <1>0, <1>1, <1>2, <1>5, <2>1, FS_AddElement DEF Weight
<1>6. CASE w \in S /\ w \notin T
  <2>1. T = S \ {w}
    BY <1>1, <1>6
  <2>2. Cardinality(S \ {w}) = Cardinality(S) - 1
    BY <1>0, <1>6, FS_RemoveElement
  <2> QED BY <1>0, <1>1, <1>2, <1>6, <2>1, <2>2 DEF Weight
<1> QED BY <1>3, <1>4, <1>5, <1>6

LEMMA MetricsBegin ==
  ASSUME MetricsInv, NEW w \in Workers, NEW kind \in {"add", "sub"}, NEW s \in Workers, Begin(w, kind, s)
  PROVE  MetricsInv'
<1> DEFINE hit == CacheHit(cached[w], epoch, s)
           o == [ st |-> IF hit THEN "apply" ELSE "lookup", kind |-> kind, shard |-> {s},
                  epoch |-> epoch, cell |-> IF hit THEN cached[w].cell ELSE 0, hit |-> hit ]
           c == CacheAfterLookup(cached[w], epoch)
<1>0. /\ op' = [x \in Workers |-> IF x = w THEN o ELSE op[x]]
      /\ cached' = [x \in Workers |-> IF x = w THEN c ELSE cached[x]]
      /\ active' = (IF kind = "sub" THEN [active EXCEPT ![s] = @ - 1] ELSE active)
      /\ kind = "sub" => active[s] > 0
      /\ op[w].st = "idle" /\ UNCHANGED <<shards, cells, epoch, resets>>
  BY DEF Begin, MetricsInv, CellsShape
<1>1. /\ DOMAIN o = DOMAIN NoOp /\ o.st = (IF hit THEN "apply" ELSE "lookup") /\ o.kind = kind
      /\ o.shard = {s} /\ o.epoch = epoch /\ o.cell = (IF hit THEN cached[w].cell ELSE 0)
  BY DEF NoOp
<1>2. c = cached[w] \/ (c.epoch = epoch /\ c.cell = 0 /\ c.shard = {})
  BY DEF CacheAfterLookup, NothingCached
<1> HIDE DEF o, c
<1>3. CellsShape'
  BY <1>0 DEF MetricsInv, CellsShape
<1>4. ThreadFine(w) /\ epoch \in Nat /\ Len(cells) \in Nat
  BY DEF MetricsInv, CellsShape
<1>5. ASSUME NEW x \in Workers PROVE ThreadFine(x)'
  <2>1. CASE x # w
    BY <1>0, <2>1 DEF MetricsInv, ThreadFine
  <2>2. CASE x = w
    <3>1. OpFine(o, epoch, Len(cells))
      BY <1>1, <1>4 DEF OpFine, ThreadFine, CacheFine, CacheHit
    <3>2. CacheFine(c, epoch, Len(cells))
      BY <1>2, <1>4 DEF ThreadFine, CacheFine
    <3>3. resets.st = "idle" => InMap(c, epoch, shards) /\ (o.st = "apply" => InMap(o, epoch, shards))
      BY <1>1, <1>2, <1>4 DEF ThreadFine, InMap, CacheHit
    <3>4. op'[x] = o /\ cached'[x] = c
      BY <1>0, <2>2
    <3> QED BY <1>0, <3>1, <3>2, <3>3, <3>4 DEF ThreadFine
  <2> QED BY <2>1, <2>2
<1>6. GaugeIsActive'
  <2> SUFFICES ASSUME ~resets'.ever, NEW r \in Workers PROVE ShardValue(r)' = active'[r] + SubsUnderWay(r)'
    BY DEF GaugeIsActive
  <2>1. ShardValue(r)' = ShardValue(r) /\ ShardValue(r) = active[r] + SubsUnderWay(r) /\ active[r] \in Nat
    BY <1>0 DEF ShardValue, MetricsInv, GaugeIsActive, CellsShape
  <2>2. /\ SubsUnderWay(r) \in Nat
        /\ SubsUnderWay(r)' = SubsUnderWay(r) + Weight(Subtracts(o, r)) - Weight(Subtracts(op[w], r))
    BY <1>0, SubsOfOne
  <2>3. ~Subtracts(op[w], r) /\ (Subtracts(o, r) <=> kind = "sub" /\ r = s)
    BY <1>0, <1>1, <1>4 DEF Subtracts, ThreadFine, OpFine
  <2>4. active'[r] = IF kind = "sub" /\ r = s THEN active[r] - 1 ELSE active[r]
    BY <1>0 DEF MetricsInv, CellsShape
  <2> QED BY <2>1, <2>2, <2>3, <2>4 DEF Weight
<1> QED BY <1>3, <1>5, <1>6 DEF MetricsInv

LEMMA MetricsLookUp ==
  ASSUME MetricsInv, NEW w \in Workers, LookUp(w)
  PROVE  MetricsInv'
<1>0. /\ op[w].st = "lookup" /\ UNCHANGED <<epoch, resets, cached, active>>
      /\ ThreadFine(w) /\ epoch \in Nat /\ Len(cells) \in Nat
  BY DEF LookUp, MetricsInv, CellsShape
<1>1. PICK s \in Workers : op[w].shard = {s}
  BY <1>0 DEF ThreadFine, OpFine
<1>2. CASE /\ shards[s] # 0
           /\ op' = [op EXCEPT ![w].st = "apply", ![w].cell = shards[s]]
           /\ UNCHANGED <<shards, cells>>
  <2> DEFINE o == [op[w] EXCEPT !.st = "apply", !.cell = shards[s]]
  <2>1. op' = [x \in Workers |-> IF x = w THEN o ELSE op[x]]
    BY <1>2 DEF MetricsInv, CellsShape
  <2>2. /\ DOMAIN o = DOMAIN NoOp /\ o.st = "apply" /\ o.cell = shards[s] /\ o.kind = op[w].kind
        /\ o.shard = {s} /\ o.epoch = op[w].epoch
    BY <1>0, <1>1 DEF ThreadFine, OpFine, NoOp
  <2> HIDE DEF o
  <2>3. OpFine(o, epoch, Len(cells)) /\ InMap(o, epoch, shards)
    BY <1>0, <1>1, <1>2, <2>2 DEF ThreadFine, OpFine, InMap, MetricsInv, CellsShape
  <2>4. ASSUME NEW x \in Workers PROVE ThreadFine(x)'
    <3>1. CASE x = w
      <4>1. op'[x] = o /\ cached'[x] = cached[w]
        BY <1>0, <2>1, <3>1
      <4> QED BY <1>0, <1>2, <2>3, <4>1 DEF ThreadFine
    <3>2. CASE x # w
      BY <1>0, <1>2, <2>1, <3>2 DEF ThreadFine, MetricsInv
    <3> QED BY <3>1, <3>2
  <2>5. CellsShape'
    BY <1>0, <1>2, <2>1 DEF MetricsInv, CellsShape
  <2>6. \A r : Subtracts(o, r) <=> Subtracts(op[w], r)
    BY <1>1, <2>2 DEF Subtracts
  <2>7. ASSUME NEW r \in Workers PROVE SubsUnderWay(r)' = SubsUnderWay(r)
    <3>1. /\ SubsUnderWay(r) \in Nat
          /\ SubsUnderWay(r)' = SubsUnderWay(r) + Weight(Subtracts(o, r)) - Weight(Subtracts(op[w], r))
      BY <2>1, SubsOfOne
    <3> QED BY <2>6, <3>1 DEF Weight
  <2>8. GaugeIsActive'
    BY <1>0, <1>2, <2>7 DEF MetricsInv, GaugeIsActive, ShardValue
  <2> QED BY <2>4, <2>5, <2>8 DEF MetricsInv
<1>3. CASE /\ shards[s] = 0 /\ op[w].kind = "add"
           /\ cells' = Append(cells, 0)
           /\ shards' = [shards EXCEPT ![s] = Len(cells) + 1]
           /\ op' = [op EXCEPT ![w].st = "apply", ![w].cell = Len(cells) + 1]
  <2> DEFINE n == Len(cells) + 1
             o == [op[w] EXCEPT !.st = "apply", !.cell = n]
  <2>1. op' = [x \in Workers |-> IF x = w THEN o ELSE op[x]]
    BY <1>3 DEF MetricsInv, CellsShape
  <2>2. /\ DOMAIN o = DOMAIN NoOp /\ o.st = "apply" /\ o.cell = n /\ o.kind = op[w].kind
        /\ o.shard = {s} /\ o.epoch = op[w].epoch
    BY <1>0, <1>1 DEF ThreadFine, OpFine, NoOp
  <2> HIDE DEF o
  <2>3. /\ Len(cells') = n /\ cells' \in Seq(Nat) /\ n \in Nat
        /\ cells'[n] = 0 /\ \A i \in 1 .. Len(cells) : cells'[i] = cells[i]
    BY <1>3 DEF MetricsInv, CellsShape
  <2>4. \A r \in Workers : shards'[r] = IF r = s THEN n ELSE shards[r]
    BY <1>3 DEF MetricsInv, CellsShape
  <2>5. CellsShape'
    <3>1. shards' \in [Workers -> 0 .. Len(cells')]
      BY <1>3, <2>3, <2>4 DEF MetricsInv, CellsShape
    <3>2. \A q, r \in Workers : shards'[q] = shards'[r] /\ shards'[q] # 0 => q = r
      <4>1. \A q \in Workers : shards[q] # n
        BY DEF MetricsInv, CellsShape
      <4> QED BY <2>4, <4>1 DEF MetricsInv, CellsShape
    <3> QED BY <1>0, <2>1, <2>3, <3>1, <3>2 DEF MetricsInv, CellsShape
  <2>6. ASSUME NEW x \in Workers PROVE ThreadFine(x)'
    <3>0. ThreadFine(x)
      BY DEF MetricsInv
    <3>1. CacheFine(cached'[x], epoch', Len(cells'))
      BY <1>0, <2>3, <3>0 DEF ThreadFine, CacheFine
    <3>2. ASSUME resets.st = "idle" PROVE InMap(cached[x], epoch, shards')
      <4>1. InMap(cached[x], epoch, shards)
        BY <3>0, <3>2 DEF ThreadFine
      <4>2. cached[x].cell # 0 /\ cached[x].epoch = epoch => s \notin cached[x].shard
        BY <1>3, <4>1 DEF InMap
      <4>3. \A r \in cached[x].shard : r \in Workers
        BY <3>0 DEF ThreadFine, CacheFine
      <4> QED BY <2>4, <4>1, <4>2, <4>3 DEF InMap
    <3>3. CASE x = w
      <4>1. op'[x] = o
        BY <2>1, <3>3
      <4>2. OpFine(o, epoch, n) /\ InMap(o, epoch, shards')
        BY <1>0, <1>1, <2>2, <2>3, <2>4 DEF ThreadFine, OpFine, InMap
      <4> QED BY <1>0, <2>3, <3>1, <3>2, <4>1, <4>2 DEF ThreadFine
    <3>4. CASE x # w
      <4>1. op'[x] = op[x]
        BY <2>1, <3>4
      <4>2. OpFine(op[x], epoch, n)
        BY <1>0, <2>3, <3>0 DEF ThreadFine, OpFine
      <4>3. ASSUME resets.st = "idle", op[x].st = "apply" PROVE InMap(op[x], epoch, shards')
        <5>1. InMap(op[x], epoch, shards) /\ op[x].cell # 0
          BY <3>0, <4>3 DEF ThreadFine, OpFine
        <5>2. \A r \in op[x].shard : r \in Workers
          BY <3>0, <4>3 DEF ThreadFine, OpFine
        <5> QED BY <1>3, <2>4, <5>1, <5>2 DEF InMap
      <4> QED BY <1>0, <2>3, <3>1, <3>2, <4>1, <4>2, <4>3 DEF ThreadFine
    <3> QED BY <3>3, <3>4
  <2>7. \A r : Subtracts(o, r) <=> Subtracts(op[w], r)
    BY <1>1, <2>2 DEF Subtracts
  <2>8. ASSUME NEW r \in Workers PROVE SubsUnderWay(r)' = SubsUnderWay(r)
    <3>1. /\ SubsUnderWay(r) \in Nat
          /\ SubsUnderWay(r)' = SubsUnderWay(r) + Weight(Subtracts(o, r)) - Weight(Subtracts(op[w], r))
      BY <2>1, SubsOfOne
    <3> QED BY <2>7, <3>1 DEF Weight
  <2>9. ASSUME NEW r \in Workers PROVE ShardValue(r)' = ShardValue(r)
    BY <1>3, <2>3, <2>4 DEF ShardValue, MetricsInv, CellsShape
  <2>10. GaugeIsActive'
    BY <1>0, <2>8, <2>9 DEF MetricsInv, GaugeIsActive
  <2> QED BY <2>5, <2>6, <2>10 DEF MetricsInv
<1>4. CASE shards[s] = 0 /\ op[w].kind = "sub" /\ op' = [op EXCEPT ![w] = NoOp] /\ UNCHANGED <<shards, cells>>
  <2>1. op' = [x \in Workers |-> IF x = w THEN NoOp ELSE op[x]]
    BY <1>4 DEF MetricsInv, CellsShape
  <2>2. OpFine(NoOp, epoch, Len(cells)) /\ NoOp.st = "idle" /\ \A r : ~Subtracts(NoOp, r)
    BY <1>0 DEF OpFine, NoOp, Subtracts
  <2>3. CellsShape'
    BY <1>0, <1>4, <2>1 DEF MetricsInv, CellsShape
  <2>4. ASSUME NEW x \in Workers PROVE ThreadFine(x)'
    <3>1. CASE x = w
      <4>1. op'[x] = NoOp /\ cached'[x] = cached[w]
        BY <1>0, <2>1, <3>1
      <4> HIDE DEF NoOp
      <4> QED BY <1>0, <1>4, <2>2, <4>1 DEF ThreadFine
    <3>2. CASE x # w
      BY <1>0, <1>4, <2>1, <3>2 DEF ThreadFine, MetricsInv
    <3> QED BY <3>1, <3>2
  <2>5. ASSUME ~resets.ever, NEW r \in Workers PROVE ShardValue(r)' = active'[r] + SubsUnderWay(r)'
    <3>1. ShardValue(r) = active[r] + SubsUnderWay(r) /\ ShardValue(r)' = ShardValue(r) /\ active[r] \in Nat
      BY <1>0, <1>4, <2>5 DEF MetricsInv, GaugeIsActive, ShardValue, CellsShape
    <3>2. SubsUnderWay(r) \in Nat /\ SubsUnderWay(r)' = SubsUnderWay(r) + Weight(Subtracts(NoOp, r)) - Weight(Subtracts(op[w], r))
      BY <2>1, SubsOfOne
    <3>3. Subtracts(op[w], r) <=> r = s
      BY <1>1, <1>4 DEF Subtracts
    <3>4. CASE r # s
      BY <1>0, <2>2, <3>1, <3>2, <3>3, <3>4 DEF Weight
    <3>5. CASE r = s
      <4>1. ShardValue(s) = 0 /\ active[s] = 0 /\ SubsUnderWay(s) = 0
        BY <1>4, <3>1, <3>2, <3>5 DEF ShardValue
      <4>2. SubsUnderWay(s)' = -1
        BY <2>2, <3>2, <3>3, <3>5, <4>1 DEF Weight
      <4>3. SubsUnderWay(s)' \in Nat
        <5>1. IsFiniteSet({x \in Workers : op'[x].kind = "sub" /\ s \in op'[x].shard})
          BY MetricsAssumption, FS_Subset
        <5> QED BY <5>1, FS_CardinalityType DEF SubsUnderWay
      <4> QED BY <4>2, <4>3
    <3> QED BY <3>4, <3>5
  <2>6. GaugeIsActive'
    BY <1>0, <2>5 DEF GaugeIsActive
  <2> QED BY <2>3, <2>4, <2>6 DEF MetricsInv
<1> QED BY <1>0, <1>1, <1>2, <1>3, <1>4 DEF LookUp

LEMMA MetricsApply ==
  ASSUME MetricsInv, NEW w \in Workers, Apply(w)
  PROVE  MetricsInv'
<1> DEFINE d == op[w]
           n == Len(cells)
           f(c) == IF c = d.cell /\ c \in Range(shards) THEN Applied(d.kind, cells[c]) ELSE cells[c]
           q == [epoch |-> d.epoch, shard |-> d.shard, cell |-> d.cell]
<1>0. /\ d.st = "apply" /\ UNCHANGED <<shards, epoch, resets>>
      /\ cells' = [c \in DOMAIN cells |-> f(c)]
      /\ ThreadFine(w) /\ epoch \in Nat /\ n \in Nat /\ DOMAIN cells = 1 .. n
      /\ op' = [x \in Workers |-> IF x = w THEN NoOp ELSE op[x]]
      /\ cached' = cached \/ cached' = [x \in Workers |-> IF x = w THEN q ELSE cached[x]]
      /\ active' = IF d.kind = "sub" THEN active
                   ELSE [r \in Workers |-> active[r] + IF r \in d.shard THEN 1 ELSE 0]
  <2>1. /\ d.st = "apply" /\ UNCHANGED <<shards, epoch, resets>>
        /\ cells' = [c \in DOMAIN cells |-> f(c)]
        /\ op' = [op EXCEPT ![w] = NoOp]
        /\ cached' = cached \/ cached' = [cached EXCEPT ![w] = q]
        /\ active' = IF d.kind = "sub" THEN active
                     ELSE [r \in Workers |-> active[r] + IF r \in d.shard THEN 1 ELSE 0]
    BY DEF Apply
  <2> HIDE DEF f, q, d, NoOp
  <2>2. op' = [x \in Workers |-> IF x = w THEN NoOp ELSE op[x]]
    BY <2>1 DEF MetricsInv, CellsShape
  <2>3. cached' = cached \/ cached' = [x \in Workers |-> IF x = w THEN q ELSE cached[x]]
    BY <2>1 DEF MetricsInv, CellsShape
  <2>4. ThreadFine(w) /\ epoch \in Nat /\ n \in Nat /\ DOMAIN cells = 1 .. n
    BY DEF MetricsInv, CellsShape
  <2> QED BY <2>1, <2>2, <2>3, <2>4
<1>1. PICK s \in Workers : d.shard = {s}
  BY <1>0 DEF ThreadFine, OpFine
<1>2. /\ d.kind \in {"add", "sub"} /\ d.cell \in 1 .. n /\ d.epoch \in 0 .. epoch
      /\ resets.st = "idle" => InMap(d, epoch, shards)
  BY <1>0 DEF ThreadFine, OpFine
<1>3. q.epoch = d.epoch /\ q.shard = {s} /\ q.cell = d.cell
  BY <1>1
<1> HIDE DEF q
<1>4. \A c \in 1 .. n : f(c) \in Nat
  <2>1. \A c \in 1 .. n : cells[c] \in Nat
    BY <1>0 DEF MetricsInv, CellsShape
  <2>2. \A v \in Nat : Applied(d.kind, v) \in Nat
    BY DEF Applied
  <2> QED BY <2>1, <2>2
<1>5. cells' \in Seq(Nat) /\ Len(cells') = n /\ \A c \in 1 .. n : cells'[c] = f(c)
  <2> HIDE DEF f
  <2>1. cells' \in [1 .. n -> Nat] /\ \A c \in 1 .. n : cells'[c] = f(c)
    BY <1>0, <1>4
  <2>2. cells' \in Seq(Nat)
    BY <1>0, <2>1, SeqDef
  <2> QED BY <1>0, <2>1, <2>2
<1> HIDE DEF f
<1>6. \A r \in Workers : active[r] \in Nat /\ active'[r] = active[r] + Weight(d.kind = "add" /\ r = s)
  BY <1>0, <1>1, <1>2 DEF MetricsInv, CellsShape, Weight
<1>7. CellsShape'
  <2>1. active' \in [Workers -> Nat]
    BY <1>0 DEF MetricsInv, CellsShape
  <2>2. cached' = [x \in Workers |-> cached'[x]]
    BY <1>0 DEF MetricsInv, CellsShape
  <2> QED BY <1>0, <1>5, <2>1, <2>2 DEF MetricsInv, CellsShape
<1>8. OpFine(NoOp, epoch, n) /\ NoOp.st = "idle" /\ \A r : ~Subtracts(NoOp, r)
  BY <1>0 DEF OpFine, NoOp, Subtracts
<1>9. CacheFine(q, epoch, n) /\ (resets.st = "idle" => InMap(q, epoch, shards))
  BY <1>0, <1>1, <1>2, <1>3 DEF CacheFine, InMap
<1>10. ASSUME NEW x \in Workers PROVE ThreadFine(x)'
  <2>0. ThreadFine(x)
    BY DEF MetricsInv
  <2>1. cached'[x] = cached[x] \/ cached'[x] = q
    BY <1>0
  <2>2. CacheFine(cached'[x], epoch, n) /\ (resets.st = "idle" => InMap(cached'[x], epoch, shards))
    BY <1>9, <2>0, <2>1 DEF ThreadFine
  <2>3. op'[x] = NoOp \/ op'[x] = op[x]
    BY <1>0
  <2> HIDE DEF NoOp
  <2> QED BY <1>0, <1>5, <1>8, <2>0, <2>2, <2>3 DEF ThreadFine
<1>11. ASSUME ~resets.ever, NEW r \in Workers PROVE ShardValue(r)' = active'[r] + SubsUnderWay(r)'
  <2>1. ShardValue(r) = active[r] + SubsUnderWay(r)
    BY <1>11 DEF MetricsInv, GaugeIsActive
  <2>2. /\ SubsUnderWay(r) \in Nat
        /\ SubsUnderWay(r)' = SubsUnderWay(r) + Weight(Subtracts(NoOp, r)) - Weight(Subtracts(d, r))
    BY <1>0, SubsOfOne
  <2>3. Subtracts(d, r) <=> d.kind = "sub" /\ r = s
    BY <1>1 DEF Subtracts
  <2>4. d.cell = shards[s] /\ shards[s] \in 1 .. n /\ shards[s] \in Range(shards)
    <3>1. resets.st = "idle" /\ epoch = 0
      BY <1>11 DEF MetricsInv, CellsShape
    <3>2. d.cell = shards[s]
      BY <1>1, <1>2, <3>1 DEF InMap
    <3> QED BY <1>2, <3>2 DEF MetricsInv, CellsShape, Range
  <2>5. shards \in [Workers -> 0 .. n] /\ shards' = shards
    BY <1>0 DEF MetricsInv, CellsShape
  <2>6. CASE r # s
    <3>1. shards[r] # 0 => shards[r] # d.cell
      BY <2>4, <2>6 DEF MetricsInv, CellsShape
    <3>2. ShardValue(r)' = ShardValue(r)
      BY <1>5, <2>5, <3>1 DEF ShardValue, f
    <3> QED BY <1>6, <1>8, <2>1, <2>2, <2>3, <2>6, <3>2 DEF Weight
  <2>7. CASE r = s
    <3>1. ShardValue(s)' = Applied(d.kind, ShardValue(s))
      BY <1>5, <2>4, <2>5 DEF ShardValue, f
    <3>2. SubsUnderWay(r)' \in Nat
      <4>1. IsFiniteSet({x \in Workers : op'[x].kind = "sub" /\ r \in op'[x].shard})
        BY MetricsAssumption, FS_Subset
      <4> QED BY <4>1, FS_CardinalityType DEF SubsUnderWay
    <3>3. CASE d.kind = "add"
      <4>1. ShardValue(s)' = ShardValue(s) + 1
        BY <3>1, <3>3 DEF Applied
      <4> QED BY <1>6, <1>8, <2>1, <2>2, <2>3, <2>7, <3>3, <4>1 DEF Weight
    <3>4. CASE d.kind = "sub"
      <4>1. SubsUnderWay(r)' = SubsUnderWay(r) - 1 /\ active'[r] = active[r]
        BY <1>6, <1>8, <2>2, <2>3, <2>7, <3>4 DEF Weight
      <4>2. ShardValue(s) # 0
        BY <1>6, <2>1, <2>2, <2>7, <3>2, <4>1
      <4>3. ShardValue(s)' = ShardValue(s) - 1
        BY <3>1, <3>4, <4>2 DEF Applied
      <4> QED BY <1>6, <2>1, <2>2, <2>7, <4>1, <4>3
    <3> QED BY <1>2, <3>3, <3>4
  <2> QED BY <2>6, <2>7
<1>12. GaugeIsActive'
  BY <1>0, <1>11 DEF GaugeIsActive
<1> QED BY <1>7, <1>10, <1>12 DEF MetricsInv

(* While a reset has emptied cells and not moved the epoch, only the       *)
(* shapes are claimed.                                                     *)
LEMMA MetricsReset ==
  ASSUME MetricsInv, Clear \/ \E s \in Workers : RemoveShard(s)
  PROVE  MetricsInv'
<1>0. /\ resets' = [st |-> "bump", ever |-> TRUE] /\ UNCHANGED <<epoch, cached, op, active>>
      /\ Len(cells) \in Nat /\ DOMAIN cells = 1 .. Len(cells)
  BY DEF Clear, RemoveShard, MetricsInv, CellsShape
<1>1. cells' \in Seq(Nat) /\ Len(cells') = Len(cells)
  <2>1. cells' \in [1 .. Len(cells) -> Nat]
    <3>0. cells \in [1 .. Len(cells) -> Nat]
      BY <1>0 DEF MetricsInv, CellsShape
    <3>1. CASE Clear
      BY <1>0, <3>1 DEF Clear
    <3>2. CASE \E s \in Workers : RemoveShard(s)
      <4>1. PICK k : cells' = [cells EXCEPT ![k] = 0]
        BY <3>2 DEF RemoveShard
      <4> QED BY <3>0, <4>1
    <3> QED BY <3>1, <3>2
  <2>2. cells' \in Seq(Nat)
    BY <1>0, <2>1, SeqDef
  <2> QED BY <1>0, <2>1, <2>2
<1>2. /\ shards' \in [Workers -> 0 .. Len(cells)]
      /\ \A r \in Workers : shards'[r] = 0 \/ shards'[r] = shards[r]
  <2>0. shards \in [Workers -> 0 .. Len(cells)] /\ 0 \in 0 .. Len(cells)
    BY <1>0 DEF MetricsInv, CellsShape
  <2>1. CASE Clear
    BY <2>0, <2>1 DEF Clear
  <2>2. CASE \E s \in Workers : RemoveShard(s)
    <3>1. PICK s \in Workers : shards' = [shards EXCEPT ![s] = 0]
      BY <2>2 DEF RemoveShard
    <3> QED BY <2>0, <3>1
  <2> QED BY <2>1, <2>2
<1>3. CellsShape'
  BY <1>0, <1>1, <1>2 DEF MetricsInv, CellsShape
<1>4. \A x \in Workers : ThreadFine(x)'
  BY <1>0, <1>1 DEF MetricsInv, ThreadFine
<1>5. GaugeIsActive'
  BY <1>0 DEF GaugeIsActive
<1> QED BY <1>3, <1>4, <1>5 DEF MetricsInv

(* No pointer was found under the epoch that only begins now.              *)
LEMMA MetricsBump ==
  ASSUME MetricsInv, Bump
  PROVE  MetricsInv'
<1>0. /\ resets.st = "bump" /\ epoch' = epoch + 1 /\ UNCHANGED <<shards, cells, cached, op, active>>
      /\ resets' = [resets EXCEPT !.st = "idle"] /\ epoch \in Nat /\ DOMAIN resets = {"st", "ever"}
      /\ resets.ever
  BY DEF Bump, NextEpoch, MetricsInv, CellsShape
<1>1. resets'.ever /\ DOMAIN resets' = {"st", "ever"}
  BY <1>0
<1>2. CellsShape'
  BY <1>0, <1>1 DEF MetricsInv, CellsShape
<1>3. ASSUME NEW x \in Workers PROVE ThreadFine(x)'
  <2>1. ThreadFine(x)
    BY DEF MetricsInv
  <2>2. cached[x].epoch \in 0 .. epoch /\ op[x].epoch \in 0 .. epoch
    BY <2>1 DEF ThreadFine, OpFine, CacheFine
  <2>3. InMap(cached[x], epoch', shards) /\ InMap(op[x], epoch', shards)
    BY <1>0, <2>2 DEF InMap
  <2>4. OpFine(op[x], epoch', Len(cells)) /\ CacheFine(cached[x], epoch', Len(cells))
    BY <1>0, <2>1, <2>2 DEF ThreadFine, OpFine, CacheFine
  <2> QED BY <1>0, <2>3, <2>4 DEF ThreadFine
<1>4. GaugeIsActive'
  BY <1>1 DEF GaugeIsActive
<1> QED BY <1>2, <1>3, <1>4 DEF MetricsInv

LEMMA MetricsElse ==
  ASSUME MetricsInv, UNCHANGED <<shards, cells, epoch, resets, cached, op, active>>
  PROVE  MetricsInv'
<1>1. CellsShape' /\ \A x \in Workers : ThreadFine(x)'
  BY DEF MetricsInv, CellsShape, ThreadFine
<1>2. GaugeIsActive'
  BY DEF MetricsInv, GaugeIsActive, ShardValue, SubsUnderWay
<1> QED BY <1>1, <1>2 DEF MetricsInv

LEMMA MetricsStep == MetricsInv /\ [MetricsNext]_metricsVars => MetricsInv'
<1> SUFFICES ASSUME MetricsInv, [MetricsNext]_metricsVars PROVE MetricsInv'
  OBVIOUS
<1>1. CASE \E w, s \in Workers, kind \in {"add", "sub"} : Begin(w, kind, s)
  BY <1>1, MetricsBegin
<1>2. CASE \E w \in Workers : LookUp(w)
  BY <1>2, MetricsLookUp
<1>3. CASE \E w \in Workers : Apply(w)
  BY <1>3, MetricsApply
<1>4. CASE Clear \/ \E s \in Workers : RemoveShard(s)
  BY <1>4, MetricsReset
<1>5. CASE Bump
  BY <1>5, MetricsBump
<1>6. CASE (\E v \in 0 .. MaxValue : Record(v)) \/ UNCHANGED metricsVars
  <2>1. UNCHANGED <<shards, cells, epoch, resets, cached, op, active>>
    BY <1>6 DEF Record, metricsVars
  <2> QED BY <2>1, MetricsElse
<1> QED BY <1>1, <1>2, <1>3, <1>4, <1>5, <1>6 DEF MetricsNext

LEMMA MetricsHold == MetricsInv => GaugeIsActive /\ CachedIsInMap
<1> SUFFICES ASSUME MetricsInv PROVE CachedIsInMap
  BY DEF MetricsInv
<1> QED BY DEF MetricsInv, ThreadFine, InMap, CachedIsInMap

(* sharded.rs: until the first reset every gauge is the number of          *)
(* transactions counted and not yet discounted, whatever threads count for *)
(* whatever shards; and between resets a pointer a thread's cache still    *)
(* takes for valid is the cell in the map, although the map is emptied     *)
(* before the epoch moves.                                                 *)
THEOREM GaugesAccounted == MetricsSpec => [](GaugeIsActive /\ CachedIsInMap)
BY MetricsInitInv, MetricsStep, MetricsHold, PTL DEF MetricsSpec

-----------------------------------------------------------------------------
(* The histogram.                                                          *)

(* The observations that fell into bucket j of b, and into those up to j.  *)
InBucket(b, seen, j) == {k \in DOMAIN seen : PartitionPoint(b, seen[k]) = j}
UpToBucket(b, seen, j) == {k \in DOMAIN seen : PartitionPoint(b, seen[k]) <= j}

HistogramInv ==
    /\ DOMAIN histogram = {"buckets", "counts", "count", "sum", "seen"}
    /\ histogram.buckets \in Seq(Nat) /\ histogram.seen \in Seq(Nat)
    /\ \A i, j \in DOMAIN histogram.buckets : i < j => histogram.buckets[i] <= histogram.buckets[j]
    /\ histogram.counts \in [1 .. Len(histogram.buckets) -> Nat]
    /\ \A j \in DOMAIN histogram.buckets :
         histogram.counts[j] = Cardinality(InBucket(histogram.buckets, histogram.seen, j))

LEMMA PartitionPointNat ==
  ASSUME NEW b \in Seq(Nat), NEW v \in Nat
  PROVE  PartitionPoint(b, v) \in Nat /\ PartitionPoint(b, v) >= 1
<1>1. IsFiniteSet(DOMAIN b)
  BY FS_Interval
<1>2. IsFiniteSet({i \in DOMAIN b : b[i] < v})
  BY <1>1, FS_Subset
<1>3. Cardinality({i \in DOMAIN b : b[i] < v}) \in Nat
  BY <1>2, FS_CardinalityType
<1> QED BY <1>3 DEF PartitionPoint

(* The buckets are sorted, so the value is in one up to the i-th exactly   *)
(* when it is at most the i-th bound.                                      *)
LEMMA PartitionPointIsRank ==
  ASSUME NEW b \in Seq(Nat), \A i, j \in DOMAIN b : i < j => b[i] <= b[j],
         NEW v \in Nat, NEW i \in DOMAIN b
  PROVE  PartitionPoint(b, v) <= i <=> v <= b[i]
<1> DEFINE S == {j \in DOMAIN b : b[j] < v}
<1>1. DOMAIN b = 1 .. Len(b) /\ Len(b) \in Nat /\ i \in Nat /\ \A j \in DOMAIN b : b[j] \in Nat
  OBVIOUS
<1>2. IsFiniteSet(S) /\ Cardinality(S) \in Nat
  <2>1. IsFiniteSet(DOMAIN b)
    BY <1>1, FS_Interval
  <2>2. IsFiniteSet(S)
    BY <2>1, FS_Subset
  <2> QED BY <2>2, FS_CardinalityType
<1>3. PartitionPoint(b, v) = Cardinality(S) + 1
  BY DEF PartitionPoint
<1>4. CASE v <= b[i]
  <2>1. S \subseteq 1 .. i - 1
    <3> SUFFICES ASSUME NEW j \in S PROVE j < i
      BY <1>1
    <3> QED BY <1>1, <1>4
  <2>2. IsFiniteSet(1 .. i - 1) /\ Cardinality(1 .. i - 1) = i - 1
    <3>1. i - 1 \in Int /\ 1 \in Int /\ i >= 1
      BY <1>1
    <3>2. /\ IsFiniteSet(1 .. i - 1)
          /\ Cardinality(1 .. i - 1) = IF 1 > i - 1 THEN 0 ELSE (i - 1) - 1 + 1
      BY <3>1, FS_Interval
    <3> QED BY <3>1, <3>2
  <2>3. Cardinality(S) <= i - 1
    <3> HIDE DEF S
    <3>1. Cardinality(S) <= Cardinality(1 .. i - 1)
      BY <2>1, <2>2, FS_Subset
    <3> QED BY <2>2, <3>1
  <2> HIDE DEF S
  <2> QED BY <1>1, <1>2, <1>3, <1>4, <2>3
<1>5. CASE ~(v <= b[i])
  <2>1. 1 .. i \subseteq S
    <3> SUFFICES ASSUME NEW j \in 1 .. i PROVE j \in DOMAIN b /\ b[j] < v
      OBVIOUS
    <3>1. j \in DOMAIN b /\ (j < i \/ j = i)
      BY <1>1
    <3> QED BY <1>1, <1>5, <3>1
  <2>2. Cardinality(1 .. i) = i
    BY <1>1, FS_Interval
  <2>3. Cardinality(1 .. i) <= Cardinality(S)
    <3> HIDE DEF S
    <3> QED BY <1>2, <2>1, FS_Subset
  <2> HIDE DEF S
  <2> QED BY <1>1, <1>2, <1>3, <1>5, <2>2, <2>3
<1> QED BY <1>4, <1>5

(* A running sum.                                                          *)
LEMMA RunningSum ==
  ASSUME NEW h, NEW n \in Nat, h.counts \in [1 .. n -> Nat]
  PROVE  /\ CumulativeCounts(h)[0] = 0
         /\ \A i \in 1 .. n : CumulativeCounts(h)[i] = CumulativeCounts(h)[i - 1] + h.counts[i]
<1> DEFINE c == h.counts
           F == [i \in 1 .. n |-> [x \in Nat |-> x + c[i]]]
           Def(g) == g = [i \in 0 .. Len(h.counts) |-> IF i = 0 THEN 0 ELSE g[i - 1] + h.counts[i]]
<1>0. Len(h.counts) = n
  <2>1. h.counts \in Seq(Nat)
    BY SeqDef
  <2> QED BY <2>1
<1>1. F \in [1 .. n -> [Nat -> Nat]]
  OBVIOUS
<1>2. PICK g : Follows(g, Nat, 0, n, F)
  <2> HIDE DEF F
  <2> QED BY <1>1, RecursionUpTo
<1>3. Def(g)
  <2>1. ASSUME NEW i \in 0 .. n PROVE g[i] = IF i = 0 THEN 0 ELSE g[i - 1] + h.counts[i]
    <3>1. CASE i = 0
      BY <1>2, <3>1 DEF Follows
    <3>2. CASE i # 0
      <4>1. i \in 1 .. n /\ i - 1 \in 0 .. n
        BY <3>2
      <4>2. g[i - 1] \in Nat /\ g[i] = F[i][g[i - 1]]
        BY <1>2, <4>1 DEF Follows
      <4>3. F[i] = [x \in Nat |-> x + c[i]]
        BY <4>1
      <4> QED BY <3>2, <4>2, <4>3
    <3> QED BY <3>1, <3>2
  <2> QED BY <1>0, <1>2, <2>1 DEF Follows
<1>4. CumulativeCounts(h) = CHOOSE f : Def(f)
  BY DEF CumulativeCounts
<1>5. Def(CumulativeCounts(h))
  <2> HIDE DEF Def
  <2> QED BY <1>3, <1>4
<1> DEFINE a == CumulativeCounts(h)
<1>6. a = [i \in 0 .. n |-> IF i = 0 THEN 0 ELSE a[i - 1] + h.counts[i]]
  BY <1>0, <1>5
<1> HIDE DEF a
<1>7. a[0] = 0 /\ \A i \in 1 .. n : a[i] = a[i - 1] + h.counts[i]
  BY <1>6
<1> QED BY <1>7 DEF a

LEMMA CountsAreRanks ==
  ASSUME HistogramInv
  PROVE  CumulativeIsRank
<1> DEFINE b == histogram.buckets
           c == histogram.counts
           seen == histogram.seen
           n == Len(b)
           a == CumulativeCounts(histogram)
           P == {i \in Nat : i <= n => a[i] = Cardinality(UpToBucket(b, seen, i))}
<1>1. /\ b \in Seq(Nat) /\ seen \in Seq(Nat) /\ c \in [1 .. n -> Nat] /\ n \in Nat
      /\ DOMAIN b = 1 .. n /\ DOMAIN seen = 1 .. Len(seen) /\ Len(seen) \in Nat
      /\ \A k \in DOMAIN seen : seen[k] \in Nat
      /\ \A j \in 1 .. n : c[j] = Cardinality(InBucket(b, seen, j))
      /\ \A i, j \in DOMAIN b : i < j => b[i] <= b[j]
  BY DEF HistogramInv
<1>2. a[0] = 0 /\ \A i \in 1 .. n : a[i] = a[i - 1] + c[i]
  BY <1>1, RunningSum
<1>3. \A k \in DOMAIN seen : PartitionPoint(b, seen[k]) \in Nat /\ PartitionPoint(b, seen[k]) >= 1
  BY <1>1, PartitionPointNat
<1>4. IsFiniteSet(DOMAIN seen)
  BY <1>1, FS_Interval
<1> HIDE DEF a, b, c, seen, n
<1>5. 0 \in P
  <2>1. UpToBucket(b, seen, 0) = {}
    BY <1>3 DEF UpToBucket
  <2>2. a[0] = Cardinality(UpToBucket(b, seen, 0))
    BY <1>2, <2>1, FS_EmptySet
  <2> QED BY <2>2
<1>6. ASSUME NEW i \in Nat, i \in P PROVE i + 1 \in P
  <2> SUFFICES ASSUME i + 1 <= n PROVE a[i + 1] = Cardinality(UpToBucket(b, seen, i + 1))
    OBVIOUS
  <2> DEFINE A == UpToBucket(b, seen, i)
             B == InBucket(b, seen, i + 1)
  <2>1. i + 1 \in 1 .. n /\ (i + 1) - 1 = i /\ i <= n
    BY <1>1
  <2>2. a[i + 1] = a[i] + c[i + 1] /\ a[i] = Cardinality(A) /\ c[i + 1] = Cardinality(B)
    BY <1>1, <1>2, <1>6, <2>1
  <2>3. UpToBucket(b, seen, i + 1) = A \cup B /\ A \cap B = {}
    <3>1. ASSUME NEW k \in DOMAIN seen
          PROVE  /\ PartitionPoint(b, seen[k]) <= i + 1 <=> PartitionPoint(b, seen[k]) <= i \/ PartitionPoint(b, seen[k]) = i + 1
                 /\ ~(PartitionPoint(b, seen[k]) <= i /\ PartitionPoint(b, seen[k]) = i + 1)
      BY <1>3
    <3> QED BY <3>1 DEF UpToBucket, InBucket
  <2>4. IsFiniteSet(A) /\ IsFiniteSet(B)
    BY <1>4, FS_Subset DEF UpToBucket, InBucket
  <2> HIDE DEF A, B
  <2>5. Cardinality(A \cup B) = Cardinality(A) + Cardinality(B)
    <3>1. Cardinality(A \cup B) = Cardinality(A) + Cardinality(B) - Cardinality(A \cap B)
      BY <2>4, FS_Union
    <3>2. Cardinality(A \cap B) = 0
      BY <2>3, FS_EmptySet
    <3>3. Cardinality(A) \in Nat /\ Cardinality(B) \in Nat
      BY <2>4, FS_CardinalityType
    <3> QED BY <3>1, <3>2, <3>3
  <2> QED BY <2>2, <2>3, <2>5
<1>7. \A i \in Nat : i \in P
  <2> HIDE DEF P
  <2> QED BY <1>5, <1>6, NatSetInduction
<1>8. ASSUME NEW i \in 1 .. n
      PROVE  a[i] = Cardinality({k \in DOMAIN seen : seen[k] <= b[i]})
  <2>1. i \in Nat /\ i <= n /\ i \in DOMAIN b
    BY <1>1
  <2>2. a[i] = Cardinality(UpToBucket(b, seen, i))
    BY <1>7, <2>1
  <2>3. \A k \in DOMAIN seen : PartitionPoint(b, seen[k]) <= i <=> seen[k] <= b[i]
    BY <1>1, <2>1, PartitionPointIsRank
  <2>4. UpToBucket(b, seen, i) = {k \in DOMAIN seen : seen[k] <= b[i]}
    BY <2>3 DEF UpToBucket
  <2> QED BY <2>2, <2>4
<1>9. DOMAIN c = 1 .. n
  BY <1>1
<1> QED BY <1>8, <1>9 DEF CumulativeIsRank, a, b, c, seen

LEMMA HistogramStarts ==
  ASSUME NEW s \in Seq(Nat), \A i, j \in DOMAIN s : i < j => s[i] <= s[j], histogram = NewHistogram(s)
  PROVE  HistogramInv
<1>1. /\ histogram.buckets = s /\ histogram.seen = <<>> /\ histogram.counts = [i \in DOMAIN s |-> 0]
      /\ DOMAIN histogram = {"buckets", "counts", "count", "sum", "seen"}
  BY DEF NewHistogram
<1>2. DOMAIN s = 1 .. Len(s)
  OBVIOUS
<1>3. ASSUME NEW j \in DOMAIN s PROVE Cardinality(InBucket(s, <<>>, j)) = 0
  <2>1. InBucket(s, <<>>, j) = {}
    BY DEF InBucket
  <2> QED BY <2>1, FS_EmptySet
<1> QED BY <1>1, <1>2, <1>3 DEF HistogramInv

LEMMA Observed ==
  ASSUME NEW seen \in Seq(Nat), NEW b \in Seq(Nat), NEW v \in Nat, NEW j \in DOMAIN b
  PROVE  Cardinality(InBucket(b, Append(seen, v), j))
         = Cardinality(InBucket(b, seen, j)) + IF j = PartitionPoint(b, v) THEN 1 ELSE 0
<1> DEFINE m == Len(seen)
           s == Append(seen, v)
           A == InBucket(b, seen, j)
<1>1. /\ m \in Nat /\ DOMAIN seen = 1 .. m /\ DOMAIN s = 1 .. m + 1 /\ s[m + 1] = v
      /\ \A k \in 1 .. m : s[k] = seen[k]
  OBVIOUS
<1>2. IsFiniteSet(A) /\ m + 1 \notin A
  <2>1. IsFiniteSet(DOMAIN seen)
    <3>1. 1 \in Int /\ m \in Int
      BY <1>1
    <3>2. IsFiniteSet(1 .. m)
      BY <3>1, FS_Interval
    <3> QED BY <1>1, <3>2
  <2> QED BY <1>1, <2>1, FS_Subset DEF InBucket
<1>3. \A k \in DOMAIN s : k \in DOMAIN seen \/ k = m + 1
  BY <1>1
<1>4. CASE j = PartitionPoint(b, v)
  <2>1. InBucket(b, s, j) = A \cup {m + 1}
    <3> HIDE DEF s
    <3> QED BY <1>1, <1>3, <1>4 DEF InBucket
  <2>2. Cardinality(A \cup {m + 1}) = Cardinality(A) + 1
    <3> HIDE DEF A, m
    <3> QED BY <1>2, FS_AddElement
  <2> QED BY <1>4, <2>1, <2>2
<1>5. CASE j # PartitionPoint(b, v)
  <2>1. InBucket(b, s, j) = A
    <3> HIDE DEF s
    <3> QED BY <1>1, <1>3, <1>5 DEF InBucket
  <2>2. Cardinality(A) \in Nat
    BY <1>2, FS_CardinalityType
  <2> QED BY <1>5, <2>1, <2>2
<1> QED BY <1>4, <1>5

LEMMA HistogramStep == HistogramInv /\ [MetricsNext]_metricsVars => HistogramInv'
<1> SUFFICES ASSUME HistogramInv, [MetricsNext]_metricsVars PROVE HistogramInv'
  OBVIOUS
<1>1. CASE UNCHANGED histogram
  BY <1>1 DEF HistogramInv
<1>2. CASE Clear
  <2>1. histogram' = NewHistogram(histogram.buckets)
    BY <1>2 DEF Clear
  <2>2. histogram.buckets \in Seq(Nat)
        /\ \A i, j \in DOMAIN histogram.buckets : i < j => histogram.buckets[i] <= histogram.buckets[j]
    BY DEF HistogramInv
  <2> DEFINE s == histogram.buckets
  <2>3. /\ histogram'.buckets = s /\ histogram'.seen = <<>> /\ histogram'.counts = [i \in DOMAIN s |-> 0]
        /\ DOMAIN histogram' = {"buckets", "counts", "count", "sum", "seen"}
    BY <2>1 DEF NewHistogram
  <2>4. DOMAIN s = 1 .. Len(s)
    BY <2>2
  <2>5. ASSUME NEW j \in DOMAIN s PROVE Cardinality(InBucket(s, <<>>, j)) = 0
    <3>1. InBucket(s, <<>>, j) = {}
      BY DEF InBucket
    <3> QED BY <3>1, FS_EmptySet
  <2> QED BY <2>2, <2>3, <2>4, <2>5 DEF HistogramInv
<1>3. ASSUME NEW v \in 0 .. MaxValue, Record(v) PROVE HistogramInv'
  <2> DEFINE b == histogram.buckets
             seen == histogram.seen
             i == PartitionPoint(b, v)
  <2>0. v \in Nat
    BY MetricsAssumption
  <2>1. histogram' = [histogram EXCEPT
            !.sum = histogram.sum + v, !.count = histogram.count + 1, !.seen = Append(histogram.seen, v),
            !.counts = [j \in DOMAIN histogram.counts |-> histogram.counts[j] + IF j = i THEN 1 ELSE 0]]
    BY <1>3 DEF Record
  <2>2. /\ histogram'.buckets = b /\ histogram'.seen = Append(seen, v)
        /\ histogram'.counts = [j \in DOMAIN histogram.counts |-> histogram.counts[j] + IF j = i THEN 1 ELSE 0]
        /\ DOMAIN histogram' = {"buckets", "counts", "count", "sum", "seen"}
    BY <2>1 DEF HistogramInv
  <2>3. /\ b \in Seq(Nat) /\ seen \in Seq(Nat) /\ DOMAIN b = 1 .. Len(b)
        /\ histogram.counts \in [1 .. Len(b) -> Nat]
        /\ \A j \in DOMAIN b : histogram.counts[j] = Cardinality(InBucket(b, seen, j))
        /\ \A k, j \in DOMAIN b : k < j => b[k] <= b[j]
    BY DEF HistogramInv
  <2>4. ASSUME NEW j \in DOMAIN b
        PROVE  histogram'.counts[j] = Cardinality(InBucket(b, Append(seen, v), j))
    BY <2>0, <2>2, <2>3, Observed
  <2>5. histogram'.counts \in [1 .. Len(b) -> Nat]
    BY <2>2, <2>3
  <2>6. Append(seen, v) \in Seq(Nat)
    BY <2>0, <2>3
  <2> HIDE DEF b, seen, i
  <2> QED BY <2>2, <2>3, <2>4, <2>5, <2>6 DEF HistogramInv
<1>4. QED
  <2>1. (\E v \in 0 .. MaxValue : Record(v)) \/ Clear \/ UNCHANGED histogram
    BY DEF MetricsNext, metricsVars, Begin, LookUp, Apply, RemoveShard, Bump
  <2> QED BY <1>1, <1>2, <1>3, <2>1

LEMMA HistogramInit == MetricsInit => HistogramInv
<1> SUFFICES ASSUME MetricsInit PROVE HistogramInv
  OBVIOUS
<1>0. PICK b \in Bounds : \E s \in Sortings(b) : histogram = NewHistogram(s)
  BY DEF MetricsInit
<1>1. PICK s \in Sortings(b) : histogram = NewHistogram(s)
  BY <1>0
<1>2. b \in Seq(Nat)
  BY MetricsAssumption
<1>3. DOMAIN b = 1 .. Len(b) /\ Len(b) \in Nat /\ \A v \in Range(b) : v \in Nat
  BY <1>2 DEF Range
<1>4. s \in [1 .. Len(b) -> Nat] /\ \A i, j \in DOMAIN b : i < j => s[i] <= s[j]
  BY <1>3 DEF Sortings
<1>5. s \in Seq(Nat) /\ DOMAIN s = DOMAIN b
  BY <1>3, <1>4, SeqDef
<1> QED BY <1>1, <1>4, <1>5, HistogramStarts

(* sharded.rs: the cumulative count of a bucket is the number of           *)
(* observations up to its bound, for every choice of bounds, sorted or not *)
(* and with repetitions, and every sequence of observations and resets.    *)
THEOREM RanksCounted == MetricsSpec => []CumulativeIsRank
BY HistogramInit, HistogramStep, CountsAreRanks, PTL DEF MetricsSpec

-----------------------------------------------------------------------------
(* AccessLog.                                                              *)

IsSeq(s) == \E S : s \in Seq(S)

IsLine(m) == m.what = "line"

(* The lines of a thread in a channel or a batch are in order ...          *)
Increasing(s) ==
    \A j, k \in 1 .. Len(s) :
        j < k /\ IsLine(s[j]) /\ IsLine(s[k]) /\ s[j].thread = s[k].thread => s[j].n < s[k].n

Precedes(a, b) ==
    \A j \in 1 .. Len(a), k \in 1 .. Len(b) :
        IsLine(a[j]) /\ IsLine(b[k]) /\ a[j].thread = b[k].thread => a[j].n < b[k].n

(* ... were logged, and have come to the logger of their thread.           *)
Owned(s, i, c) ==
    \A j \in 1 .. Len(s) : IsLine(s[j]) =>
        s[j].thread \in LogThreads /\ s[j].n \in 1 .. c[s[j].thread] /\ SenderOf(s[j].thread, s[j].n) = i

(* What is written was logged before what is still to be written.          *)
WrittenBefore(z, s) ==
    \A j \in 1 .. Len(z), k \in 1 .. Len(s) :
        IsLine(s[k]) /\ s[k].thread = z[j][1] => z[j][2] < s[k].n

SinkOrdered(z) == \A j, k \in 1 .. Len(z) : j < k /\ z[j][1] = z[k][1] => z[j][2] < z[k][2]

SinkOwned(z, c) == \A j \in 1 .. Len(z) : z[j][1] \in LogThreads /\ z[j][2] \in 1 .. c[z[j][1]]

LoggerFine(i) ==
    /\ IsSeq(lineQueue[i]) /\ IsSeq(batch[i])
    /\ Increasing(lineQueue[i]) /\ Increasing(batch[i]) /\ Precedes(batch[i], lineQueue[i])
    /\ Owned(lineQueue[i], i, count) /\ Owned(batch[i], i, count)

SinkFine(f) ==
    /\ IsSeq(sinks[f]) /\ SinkOrdered(sinks[f]) /\ SinkOwned(sinks[f], count)
    /\ \A i \in Loggers : WrittenBefore(sinks[f], batch[i]) /\ WrittenBefore(sinks[f], lineQueue[i])

LogShape ==
    /\ count \in [LogThreads -> Nat]
    /\ lineQueue = [i \in Loggers |-> lineQueue[i]] /\ batch = [i \in Loggers |-> batch[i]]
    /\ sinks = [f \in {Stdout} \cup Loggers |-> sinks[f]]

LinesInv ==
    LogShape /\ (\A i \in Loggers : LoggerFine(i)) /\ (\A f \in {Stdout} \cup Loggers : SinkFine(f))

LEMMA LinesInitInv == AccessLogInit => LinesInv
<1> SUFFICES ASSUME AccessLogInit PROVE LinesInv
  OBVIOUS
<1>1. LogShape
  BY DEF AccessLogInit, LogShape
<1>2. IsSeq(<<>>) /\ Len(<<>>) = 0
  BY DEF IsSeq
<1>3. \A i \in Loggers : lineQueue[i] = <<>> /\ batch[i] = <<>>
  BY DEF AccessLogInit
<1>4. \A f \in {Stdout} \cup Loggers : sinks[f] = <<>>
  BY DEF AccessLogInit
<1>5. \A i \in Loggers : LoggerFine(i)
  BY <1>2, <1>3 DEF LoggerFine, Increasing, Precedes, Owned
<1>6. \A f \in {Stdout} \cup Loggers : SinkFine(f)
  BY <1>2, <1>3, <1>4 DEF SinkFine, SinkOrdered, SinkOwned, WrittenBefore
<1> QED BY <1>1, <1>5, <1>6 DEF LinesInv

(* Sequences of whatever elements.                                         *)
LEMMA AppendFacts ==
  ASSUME NEW s, IsSeq(s), NEW e
  PROVE  /\ IsSeq(Append(s, e)) /\ Len(s) \in Nat /\ Len(Append(s, e)) = Len(s) + 1
         /\ Append(s, e)[Len(s) + 1] = e /\ \A k \in 1 .. Len(s) : Append(s, e)[k] = s[k]
<1>1. PICK S : s \in Seq(S)
  BY DEF IsSeq
<1>2. s \in Seq(S \cup {e}) /\ e \in S \cup {e}
  BY <1>1
<1>3. Append(s, e) \in Seq(S \cup {e})
  BY <1>2
<1> QED BY <1>2, <1>3 DEF IsSeq

LEMMA TailFacts ==
  ASSUME NEW s, IsSeq(s), s # <<>>
  PROVE  /\ IsSeq(Tail(s)) /\ Len(s) \in Nat \ {0} /\ Len(Tail(s)) = Len(s) - 1
         /\ Head(s) = s[1] /\ \A k \in 1 .. Len(s) - 1 : Tail(s)[k] = s[k + 1]
<1>1. PICK S : s \in Seq(S)
  BY DEF IsSeq
<1>2. Tail(s) \in Seq(S)
  BY <1>1
<1> QED BY <1>1, <1>2 DEF IsSeq

LEMMA PartFacts ==
  ASSUME NEW s, IsSeq(s), NEW a \in Nat \ {0}, NEW b \in Nat, b <= Len(s)
  PROVE  /\ IsSeq(SubSeq(s, a, b)) /\ Len(s) \in Nat
         /\ Len(SubSeq(s, a, b)) = (IF a <= b THEN b - a + 1 ELSE 0)
         /\ \A k \in 1 .. Len(SubSeq(s, a, b)) : SubSeq(s, a, b)[k] = s[k + a - 1] /\ k + a - 1 \in 1 .. b
<1>1. PICK S : s \in Seq(S)
  BY DEF IsSeq
<1>2. SubSeq(s, a, b) \in Seq(S)
  BY <1>1
<1>3. Len(s) \in Nat /\ Len(SubSeq(s, a, b)) = (IF a <= b THEN b - a + 1 ELSE 0)
  BY <1>1
<1>4. ASSUME NEW k \in 1 .. Len(SubSeq(s, a, b))
      PROVE  SubSeq(s, a, b)[k] = s[k + a - 1] /\ k + a - 1 \in 1 .. b
  <2>1. a <= b /\ k \in 1 .. b - a + 1
    BY <1>3, <1>4
  <2>2. SubSeq(s, a, b)[k] = s[a + k - 1]
    BY <1>1, <2>1
  <2> QED BY <2>1, <2>2
<1> QED BY <1>2, <1>3, <1>4 DEF IsSeq

(* A message that is no line, or the line a thread logs now, takes its     *)
(* place behind those before it.                                           *)
LEMMA Queueing ==
  ASSUME LinesInv, NEW i, NEW m, NEW c \in [LogThreads -> Nat],
         \A t \in LogThreads : count[t] <= c[t],
         IsLine(m) => /\ m.thread \in LogThreads /\ m.n = count[m.thread] + 1 /\ c[m.thread] = m.n
                      /\ SenderOf(m.thread, m.n) = i,
         lineQueue' = [lineQueue EXCEPT ![i] = Append(@, m)], count' = c, UNCHANGED <<batch, sinks>>
  PROVE  LinesInv'
<1>1. LogShape'
  BY DEF LinesInv, LogShape
<1>2. /\ \A x \in Loggers : x # i => lineQueue'[x] = lineQueue[x]
      /\ i \in Loggers => lineQueue'[i] = Append(lineQueue[i], m)
      /\ count \in [LogThreads -> Nat]
  BY DEF LinesInv, LogShape
<1>3. ASSUME NEW s, NEW x, Owned(s, x, count) PROVE Owned(s, x, c)
  BY <1>2, <1>3 DEF Owned
<1>4. ASSUME NEW z, SinkOwned(z, count) PROVE SinkOwned(z, c)
  BY <1>2, <1>4 DEF SinkOwned
<1>5. ASSUME NEW x \in Loggers PROVE LoggerFine(x)'
  <2>0. LoggerFine(x)
    BY DEF LinesInv
  <2>1. Owned(lineQueue[x], x, c) /\ Owned(batch[x], x, c)
    BY <1>3, <2>0 DEF LoggerFine
  <2>2. CASE x # i
    BY <1>2, <2>0, <2>1, <2>2 DEF LoggerFine
  <2>3. CASE x = i
    <3> DEFINE q == lineQueue[x]
               p == lineQueue'[x]
    <3>1. p = Append(q, m)
      BY <1>2, <2>3
    <3>2. IsSeq(q)
      BY <2>0 DEF LoggerFine
    <3>3. /\ IsSeq(p) /\ Len(q) \in Nat /\ Len(p) = Len(q) + 1
          /\ p[Len(q) + 1] = m /\ \A k \in 1 .. Len(q) : p[k] = q[k]
      BY <3>1, <3>2, AppendFacts
    <3>4. Increasing(q) /\ Precedes(batch[x], q) /\ Owned(q, x, count) /\ Owned(batch[x], x, count)
      BY <2>0 DEF LoggerFine
    <3> HIDE DEF q, p
    <3>5. Owned(p, x, c)
      <4>1. Owned(q, x, c)
        BY <2>1 DEF q
      <4> QED BY <1>2, <2>3, <3>3, <4>1 DEF Owned
    <3>6. Increasing(p)
      <4> SUFFICES ASSUME NEW j \in 1 .. Len(p), NEW k \in 1 .. Len(p), j < k, IsLine(p[j]), IsLine(p[k]),
                          p[j].thread = p[k].thread
                   PROVE  p[j].n < p[k].n
        BY DEF Increasing
      <4>1. j \in 1 .. Len(q) /\ p[j] = q[j]
        BY <3>3
      <4>2. CASE k \in 1 .. Len(q)
        BY <3>3, <3>4, <4>1, <4>2 DEF Increasing
      <4>3. CASE k = Len(q) + 1
        <5>1. q[j].n \in 1 .. count[q[j].thread] /\ p[k] = m
          BY <3>3, <3>4, <4>1, <4>3 DEF Owned
        <5> QED BY <1>2, <4>1, <5>1
      <4> QED BY <3>3, <4>2, <4>3
    <3>7. Precedes(batch[x], p)
      <4> SUFFICES ASSUME NEW j \in 1 .. Len(batch[x]), NEW k \in 1 .. Len(p), IsLine(batch[x][j]), IsLine(p[k]),
                          batch[x][j].thread = p[k].thread
                   PROVE  batch[x][j].n < p[k].n
        BY DEF Precedes
      <4>2. CASE k \in 1 .. Len(q)
        BY <3>3, <3>4, <4>2 DEF Precedes
      <4>3. CASE k = Len(q) + 1
        <5>1. batch[x][j].n \in 1 .. count[batch[x][j].thread] /\ p[k] = m
          BY <3>3, <3>4, <4>3 DEF Owned
        <5> QED BY <1>2, <5>1
      <4> QED BY <3>3, <4>2, <4>3
    <3> QED BY <2>0, <2>1, <3>3, <3>5, <3>6, <3>7 DEF LoggerFine, p
  <2> QED BY <2>2, <2>3
<1>6. ASSUME NEW f \in {Stdout} \cup Loggers PROVE SinkFine(f)'
  <2>0. SinkFine(f) /\ sinks'[f] = sinks[f]
    BY DEF LinesInv
  <2>1. SinkOwned(sinks[f], c)
    BY <1>4, <2>0 DEF SinkFine
  <2>2. ASSUME NEW x \in Loggers PROVE WrittenBefore(sinks[f], lineQueue'[x])
    <3>1. CASE x # i
      BY <1>2, <2>0, <3>1 DEF SinkFine
    <3>2. CASE x = i
      <4> DEFINE q == lineQueue[x]
                 p == lineQueue'[x]
                 z == sinks[f]
      <4>1. p = Append(q, m)
        BY <1>2, <3>2
      <4>2. IsSeq(q)
        BY DEF LoggerFine, LinesInv
      <4>3. /\ Len(q) \in Nat /\ Len(p) = Len(q) + 1
            /\ p[Len(q) + 1] = m /\ \A k \in 1 .. Len(q) : p[k] = q[k]
        BY <4>1, <4>2, AppendFacts
      <4>4. WrittenBefore(z, q) /\ SinkOwned(z, count)
        BY <2>0 DEF SinkFine
      <4> HIDE DEF p, q, z
      <4> SUFFICES ASSUME NEW j \in 1 .. Len(z), NEW k \in 1 .. Len(p), IsLine(p[k]), p[k].thread = z[j][1]
                   PROVE  z[j][2] < p[k].n
        BY DEF WrittenBefore, p, z
      <4>5. CASE k \in 1 .. Len(q)
        BY <4>3, <4>4, <4>5 DEF WrittenBefore
      <4>6. CASE k = Len(q) + 1
        <5>1. z[j][2] \in 1 .. count[z[j][1]] /\ z[j][1] \in LogThreads /\ p[k] = m
          BY <4>3, <4>4, <4>6 DEF SinkOwned
        <5> QED BY <1>2, <5>1
      <4> QED BY <4>3, <4>5, <4>6
    <3> QED BY <3>1, <3>2
  <2> QED BY <2>0, <2>1, <2>2 DEF SinkFine
<1> QED BY <1>1, <1>5, <1>6 DEF LinesInv

(* The logger takes a part of its channel, and leaves the rest.            *)
LEMMA Receiving ==
  ASSUME LinesInv, NEW i \in Loggers, ReceiveBatch(i)
  PROVE  LinesInv'
<1> DEFINE q == lineQueue[i]
           n == IF Len(q) < BatchCapacity THEN Len(q) ELSE BatchCapacity
           b == SubSeq(q, 1, n)
           r == SubSeq(q, BatchCapacity + 1, Len(q))
<1>0. /\ batch' = [batch EXCEPT ![i] = b] /\ lineQueue' = [lineQueue EXCEPT ![i] = r]
      /\ UNCHANGED <<count, sinks>>
  BY DEF ReceiveBatch, Remainder
<1>1. LoggerFine(i) /\ IsSeq(q) /\ Len(q) \in Nat /\ BatchCapacity \in Nat \ {0}
  <2>1. LoggerFine(i) /\ IsSeq(q)
    BY DEF LinesInv, LoggerFine
  <2> QED BY <2>1, AppendFacts, AccessLogAssumption
<1>2. n \in Nat /\ n <= Len(q) /\ n <= BatchCapacity
  BY <1>1
<1> HIDE DEF n
<1>3. IsSeq(b) /\ \A k \in 1 .. Len(b) : b[k] = q[k] /\ k \in 1 .. n
  <2>1. IsSeq(b) /\ \A k \in 1 .. Len(b) : b[k] = q[k + 1 - 1] /\ k + 1 - 1 \in 1 .. n
    BY <1>1, <1>2, PartFacts
  <2>2. \A k \in 1 .. Len(b) : k + 1 - 1 = k
    OBVIOUS
  <2> QED BY <2>1, <2>2
<1>4. /\ IsSeq(r) /\ BatchCapacity + 1 \in Nat \ {0}
      /\ \A k \in 1 .. Len(r) : r[k] = q[k + BatchCapacity] /\ k + BatchCapacity \in 1 .. Len(q)
  <2>1. BatchCapacity + 1 \in Nat \ {0}
    BY <1>1
  <2>2. IsSeq(r) /\ \A k \in 1 .. Len(r) :
            r[k] = q[k + (BatchCapacity + 1) - 1] /\ k + (BatchCapacity + 1) - 1 \in 1 .. Len(q)
    BY <1>1, <2>1, PartFacts
  <2>3. \A k \in 1 .. Len(r) : k + (BatchCapacity + 1) - 1 = k + BatchCapacity
    BY <1>1
  <2> QED BY <2>1, <2>2, <2>3
<1>5. /\ \A x \in Loggers : x # i => lineQueue'[x] = lineQueue[x] /\ batch'[x] = batch[x]
      /\ lineQueue'[i] = r /\ batch'[i] = b
  BY <1>0 DEF LinesInv, LogShape
<1> HIDE DEF q, b, r
<1>6. LogShape'
  BY <1>0 DEF LinesInv, LogShape
<1>7. Increasing(q) /\ Owned(q, i, count)
  BY <1>1 DEF LoggerFine, q
<1>10. \A k \in 1 .. Len(b) : b[k] = q[k] /\ k \in 1 .. Len(q)
  BY <1>1, <1>2, <1>3
<1>8. ASSUME NEW x \in Loggers PROVE LoggerFine(x)'
  <2>1. CASE x # i
    BY <1>0, <1>5, <2>1 DEF LinesInv, LoggerFine
  <2>2. CASE x = i
    <3>1. Increasing(b)
      BY <1>1, <1>2, <1>3, <1>7 DEF Increasing
    <3>2. Increasing(r)
      <4> SUFFICES ASSUME NEW j \in 1 .. Len(r), NEW k \in 1 .. Len(r), j < k, IsLine(r[j]), IsLine(r[k]),
                          r[j].thread = r[k].thread
                   PROVE  r[j].n < r[k].n
        BY DEF Increasing
      <4>1. /\ r[j] = q[j + BatchCapacity] /\ j + BatchCapacity \in 1 .. Len(q)
            /\ r[k] = q[k + BatchCapacity] /\ k + BatchCapacity \in 1 .. Len(q)
            /\ j + BatchCapacity < k + BatchCapacity
        BY <1>1, <1>4
      <4> QED BY <1>7, <4>1 DEF Increasing
    <3>3. Precedes(b, r)
      <4> SUFFICES ASSUME NEW j \in 1 .. Len(b), NEW k \in 1 .. Len(r), IsLine(b[j]), IsLine(r[k]),
                          b[j].thread = r[k].thread
                   PROVE  b[j].n < r[k].n
        BY DEF Precedes
      <4>1. /\ b[j] = q[j] /\ j \in 1 .. n
            /\ r[k] = q[k + BatchCapacity] /\ k + BatchCapacity \in 1 .. Len(q)
        BY <1>3, <1>4
      <4>2. j \in 1 .. Len(q) /\ j < k + BatchCapacity
        BY <1>1, <1>2, <4>1
      <4> QED BY <1>7, <4>1, <4>2 DEF Increasing
    <3>4. Owned(b, i, count) /\ Owned(r, i, count)
      BY <1>7, <1>10, <1>4 DEF Owned
    <3> QED BY <1>0, <1>3, <1>4, <1>5, <2>2, <3>1, <3>2, <3>3, <3>4 DEF LoggerFine
  <2> QED BY <2>1, <2>2
<1>9. ASSUME NEW f \in {Stdout} \cup Loggers PROVE SinkFine(f)'
  <2>0. SinkFine(f) /\ sinks'[f] = sinks[f] /\ count' = count
    BY <1>0 DEF LinesInv
  <2>1. WrittenBefore(sinks[f], q)
    BY <2>0 DEF SinkFine, q
  <2>2. WrittenBefore(sinks[f], b) /\ WrittenBefore(sinks[f], r)
    BY <1>10, <1>4, <2>1 DEF WrittenBefore
  <2>3. \A x \in Loggers : WrittenBefore(sinks[f], batch'[x]) /\ WrittenBefore(sinks[f], lineQueue'[x])
    BY <1>5, <2>0, <2>2 DEF SinkFine
  <2> QED BY <2>0, <2>3 DEF SinkFine
<1> QED BY <1>6, <1>8, <1>9 DEF LinesInv

(* The logger writes the line at the head of its batch, to some sinks.     *)
LEMMA Writing ==
  ASSUME LinesInv, NEW i \in Loggers, HandleMessage(i)
  PROVE  LinesInv'
<1> DEFINE b == batch[i]
           m == Head(b)
           r == Tail(b)
<1>0. /\ b # <<>> /\ batch' = [batch EXCEPT ![i] = r] /\ UNCHANGED <<count, lineQueue>>
      /\ UNCHANGED sinks \/ (IsLine(m) /\ sinks' = Written(i, m))
  BY DEF HandleMessage, IsLine
<1>1. LoggerFine(i) /\ IsSeq(b)
  BY DEF LinesInv, LoggerFine
<1>2. /\ IsSeq(r) /\ Len(b) \in Nat \ {0} /\ Len(r) = Len(b) - 1
      /\ m = b[1] /\ \A k \in 1 .. Len(b) - 1 : r[k] = b[k + 1]
  BY <1>0, <1>1, TailFacts
<1>3. (\A x \in Loggers : x # i => batch'[x] = batch[x]) /\ batch'[i] = r
  BY <1>0 DEF LinesInv, LogShape
<1>4. LogShape'
  BY <1>0 DEF LinesInv, LogShape, Written
<1>5. Increasing(b) /\ Precedes(b, lineQueue[i]) /\ Owned(b, i, count)
  BY <1>1 DEF LoggerFine
<1> HIDE DEF b, m, r
<1>6. \A k \in 1 .. Len(r) : r[k] = b[k + 1] /\ k + 1 \in 1 .. Len(b) /\ k + 1 > 1
  BY <1>2
<1>7. ASSUME NEW x \in Loggers PROVE LoggerFine(x)'
  <2>1. CASE x # i
    BY <1>0, <1>3, <2>1 DEF LinesInv, LoggerFine
  <2>2. CASE x = i
    <3>1. Increasing(r)
      <4> SUFFICES ASSUME NEW j \in 1 .. Len(r), NEW k \in 1 .. Len(r), j < k, IsLine(r[j]), IsLine(r[k]),
                          r[j].thread = r[k].thread
                   PROVE  r[j].n < r[k].n
        BY DEF Increasing
      <4>1. j + 1 < k + 1
        BY <1>2
      <4> QED BY <1>5, <1>6, <4>1 DEF Increasing
    <3>2. Precedes(r, lineQueue[i]) /\ Owned(r, i, count)
      BY <1>5, <1>6 DEF Precedes, Owned
    <3> QED BY <1>0, <1>1, <1>2, <1>3, <2>2, <3>1, <3>2 DEF LoggerFine
  <2> QED BY <2>1, <2>2
<1>8. ASSUME NEW f \in {Stdout} \cup Loggers PROVE SinkFine(f)'
  <2> DEFINE z == sinks[f]
             y == sinks'[f]
  <2>0. SinkFine(f) /\ IsSeq(z)
    BY DEF LinesInv, SinkFine
  <2>1. \A x \in Loggers : WrittenBefore(z, batch'[x]) /\ WrittenBefore(z, lineQueue'[x])
    <3>1. WrittenBefore(z, b)
      BY <2>0 DEF SinkFine, b
    <3>2. WrittenBefore(z, r)
      BY <1>6, <3>1 DEF WrittenBefore
    <3> QED BY <1>0, <1>3, <2>0, <3>2 DEF SinkFine
  <2>2. CASE y = z
    BY <1>0, <2>0, <2>1, <2>2 DEF SinkFine
  <2>3. CASE y = Append(z, <<m.thread, m.n>>) /\ IsLine(m)
    <3>1. /\ IsSeq(y) /\ Len(z) \in Nat /\ Len(y) = Len(z) + 1
          /\ y[Len(z) + 1] = <<m.thread, m.n>> /\ \A k \in 1 .. Len(z) : y[k] = z[k]
      BY <2>0, <2>3, AppendFacts
    <3>2. WrittenBefore(z, b) /\ SinkOwned(z, count) /\ SinkOrdered(z)
      BY <2>0 DEF SinkFine, b
    <3>3. /\ m = b[1] /\ 1 \in 1 .. Len(b)
          /\ m.thread \in LogThreads /\ m.n \in 1 .. count[m.thread] /\ SenderOf(m.thread, m.n) = i
      BY <1>2, <1>5, <2>3 DEF Owned
    <3>4. y[Len(z) + 1][1] = m.thread /\ y[Len(z) + 1][2] = m.n
      BY <3>1
    <3> DEFINE l == Len(z) + 1
    <3>5. \A k \in 1 .. Len(y) : k \in 1 .. Len(z) \/ k = l
      BY <3>1
    <3>6. l \notin 1 .. Len(z) /\ \A k \in 1 .. Len(y) : ~(l < k)
      BY <3>1
    <3> HIDE DEF z, y, l
    <3>7. y[l][1] = m.thread /\ y[l][2] = m.n
      BY <3>4 DEF l
    <3>8. SinkOrdered(y)
      <4> SUFFICES ASSUME NEW j \in 1 .. Len(y), NEW k \in 1 .. Len(y), j < k, y[j][1] = y[k][1]
                   PROVE  y[j][2] < y[k][2]
        BY DEF SinkOrdered
      <4>1. j \in 1 .. Len(z) /\ y[j] = z[j]
        BY <3>1, <3>5, <3>6
      <4>2. CASE k \in 1 .. Len(z)
        BY <3>1, <3>2, <4>1, <4>2 DEF SinkOrdered
      <4>3. CASE k = l
        BY <2>3, <3>2, <3>3, <3>7, <4>1, <4>3 DEF WrittenBefore
      <4> QED BY <3>5, <4>2, <4>3
    <3>9. SinkOwned(y, count)
      BY <3>1, <3>2, <3>3, <3>5, <3>7 DEF SinkOwned
    <3>10. ASSUME NEW s, WrittenBefore(z, s),
                  \A k \in 1 .. Len(s) : IsLine(s[k]) /\ s[k].thread = m.thread => m.n < s[k].n
           PROVE  WrittenBefore(y, s)
      BY <3>1, <3>5, <3>7, <3>10 DEF WrittenBefore
    <3>11. ASSUME NEW x \in Loggers PROVE WrittenBefore(y, batch'[x]) /\ WrittenBefore(y, lineQueue'[x])
      <4>1. CASE x # i
        <5>1. Owned(batch[x], x, count) /\ Owned(lineQueue[x], x, count)
          BY DEF LinesInv, LoggerFine
        <5>2. \A t, j, k : SenderOf(t, j) = SenderOf(t, k)
          BY DEF SenderOf
        <5>3. /\ \A k \in 1 .. Len(batch[x]) : IsLine(batch[x][k]) => batch[x][k].thread # m.thread
              /\ \A k \in 1 .. Len(lineQueue[x]) : IsLine(lineQueue[x][k]) => lineQueue[x][k].thread # m.thread
          <6> HIDE DEF m
          <6> QED BY <3>3, <4>1, <5>1, <5>2 DEF Owned
        <5>4. batch'[x] = batch[x] /\ lineQueue'[x] = lineQueue[x]
          BY <1>0, <1>3, <4>1
        <5> QED BY <2>1, <3>10, <5>3, <5>4 DEF z
      <4>2. CASE x = i
        <5>1. batch'[x] = r /\ lineQueue'[x] = lineQueue[i]
          BY <1>0, <1>3, <4>2
        <5>2. \A k \in 1 .. Len(r) : IsLine(r[k]) /\ r[k].thread = m.thread => m.n < r[k].n
          BY <1>5, <1>6, <2>3, <3>3 DEF Increasing
        <5>3. \A k \in 1 .. Len(lineQueue[i]) :
                 IsLine(lineQueue[i][k]) /\ lineQueue[i][k].thread = m.thread => m.n < lineQueue[i][k].n
          BY <1>5, <2>3, <3>3 DEF Precedes
        <5> QED BY <2>1, <3>10, <5>1, <5>2, <5>3 DEF z
      <4> QED BY <4>1, <4>2
    <3> QED BY <1>0, <3>1, <3>8, <3>9, <3>11 DEF SinkFine, y
  <2>4. y = z \/ (y = Append(z, <<m.thread, m.n>>) /\ IsLine(m))
    BY <1>0 DEF Written, LinesInv, LogShape
  <2> QED BY <2>2, <2>3, <2>4
<1> QED BY <1>4, <1>7, <1>8 DEF LinesInv

LEMMA LinesElse ==
  ASSUME LinesInv, UNCHANGED <<count, lineQueue, batch, sinks>>
  PROVE  LinesInv'
BY DEF LinesInv, LogShape, LoggerFine, SinkFine

LEMMA LinesStep == LinesInv /\ [AccessLogNext]_accessLogVars => LinesInv'
<1> SUFFICES ASSUME LinesInv, [AccessLogNext]_accessLogVars PROVE LinesInv'
  OBVIOUS
<1>1. CASE FillLine \/ UNCHANGED accessLogVars
  <2>1. UNCHANGED <<count, lineQueue, batch, sinks>>
    BY <1>1 DEF FillLine, deliveryVars, accessLogVars
  <2> QED BY <2>1, LinesElse
<1>2. CASE (\E c \in BOOLEAN : StartLoggers(c)) \/ PushListener
           \/ (\E s \in {<<"stdout">>, <<>>} : UpdateListener(s)) \/ (\E t \in LogThreads : BeginLine(t))
  <2>1. UNCHANGED <<count, lineQueue, batch, sinks>>
    BY <1>2 DEF StartLoggers, PushListener, UpdateListener, BeginLine
  <2> QED BY <2>1, LinesElse
<1>3. ASSUME NEW k \in {"boot", "xds"}, Broadcast(k) PROVE LinesInv'
  <2> DEFINE i == spread[k][2]
             m == [what |-> "configure", conf |-> spread[k][1]]
  <2>1. /\ lineQueue' = [lineQueue EXCEPT ![i] = Append(@, m)] /\ UNCHANGED <<count, batch, sinks>>
        /\ ~IsLine(m)
    BY <1>3 DEF Broadcast, IsLine
  <2>2. count \in [LogThreads -> Nat] /\ count' = count /\ \A t \in LogThreads : count[t] <= count[t]
    BY <2>1 DEF LinesInv, LogShape
  <2> HIDE DEF i, m
  <2> QED BY <2>1, <2>2, Queueing
<1>4. ASSUME NEW t \in LogThreads, LogAccess(t) PROVE LinesInv'
  <2> DEFINE n == count[t] + 1
             i == SenderOf(t, n)
             m == [what |-> "line", thread |-> t, n |-> n, conf |-> held[t]]
             c == [count EXCEPT ![t] = n]
  <2>1. /\ count' = c /\ UNCHANGED <<batch, sinks>>
        /\ UNCHANGED lineQueue \/ lineQueue' = [lineQueue EXCEPT ![i] = Append(@, m)]
    BY <1>4 DEF LogAccess
  <2>2. count \in [LogThreads -> Nat] /\ c \in [LogThreads -> Nat] /\ \A x \in LogThreads : count[x] <= c[x]
    BY DEF LinesInv, LogShape
  <2>3. m.thread = t /\ m.n = count[t] + 1 /\ c[t] = m.n /\ SenderOf(m.thread, m.n) = i
    BY <2>2
  <2> HIDE DEF c, m, i
  <2>4. CASE UNCHANGED lineQueue
    <3>1. \A s, x : Owned(s, x, count) => Owned(s, x, c)
      BY <2>2 DEF Owned
    <3>2. \A z : SinkOwned(z, count) => SinkOwned(z, c)
      BY <2>2 DEF SinkOwned
    <3>3. LogShape' /\ (\A x \in Loggers : LoggerFine(x)')
      BY <2>1, <2>2, <2>4, <3>1 DEF LinesInv, LogShape, LoggerFine
    <3>4. \A f \in {Stdout} \cup Loggers : SinkFine(f)'
      BY <2>1, <2>4, <3>2 DEF LinesInv, SinkFine
    <3> QED BY <3>3, <3>4 DEF LinesInv
  <2>5. CASE lineQueue' = [lineQueue EXCEPT ![i] = Append(@, m)]
    <3>1. m.thread \in LogThreads /\ m.n = count[m.thread] + 1 /\ c[m.thread] = m.n
      BY <2>3
    <3> QED BY <2>1, <2>2, <2>3, <2>5, <3>1, Queueing
  <2> QED BY <2>1, <2>4, <2>5
<1>5. CASE \E i \in Loggers : ReceiveBatch(i)
  BY <1>5, Receiving
<1>6. CASE \E i \in Loggers : HandleMessage(i)
  BY <1>6, Writing
<1> QED BY <1>1, <1>2, <1>3, <1>4, <1>5, <1>6 DEF AccessLogNext, DeliverLines

LEMMA LinesOrdered == LinesInv => LinesInOrder
<1> SUFFICES ASSUME LinesInv, NEW f \in DOMAIN sinks PROVE \A j, k \in DOMAIN sinks[f] :
        j < k /\ sinks[f][j][1] = sinks[f][k][1] => sinks[f][j][2] < sinks[f][k][2]
  BY DEF LinesInOrder
<1>1. f \in {Stdout} \cup Loggers
  BY DEF LinesInv, LogShape
<1>2. SinkOrdered(sinks[f]) /\ IsSeq(sinks[f])
  BY <1>1 DEF LinesInv, SinkFine
<1>3. DOMAIN sinks[f] = 1 .. Len(sinks[f])
  BY <1>2 DEF IsSeq
<1> QED BY <1>2, <1>3 DEF SinkOrdered

(* access_log.rs: the lines of a thread are in every file and on stdout in *)
(* the order they were logged in and none twice, for every number of       *)
(* threads and loggers, every length of the channels and of a batch, and   *)
(* however many loggers write to the same stdout.                          *)
THEOREM LinesStayInOrder == AccessLogSpec => []LinesInOrder
BY LinesInitInv, LinesStep, LinesOrdered, PTL DEF AccessLogSpec

-----------------------------------------------------------------------------
(* The format strings.                                                     *)
PlainTokens == {"char", "%%"}
SomeTokens == FormatTokens \cup {"%"}
LogParts == [kind : {"literal"}, text : Seq(SomeTokens)] \cup [kind : {"operator"}, op : Operators]

(* A parser state along format, up to token i: the parts and the literal   *)
(* under way are the tokens, none of them unescaped yet.                   *)
ParserFine(st, format, i) ==
    /\ DOMAIN st = {"parts", "text", "error"}
    /\ st.parts \in Seq(LogParts) /\ st.text \in Seq(PlainTokens) /\ st.error \in BOOLEAN
    /\ ~st.error => SourceOf(st.parts) \o st.text = SubSeq(format, 1, i)

ParserStates == [parts : Seq(LogParts), text : Seq(PlainTokens), error : BOOLEAN]

LEMMA PartsHaveTokens ==
  ASSUME NEW piece \in LogParts
  PROVE  TokensOf(piece) \in Seq(SomeTokens)
<1>1. CASE piece \in [kind : {"literal"}, text : Seq(SomeTokens)]
  BY <1>1 DEF TokensOf
<1>2. CASE piece \in [kind : {"operator"}, op : Operators]
  <2>1. piece.kind = "operator" /\ piece.op \in SomeTokens
    BY <1>2 DEF SomeTokens, FormatTokens
  <2> QED BY <2>1 DEF TokensOf
<1> QED BY <1>1, <1>2 DEF LogParts

TokenSeqs(parts) == [i \in DOMAIN parts |-> TokensOf(parts[i])]

LEMMA TokenSeqsType ==
  ASSUME NEW parts \in Seq(LogParts)
  PROVE  TokenSeqs(parts) \in Seq(Seq(SomeTokens)) /\ SourceOf(parts) \in Seq(SomeTokens)
<1>1. DOMAIN parts = 1 .. Len(parts) /\ Len(parts) \in Nat /\ \A i \in DOMAIN parts : parts[i] \in LogParts
  OBVIOUS
<1>2. TokenSeqs(parts) \in [1 .. Len(parts) -> Seq(SomeTokens)]
  BY <1>1, PartsHaveTokens DEF TokenSeqs
<1>3. TokenSeqs(parts) \in Seq(Seq(SomeTokens))
  BY <1>1, <1>2, SeqDef
<1>4. SourceOf(parts) = FlattenSeq(TokenSeqs(parts))
  BY DEF SourceOf, TokenSeqs
<1> QED BY <1>3, <1>4, FlattenType

LEMMA SourceAppend ==
  ASSUME NEW parts \in Seq(LogParts), NEW piece \in LogParts
  PROVE  SourceOf(Append(parts, piece)) = SourceOf(parts) \o TokensOf(piece)
<1> DEFINE ps == Append(parts, piece)
           n == Len(parts)
<1>1. /\ n \in Nat /\ DOMAIN parts = 1 .. n /\ ps \in Seq(LogParts) /\ DOMAIN ps = 1 .. n + 1 /\ ps[n + 1] = piece
      /\ \A i \in 1 .. n : ps[i] = parts[i]
  OBVIOUS
<1> HIDE DEF ps
<1>2. TokenSeqs(parts) \in Seq(Seq(SomeTokens)) /\ TokensOf(piece) \in Seq(SomeTokens)
      /\ TokenSeqs(ps) \in Seq(Seq(SomeTokens))
  BY <1>1, TokenSeqsType, PartsHaveTokens
<1>3. TokenSeqs(ps) = Append(TokenSeqs(parts), TokensOf(piece))
  <2> DEFINE A == TokenSeqs(ps)
             B == Append(TokenSeqs(parts), TokensOf(piece))
  <2>1. DOMAIN TokenSeqs(parts) = 1 .. n /\ \A i \in 1 .. n : TokenSeqs(parts)[i] = TokensOf(parts[i])
    BY <1>1 DEF TokenSeqs
  <2>2. Len(TokenSeqs(parts)) = n
    BY <1>1, <1>2, <2>1
  <2>3. /\ B \in Seq(Seq(SomeTokens)) /\ Len(B) = n + 1 /\ B[n + 1] = TokensOf(piece)
        /\ \A i \in 1 .. n : B[i] = TokenSeqs(parts)[i]
    BY <1>2, <2>2, AppendProperties
  <2>4. DOMAIN A = 1 .. n + 1 /\ \A i \in 1 .. n + 1 : A[i] = TokensOf(ps[i])
    BY <1>1 DEF TokenSeqs
  <2>5. Len(A) = n + 1
    BY <1>1, <1>2, <2>4
  <2> HIDE DEF A, B
  <2>6. \A i \in 1 .. n + 1 : i \in 1 .. n \/ i = n + 1
    BY <1>1
  <2>7. \A i \in 1 .. Len(A) : A[i] = B[i]
    BY <1>1, <2>1, <2>3, <2>4, <2>5, <2>6
  <2>8. A \in Seq(Seq(SomeTokens))
    BY <1>2 DEF A
  <2>9. A = B
    BY <2>3, <2>5, <2>7, <2>8, SeqEqual
  <2> QED BY <2>9 DEF A, B
<1>4. SourceOf(ps) = FlattenSeq(TokenSeqs(ps)) /\ SourceOf(parts) = FlattenSeq(TokenSeqs(parts))
  BY DEF SourceOf, TokenSeqs
<1> QED BY <1>2, <1>3, <1>4, FlattenAppend DEF ps

LEMMA SourceThenLiteral ==
  ASSUME NEW parts \in Seq(LogParts), NEW text \in Seq(SomeTokens)
  PROVE  /\ ThenLiteral(parts, text) \in Seq(LogParts)
         /\ SourceOf(ThenLiteral(parts, text)) = SourceOf(parts) \o text
<1>1. CASE text = <<>>
  <2>1. SourceOf(parts) \in Seq(SomeTokens)
    BY TokenSeqsType
  <2> QED BY <1>1, <2>1, ConcatEmptySeq DEF ThenLiteral
<1>2. CASE text # <<>>
  <2>1. LiteralOf(text) \in LogParts /\ TokensOf(LiteralOf(text)) = text
    BY DEF LogParts, LiteralOf, TokensOf
  <2>2. ThenLiteral(parts, text) = Append(parts, LiteralOf(text))
    BY <1>2 DEF ThenLiteral
  <2> QED BY <2>1, <2>2, SourceAppend
<1> QED BY <1>1, <1>2

LEMMA ParseTokenType ==
  ASSUME NEW st \in ParserStates, NEW token \in FormatTokens
  PROVE  ParseToken(st, token) \in ParserStates
<1>1. st.text \in Seq(SomeTokens)
  <2>1. PlainTokens \subseteq SomeTokens
    BY DEF PlainTokens, SomeTokens, FormatTokens
  <2> QED BY <2>1, SeqMonotonic DEF ParserStates
<1>2. CASE token \in Operators
  <2>1. ThenLiteral(st.parts, st.text) \in Seq(LogParts)
    BY <1>1, SourceThenLiteral DEF ParserStates
  <2>2. OperatorOf(token) \in LogParts
    BY <1>2 DEF OperatorOf, LogParts
  <2>3. Append(ThenLiteral(st.parts, st.text), OperatorOf(token)) \in Seq(LogParts)
    BY <2>1, <2>2
  <2>4. token \notin Broken
    BY <1>2 DEF Operators, Broken
  <2>5. ParseToken(st, token) = [st EXCEPT !.parts = Append(ThenLiteral(st.parts, st.text), OperatorOf(token)), !.text = <<>>]
    BY <1>2, <2>4 DEF ParseToken, TakeOperator
  <2>6. <<>> \in Seq(PlainTokens) /\ st.error \in BOOLEAN
    BY DEF ParserStates
  <2>7. ParseToken(st, token) = [parts |-> Append(ThenLiteral(st.parts, st.text), OperatorOf(token)), text |-> <<>>, error |-> st.error]
    BY <2>5 DEF ParserStates
  <2> QED BY <2>3, <2>6, <2>7 DEF ParserStates
<1>3. CASE token \notin Operators /\ token \in Broken
  <2>1. ParseToken(st, token) = [st EXCEPT !.error = TRUE]
    BY <1>3 DEF ParseToken
  <2> QED BY <2>1 DEF ParserStates
<1>4. CASE token \notin Operators /\ token \notin Broken
  <2>1. ParseToken(st, token) = [st EXCEPT !.text = Append(st.text, token)]
    BY <1>4 DEF ParseToken
  <2>2. token \in PlainTokens
    BY <1>4 DEF FormatTokens, PlainTokens
  <2>3. ParseToken(st, token) = [parts |-> st.parts, text |-> Append(st.text, token), error |-> st.error]
    BY <2>1 DEF ParserStates
  <2>4. Append(st.text, token) \in Seq(PlainTokens) /\ st.parts \in Seq(LogParts) /\ st.error \in BOOLEAN
    BY <2>2 DEF ParserStates
  <2> QED BY <2>3, <2>4 DEF ParserStates
<1> QED BY <1>2, <1>3, <1>4

LEMMA ParsingDef ==
  ASSUME NEW f \in Seq(FormatTokens)
  PROVE  /\ \A i \in 0 .. Len(f) : Parsing(f)[i] \in ParserStates
         /\ Parsing(f)[0] = [parts |-> <<>>, text |-> <<>>, error |-> FALSE]
         /\ \A i \in 1 .. Len(f) : Parsing(f)[i] = ParseToken(Parsing(f)[i - 1], f[i])
<1> DEFINE n == Len(f)
           base == [parts |-> <<>>, text |-> <<>>, error |-> FALSE]
           F == [i \in 1 .. n |-> [st \in ParserStates |-> ParseToken(st, f[i])]]
           Def(g) == g = [i \in 0 .. n |-> IF i = 0 THEN base ELSE ParseToken(g[i - 1], f[i])]
<1>1. n \in Nat /\ base \in ParserStates /\ \A i \in 1 .. n : f[i] \in FormatTokens
  BY DEF ParserStates
<1>2. F \in [1 .. n -> [ParserStates -> ParserStates]]
  BY <1>1, ParseTokenType
<1>3. PICK g : Follows(g, ParserStates, base, n, F)
  <2> HIDE DEF F, n, base
  <2> QED BY <1>1, <1>2, RecursionUpTo
<1>4. ASSUME NEW i \in 1 .. n PROVE g[i - 1] \in ParserStates /\ g[i] = ParseToken(g[i - 1], f[i])
  <2>1. i \in 1 .. n /\ i - 1 \in 0 .. n
    BY <1>1
  <2>2. g[i - 1] \in ParserStates /\ g[i] = F[i][g[i - 1]]
    BY <1>3, <2>1 DEF Follows
  <2>3. F[i] = [st \in ParserStates |-> ParseToken(st, f[i])]
    BY <2>1
  <2> QED BY <2>2, <2>3
<1>5. g = [i \in 0 .. n |-> g[i]] /\ g[0] = base /\ \A i \in 0 .. n : g[i] \in ParserStates
  BY <1>3 DEF Follows
<1>6. Def(g)
  <2>1. \A i \in 0 .. n : i # 0 => i \in 1 .. n
    BY <1>1
  <2> HIDE DEF base, F, n
  <2> QED BY <1>4, <1>5, <2>1
<1>7. Parsing(f) = CHOOSE x : Def(x)
  BY DEF Parsing
<1> DEFINE a == Parsing(f)
<1>8. Def(a)
  <2> HIDE DEF Def
  <2> QED BY <1>6, <1>7
<1>9. a = [i \in 0 .. n |-> IF i = 0 THEN base ELSE ParseToken(a[i - 1], f[i])]
  BY <1>8
<1> HIDE DEF a, base
<1>10. a[0] = base /\ \A i \in 1 .. n : a[i] = ParseToken(a[i - 1], f[i])
  BY <1>1, <1>9
<1> DEFINE P == {i \in Nat : i <= n => a[i] \in ParserStates}
<1>11. 0 \in P
  BY <1>1, <1>10
<1>12. ASSUME NEW i \in Nat, i \in P PROVE i + 1 \in P
  <2> SUFFICES ASSUME i + 1 <= n PROVE a[i + 1] \in ParserStates
    OBVIOUS
  <2>1. a[i] \in ParserStates /\ i + 1 \in 1 .. n /\ (i + 1) - 1 = i
    BY <1>1, <1>12
  <2>2. a[i + 1] = ParseToken(a[i], f[i + 1])
    BY <1>10, <2>1
  <2> QED BY <1>1, <2>1, <2>2, ParseTokenType
<1>13. \A i \in Nat : i \in P
  <2> HIDE DEF P
  <2> QED BY <1>11, <1>12, NatSetInduction
<1>14. \A i \in 0 .. n : a[i] \in ParserStates
  BY <1>1, <1>13
<1> QED BY <1>10, <1>14 DEF a, base

(* The parser has kept the tokens up to i.                                 *)
Kept(st, f, i) == st.error \/ SourceOf(st.parts) \o st.text = SubSeq(f, 1, i)

LEMMA ParseTokenKeeps ==
  ASSUME NEW f \in Seq(FormatTokens), NEW i \in Nat, i + 1 <= Len(f), NEW st \in ParserStates, Kept(st, f, i)
  PROVE  Kept(ParseToken(st, f[i + 1]), f, i + 1)
<1> DEFINE t == f[i + 1]
           p == SourceOf(st.parts)
           s == SubSeq(f, 1, i)
<1>1. t \in FormatTokens /\ t \in SomeTokens /\ st.parts \in Seq(LogParts)
  BY DEF SomeTokens, ParserStates
<1>2. st.text \in Seq(SomeTokens)
  <2>1. PlainTokens \subseteq SomeTokens
    BY DEF PlainTokens, SomeTokens, FormatTokens
  <2> QED BY <2>1, SeqMonotonic DEF ParserStates
<1>3. p \in Seq(SomeTokens)
  BY <1>1, TokenSeqsType
<1>4. SubSeq(f, 1, i + 1) = s \o <<t>>
  <2>1. i + 1 \in 1 .. Len(f) /\ 1 \in 1 .. Len(f) /\ (i + 1) - 1 = i
    OBVIOUS
  <2>2. SubSeq(f, 1, i + 1) = SubSeq(f, 1, (i + 1) - 1) \o <<f[i + 1]>>
    BY <2>1, SubSeqRecursiveSecond
  <2> QED BY <2>1, <2>2
<1>5. <<t>> \in Seq(SomeTokens)
  BY <1>1
<1>6. CASE t \in Operators
  <2> DEFINE q == ThenLiteral(st.parts, st.text)
  <2>1. q \in Seq(LogParts) /\ SourceOf(q) = p \o st.text
    BY <1>1, <1>2, SourceThenLiteral
  <2>2. OperatorOf(t) \in LogParts /\ TokensOf(OperatorOf(t)) = <<t>>
    BY <1>6 DEF OperatorOf, LogParts, TokensOf
  <2>3. SourceOf(Append(q, OperatorOf(t))) = (p \o st.text) \o <<t>>
    BY <2>1, <2>2, SourceAppend
  <2>8. t \notin Broken
    BY <1>6 DEF Operators, Broken
  <2>4. ParseToken(st, t) = [st EXCEPT !.parts = Append(q, OperatorOf(t)), !.text = <<>>]
    BY <1>6, <2>8 DEF ParseToken, TakeOperator
  <2>5. /\ ParseToken(st, t).parts = Append(q, OperatorOf(t)) /\ ParseToken(st, t).text = <<>>
        /\ ParseToken(st, t).error = st.error
    BY <2>4 DEF ParserStates
  <2>6. (p \o st.text) \o <<t>> \in Seq(SomeTokens)
    BY <1>2, <1>3, <1>5, ConcatProperties
  <2>7. ((p \o st.text) \o <<t>>) \o <<>> = (p \o st.text) \o <<t>>
    BY <2>6, ConcatEmptySeq
  <2> HIDE DEF q, p, s, t
  <2> QED BY <1>4, <2>3, <2>5, <2>7 DEF Kept, p, s, t
<1>7. CASE t \notin Operators /\ t \in Broken
  <2>1. ParseToken(st, t) = [st EXCEPT !.error = TRUE]
    BY <1>7 DEF ParseToken
  <2> QED BY <2>1 DEF ParserStates, Kept
<1>8. CASE t \notin Operators /\ t \notin Broken
  <2>1. ParseToken(st, t) = [st EXCEPT !.text = Append(st.text, t)]
    BY <1>8 DEF ParseToken
  <2>2. ParseToken(st, t).text = Append(st.text, t) /\ ParseToken(st, t).parts = st.parts /\ ParseToken(st, t).error = st.error
    BY <2>1 DEF ParserStates
  <2>3. Append(st.text, t) = st.text \o <<t>>
    BY <1>1, <1>2, AppendIsConcat
  <2>4. (p \o st.text) \o <<t>> = p \o (st.text \o <<t>>)
    <3> DEFINE u == <<t>>
               x == st.text
    <3>1. u \in Seq(SomeTokens) /\ x \in Seq(SomeTokens)
      BY <1>2, <1>5
    <3> HIDE DEF p, u, x
    <3>2. (p \o x) \o u = p \o (x \o u)
      BY <1>3, <3>1, ConcatAssociative
    <3> QED BY <3>2 DEF u, x
  <2> HIDE DEF p, s, t
  <2> QED BY <1>4, <2>2, <2>3, <2>4 DEF Kept, p, s, t
<1> QED BY <1>6, <1>7, <1>8

LEMMA ParsingKeeps ==
  ASSUME NEW f \in Seq(FormatTokens)
  PROVE  /\ Parsing(f)[Len(f)] \in ParserStates
         /\ ~Parsing(f)[Len(f)].error => SourceOf(Parsing(f)[Len(f)].parts) \o Parsing(f)[Len(f)].text = f
<1> DEFINE a == Parsing(f)
           n == Len(f)
           P == {i \in Nat : i <= n => Kept(a[i], f, i)}
<1>1. n \in Nat /\ n \in 0 .. n
  OBVIOUS
<1>2. /\ \A i \in 0 .. n : a[i] \in ParserStates
      /\ a[0] = [parts |-> <<>>, text |-> <<>>, error |-> FALSE]
      /\ \A i \in 1 .. n : a[i] = ParseToken(a[i - 1], f[i])
  BY ParsingDef
<1> HIDE DEF a
<1>3. 0 \in P
  <2>1. a[0].parts = <<>> /\ a[0].text = <<>>
    BY <1>2
  <2>2. SourceOf(<<>>) = <<>>
    <3>1. [i \in DOMAIN <<>> |-> TokensOf(<<>>[i])] = <<>>
      OBVIOUS
    <3> QED BY <3>1, FlattenEmpty DEF SourceOf
  <2>3. SubSeq(f, 1, 0) = <<>>
    BY SubSeqEmpty
  <2>4. <<>> \o <<>> = <<>>
    OBVIOUS
  <2> QED BY <2>1, <2>2, <2>3, <2>4 DEF Kept
<1>4. ASSUME NEW i \in Nat, i \in P PROVE i + 1 \in P
  <2> SUFFICES ASSUME i + 1 <= n PROVE Kept(a[i + 1], f, i + 1)
    OBVIOUS
  <2>1. Kept(a[i], f, i) /\ i \in 0 .. n /\ i + 1 \in 1 .. n /\ (i + 1) - 1 = i
    BY <1>1, <1>4
  <2>2. a[i] \in ParserStates /\ a[i + 1] = ParseToken(a[i], f[i + 1])
    BY <1>2, <2>1
  <2> QED BY <2>1, <2>2, ParseTokenKeeps
<1>5. n \in P
  <2> HIDE DEF P
  <2> QED BY <1>1, <1>3, <1>4, NatSetInduction
<1>6. Kept(a[n], f, n)
  BY <1>1, <1>5
<1>7. SubSeq(f, 1, n) = f
  BY SubSeqFull
<1> QED BY <1>1, <1>2, <1>6, <1>7 DEF Kept, a

FormatOf(parts) == [i \in DOMAIN SourceOf(parts) |-> Escape(SourceOf(parts)[i])]

LEMMA ParseKeeps ==
  ASSUME NEW f \in Seq(FormatTokens), ~Parse(f).error
  PROVE  Parse(f).parts \in Seq(LogParts) /\ FormatOf(Parse(f).parts) = f
<1> DEFINE st == Parsing(f)[Len(f)]
           last == [i \in DOMAIN st.text |-> Unescape(st.text[i])]
           p == SourceOf(st.parts)
<1>1. st \in ParserStates /\ (~st.error => p \o st.text = f)
  BY ParsingKeeps
<1>2. ~st.error /\ Parse(f).parts = ThenLiteral(st.parts, last)
  BY DEF Parse
<1> HIDE DEF st
<1>3. st.parts \in Seq(LogParts) /\ st.text \in Seq(PlainTokens)
  BY <1>1 DEF ParserStates
<1>4. DOMAIN st.text = 1 .. Len(st.text) /\ Len(st.text) \in Nat /\ \A i \in 1 .. Len(st.text) : st.text[i] \in PlainTokens
  BY <1>3
<1>5. \A x \in PlainTokens : Unescape(x) \in SomeTokens /\ Escape(Unescape(x)) = x
  BY DEF PlainTokens, Unescape, Escape, SomeTokens, FormatTokens
<1>6. last \in [1 .. Len(st.text) -> SomeTokens]
  BY <1>4, <1>5
<1>7. last \in Seq(SomeTokens) /\ Len(last) = Len(st.text)
  <2>1. last \in Seq(SomeTokens)
    BY <1>4, <1>6, SeqDef
  <2>2. DOMAIN last = 1 .. Len(st.text)
    BY <1>4
  <2> HIDE DEF last
  <2> QED BY <1>4, <2>1, <2>2
<1>8. Parse(f).parts \in Seq(LogParts) /\ SourceOf(Parse(f).parts) = p \o last
  BY <1>2, <1>3, <1>7, SourceThenLiteral
<1>9. p \in Seq(SomeTokens) /\ st.text \in Seq(SomeTokens)
  <2>1. PlainTokens \subseteq SomeTokens
    BY DEF PlainTokens, SomeTokens, FormatTokens
  <2> QED BY <1>3, <2>1, TokenSeqsType, SeqMonotonic
<1>10. p \o st.text = f
  BY <1>1, <1>2
<1> DEFINE m == Len(p)
           k == Len(st.text)
           w == p \o last
<1>11. m \in Nat /\ k \in Nat /\ Len(f) = m + k /\ w \in Seq(SomeTokens) /\ Len(w) = m + k
  <2>1. Len(p \o st.text) = Len(p) + Len(st.text) /\ Len(w) = Len(p) + Len(last) /\ w \in Seq(SomeTokens)
    BY <1>7, <1>9, ConcatProperties
  <2>2. m \in Nat
    BY <1>9
  <2> HIDE DEF w, last, p
  <2> QED BY <1>4, <1>7, <1>10, <2>1, <2>2
<1>12. \A i \in 1 .. m + k : /\ f[i] = IF i <= m THEN p[i] ELSE st.text[i - m]
                             /\ w[i] = IF i <= m THEN p[i] ELSE last[i - m]
  <2>1. \A i \in 1 .. Len(p) + Len(st.text) : (p \o st.text)[i] = IF i <= Len(p) THEN p[i] ELSE st.text[i - Len(p)]
    BY <1>9, ConcatProperties
  <2>2. \A i \in 1 .. Len(p) + Len(last) : w[i] = IF i <= Len(p) THEN p[i] ELSE last[i - Len(p)]
    BY <1>7, <1>9, ConcatProperties
  <2> HIDE DEF w, last, p
  <2> QED BY <1>7, <1>10, <2>1, <2>2
<1>13. \A i \in 1 .. m + k : f[i] \in FormatTokens
  <2> HIDE DEF m, k
  <2> QED BY <1>11
<1>14. \A x \in FormatTokens : Escape(x) = x
  BY DEF FormatTokens, Escape, Operators, Broken
<1>15. ASSUME NEW i \in 1 .. m + k PROVE Escape(w[i]) = f[i]
  <2>1. CASE i <= m
    <3> HIDE DEF w, last, p, m, k
    <3> QED BY <1>12, <1>13, <1>14, <2>1
  <2>2. CASE ~(i <= m)
    <3>1. i - m \in 1 .. k
      <4> HIDE DEF m, k
      <4> QED BY <1>11, <2>2
    <3>2. last[i - m] = Unescape(st.text[i - m]) /\ st.text[i - m] \in PlainTokens
      <4> HIDE DEF m
      <4> QED BY <1>4, <3>1
    <3> HIDE DEF w, last, p, m, k
    <3> QED BY <1>5, <1>12, <2>2, <3>1, <3>2
  <2> QED BY <2>1, <2>2
<1>16. [i \in DOMAIN w |-> Escape(w[i])] = f
  <2>1. DOMAIN w = 1 .. m + k /\ DOMAIN f = 1 .. m + k
    <3> HIDE DEF w, m, k
    <3> QED BY <1>11
  <2>2. f = [i \in 1 .. m + k |-> f[i]]
    <3> HIDE DEF w, m, k
    <3> QED BY <2>1
  <2> HIDE DEF w, m, k
  <2> QED BY <1>15, <2>1, <2>2
<1> QED BY <1>8, <1>16 DEF FormatOf

-----------------------------------------------------------------------------
(* What the contexts fill in.                                              *)
EntryFields == {"stage", "format", "parts", "slots", "routed", "first"}

(* The value of an operator, by how far the request has come.              *)
ExpectedSlot(stage, routed, first, what) ==
    IF what = "custom" THEN first
    ELSE IF what = "REQ" THEN IF stage = "init" THEN "-" ELSE "init"
    ELSE IF what = "CLUSTER" THEN IF routed /\ stage \in {"response", "finish", "logged"} THEN "upstream" ELSE "-"
    ELSE IF what = "UNIQUE_ID" THEN IF routed /\ stage \in {"response", "finish", "logged"} THEN "new" ELSE "-"
    ELSE IF what = "RESP" THEN IF stage \in {"finish", "logged"} THEN "response" ELSE "-"
    ELSE IF what = "DURATION" THEN IF stage = "logged" THEN "finish" ELSE "-"
    ELSE IF stage = "logged" THEN "wire" ELSE "-"

EntryShape(e) ==
    /\ DOMAIN e = EntryFields /\ e.parts \in Seq(LogParts) /\ DOMAIN e.slots = DOMAIN e.parts
    /\ FormatOf(e.parts) = e.format
    /\ e.stage \in {"init", "route", "response", "finish", "logged"}
    /\ e.routed \in BOOLEAN /\ e.first \in {"-", "request", "response"}

OperatorAt(e, i) == e.parts[i].kind = "operator"

SlotsAs(e, stage, routed, first) ==
    \A i \in DOMAIN e.parts : OperatorAt(e, i) => e.slots[i] = ExpectedSlot(stage, routed, first, e.parts[i].op)

EntryFine(e) == EntryShape(e) /\ SlotsAs(e, e.stage, e.routed, e.first)

EntryInv ==
    \/ logEntry = NoLine \/ logEntry.stage = "refused" \/ EntryFine(logEntry)

LEMMA FillEffect ==
  ASSUME NEW e, EntryShape(e), NEW known, NEW value
  PROVE  /\ EntryShape(Fill(e, known, value))
         /\ \A x \in EntryFields \ {"slots"} : Fill(e, known, value)[x] = e[x]
         /\ \A i \in DOMAIN e.parts : Fill(e, known, value).slots[i] =
              IF OperatorAt(e, i) /\ e.slots[i] = "-" /\ e.parts[i].op \in known THEN value ELSE e.slots[i]
<1> DEFINE s == [i \in DOMAIN e.slots |->
                   IF e.parts[i].kind = "operator" /\ e.slots[i] = "-" /\ e.parts[i].op \in known
                   THEN value ELSE e.slots[i]]
           f == Fill(e, known, value)
<1>1. f = [e EXCEPT !.slots = s]
  BY DEF Fill
<1>2. DOMAIN s = DOMAIN e.parts
  BY DEF EntryShape
<1>3. \A i \in DOMAIN e.parts : s[i] =
              IF OperatorAt(e, i) /\ e.slots[i] = "-" /\ e.parts[i].op \in known THEN value ELSE e.slots[i]
  BY DEF EntryShape, OperatorAt
<1> HIDE DEF s, f
<1>4. DOMAIN f = EntryFields /\ f.slots = s /\ \A x \in EntryFields \ {"slots"} : f[x] = e[x]
  BY <1>1 DEF EntryShape, EntryFields
<1>5. f.parts = e.parts /\ f.format = e.format /\ f.stage = e.stage /\ f.routed = e.routed /\ f.first = e.first
  BY <1>4 DEF EntryFields
<1>6. EntryShape(f)
  BY <1>2, <1>4, <1>5 DEF EntryShape
<1> QED BY <1>3, <1>4, <1>6 DEF f

LEMMA FillFields ==
  ASSUME NEW e, EntryShape(e), NEW known, NEW value
  PROVE  LET f == Fill(e, known, value)
         IN /\ EntryShape(f) /\ f.parts = e.parts /\ f.format = e.format /\ f.stage = e.stage
            /\ f.routed = e.routed /\ f.first = e.first
            /\ \A i \in DOMAIN e.parts : f.slots[i] =
                 IF OperatorAt(e, i) /\ e.slots[i] = "-" /\ e.parts[i].op \in known THEN value ELSE e.slots[i]
BY FillEffect DEF EntryFields

(* The first hook that finds a value gives it to the custom operators.     *)
LEMMA HookEffect ==
  ASSUME NEW e, EntryShape(e), NEW stage, SlotsAs(e, stage, e.routed, e.first),
         NEW where \in {"request", "response"}, NEW valid \in BOOLEAN
  PROVE  LET f == Hook(e, where, valid)
         IN EntryShape(f) /\ SlotsAs(f, stage, f.routed, f.first) /\ f.routed = e.routed
<1> DEFINE f == Hook(e, where, valid)
           g == Fill(e, {"custom"}, where)
           h == IF e.first = "-" THEN where ELSE e.first
<1>1. CASE ~valid
  BY <1>1 DEF Hook
<1>2. CASE valid
  <2>1. EntryShape(e)
    OBVIOUS
  <2>2. /\ EntryShape(g) /\ g.parts = e.parts /\ g.format = e.format /\ g.stage = e.stage
        /\ g.routed = e.routed /\ g.first = e.first
        /\ \A i \in DOMAIN e.parts : g.slots[i] =
             IF OperatorAt(e, i) /\ e.slots[i] = "-" /\ e.parts[i].op \in {"custom"} THEN where ELSE e.slots[i]
    BY <2>1, FillFields
  <2> HIDE DEF g
  <2>3. f = [g EXCEPT !.first = h]
    BY <1>2, <2>2 DEF Hook, g
  <2>4. h \in {"-", "request", "response"}
    BY <2>1 DEF EntryShape
  <2> HIDE DEF h, f
  <2>5. /\ f.parts = e.parts /\ f.format = e.format /\ f.stage = e.stage /\ f.routed = e.routed /\ f.first = h
        /\ f.slots = g.slots /\ DOMAIN f = EntryFields
    BY <2>2, <2>3 DEF EntryShape, EntryFields
  <2>6. EntryShape(f)
    BY <2>2, <2>4, <2>5 DEF EntryShape
  <2>7. ASSUME NEW i \in DOMAIN f.parts, OperatorAt(f, i)
        PROVE  f.slots[i] = ExpectedSlot(stage, f.routed, f.first, f.parts[i].op)
    <3>1. /\ OperatorAt(e, i) /\ i \in DOMAIN e.parts
          /\ e.slots[i] = ExpectedSlot(stage, e.routed, e.first, e.parts[i].op)
      BY <2>5, <2>7 DEF SlotsAs, OperatorAt
    <3>2. f.slots[i] = IF e.slots[i] = "-" /\ e.parts[i].op = "custom" THEN where ELSE e.slots[i]
      BY <2>2, <2>5, <3>1
    <3>3. CASE e.parts[i].op = "custom"
      BY <2>5, <3>1, <3>2, <3>3 DEF ExpectedSlot, h
    <3>4. CASE e.parts[i].op # "custom"
      BY <2>5, <3>1, <3>2, <3>4 DEF ExpectedSlot
    <3> QED BY <3>3, <3>4
  <2> QED BY <2>5, <2>6, <2>7 DEF SlotsAs, f
<1> QED BY <1>1, <1>2

(* Leaving a stage.                                                        *)
LEMMA StageSet ==
  ASSUME NEW e, EntryShape(e), NEW stage \in {"init", "route", "response", "finish", "logged"}
  PROVE  LET f == [e EXCEPT !.stage = stage]
         IN EntryShape(f) /\ f.parts = e.parts /\ f.slots = e.slots /\ f.stage = stage
            /\ f.routed = e.routed /\ f.first = e.first
<1> DEFINE f == [e EXCEPT !.stage = stage]
<1>1. /\ DOMAIN f = EntryFields /\ f.parts = e.parts /\ f.slots = e.slots /\ f.stage = stage
      /\ f.format = e.format /\ f.routed = e.routed /\ f.first = e.first
  BY DEF EntryShape, EntryFields
<1> HIDE DEF f
<1>2. EntryShape(f)
  BY <1>1 DEF EntryShape
<1> QED BY <1>1, <1>2 DEF f

LEMMA Staged ==
  ASSUME NEW e, EntryShape(e), NEW stage \in {"init", "route", "response", "finish", "logged"},
         SlotsAs(e, stage, e.routed, e.first)
  PROVE  EntryFine([e EXCEPT !.stage = stage])
<1> DEFINE f == [e EXCEPT !.stage = stage]
<1>1. EntryShape(f) /\ f.parts = e.parts /\ f.slots = e.slots /\ f.stage = stage /\ f.routed = e.routed /\ f.first = e.first
  BY StageSet
<1> HIDE DEF f
<1>2. SlotsAs(f, f.stage, f.routed, f.first)
  BY <1>1 DEF SlotsAs, OperatorAt
<1> QED BY <1>1, <1>2 DEF EntryFine, f

LEMMA InitStep ==
  ASSUME NEW e, EntryFine(e), e.stage = "init", NEW valid \in BOOLEAN
  PROVE  EntryFine(InitHttpContext(e, valid))
<1> DEFINE a == Fill(e, DownstreamOperators, "init")
           h == Hook(a, "request", valid)
<1>1. EntryShape(e) /\ SlotsAs(e, "init", e.routed, e.first)
  BY DEF EntryFine
<1>2. /\ EntryShape(a) /\ a.parts = e.parts /\ a.stage = "init"
      /\ a.routed = e.routed /\ a.first = e.first
      /\ \A i \in DOMAIN e.parts : a.slots[i] =
           IF OperatorAt(e, i) /\ e.slots[i] = "-" /\ e.parts[i].op \in DownstreamOperators THEN "init" ELSE e.slots[i]
  BY <1>1, FillFields
<1> HIDE DEF a
<1>3. SlotsAs(a, "route", a.routed, a.first)
  BY <1>1, <1>2 DEF SlotsAs, ExpectedSlot, OperatorAt, DownstreamOperators
<1>4. EntryShape(h) /\ SlotsAs(h, "route", h.routed, h.first)
  BY <1>2, <1>3, HookEffect
<1>5. InitHttpContext(e, valid) = [h EXCEPT !.stage = "route"]
  BY DEF InitHttpContext, a
<1> HIDE DEF h
<1> QED BY <1>4, <1>5, Staged

LEMMA UpstreamStep ==
  ASSUME NEW e, EntryFine(e), e.stage = "route", NEW routed \in BOOLEAN
  PROVE  EntryFine(UpstreamContext(e, routed))
<1> DEFINE a == Fill(e, UpstreamOperators, "upstream")
           b == Fill(a, UpstreamRequestOperators, "new")
           c == IF routed THEN b ELSE e
           f == [c EXCEPT !.stage = "response", !.routed = routed]
<1>1. EntryShape(e) /\ SlotsAs(e, "route", e.routed, e.first)
  BY DEF EntryFine
<1>2. /\ EntryShape(a) /\ a.parts = e.parts /\ a.first = e.first
      /\ \A i \in DOMAIN e.parts : a.slots[i] =
           IF OperatorAt(e, i) /\ e.slots[i] = "-" /\ e.parts[i].op \in UpstreamOperators THEN "upstream" ELSE e.slots[i]
  BY <1>1, FillFields
<1> HIDE DEF a
<1>3. /\ EntryShape(b) /\ b.parts = e.parts /\ b.first = e.first
      /\ \A i \in DOMAIN e.parts : b.slots[i] =
           IF OperatorAt(e, i) /\ a.slots[i] = "-" /\ e.parts[i].op \in UpstreamRequestOperators THEN "new" ELSE a.slots[i]
  BY <1>2, FillFields DEF OperatorAt
<1> HIDE DEF b
<1>4. EntryShape(c) /\ c.parts = e.parts /\ c.first = e.first
  BY <1>1, <1>3
<1>5. SlotsAs(c, "response", routed, e.first)
  <2>1. CASE routed
    <3> SUFFICES ASSUME NEW i \in DOMAIN e.parts, OperatorAt(e, i)
                 PROVE  b.slots[i] = ExpectedSlot("response", TRUE, e.first, e.parts[i].op)
      BY <1>3, <2>1 DEF SlotsAs, OperatorAt
    <3>1. e.slots[i] = ExpectedSlot("route", e.routed, e.first, e.parts[i].op)
      BY <1>1 DEF SlotsAs
    <3> QED BY <1>2, <1>3, <3>1 DEF ExpectedSlot, UpstreamOperators, UpstreamRequestOperators
  <2>2. CASE ~routed
    BY <1>1, <2>2 DEF SlotsAs, ExpectedSlot
  <2> QED BY <2>1, <2>2
<1>6. UpstreamContext(e, routed) = f
  BY DEF UpstreamContext, a, b
<1> HIDE DEF c
<1>7. /\ DOMAIN f = EntryFields /\ f.parts = c.parts /\ f.slots = c.slots /\ f.stage = "response"
      /\ f.format = c.format /\ f.routed = routed /\ f.first = c.first
  BY <1>4 DEF EntryShape, EntryFields
<1> HIDE DEF f
<1>8. EntryShape(f)
  BY <1>4, <1>7 DEF EntryShape
<1>9. SlotsAs(f, f.stage, f.routed, f.first)
  BY <1>4, <1>5, <1>7 DEF SlotsAs, OperatorAt
<1> QED BY <1>6, <1>8, <1>9 DEF EntryFine

LEMMA ResponseStep ==
  ASSUME NEW e, EntryFine(e), e.stage = "response", NEW valid \in BOOLEAN
  PROVE  EntryFine(DownstreamResponseContext(e, valid))
<1> DEFINE h == Hook(e, "response", valid)
           a == Fill(h, ResponseOperators, "response")
<1>1. EntryShape(e) /\ SlotsAs(e, "response", e.routed, e.first)
  BY DEF EntryFine
<1>2. EntryShape(h) /\ SlotsAs(h, "response", h.routed, h.first)
  BY <1>1, HookEffect
<1> HIDE DEF h
<1>3. /\ EntryShape(a) /\ a.parts = h.parts /\ a.routed = h.routed /\ a.first = h.first
      /\ \A i \in DOMAIN h.parts : a.slots[i] =
           IF OperatorAt(h, i) /\ h.slots[i] = "-" /\ h.parts[i].op \in ResponseOperators THEN "response" ELSE h.slots[i]
  BY <1>2, FillFields
<1> HIDE DEF a
<1>4. SlotsAs(a, "finish", a.routed, a.first)
  BY <1>2, <1>3 DEF SlotsAs, ExpectedSlot, OperatorAt, ResponseOperators
<1>5. DownstreamResponseContext(e, valid) = [a EXCEPT !.stage = "finish"]
  BY DEF DownstreamResponseContext, a, h
<1> QED BY <1>3, <1>4, <1>5, Staged

LEMMA FinishStep ==
  ASSUME NEW e, EntryFine(e), e.stage = "finish"
  PROVE  EntryFine(FinishContext(e))
<1> DEFINE a == Fill(e, FinishOperators, "finish")
           b == Fill(a, WireOperators, "wire")
<1>1. EntryShape(e) /\ SlotsAs(e, "finish", e.routed, e.first)
  BY DEF EntryFine
<1>2. /\ EntryShape(a) /\ a.parts = e.parts /\ a.first = e.first /\ a.routed = e.routed
      /\ \A i \in DOMAIN e.parts : a.slots[i] =
           IF OperatorAt(e, i) /\ e.slots[i] = "-" /\ e.parts[i].op \in FinishOperators THEN "finish" ELSE e.slots[i]
  BY <1>1, FillFields
<1> HIDE DEF a
<1>3. /\ EntryShape(b) /\ b.parts = e.parts /\ b.first = e.first /\ b.routed = e.routed
      /\ \A i \in DOMAIN e.parts : b.slots[i] =
           IF OperatorAt(e, i) /\ a.slots[i] = "-" /\ e.parts[i].op \in WireOperators THEN "wire" ELSE a.slots[i]
  BY <1>2, FillFields DEF OperatorAt
<1> HIDE DEF b
<1>4. ASSUME NEW i \in DOMAIN e.parts, OperatorAt(e, i)
      PROVE  b.slots[i] = ExpectedSlot("logged", e.routed, e.first, e.parts[i].op)
  <2>1. e.slots[i] = ExpectedSlot("finish", e.routed, e.first, e.parts[i].op)
    BY <1>1, <1>4 DEF SlotsAs
  <2>2. e.parts[i].op \in Operators
    <3>1. e.parts[i] \in LogParts
      BY <1>1 DEF EntryShape
    <3> QED BY <1>4, <3>1 DEF LogParts, OperatorAt
  <2> QED BY <1>2, <1>3, <1>4, <2>1, <2>2 DEF ExpectedSlot, FinishOperators, WireOperators, Operators
<1>5. SlotsAs(b, "logged", b.routed, b.first)
  BY <1>3, <1>4 DEF SlotsAs, OperatorAt
<1>6. FinishContext(e) = [b EXCEPT !.stage = "logged"]
  BY DEF FinishContext, a, b
<1> QED BY <1>3, <1>5, <1>6, Staged

LEMMA NewStep ==
  ASSUME NEW f \in Seq(FormatTokens)
  PROVE  NewFormatter(f).stage = "refused" \/ EntryFine(NewFormatter(f))
<1> DEFINE p == Parse(f)
           e == NewFormatter(f)
<1>1. CASE p.error
  BY <1>1 DEF NewFormatter
<1>2. CASE ~p.error
  <2>1. p.parts \in Seq(LogParts) /\ FormatOf(p.parts) = f
    BY <1>2, ParseKeeps
  <2>2. /\ DOMAIN e = EntryFields /\ e.parts = p.parts /\ e.format = f /\ e.stage = "init"
        /\ e.routed = FALSE /\ e.first = "-"
        /\ e.slots = [i \in DOMAIN p.parts |-> IF p.parts[i].kind = "literal" THEN "text" ELSE "-"]
    BY <1>2 DEF NewFormatter, EntryFields
  <2> HIDE DEF e, p
  <2>3. EntryShape(e)
    BY <2>1, <2>2 DEF EntryShape
  <2>4. SlotsAs(e, "init", FALSE, "-")
    <3> SUFFICES ASSUME NEW i \in DOMAIN e.parts, OperatorAt(e, i) PROVE e.slots[i] = ExpectedSlot("init", FALSE, "-", e.parts[i].op)
      BY DEF SlotsAs
    <3>1. e.slots[i] = "-"
      BY <2>2 DEF OperatorAt
    <3> QED BY <3>1 DEF ExpectedSlot
  <2> QED BY <2>2, <2>3, <2>4 DEF EntryFine, e
<1> QED BY <1>1, <1>2

LEMMA EntryStep == EntryInv /\ [AccessLogNext]_accessLogVars => EntryInv'
<1> SUFFICES ASSUME EntryInv, [AccessLogNext]_accessLogVars PROVE EntryInv'
  OBVIOUS
<1>1. CASE UNCHANGED logEntry
  BY <1>1 DEF EntryInv
<1>2. CASE FillLine
  <2>1. NoLine.stage = "none"
    BY DEF NoLine
  <2>2. ASSUME NEW s \in {"init", "route", "response", "finish"}, logEntry.stage = s PROVE EntryFine(logEntry)
    BY <2>1, <2>2 DEF EntryInv
  <2>3. ASSUME NEW n \in 0 .. MaxFormat, NEW f \in [1 .. n -> FormatTokens], logEntry' = NewFormatter(f) PROVE EntryInv'
    <3>1. n \in Nat
      BY AccessLogAssumption
    <3>2. f \in Seq(FormatTokens)
      BY <3>1, SeqDef
    <3> QED BY <2>3, <3>2, NewStep DEF EntryInv
  <2>4. ASSUME logEntry.stage = "init", NEW valid \in BOOLEAN, logEntry' = InitHttpContext(logEntry, valid) PROVE EntryInv'
    BY <2>2, <2>4, InitStep DEF EntryInv
  <2>5. ASSUME logEntry.stage = "route", NEW routed \in BOOLEAN, logEntry' = UpstreamContext(logEntry, routed) PROVE EntryInv'
    BY <2>2, <2>5, UpstreamStep DEF EntryInv
  <2>6. ASSUME logEntry.stage = "response", NEW valid \in BOOLEAN, logEntry' = DownstreamResponseContext(logEntry, valid) PROVE EntryInv'
    BY <2>2, <2>6, ResponseStep DEF EntryInv
  <2>7. ASSUME logEntry.stage = "finish", logEntry' = FinishContext(logEntry) PROVE EntryInv'
    BY <2>2, <2>7, FinishStep DEF EntryInv
  <2> QED BY <1>2, <2>3, <2>4, <2>5, <2>6, <2>7 DEF FillLine
<1>3. FillLine \/ UNCHANGED logEntry
  BY DEF AccessLogNext, DeliverLines, accessLogVars, StartLoggers, PushListener, UpdateListener, Broadcast, BeginLine,
         LogAccess, ReceiveBatch, HandleMessage
<1> QED BY <1>1, <1>2, <1>3

LEMMA EntryComplete == EntryInv => FormatKept /\ LineComplete
<1>1. NoLine.stage = "none"
  BY DEF NoLine
<1>2. ASSUME EntryInv PROVE FormatKept
  BY <1>1, <1>2 DEF EntryInv, EntryFine, EntryShape, FormatOf, FormatKept
<1>3. ASSUME EntryInv PROVE LineComplete
  <2> SUFFICES ASSUME logEntry.stage = "logged", NEW i \in DOMAIN logEntry.parts, logEntry.parts[i].kind = "operator"
               PROVE  LET what == logEntry.parts[i].op
                      IN CASE what = "custom" -> logEntry.slots[i] = logEntry.first
                           [] what \in {"CLUSTER", "UNIQUE_ID"} -> (logEntry.slots[i] # "-") = logEntry.routed
                           [] OTHER -> logEntry.slots[i] \notin {"-", "request"}
    BY DEF LineComplete
  <2>1. EntryFine(logEntry)
    BY <1>1, <1>3 DEF EntryInv
  <2>2. logEntry.slots[i] = ExpectedSlot("logged", logEntry.routed, logEntry.first, logEntry.parts[i].op)
        /\ logEntry.routed \in BOOLEAN
    BY <2>1 DEF EntryFine, SlotsAs, OperatorAt, EntryShape
  <2> QED BY <2>2 DEF ExpectedSlot
<1> QED BY <1>2, <1>3

LEMMA EntryInitInv == AccessLogInit => EntryInv
BY DEF AccessLogInit, EntryInv

(* arion-format: the parts of a parsed format give the format back, for    *)
(* every format, and a line that is logged has every operator filled in by *)
(* the context that knows its value, and by the first where two do.        *)
THEOREM LinesComplete == AccessLogSpec => [](FormatKept /\ LineComplete)
<1>1. AccessLogInit => EntryInv
  BY DEF AccessLogInit, EntryInv
<1> QED BY <1>1, EntryStep, EntryComplete, PTL DEF AccessLogSpec

-----------------------------------------------------------------------------
(* Lines that are queued are written.                                      *)
Has(s, t, n) == \E j \in 1 .. Len(s) : IsLine(s[j]) /\ s[j].thread = t /\ s[j].n = n
InSink(z, t, n) == \E j \in 1 .. Len(z) : z[j] = <<t, n>>
AllStatic(s) == \A j \in 1 .. Len(s) : s[j].conf = StaticSinks
LoggerOf(t) == SenderOf(t, 1)

(* A line after one that got through, or may still, is not lost either.    *)
ComesThrough(t, n, z, b, q) == InSink(z, t, n) \/ Has(b, t, n) \/ Has(q, t, n)
Follow(t, m, n, z, b, q, d) == ComesThrough(t, m, z, b, q) => <<t, n>> \in d \/ ComesThrough(t, n, z, b, q)

ThreadKept(t) ==
    /\ \A m \in Nat : InSink(sinks[Stdout], t, m) => writers[LoggerOf(t)] # UnsetField
    /\ \A n \in 1 .. count[t] : \A m \in 1 .. n - 1 :
         Follow(t, m, n, sinks[Stdout], batch[LoggerOf(t)], lineQueue[LoggerOf(t)], dropped)

SinksShape ==
    /\ writers = [i \in Loggers |-> writers[i]] /\ held = [t \in LogThreads |-> held[t]]
    /\ spread = [k \in {"boot", "xds"} |-> spread[k]]

PoolOff ==
    entryPool = "off" =>
        /\ \A i \in Loggers : lineQueue[i] = <<>> /\ batch[i] = <<>>
        /\ sinks[Stdout] = <<>> /\ \A k \in {"boot", "xds"} : spread[k] = UnsetField

AllStaticNow ==
    /\ spread["xds"] = UnsetField /\ (spread["boot"] # UnsetField => spread["boot"][1] = StaticSinks)
    /\ \A i \in Loggers : /\ writers[i] \in {UnsetField, StaticSinks}
                          /\ AllStatic(lineQueue[i]) /\ AllStatic(batch[i])
    /\ \A t \in LogThreads : held[t] \in {UnsetField, StaticSinks}

Unchanging == listener \in {UnsetField, StaticSinks}

QueuedInv ==
    /\ SinksShape /\ PoolOff
    /\ Unchanging => AllStaticNow /\ \A t \in LogThreads : ThreadKept(t)

LEMMA LoggersNumbered == \A t \in LogThreads : LoggerOf(t) \in Loggers /\ \A n : SenderOf(t, n) = LoggerOf(t)
<1> SUFFICES ASSUME NEW t \in LogThreads PROVE LoggerOf(t) \in Loggers /\ \A n : SenderOf(t, n) = LoggerOf(t)
  OBVIOUS
<1> DEFINE c == Cardinality(Loggers)
           d == Cardinality(LogThreads)
<1>1. c \in Nat /\ d \in Nat /\ Loggers = 1 .. c /\ LogThreads = 1 .. d /\ Loggers # {}
  BY AccessLogAssumption, FS_CardinalityType
<1> HIDE DEF c, d
<1>2. c >= 1 /\ t \in Nat
  BY <1>1
<1>3. t % c \in 0 .. c - 1
  BY <1>1, <1>2
<1>4. 1 + (t % c) \in 1 .. c
  BY <1>1, <1>3
<1> QED BY <1>1, <1>4 DEF LoggerOf, SenderOf, c

LEMMA Different == UnsetField # StaticSinks /\ UnsetField # <<>> /\ <<"stdout">> # StaticSinks /\ <<"stdout">> # UnsetField /\ <<>> # StaticSinks
<1>1. UnsetField[1] = "unset" /\ StaticSinks[1] = "file" /\ <<"stdout">>[1] = "stdout"
  BY DEF UnsetField, StaticSinks
<1>2. Len(<<>>) = 0 /\ Len(UnsetField) = 1 /\ Len(StaticSinks) = 2
  BY DEF UnsetField, StaticSinks
<1> QED BY <1>1, <1>2

LEMMA QueuedInit == AccessLogInit => QueuedInv
<1> SUFFICES ASSUME AccessLogInit PROVE QueuedInv
  OBVIOUS
<1>1. SinksShape /\ PoolOff
  BY DEF AccessLogInit, SinksShape, PoolOff
<1>2. Len(<<>>) = 0
  OBVIOUS
<1>3. AllStaticNow
  BY <1>2 DEF AccessLogInit, AllStaticNow, AllStatic
<1>4. ASSUME NEW t \in LogThreads PROVE ThreadKept(t)
  <2>1. count[t] = 0 /\ sinks[Stdout] = <<>>
    BY DEF AccessLogInit
  <2> QED BY <1>2, <2>1 DEF ThreadKept, InSink
<1> QED BY <1>1, <1>3, <1>4 DEF QueuedInv

(* Messages that come last.                                                *)
LEMMA HasAppend ==
  ASSUME NEW s, IsSeq(s), NEW e, NEW t, NEW n
  PROVE  /\ Has(Append(s, e), t, n) <=> Has(s, t, n) \/ (IsLine(e) /\ e.thread = t /\ e.n = n)
         /\ AllStatic(s) /\ e.conf = StaticSinks => AllStatic(Append(s, e))
<1> DEFINE a == Append(s, e)
<1>1. /\ Len(s) \in Nat /\ Len(a) = Len(s) + 1
      /\ a[Len(s) + 1] = e /\ \A k \in 1 .. Len(s) : a[k] = s[k]
  BY AppendFacts
<1> HIDE DEF a
<1>2. \A k \in 1 .. Len(a) : k \in 1 .. Len(s) \/ k = Len(s) + 1
  BY <1>1
<1>3. Len(s) + 1 \in 1 .. Len(a) /\ 1 .. Len(s) \subseteq 1 .. Len(a)
  BY <1>1
<1>4. Has(a, t, n) <=> Has(s, t, n) \/ (IsLine(e) /\ e.thread = t /\ e.n = n)
  <2>1. ASSUME Has(a, t, n) PROVE Has(s, t, n) \/ (IsLine(e) /\ e.thread = t /\ e.n = n)
    BY <1>1, <1>2, <2>1 DEF Has
  <2>2. ASSUME Has(s, t, n) PROVE Has(a, t, n)
    BY <1>1, <1>3, <2>2 DEF Has
  <2>3. ASSUME IsLine(e) /\ e.thread = t /\ e.n = n PROVE Has(a, t, n)
    BY <1>1, <1>3, <2>3 DEF Has
  <2> QED BY <2>1, <2>2, <2>3
<1>5. AllStatic(s) /\ e.conf = StaticSinks => AllStatic(a)
  BY <1>1, <1>2 DEF AllStatic
<1> QED BY <1>4, <1>5 DEF a

(* A queue that may have got a message m, or a sink that may have got a line. *)
LEMMA HasMore ==
  ASSUME NEW s, IsSeq(s), NEW e, NEW p, p = s \/ p = Append(s, e)
  PROVE  /\ \A t, n : Has(s, t, n) => Has(p, t, n)
         /\ \A t, n : Has(p, t, n) => Has(s, t, n) \/ (IsLine(e) /\ e.thread = t /\ e.n = n)
<1>1. CASE p = s
  BY <1>1
<1>2. CASE p = Append(s, e)
  <2>1. ASSUME NEW t, NEW n PROVE Has(p, t, n) <=> Has(s, t, n) \/ (IsLine(e) /\ e.thread = t /\ e.n = n)
    BY <1>2, HasAppend
  <2> QED BY <2>1
<1> QED BY <1>1, <1>2

LEMMA StaticMore ==
  ASSUME NEW s, IsSeq(s), NEW e, e.conf = StaticSinks, AllStatic(s), NEW p, p = s \/ p = Append(s, e)
  PROVE  AllStatic(p)
<1>1. AllStatic(Append(s, e))
  BY HasAppend
<1> QED BY <1>1

LEMMA SinkAppend ==
  ASSUME NEW z, IsSeq(z), NEW x, NEW y, NEW t, NEW n
  PROVE  InSink(Append(z, <<x, y>>), t, n) <=> InSink(z, t, n) \/ (x = t /\ y = n)
<1> DEFINE e == <<x, y>>
           a == Append(z, e)
<1>1. /\ Len(z) \in Nat /\ Len(a) = Len(z) + 1
      /\ a[Len(z) + 1] = e /\ \A k \in 1 .. Len(z) : a[k] = z[k]
  BY AppendFacts
<1>0. e = <<t, n>> <=> x = t /\ y = n
  OBVIOUS
<1> HIDE DEF a, e
<1>2. \A k \in 1 .. Len(a) : k \in 1 .. Len(z) \/ k = Len(z) + 1
  BY <1>1
<1>3. Len(z) + 1 \in 1 .. Len(a) /\ 1 .. Len(z) \subseteq 1 .. Len(a)
  BY <1>1
<1>4. InSink(a, t, n) <=> InSink(z, t, n) \/ e = <<t, n>>
  BY <1>1, <1>2, <1>3 DEF InSink
<1> QED BY <1>0, <1>4 DEF a, e

LEMMA SinkMore ==
  ASSUME NEW z, IsSeq(z), NEW x, NEW y, NEW p, p = Append(z, <<x, y>>)
  PROVE  \A t, n : InSink(p, t, n) <=> InSink(z, t, n) \/ (x = t /\ y = n)
<1> SUFFICES ASSUME NEW t, NEW n PROVE InSink(p, t, n) <=> InSink(z, t, n) \/ (x = t /\ y = n)
  OBVIOUS
<1> QED BY SinkAppend

LEMMA HasTail ==
  ASSUME NEW s, IsSeq(s), s # <<>>, NEW t, NEW n
  PROVE  /\ Has(s, t, n) <=> Has(Tail(s), t, n) \/ (IsLine(Head(s)) /\ Head(s).thread = t /\ Head(s).n = n)
         /\ AllStatic(s) => AllStatic(Tail(s)) /\ Head(s).conf = StaticSinks
<1> DEFINE r == Tail(s)
           e == Head(s)
<1>1. /\ Len(s) \in Nat \ {0} /\ Len(r) = Len(s) - 1
      /\ e = s[1] /\ \A k \in 1 .. Len(s) - 1 : r[k] = s[k + 1]
  BY TailFacts
<1> HIDE DEF r, e
<1>2. \A k \in 1 .. Len(s) : k = 1 \/ (k - 1 \in 1 .. Len(r) /\ (k - 1) + 1 = k)
  BY <1>1
<1>3. 1 \in 1 .. Len(s) /\ \A k \in 1 .. Len(r) : k + 1 \in 1 .. Len(s) /\ r[k] = s[k + 1]
  BY <1>1
<1>4. ASSUME Has(s, t, n) PROVE Has(r, t, n) \/ (IsLine(e) /\ e.thread = t /\ e.n = n)
  <2>1. PICK j \in 1 .. Len(s) : IsLine(s[j]) /\ s[j].thread = t /\ s[j].n = n
    BY <1>4 DEF Has
  <2>2. CASE j = 1
    BY <1>1, <2>1, <2>2
  <2>3. CASE j - 1 \in 1 .. Len(r) /\ (j - 1) + 1 = j
    <3>1. r[j - 1] = s[j]
      BY <1>3, <2>3
    <3> QED BY <2>1, <2>3, <3>1 DEF Has
  <2> QED BY <1>2, <2>2, <2>3
<1>5. ASSUME Has(r, t, n) PROVE Has(s, t, n)
  BY <1>3, <1>5 DEF Has
<1>6. ASSUME IsLine(e) /\ e.thread = t /\ e.n = n PROVE Has(s, t, n)
  BY <1>1, <1>3, <1>6 DEF Has
<1>7. AllStatic(s) => AllStatic(r) /\ e.conf = StaticSinks
  BY <1>1, <1>3 DEF AllStatic
<1> QED BY <1>4, <1>5, <1>6, <1>7 DEF r, e

(* A step that changes nothing a line's way depends on.                    *)
LEMMA QueuedElse ==
  ASSUME LinesInv, QueuedInv,
         UNCHANGED <<entryPool, listener, spread, held, count, lineQueue, batch, writers, sinks, dropped>>
  PROVE  QueuedInv'
BY DEF QueuedInv, SinksShape, PoolOff, Unchanging, AllStaticNow, ThreadKept

LEMMA QueuedStart ==
  ASSUME LinesInv, QueuedInv, NEW blocking \in BOOLEAN, StartLoggers(blocking)
  PROVE  QueuedInv'
<1>1. /\ entryPool' # "off" /\ spread' = [spread EXCEPT !["boot"] = <<StaticSinks, 1>>]
      /\ UNCHANGED <<listener, held, count, lineQueue, batch, writers, sinks, dropped>>
  BY DEF StartLoggers
<1>2. /\ spread' = [k \in {"boot", "xds"} |-> spread'[k]] /\ spread'["boot"] = <<StaticSinks, 1>>
      /\ spread'["xds"] = spread["xds"] /\ <<StaticSinks, 1>>[1] = StaticSinks
  BY <1>1 DEF QueuedInv, SinksShape
<1>3. SinksShape'
  BY <1>1, <1>2 DEF QueuedInv, SinksShape
<1>4. Unchanging' => AllStaticNow' /\ \A t \in LogThreads : ThreadKept(t)'
  BY <1>1, <1>2 DEF QueuedInv, Unchanging, AllStaticNow, ThreadKept
<1> QED BY <1>1, <1>3, <1>4 DEF QueuedInv, PoolOff

LEMMA QueuedListener ==
  ASSUME LinesInv, QueuedInv, PushListener \/ \E s \in {<<"stdout">>, <<>>} : UpdateListener(s)
  PROVE  QueuedInv'
<1>1. CASE PushListener
  <2>1. Unchanging /\ UNCHANGED <<entryPool, spread, held, count, lineQueue, batch, writers, sinks, dropped>>
    BY <1>1 DEF PushListener, Unchanging
  <2> QED BY <2>1 DEF QueuedInv, SinksShape, PoolOff, AllStaticNow, ThreadKept
<1>2. ASSUME NEW s \in {<<"stdout">>, <<>>}, UpdateListener(s) PROVE QueuedInv'
  <2>1. /\ listener' = s /\ entryPool # "off" /\ spread' = [spread EXCEPT !["xds"] = <<s, 1>>]
        /\ UNCHANGED <<entryPool, held, writers>>
    BY <1>2 DEF UpdateListener
  <2>2. ~Unchanging'
    BY <2>1, Different DEF Unchanging
  <2>3. SinksShape'
    BY <2>1 DEF QueuedInv, SinksShape
  <2> QED BY <2>1, <2>2, <2>3 DEF QueuedInv, PoolOff
<1> QED BY <1>1, <1>2

LEMMA QueuedBroadcast ==
  ASSUME LinesInv, QueuedInv, NEW k \in {"boot", "xds"}, Broadcast(k)
  PROVE  QueuedInv'
<1> DEFINE i == spread[k][2]
           conf == spread[k][1]
           m == [what |-> "configure", conf |-> conf]
<1>1. /\ spread[k] # UnsetField /\ lineQueue' = [lineQueue EXCEPT ![i] = Append(@, m)]
      /\ spread' = [spread EXCEPT ![k] = IF i + 1 \in Loggers THEN <<conf, i + 1>> ELSE UnsetField]
      /\ UNCHANGED <<entryPool, listener, held, count, batch, writers, sinks, dropped>>
  BY DEF Broadcast
<1>2. ~IsLine(m) /\ m.conf = conf
  BY DEF IsLine
<1> HIDE DEF m, i
<1>3. SinksShape'
  BY <1>1 DEF QueuedInv, SinksShape
<1>4. entryPool # "off"
  BY <1>1 DEF QueuedInv, PoolOff
<1>5. ASSUME NEW x \in Loggers PROVE lineQueue'[x] = lineQueue[x] \/ lineQueue'[x] = Append(lineQueue[x], m)
  BY <1>1 DEF LinesInv, LogShape
<1>6. \A x \in Loggers : IsSeq(lineQueue[x])
  BY DEF LinesInv, LoggerFine
<1>7. ASSUME Unchanging' PROVE AllStaticNow'
  <2>1. Unchanging /\ AllStaticNow
    BY <1>1, <1>7 DEF QueuedInv, Unchanging
  <2>2. k = "boot" /\ conf = StaticSinks
    BY <1>1, <2>1 DEF AllStaticNow
  <2>3. /\ spread'["xds"] = UnsetField
        /\ spread'["boot"] = UnsetField \/ spread'["boot"] = <<StaticSinks, i + 1>>
    BY <1>1, <2>1, <2>2 DEF AllStaticNow, QueuedInv, SinksShape
  <2>4. <<StaticSinks, i + 1>>[1] = StaticSinks
    OBVIOUS
  <2>5. ASSUME NEW x \in Loggers PROVE AllStatic(lineQueue'[x])
    BY <1>2, <1>5, <1>6, <2>1, <2>2, HasAppend DEF AllStaticNow
  <2> QED BY <1>1, <2>1, <2>3, <2>4, <2>5 DEF AllStaticNow
<1>8. ASSUME Unchanging', NEW t \in LogThreads PROVE ThreadKept(t)'
  <2>1. ThreadKept(t)
    BY <1>1, <1>8 DEF QueuedInv, Unchanging
  <2>2. LoggerOf(t) \in Loggers
    BY LoggersNumbered
  <2>3. \A n : Has(lineQueue'[LoggerOf(t)], t, n) <=> Has(lineQueue[LoggerOf(t)], t, n)
    BY <1>2, <1>5, <1>6, <2>2, HasMore
  <2> QED BY <1>1, <2>1, <2>3 DEF ThreadKept, Follow, ComesThrough
<1> QED BY <1>1, <1>3, <1>4, <1>7, <1>8 DEF QueuedInv, PoolOff

LEMMA QueuedBegin ==
  ASSUME LinesInv, QueuedInv, NEW t \in LogThreads, BeginLine(t)
  PROVE  QueuedInv'
<1>1. /\ held' = [held EXCEPT ![t] = listener]
      /\ UNCHANGED <<entryPool, listener, spread, count, lineQueue, batch, writers, sinks, dropped>>
  BY DEF BeginLine
<1>2. SinksShape' /\ PoolOff'
  BY <1>1 DEF QueuedInv, SinksShape, PoolOff
<1>3. \A x \in LogThreads : held'[x] = held[x] \/ held'[x] = listener
  BY <1>1 DEF QueuedInv, SinksShape
<1>4. Unchanging' => AllStaticNow' /\ \A x \in LogThreads : ThreadKept(x)'
  BY <1>1, <1>3 DEF QueuedInv, Unchanging, AllStaticNow, ThreadKept
<1> QED BY <1>2, <1>4 DEF QueuedInv

LEMMA QueuedLog ==
  ASSUME LinesInv, QueuedInv, NEW t \in LogThreads, LogAccess(t)
  PROVE  QueuedInv'
<1> DEFINE n == count[t] + 1
           i == SenderOf(t, n)
           m == [what |-> "line", thread |-> t, n |-> n, conf |-> held[t]]
<1>1. /\ held[t] # UnsetField
      /\ \/ entryPool = "off" /\ UNCHANGED <<lineQueue, dropped>>
         \/ entryPool # "off" /\ lineQueue' = [lineQueue EXCEPT ![i] = Append(@, m)] /\ UNCHANGED dropped
         \/ entryPool # "off" /\ dropped' = dropped \union {<<t, n>>} /\ UNCHANGED lineQueue
      /\ count' = [count EXCEPT ![t] = n]
      /\ held' = [held EXCEPT ![t] = UnsetField]
      /\ UNCHANGED <<entryPool, listener, spread, batch, writers, sinks>>
  BY DEF LogAccess
<1>2. IsLine(m) /\ m.thread = t /\ m.n = n /\ m.conf = held[t]
  BY DEF IsLine
<1>3. count \in [LogThreads -> Nat] /\ i = LoggerOf(t) /\ i \in Loggers
  BY LoggersNumbered DEF LinesInv, LogShape
<1>4. count'[t] = n /\ n \in Nat /\ \A x \in LogThreads : x # t => count'[x] = count[x]
  BY <1>1, <1>3
<1> HIDE DEF m, i
<1>5. SinksShape'
  BY <1>1 DEF QueuedInv, SinksShape
<1>6. PoolOff'
  BY <1>1 DEF QueuedInv, PoolOff
<1>7. \A x \in Loggers : IsSeq(lineQueue[x])
  BY DEF LinesInv, LoggerFine
<1>8. \A x \in Loggers : lineQueue'[x] = lineQueue[x] \/ (x = i /\ lineQueue'[x] = Append(lineQueue[x], m))
  BY <1>1 DEF LinesInv, LogShape
<1>9. ASSUME Unchanging' PROVE AllStaticNow'
  <2>1. AllStaticNow
    BY <1>1, <1>9 DEF QueuedInv, Unchanging
  <2>2. m.conf = StaticSinks
    BY <1>1, <1>2, <2>1 DEF AllStaticNow
  <2>3. ASSUME NEW x \in Loggers PROVE AllStatic(lineQueue'[x])
    <3>1. IsSeq(lineQueue[x]) /\ AllStatic(lineQueue[x])
      BY <1>7, <2>1 DEF AllStaticNow
    <3> QED BY <1>8, <2>2, <3>1, StaticMore
  <2>4. \A x \in LogThreads : held'[x] \in {UnsetField, StaticSinks}
    BY <1>1, <2>1 DEF AllStaticNow, QueuedInv, SinksShape
  <2> QED BY <1>1, <2>1, <2>3, <2>4 DEF AllStaticNow
<1>10. ASSUME Unchanging', NEW x \in LogThreads PROVE ThreadKept(x)'
  <2>1. ThreadKept(x) /\ LoggerOf(x) \in Loggers
    BY <1>1, <1>10, LoggersNumbered DEF QueuedInv, Unchanging
  <2> DEFINE z == sinks[Stdout]
             b == batch[LoggerOf(x)]
             q == lineQueue[LoggerOf(x)]
             p == lineQueue'[LoggerOf(x)]
  <2>2. \A k : Has(q, x, k) => Has(p, x, k)
    BY <1>7, <1>8, <2>1, HasMore
  <2>3. ASSUME NEW k, Has(p, x, k) PROVE Has(q, x, k) \/ (x = t /\ k = n)
    <3>1. p = q \/ (LoggerOf(x) = i /\ p = Append(q, m))
      BY <1>8, <2>1
    <3>2. IsSeq(q)
      BY <1>7, <2>1
    <3> HIDE DEF p, q
    <3>3. Has(q, x, k) \/ (IsLine(m) /\ m.thread = x /\ m.n = k)
      BY <2>3, <3>1, <3>2, HasMore
    <3> QED BY <1>2, <3>3
  <2>4. ASSUME NEW k \in 1 .. count'[x], NEW l \in 1 .. k - 1, ComesThrough(x, l, z, b, p)
        PROVE  <<x, k>> \in dropped' \/ ComesThrough(x, k, z, b, p)
    <3>1. CASE x # t \/ k # n
      <4>1. (k \in 1 .. count[x] /\ l # n) \/ x # t
        BY <1>3, <1>4, <2>4, <3>1
      <4>2. k \in 1 .. count[x]
        BY <1>3, <1>4, <2>4, <3>1
      <4>3. ComesThrough(x, l, z, b, q)
        BY <2>3, <2>4, <4>1 DEF ComesThrough
      <4>4. <<x, k>> \in dropped \/ ComesThrough(x, k, z, b, q)
        BY <2>1, <2>4, <4>2, <4>3 DEF ThreadKept, Follow
      <4> QED BY <1>1, <2>2, <4>4 DEF ComesThrough
    <3>2. CASE x = t /\ k = n
      <4>1. l # n
        BY <1>3, <1>4, <2>4, <3>2
      <4>2. ComesThrough(x, l, z, b, q)
        BY <2>3, <2>4, <4>1 DEF ComesThrough
      <4>3. entryPool # "off"
        <5>1. Len(<<>>) = 0
          OBVIOUS
        <5> QED BY <2>1, <4>2, <5>1 DEF QueuedInv, PoolOff, ComesThrough, InSink, Has
      <4>4. CASE dropped' = dropped \union {<<t, n>>}
        BY <3>2, <4>4
      <4>5. CASE lineQueue' = [lineQueue EXCEPT ![i] = Append(@, m)]
        <5>1. p = Append(q, m)
          BY <1>3, <2>1, <3>2, <4>5 DEF LinesInv, LogShape
        <5>2. Has(p, x, k)
          BY <1>2, <1>7, <2>1, <3>2, <5>1, HasAppend
        <5> QED BY <5>2 DEF ComesThrough
      <4> QED BY <1>1, <4>3, <4>4, <4>5
    <3> QED BY <3>1, <3>2
  <2>5. \A k \in Nat : InSink(z, x, k) => writers[LoggerOf(x)] # UnsetField
    BY <2>1 DEF ThreadKept
  <2> QED BY <1>1, <2>4, <2>5 DEF ThreadKept, Follow
<1> QED BY <1>5, <1>6, <1>9, <1>10 DEF QueuedInv

LEMMA QueuedReceive ==
  ASSUME LinesInv, QueuedInv, NEW i \in Loggers, ReceiveBatch(i)
  PROVE  QueuedInv'
<1> DEFINE q == lineQueue[i]
           n == IF Len(q) < BatchCapacity THEN Len(q) ELSE BatchCapacity
           b == SubSeq(q, 1, n)
           r == SubSeq(q, BatchCapacity + 1, Len(q))
<1>0. /\ batch[i] = <<>> /\ q # <<>>
      /\ batch' = [batch EXCEPT ![i] = b] /\ lineQueue' = [lineQueue EXCEPT ![i] = r]
      /\ UNCHANGED <<entryPool, listener, spread, held, count, writers, sinks, dropped>>
  BY DEF ReceiveBatch, Remainder
<1>1. IsSeq(q) /\ Len(q) \in Nat /\ BatchCapacity \in Nat \ {0}
  <2>1. IsSeq(q)
    BY DEF LinesInv, LoggerFine
  <2> QED BY <2>1, AppendFacts, AccessLogAssumption
<1>2. n \in Nat /\ n <= Len(q) /\ n <= BatchCapacity /\ (n = BatchCapacity \/ n = Len(q))
  BY <1>1
<1> HIDE DEF n
<1>3. Len(b) = n /\ \A k \in 1 .. n : b[k] = q[k]
  <2>1. /\ Len(b) = (IF 1 <= n THEN n - 1 + 1 ELSE 0)
        /\ \A k \in 1 .. Len(b) : b[k] = q[k + 1 - 1] /\ k + 1 - 1 \in 1 .. n
    BY <1>1, <1>2, PartFacts
  <2>2. \A k \in 1 .. n : k + 1 - 1 = k
    BY <1>2
  <2>3. Len(b) = n
    BY <1>2, <2>1
  <2> QED BY <2>1, <2>2, <2>3
<1>4. /\ Len(r) = (IF BatchCapacity + 1 <= Len(q) THEN Len(q) - BatchCapacity ELSE 0)
      /\ \A k \in 1 .. Len(r) : r[k] = q[k + BatchCapacity] /\ k + BatchCapacity \in 1 .. Len(q)
  <2>1. BatchCapacity + 1 \in Nat \ {0}
    BY <1>1
  <2>2. /\ Len(r) = (IF BatchCapacity + 1 <= Len(q) THEN Len(q) - (BatchCapacity + 1) + 1 ELSE 0)
        /\ \A k \in 1 .. Len(r) :
            r[k] = q[k + (BatchCapacity + 1) - 1] /\ k + (BatchCapacity + 1) - 1 \in 1 .. Len(q)
    BY <1>1, <2>1, PartFacts
  <2>3. \A k \in 1 .. Len(r) : k + (BatchCapacity + 1) - 1 = k + BatchCapacity
    BY <1>1
  <2>4. Len(q) - (BatchCapacity + 1) + 1 = Len(q) - BatchCapacity
    BY <1>1
  <2> QED BY <2>2, <2>3, <2>4
<1>5. /\ \A x \in Loggers : x # i => lineQueue'[x] = lineQueue[x] /\ batch'[x] = batch[x]
      /\ lineQueue'[i] = r /\ batch'[i] = b
  BY <1>0 DEF LinesInv, LogShape
<1> HIDE DEF q, b, r
<1>6. ASSUME NEW j \in 1 .. Len(q)
      PROVE  (j \in 1 .. n /\ b[j] = q[j]) \/ (j - BatchCapacity \in 1 .. Len(r) /\ r[j - BatchCapacity] = q[j])
  <2>1. CASE j <= n
    BY <1>1, <1>2, <1>3, <2>1
  <2>2. CASE ~(j <= n)
    <3>1. j - BatchCapacity \in 1 .. Len(r) /\ (j - BatchCapacity) + BatchCapacity = j
      BY <1>1, <1>2, <1>4, <2>2
    <3> QED BY <1>4, <3>1
  <2> QED BY <2>1, <2>2
<1>7. \A t, k : Has(q, t, k) <=> Has(b, t, k) \/ Has(r, t, k)
  <2> TAKE t, k
  <2>1. ASSUME Has(q, t, k) PROVE Has(b, t, k) \/ Has(r, t, k)
    <3>1. PICK j \in 1 .. Len(q) : IsLine(q[j]) /\ q[j].thread = t /\ q[j].n = k
      BY <2>1 DEF Has
    <3> QED BY <1>3, <1>6, <3>1 DEF Has
  <2>2. ASSUME Has(b, t, k) PROVE Has(q, t, k)
    <3>1. \A j \in 1 .. n : j \in 1 .. Len(q)
      BY <1>1, <1>2
    <3> QED BY <1>3, <2>2, <3>1 DEF Has
  <2>3. ASSUME Has(r, t, k) PROVE Has(q, t, k)
    BY <1>4, <2>3 DEF Has
  <2> QED BY <2>1, <2>2, <2>3
<1>8. AllStatic(q) => AllStatic(b) /\ AllStatic(r)
  <2>1. \A j \in 1 .. n : j \in 1 .. Len(q)
    BY <1>1, <1>2
  <2> QED BY <1>3, <1>4, <2>1 DEF AllStatic
<1>9. \A t, k : ~Has(batch[i], t, k)
  <2>1. Len(<<>>) = 0
    OBVIOUS
  <2> QED BY <1>0, <2>1 DEF Has
<1>10. SinksShape'
  BY <1>0 DEF QueuedInv, SinksShape
<1>11. entryPool # "off"
  BY <1>0 DEF QueuedInv, PoolOff, q
<1>12. ASSUME Unchanging' PROVE AllStaticNow'
  <2>1. AllStaticNow
    BY <1>0, <1>12 DEF QueuedInv, Unchanging
  <2>2. \A x \in Loggers : AllStatic(lineQueue'[x]) /\ AllStatic(batch'[x])
    BY <1>5, <1>8, <2>1 DEF AllStaticNow, q
  <2> QED BY <1>0, <2>1, <2>2 DEF AllStaticNow
<1>13. ASSUME Unchanging', NEW t \in LogThreads PROVE ThreadKept(t)'
  <2>1. ThreadKept(t) /\ LoggerOf(t) \in Loggers
    BY <1>0, <1>13, LoggersNumbered DEF QueuedInv, Unchanging
  <2>2. \A k : ComesThrough(t, k, sinks[Stdout], batch'[LoggerOf(t)], lineQueue'[LoggerOf(t)])
               <=> ComesThrough(t, k, sinks[Stdout], batch[LoggerOf(t)], lineQueue[LoggerOf(t)])
    <3>1. CASE LoggerOf(t) = i
      BY <1>5, <1>7, <1>9, <3>1 DEF ComesThrough, q
    <3>2. CASE LoggerOf(t) # i
      BY <1>5, <2>1, <3>2
    <3> QED BY <3>1, <3>2
  <2> QED BY <1>0, <2>1, <2>2 DEF ThreadKept, Follow
<1> QED BY <1>0, <1>10, <1>11, <1>12, <1>13 DEF QueuedInv, PoolOff

LEMMA QueuedHandle ==
  ASSUME LinesInv, QueuedInv, NEW i \in Loggers, HandleMessage(i)
  PROVE  QueuedInv'
<1> DEFINE b == batch[i]
           m == Head(b)
           r == Tail(b)
<1>0. /\ b # <<>> /\ batch' = [batch EXCEPT ![i] = r]
      /\ \/ m.what = "configure" /\ writers' = [writers EXCEPT ![i] = m.conf] /\ UNCHANGED sinks
         \/ IsLine(m) /\ sinks' = Written(i, m) /\ UNCHANGED writers
      /\ UNCHANGED <<entryPool, listener, spread, held, count, lineQueue, dropped>>
  BY DEF HandleMessage, IsLine
<1>1. LoggerFine(i) /\ IsSeq(b) /\ IsSeq(sinks[Stdout]) /\ SinkFine(Stdout)
  BY DEF LinesInv, LoggerFine, SinkFine
<1>2. \A t, k : Has(b, t, k) <=> Has(r, t, k) \/ (IsLine(m) /\ m.thread = t /\ m.n = k)
  BY <1>0, <1>1, HasTail
<1>3. AllStatic(b) => AllStatic(r) /\ m.conf = StaticSinks
  BY <1>0, <1>1, HasTail
<1>4. (\A x \in Loggers : x # i => batch'[x] = batch[x]) /\ batch'[i] = r
  BY <1>0 DEF LinesInv, LogShape
<1>5. m = b[1] /\ 1 \in 1 .. Len(b) /\ Len(b) \in Nat
  BY <1>0, <1>1, TailFacts
<1>6. Increasing(b) /\ Precedes(b, lineQueue[i]) /\ Owned(b, i, count) /\ WrittenBefore(sinks[Stdout], b)
  BY <1>1 DEF LoggerFine, SinkFine
<1>7. count \in [LogThreads -> Nat]
  BY DEF LinesInv, LogShape
<1> HIDE DEF b, m, r
<1>8. SinksShape'
  BY <1>0 DEF QueuedInv, SinksShape
<1>9. entryPool # "off"
  BY <1>0 DEF QueuedInv, PoolOff, b
<1>10. ASSUME Unchanging' PROVE AllStaticNow'
  <2>1. AllStaticNow
    BY <1>0, <1>10 DEF QueuedInv, Unchanging
  <2>2. \A x \in Loggers : AllStatic(batch'[x])
    BY <1>3, <1>4, <2>1 DEF AllStaticNow, b
  <2>3. m.conf = StaticSinks
    BY <1>3, <2>1 DEF AllStaticNow, b
  <2>4. \A x \in Loggers : writers'[x] \in {UnsetField, StaticSinks}
    BY <1>0, <2>1, <2>3 DEF AllStaticNow, QueuedInv, SinksShape
  <2> QED BY <1>0, <2>1, <2>2, <2>4 DEF AllStaticNow
<1>11. ASSUME Unchanging', NEW t \in LogThreads PROVE ThreadKept(t)'
  <2> DEFINE z == sinks[Stdout]
             y == sinks'[Stdout]
             o == batch[LoggerOf(t)]
             p == batch'[LoggerOf(t)]
             q == lineQueue[LoggerOf(t)]
  <2>1. ThreadKept(t) /\ LoggerOf(t) \in Loggers /\ AllStaticNow
    BY <1>0, <1>11, LoggersNumbered DEF QueuedInv, Unchanging
  <2>2. \A k : Has(o, t, k) => Has(p, t, k) \/ (LoggerOf(t) = i /\ IsLine(m) /\ m.thread = t /\ m.n = k)
    BY <1>2, <1>4, <2>1 DEF b
  <2>3. \A k : Has(p, t, k) => Has(o, t, k)
    BY <1>2, <1>4, <2>1 DEF b
  <2>4. writers[LoggerOf(t)] # UnsetField => writers'[LoggerOf(t)] # UnsetField
    BY <1>0, <1>3, <2>1, Different DEF AllStaticNow, QueuedInv, SinksShape, b
  <2>5. y = z \/ (IsLine(m) /\ writers[i] # UnsetField /\ y = Append(z, <<m.thread, m.n>>))
    BY <1>0 DEF Written, LinesInv, LogShape
  <2>6. IsLine(m) => /\ m.thread \in LogThreads /\ m.n \in 1 .. count[m.thread] /\ LoggerOf(m.thread) = i
    BY <1>5, <1>6, LoggersNumbered DEF Owned
  <2>7. ASSUME IsLine(m), writers[i] # UnsetField PROVE y = Append(z, <<m.thread, m.n>>)
    <3>1. writers[i] = StaticSinks /\ m.conf = StaticSinks
      BY <1>3, <2>1, <2>7 DEF AllStaticNow, b
    <3>2. 2 \in DOMAIN StaticSinks /\ StaticSinks[2] = "stdout"
      BY DEF StaticSinks
    <3>3. FileOf(i, "stdout") = Stdout
      BY DEF FileOf
    <3>4. m.what # "configure"
      BY <2>7 DEF IsLine
    <3>5. sinks' = Written(i, m) /\ Stdout \in DOMAIN sinks
      BY <1>0, <3>4 DEF LinesInv, LogShape
    <3> QED BY <2>7, <3>1, <3>2, <3>3, <3>5 DEF Written
  <2> HIDE DEF o, p, q
  <2> HIDE DEF y
  <2>12. y = Append(z, <<m.thread, m.n>>) => \A k : InSink(y, t, k) <=> InSink(z, t, k) \/ (m.thread = t /\ m.n = k)
    BY <1>1, SinkMore
  <2>8. \A k : InSink(z, t, k) => InSink(y, t, k)
    BY <2>5, <2>12
  <2>9. \A k : InSink(y, t, k) => InSink(z, t, k) \/ (IsLine(m) /\ writers[i] # UnsetField /\ m.thread = t /\ m.n = k)
    BY <2>5, <2>12
  <2>10. \A k \in Nat : InSink(y, t, k) => writers'[LoggerOf(t)] # UnsetField
    BY <2>1, <2>4, <2>6, <2>9 DEF ThreadKept
  <2>11. ASSUME NEW n \in 1 .. count[t], NEW k \in 1 .. n - 1, ComesThrough(t, k, y, p, q)
         PROVE  <<t, n>> \in dropped \/ ComesThrough(t, n, y, p, q)
    <3>1. ComesThrough(t, k, z, o, q)
      <4>1. CASE InSink(y, t, k) /\ ~InSink(z, t, k)
        <5>1. IsLine(m) /\ m.thread = t /\ m.n = k /\ LoggerOf(t) = i
          BY <2>6, <2>9, <4>1
        <5>2. Has(o, t, k)
          BY <1>2, <5>1 DEF o, b
        <5> QED BY <5>2 DEF ComesThrough
      <4> QED BY <2>3, <2>11, <4>1 DEF ComesThrough
    <3>2. <<t, n>> \in dropped \/ ComesThrough(t, n, z, o, q)
      BY <2>1, <2>11, <3>1 DEF ThreadKept, Follow, o, q
    <3>3. CASE Has(o, t, n) /\ ~Has(p, t, n)
      <4>1. LoggerOf(t) = i /\ IsLine(m) /\ m.thread = t /\ m.n = n
        BY <2>2, <3>3
      <4>2. CASE writers[i] # UnsetField
        <5>1. InSink(y, t, n)
          BY <2>7, <2>12, <4>1, <4>2
        <5> QED BY <5>1 DEF ComesThrough
      <4>3. CASE writers[i] = UnsetField
        <5>0. k \in Nat /\ n \in Nat /\ k < n
          BY <1>7, <2>11
        <5>1. ~InSink(z, t, k)
          BY <2>1, <4>1, <4>3, <5>0 DEF ThreadKept
        <5>2. ~InSink(y, t, k)
          BY <2>9, <4>3, <5>1
        <5>3. ~Has(p, t, k)
          <6> SUFFICES ASSUME Has(p, t, k) PROVE FALSE
            OBVIOUS
          <6>1. Has(b, t, k)
            BY <2>3, <4>1 DEF o, b
          <6>2. PICK j \in 1 .. Len(b) : IsLine(b[j]) /\ b[j].thread = t /\ b[j].n = k
            BY <6>1 DEF Has
          <6>3. j # 1
            BY <1>5, <4>1, <5>0, <6>2
          <6>4. 1 < j
            BY <1>5, <6>2, <6>3
          <6>5. b[1].n < b[j].n
            BY <1>5, <1>6, <4>1, <6>2, <6>4 DEF Increasing
          <6> QED BY <1>5, <4>1, <5>0, <6>2, <6>5
        <5>4. ~Has(q, t, k)
          <6> SUFFICES ASSUME Has(q, t, k) PROVE FALSE
            OBVIOUS
          <6>1. PICK j \in 1 .. Len(lineQueue[i]) :
                  IsLine(lineQueue[i][j]) /\ lineQueue[i][j].thread = t /\ lineQueue[i][j].n = k
            BY <4>1 DEF Has, q
          <6>2. b[1].n < lineQueue[i][j].n
            BY <1>5, <1>6, <4>1, <6>1 DEF Precedes
          <6> QED BY <1>5, <4>1, <5>0, <6>1, <6>2
        <5> QED BY <2>11, <5>2, <5>3, <5>4 DEF ComesThrough
      <4> QED BY <4>2, <4>3
    <3> QED BY <2>8, <3>2, <3>3 DEF ComesThrough
  <2> QED BY <1>0, <2>10, <2>11 DEF ThreadKept, Follow, y, p, q
<1> QED BY <1>0, <1>8, <1>9, <1>10, <1>11 DEF QueuedInv, PoolOff

LEMMA QueuedStep == LinesInv /\ QueuedInv /\ [AccessLogNext]_accessLogVars => QueuedInv'
<1> SUFFICES ASSUME LinesInv, QueuedInv, [AccessLogNext]_accessLogVars PROVE QueuedInv'
  OBVIOUS
<1>1. CASE FillLine \/ UNCHANGED accessLogVars
  <2>1. UNCHANGED <<entryPool, listener, spread, held, count, lineQueue, batch, writers, sinks, dropped>>
    BY <1>1 DEF FillLine, deliveryVars, accessLogVars
  <2> QED BY <2>1, QueuedElse
<1>2. CASE \E k \in BOOLEAN : StartLoggers(k)
  BY <1>2, QueuedStart
<1>3. CASE PushListener \/ \E s \in {<<"stdout">>, <<>>} : UpdateListener(s)
  BY <1>3, QueuedListener
<1>4. CASE \E k \in {"boot", "xds"} : Broadcast(k)
  BY <1>4, QueuedBroadcast
<1>5. CASE \E t \in LogThreads : BeginLine(t)
  BY <1>5, QueuedBegin
<1>6. CASE \E t \in LogThreads : LogAccess(t)
  BY <1>6, QueuedLog
<1>7. CASE \E i \in Loggers : ReceiveBatch(i)
  BY <1>7, QueuedReceive
<1>8. CASE \E i \in Loggers : HandleMessage(i)
  BY <1>8, QueuedHandle
<1> QED BY <1>1, <1>2, <1>3, <1>4, <1>5, <1>6, <1>7, <1>8 DEF AccessLogNext, DeliverLines

LEMMA QueuedWritten == LinesInv /\ QueuedInv => QueuedIsWritten
<1> SUFFICES ASSUME LinesInv, QueuedInv, listener = StaticSinks,
                    \A i \in Loggers : lineQueue[i] = <<>> /\ batch[i] = <<>>,
                    NEW t \in LogThreads, NEW n \in 1 .. count[t], NEW m \in 1 .. n - 1, Contains(sinks[Stdout], <<t, m>>)
             PROVE  <<t, n>> \in dropped \/ Contains(sinks[Stdout], <<t, n>>)
  BY DEF QueuedIsWritten
<1>1. \A k : Contains(sinks[Stdout], <<t, k>>) <=> InSink(sinks[Stdout], t, k)
  BY DEF Contains, InSink
<1>2. ThreadKept(t) /\ LoggerOf(t) \in Loggers
  BY LoggersNumbered DEF QueuedInv, Unchanging
<1>3. \A k : ~Has(batch[LoggerOf(t)], t, k) /\ ~Has(lineQueue[LoggerOf(t)], t, k)
  <2>1. Len(<<>>) = 0
    OBVIOUS
  <2> QED BY <1>2, <2>1 DEF Has
<1> QED BY <1>1, <1>2, <1>3 DEF ThreadKept, Follow, ComesThrough

(* access_log.rs: lines are complete and in order, and while the sinks of a *)
(* listener stay as configured a line that was queued after one that came  *)
(* through is written once the loggers have nothing left to do, unless a   *)
(* full channel dropped it.                                                *)
THEOREM LogKept == AccessLogSpec => []LinesKept
<1>1. AccessLogInit => EntryInv
  BY DEF AccessLogInit, EntryInv
<1> QED BY <1>1, LinesInitInv, LinesStep, QueuedInit, QueuedStep, QueuedWritten, EntryStep, EntryComplete,
           LinesOrdered, PTL DEF AccessLogSpec, LinesKept

-----------------------------------------------------------------------------
(* The filters together.                                                   *)
LEMMA PartsMove ==
  [FiltersNext]_filtersVars =>
      /\ [WasmNext]_wasmVars /\ [HostCallsNext]_sdk /\ [SharedNext]_sharedVars
      /\ [AccessLogNext]_accessLogVars /\ [MetricsNext]_metricsVars
BY DEF FiltersNext, filtersVars, PluginNext, AdmissionNext, ObserverNext, pluginVars, observerVars

(* wasm/: nothing that a pooled instance keeps of a transaction reaches    *)
(* another one, and no hook of a plugin without on_transaction_complete    *)
(* writes the message of another one; lengths agree with bodies, the SDK   *)
(* reads values whole and batches mutations as it would make them one by   *)
(* one, and no increment of a shared variable is lost, for every size of   *)
(* everything.                                                             *)
THEOREM PluginsAreKept == FiltersSpec => []PluginsKept
<1>1. FiltersInit => WasmInv /\ HostCallsInv /\ SharedInv
  BY WasmInitInv, HostCallsInitInv, SharedInitInv DEF FiltersInit
<1>2. WasmInv /\ HostCallsInv /\ SharedInv => PluginsKept
  BY WasmHolds DEF HostCallsInv, SharedInv, PluginsKept
<1> QED BY <1>1, <1>2, PartsMove, WasmInvStep, HostCallsStep, SharedStepKeeps, PTL DEF FiltersSpec

(* access_log.rs, arion-format and sharded.rs: what is observed is what     *)
(* happened, for every number of threads, loggers and bounds.              *)
THEOREM ObservedIsWhatHappened == FiltersSpec => []ObservationsKept
<1>1. FiltersInit => LinesInv /\ EntryInv /\ QueuedInv /\ MetricsInv /\ HistogramInv
  BY LinesInitInv, EntryInitInv, QueuedInit, MetricsInitInv, HistogramInit DEF FiltersInit
<1>2. LinesInv /\ EntryInv /\ QueuedInv /\ MetricsInv /\ HistogramInv => ObservationsKept
  BY LinesOrdered, EntryComplete, QueuedWritten, MetricsHold, CountsAreRanks DEF ObservationsKept, LinesKept, MetricsAccounted
<1> QED BY <1>1, <1>2, PartsMove, LinesStep, EntryStep, QueuedStep, MetricsStep, HistogramStep, PTL DEF FiltersSpec
=============================================================================
