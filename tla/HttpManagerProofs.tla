------------------------- MODULE HttpManagerProofs -------------------------
(***************************************************************************)
(* Proofs about requests in the HTTP connection manager: the contexts of   *)
(* transactions that they share (Transactions), for every set of requests, *)
(* of attempts and of contexts that are kept in the pool; the attempts     *)
(* that one request makes on its way upstream (UpstreamRequests), for      *)
(* every policy and timeout; and the way of a request and of its response  *)
(* through the filters (HttpPipeline), for every chain and every sequence  *)
(* of route updates; and about the listeners that hand them over           *)
(* (Listeners), for every number of runtimes, generations and updates, all *)
(* listener configurations and every broadcast capacity.                   *)
(***************************************************************************)
EXTENDS Transactions, UpstreamRequests, HttpPipeline, Listeners, FiniteSetTheorems,
        SequenceTheorems, TLAPS

-----------------------------------------------------------------------------
(* Transactions.                                                           *)

TxShape ==
    /\ at \in [TxRequests -> {"idle", "acquired", "early", "forwarded", "replaying",
                              "answered", "failed"}]
    /\ ctxOf \in [TxRequests -> TxRequests \cup {None}]
    /\ handles \in [TxRequests -> SUBSET {"handler", "request", "response", "flush"}]
    /\ copies \in [TxRequests -> SUBSET (Tries \cup {"own", "body"})]
    /\ txPhase \in [TxRequests -> Nat]
    /\ stored \in [TxRequests -> Kinds \cup {None}]
    /\ pool \subseteq TxRequests
    /\ queue \subseteq TxRequests \X Kinds
    /\ called \in [TxRequests -> SUBSET Kinds]
    /\ logged \in [TxRequests -> {<<>>, <<Kinds>>}]

(* A context comes into being with the request it is named for, so a request *)
(* that finds the pool empty makes one that nobody has.                      *)
ContextsExist ==
    /\ \A r \in TxRequests : handles[r] # {} =>
          ctxOf[r] \in TxRequests /\ at[ctxOf[r]] # "idle"
    /\ \A c \in pool : at[c] # "idle"

(* Where a request stands, which handles it has and who holds its body: the *)
(* callback of the request body is alive while anyone holds the body, and   *)
(* has not run.                                                             *)
Stage(r) ==
    /\ at[r] = "idle" => handles[r] = {}
    /\ at[r] \in {"idle", "acquired"} => called[r] = {} /\ copies[r] = {}
    /\ at[r] = "acquired" => handles[r] = {"handler"}
    /\ at[r] \in {"forwarded", "replaying"} => "handler" \in handles[r]
    /\ at[r] = "replaying" => "own" \in copies[r]
    /\ copies[r] # {} => "request" \in handles[r] /\ "request" \notin called[r]

(* The context of a transaction knows how many of its callbacks have run,   *)
(* and after the first one which it was.                                    *)
ContextCounts(r) ==
    handles[r] # {} =>
        /\ called[r] = {} => txPhase[ctxOf[r]] = 0
        /\ \A k \in Kinds : called[r] = {k} => txPhase[ctxOf[r]] > 0 /\ stored[ctxOf[r]] = k

(* A flush that is queued has its transaction's context and both bodies; a  *)
(* transaction is not flushed before, and not queued again after.           *)
FlushQueued(r) ==
    /\ called[r] # Kinds => logged[r] = <<>>
    /\ \A k \in Kinds : <<r, k>> \in queue =>
          /\ "flush" \in handles[r]
          /\ called[r] = Kinds
          /\ logged[r] = <<>>
          /\ {k, stored[ctxOf[r]]} = Kinds
          /\ \A l \in Kinds : <<r, l>> \in queue => l = k

TxInv ==
    /\ TxShape
    /\ ContextsExist
    /\ ContextExclusive
    /\ \A r \in TxRequests : Stage(r) /\ ContextCounts(r) /\ FlushQueued(r)

-----------------------------------------------------------------------------

(* A step of r that writes, of the contexts, at most c. *)
StepOf(r, c) ==
    /\ \A s \in TxRequests \ {r} :
          /\ at'[s] = at[s] /\ ctxOf'[s] = ctxOf[s] /\ handles'[s] = handles[s]
          /\ copies'[s] = copies[s] /\ called'[s] = called[s] /\ logged'[s] = logged[s]
          /\ \A k \in Kinds : <<s, k>> \in queue' <=> <<s, k>> \in queue
    /\ \A d \in TxRequests \ {c} : txPhase'[d] = txPhase[d] /\ stored'[d] = stored[d]

(* It leaves the other transactions what they were, when c is no other's. *)
LEMMA OthersStay ==
  ASSUME TxInv, NEW r \in TxRequests, NEW c, StepOf(r, c),
         \A s \in TxRequests \ {r} : handles[s] # {} => ctxOf[s] # c,
         NEW s \in TxRequests \ {r}
  PROVE  Stage(s)' /\ ContextCounts(s)' /\ FlushQueued(s)'
<1>0. /\ at'[s] = at[s] /\ ctxOf'[s] = ctxOf[s] /\ handles'[s] = handles[s]
      /\ copies'[s] = copies[s] /\ called'[s] = called[s] /\ logged'[s] = logged[s]
      /\ \A k \in Kinds : <<s, k>> \in queue' <=> <<s, k>> \in queue
  BY DEF StepOf
<1>1. handles[s] # {} => txPhase'[ctxOf[s]] = txPhase[ctxOf[s]] /\ stored'[ctxOf[s]] = stored[ctxOf[s]]
  BY DEF StepOf, TxInv, ContextsExist
<1>2. Stage(s) /\ ContextCounts(s) /\ FlushQueued(s)
  BY DEF TxInv
<1>3. Stage(s)'
  BY <1>0, <1>2 DEF Stage
<1>4. ContextCounts(s)'
  BY <1>0, <1>1, <1>2 DEF ContextCounts
<1>5. FlushQueued(s)'
  <2>1. ASSUME NEW k \in Kinds, <<s, k>> \in queue PROVE handles[s] # {}
    BY <2>1, <1>2 DEF FlushQueued
  <2> QED BY <1>0, <1>1, <1>2, <2>1 DEF FlushQueued
<1> QED BY <1>3, <1>4, <1>5

(* A step of r that has a context and keeps it: the context goes to the pool *)
(* at most with the last handle.                                             *)
LEMMA ContextsStay ==
  ASSUME TxInv, NEW r \in TxRequests, handles[r] # {},
         \A s \in TxRequests \ {r} : handles'[s] = handles[s],
         ctxOf' = ctxOf,
         \A s \in TxRequests : at'[s] = "idle" => at[s] = "idle",
         pool' = pool \/ (handles'[r] = {} /\ pool' = pool \cup {ctxOf[r]})
  PROVE  ContextsExist' /\ ContextExclusive'
<1>1. /\ \A s \in TxRequests : handles'[s] # {} => handles[s] # {}
      /\ \A s \in TxRequests : handles[s] # {} =>
            ctxOf[s] \in TxRequests /\ at[ctxOf[s]] # "idle" /\ ctxOf[s] \notin pool
      /\ \A s, t \in TxRequests : s # t /\ handles[s] # {} /\ handles[t] # {} => ctxOf[s] # ctxOf[t]
      /\ \A c \in pool : c \in TxRequests /\ at[c] # "idle"
  BY DEF TxInv, ContextsExist, ContextExclusive, TxShape
<1>2. ContextsExist'
  BY <1>1 DEF ContextsExist
<1>3. ContextExclusive'
  <2>1. \A s, t \in TxRequests : s # t /\ handles'[s] # {} /\ handles'[t] # {} => ctxOf[s] # ctxOf[t]
    BY <1>1
  <2>2. \A s \in TxRequests : handles'[s] # {} => ctxOf[s] \notin pool'
    BY <1>1
  <2> QED BY <2>1, <2>2 DEF ContextExclusive
<1> QED BY <1>2, <1>3

(* SetHandles, as a step of r. *)
LEMMA HandlesSet ==
  ASSUME TxInv, NEW r \in TxRequests, NEW hs, SetHandles(r, hs),
         hs \subseteq {"handler", "request", "response", "flush"}, handles[r] # {}
  PROVE  /\ handles'[r] = hs
         /\ \A s \in TxRequests \ {r} : handles'[s] = handles[s]
         /\ handles' \in [TxRequests -> SUBSET {"handler", "request", "response", "flush"}]
         /\ pool' = pool \/ (handles'[r] = {} /\ pool' = pool \cup {ctxOf[r]})
         /\ pool' \subseteq TxRequests
  BY DEF TxInv, TxShape, SetHandles, ContextsExist

(* The invariant, from what a step of r does to r and to its context. *)
LEMMA StepKeeps ==
  ASSUME TxInv, NEW r \in TxRequests, handles[r] # {}, StepOf(r, ctxOf[r]),
         TxShape', Stage(r)', ContextCounts(r)', FlushQueued(r)',
         ctxOf' = ctxOf, at'[r] # "idle",
         pool' = pool \/ (handles'[r] = {} /\ pool' = pool \cup {ctxOf[r]})
  PROVE  TxInv'
<1>1. \A s \in TxRequests \ {r} : handles[s] # {} => ctxOf[s] # ctxOf[r]
  BY DEF TxInv, ContextExclusive
<1>2. \A s \in TxRequests : Stage(s)' /\ ContextCounts(s)' /\ FlushQueued(s)'
  <2>1. ASSUME NEW s \in TxRequests \ {r} PROVE Stage(s)' /\ ContextCounts(s)' /\ FlushQueued(s)'
    BY <1>1, <2>1, OthersStay
  <2> QED BY <2>1
<1>3. ContextsExist' /\ ContextExclusive'
  <2>1. \A s \in TxRequests \ {r} : handles'[s] = handles[s] /\ at'[s] = at[s]
    BY DEF StepOf
  <2> QED BY <2>1, ContextsStay
<1> QED BY <1>2, <1>3 DEF TxInv

(* A new transaction: the context it is given is no other's, and is reset. *)
LEMMA AcquireStep ==
  ASSUME TxInv, NEW r \in TxRequests, Acquire(r)
  PROVE  TxInv'
<1>1. PICK c \in IF pool = {} THEN {r} ELSE pool :
        /\ ctxOf' = [ctxOf EXCEPT ![r] = c]
        /\ pool' = pool \ {c}
        /\ txPhase' = [txPhase EXCEPT ![c] = 0]
        /\ stored' = [stored EXCEPT ![c] = None]
  BY DEF Acquire
<1>2. /\ at[r] = "idle"
      /\ handles' = [handles EXCEPT ![r] = {"handler"}]
      /\ at' = [at EXCEPT ![r] = "acquired"]
      /\ UNCHANGED <<copies, queue, called, logged>>
  BY DEF Acquire, bodyVars, queueVars
<1>3. c \in TxRequests /\ (c # r => at[c] # "idle")
  BY <1>1 DEF TxInv, TxShape, ContextsExist
<1>4. \A s \in TxRequests \ {r} : handles[s] # {} => ctxOf[s] # c
  <2> SUFFICES ASSUME NEW s \in TxRequests \ {r}, handles[s] # {}, ctxOf[s] = c PROVE FALSE
    OBVIOUS
  <2>1. c \notin pool /\ at[c] # "idle"
    BY DEF TxInv, ContextExclusive, ContextsExist
  <2> QED BY <2>1, <1>1, <1>2
<1>5. StepOf(r, c)
  BY <1>1, <1>2, <1>3 DEF StepOf, TxInv, TxShape
<1>6. TxShape'
  BY <1>1, <1>2, <1>3 DEF TxInv, TxShape
<1>7. \A s \in TxRequests : Stage(s)' /\ ContextCounts(s)' /\ FlushQueued(s)'
  <2>1. ASSUME NEW s \in TxRequests \ {r} PROVE Stage(s)' /\ ContextCounts(s)' /\ FlushQueued(s)'
    BY <1>4, <1>5, <2>1, OthersStay
  <2>2. /\ at'[r] = "acquired" /\ handles'[r] = {"handler"} /\ ctxOf'[r] = c
        /\ copies'[r] = copies[r] /\ called'[r] = called[r] /\ logged'[r] = logged[r]
        /\ txPhase'[c] = 0
    BY <1>1, <1>2, <1>3 DEF TxInv, TxShape
  <2>3. Stage(r) /\ FlushQueued(r) /\ called[r] = {} /\ copies[r] = {}
    BY <1>2 DEF TxInv, Stage
  <2>4. Stage(r)'
    BY <2>2, <2>3 DEF Stage
  <2>5. ContextCounts(r)'
    BY <2>2, <2>3 DEF ContextCounts
  <2>6. FlushQueued(r)'
    <3>1. \A k \in Kinds : <<r, k>> \notin queue
      BY <2>3 DEF FlushQueued, Kinds
    <3>2. logged[r] = <<>>
      BY <2>3 DEF FlushQueued, Kinds
    <3> QED BY <3>1, <3>2, <2>2, <1>2 DEF FlushQueued
  <2> QED BY <2>1, <2>4, <2>5, <2>6
<1>8. ContextsExist'
  <2>1. ASSUME NEW s \in TxRequests, handles'[s] # {}
        PROVE  ctxOf'[s] \in TxRequests /\ at'[ctxOf'[s]] # "idle"
    <3>1. CASE s = r
      BY <3>1, <1>1, <1>2, <1>3 DEF TxInv, TxShape
    <3>2. CASE s # r
      <4>1. handles[s] # {} /\ ctxOf'[s] = ctxOf[s]
        BY <3>2, <2>1, <1>1, <1>2 DEF TxInv, TxShape
      <4>2. ctxOf[s] \in TxRequests /\ at[ctxOf[s]] # "idle"
        BY <4>1 DEF TxInv, ContextsExist
      <4> QED BY <4>1, <4>2, <1>2 DEF TxInv, TxShape
    <3> QED BY <3>1, <3>2
  <2>2. \A d \in pool' : at'[d] # "idle"
    BY <1>1, <1>2 DEF TxInv, TxShape, ContextsExist
  <2> QED BY <2>1, <2>2 DEF ContextsExist
<1>9. ContextExclusive'
  <2>1. \A s \in TxRequests \ {r} : handles'[s] = handles[s] /\ ctxOf'[s] = ctxOf[s]
    BY <1>1, <1>2 DEF TxInv, TxShape
  <2>2. ctxOf'[r] = c
    BY <1>1 DEF TxInv, TxShape
  <2>3. \A s, t \in TxRequests : s # t /\ handles'[s] # {} /\ handles'[t] # {} => ctxOf'[s] # ctxOf'[t]
    BY <1>4, <2>1, <2>2 DEF TxInv, ContextExclusive
  <2>4. \A s \in TxRequests : handles'[s] # {} => ctxOf'[s] \notin pool'
    BY <1>1, <2>1, <2>2 DEF TxInv, ContextExclusive
  <2> QED BY <2>3, <2>4 DEF ContextExclusive
<1> QED BY <1>6, <1>7, <1>8, <1>9 DEF TxInv

(* A step of r that runs no callback. *)
LEMMA SilentStep ==
  ASSUME TxInv, NEW r \in TxRequests, handles[r] # {}, at[r] # "idle",
         NEW hs, hs \subseteq {"handler", "request", "response", "flush"},
         "flush" \in handles[r] => "flush" \in hs,
         SetHandles(r, hs) \/ (hs = handles[r] /\ UNCHANGED <<handles, pool>>),
         NEW to \in {"early", "forwarded", "replaying", "answered", "failed"},
         at' = [at EXCEPT ![r] = to],
         NEW cs \in SUBSET (Tries \cup {"own", "body"}),
         copies' = [copies EXCEPT ![r] = cs],
         to \in {"forwarded", "replaying"} => "handler" \in hs,
         to = "replaying" => "own" \in cs,
         cs # {} => "request" \in hs /\ "request" \notin called[r],
         UNCHANGED <<ctxOf, ctxVars, queue, called, logged>>
  PROVE  TxInv'
<1>1. /\ handles'[r] = hs
      /\ \A s \in TxRequests \ {r} : handles'[s] = handles[s]
      /\ handles' \in [TxRequests -> SUBSET {"handler", "request", "response", "flush"}]
      /\ pool' = pool \/ (handles'[r] = {} /\ pool' = pool \cup {ctxOf[r]})
      /\ pool' \subseteq TxRequests
  <2>1. CASE SetHandles(r, hs)
    BY <2>1, HandlesSet
  <2>2. CASE hs = handles[r] /\ UNCHANGED <<handles, pool>>
    BY <2>2 DEF TxInv, TxShape
  <2> QED BY <2>1, <2>2
<1>2. /\ at'[r] = to /\ copies'[r] = cs
      /\ txPhase' = txPhase /\ stored' = stored
      /\ \A s \in TxRequests \ {r} : at'[s] = at[s] /\ copies'[s] = copies[s]
  BY DEF TxInv, TxShape, ctxVars
<1>3. TxShape'
  BY <1>1, <1>2 DEF TxInv, TxShape
<1>4. StepOf(r, ctxOf[r])
  BY <1>1, <1>2 DEF StepOf
<1>5. Stage(r) /\ ContextCounts(r) /\ FlushQueued(r)
  BY DEF TxInv
<1>6. Stage(r)'
  BY <1>1, <1>2 DEF Stage
<1>7. ContextCounts(r)'
  BY <1>2, <1>5 DEF ContextCounts
<1>8. FlushQueued(r)'
  BY <1>1, <1>2, <1>5 DEF FlushQueued
<1> QED BY <1>1, <1>2, <1>3, <1>4, <1>6, <1>7, <1>8, StepKeeps

(* The callback of a body: the first one of a transaction leaves its bytes,  *)
(* the second queues the flush, and no body's callback runs twice.           *)
LEMMA CallbackStep ==
  ASSUME TxInv, NEW r \in TxRequests, NEW kind \in Kinds, Callback(r, kind, {kind}),
         kind \in handles[r], kind \notin called[r], at[r] # "idle",
         UNCHANGED <<at, ctxOf, logged>>,
         NEW cs \in SUBSET (Tries \cup {"own", "body"}),
         copies' = [copies EXCEPT ![r] = cs],
         cs # {} => cs = copies[r] /\ kind # "request",
         cs = {} => at[r] # "replaying"
  PROVE  TxInv'
<1> DEFINE c == ctxOf[r]
           hs == IF IsComplete(c) THEN (handles[r] \ {kind}) \cup {"flush"}
                 ELSE handles[r] \ {kind}
<1>1. /\ txPhase' = [txPhase EXCEPT ![c] = @ + Bumps]
      /\ called' = [called EXCEPT ![r] = @ \cup {kind}]
      /\ IsComplete(c) => queue' = queue \cup {<<r, kind>>} /\ stored' = stored
      /\ ~IsComplete(c) => queue' = queue /\ stored' = [stored EXCEPT ![c] = kind]
  BY DEF Callback
<1>2. SetHandles(r, hs)
  BY DEF Callback
<1>3. hs \subseteq {"handler", "request", "response", "flush"}
  BY DEF TxInv, TxShape
<1>4. c \in TxRequests /\ Bumps \in {1, 2} /\ kind \in {"request", "response"}
  BY DEF TxInv, ContextsExist, Bumps, Kinds
<1>5. Stage(r) /\ ContextCounts(r) /\ FlushQueued(r) /\ txPhase[c] \in Nat
  BY <1>4 DEF TxInv, TxShape
<1>5a. called[r] \subseteq Kinds /\ handles[r] # {}
  BY DEF TxInv, TxShape
<1> HIDE DEF hs
<1>6. /\ handles'[r] = hs
      /\ \A s \in TxRequests \ {r} : handles'[s] = handles[s]
      /\ handles' \in [TxRequests -> SUBSET {"handler", "request", "response", "flush"}]
      /\ pool' = pool \/ (handles'[r] = {} /\ pool' = pool \cup {ctxOf[r]})
      /\ pool' \subseteq TxRequests
  BY <1>2, <1>3, <1>5a, HandlesSet
<1>7. /\ called'[r] = called[r] \cup {kind}
      /\ \A s \in TxRequests \ {r} : called'[s] = called[s]
      /\ copies'[r] = cs
      /\ \A s \in TxRequests \ {r} : copies'[s] = copies[s]
      /\ txPhase'[c] = txPhase[c] + Bumps
      /\ \A d \in TxRequests \ {c} : txPhase'[d] = txPhase[d]
  BY <1>1, <1>4 DEF TxInv, TxShape
<1>8. IsComplete(c) <=> called[r] # {}
  <2>1. CASE called[r] = {}
    BY <2>1, <1>5, <1>5a DEF ContextCounts, IsComplete
  <2>2. CASE called[r] # {}
    <3>1. PICK k \in Kinds : called[r] = {k}
      BY <2>2, <1>4, <1>5a DEF Kinds
    <3> QED BY <3>1, <1>5, <1>5a DEF ContextCounts, IsComplete
  <2> QED BY <2>1, <2>2
<1>9. TxShape'
  <2>1. /\ txPhase' \in [TxRequests -> Nat]
        /\ called' \in [TxRequests -> SUBSET Kinds]
        /\ copies' \in [TxRequests -> SUBSET (Tries \cup {"own", "body"})]
    BY <1>1, <1>4 DEF TxInv, TxShape
  <2>2. stored' \in [TxRequests -> Kinds \cup {None}] /\ queue' \subseteq TxRequests \X Kinds
    BY <1>1, <1>4 DEF TxInv, TxShape
  <2> QED BY <2>1, <2>2, <1>6 DEF TxInv, TxShape
<1>10. StepOf(r, c)
  <2>1. \A s \in TxRequests \ {r}, k \in Kinds : <<s, k>> \in queue' <=> <<s, k>> \in queue
    BY <1>1
  <2>2. \A d \in TxRequests \ {c} : stored'[d] = stored[d]
    BY <1>1 DEF TxInv, TxShape
  <2> QED BY <2>1, <2>2, <1>6, <1>7 DEF StepOf
<1>11. Stage(r)'
  <2>1. "handler" \in handles[r] => "handler" \in hs
    BY <1>4 DEF hs
  <2>2. kind # "request" /\ "request" \in handles[r] => "request" \in hs
    BY DEF hs
  <2>3. at[r] # "acquired" /\ (at[r] = "replaying" => cs = copies[r])
    BY <1>4, <1>5 DEF TxInv, TxShape, Stage
  <2> QED BY <2>1, <2>2, <2>3, <1>5, <1>6, <1>7 DEF Stage
<1>12. CASE called[r] = {}
  <2>1. stored'[c] = kind
    BY <1>1, <1>8, <1>12, <1>4 DEF TxInv, TxShape
  <2>2. called'[r] = {kind} /\ txPhase'[c] > 0 /\ ctxOf'[r] = c
    BY <1>5, <1>7, <1>4, <1>12
  <2>3. ContextCounts(r)'
    BY <2>1, <2>2 DEF ContextCounts
  <2>4. \A k \in Kinds : <<r, k>> \notin queue
    BY <1>5, <1>12 DEF FlushQueued, Kinds
  <2>5. logged[r] = <<>>
    BY <1>5, <1>12 DEF FlushQueued, Kinds
  <2>6. FlushQueued(r)'
    BY <2>4, <2>5, <1>1, <1>8, <1>12 DEF FlushQueued
  <2> QED BY <2>3, <2>6, <1>5a, <1>6, <1>9, <1>10, <1>11, StepKeeps
<1>13. CASE called[r] # {}
  <2>1. PICK k \in Kinds : called[r] = {k} /\ k # kind
    BY <1>13, <1>4, <1>5a DEF Kinds
  <2>2. stored'[c] = k /\ stored[c] = k /\ {kind, k} = Kinds
    BY <2>1, <1>1, <1>4, <1>5, <1>5a, <1>8, <1>13 DEF ContextCounts, Kinds
  <2>3. called'[r] = Kinds /\ ctxOf'[r] = c
    BY <2>1, <2>2, <1>7
  <2>4. ContextCounts(r)'
    BY <2>3 DEF ContextCounts, Kinds
  <2>5. called[r] # Kinds
    BY <2>1, <2>2
  <2>6. (\A l \in Kinds : <<r, l>> \notin queue) /\ logged[r] = <<>>
    BY <2>5, <1>5 DEF FlushQueued
  <2>7. "flush" \in handles'[r]
    BY <1>6, <1>8, <1>13 DEF hs
  <2>8. \A l \in Kinds : <<r, l>> \in queue' => l = kind
    BY <2>6, <1>1, <1>8, <1>13
  <2>9. FlushQueued(r)'
    BY <2>2, <2>3, <2>6, <2>7, <2>8 DEF FlushQueued
  <2> QED BY <2>4, <2>9, <1>5a, <1>6, <1>9, <1>10, <1>11, StepKeeps
<1> QED BY <1>12, <1>13

(* A drain: every queued flush runs once, with the bytes its own transaction *)
(* left, and the contexts of those it ends may go to the pool.               *)
LEMMA DrainStep ==
  ASSUME TxInv, Drain
  PROVE  TxInv'
<1> DEFINE flushed == {q[1] : q \in queue}
<1>1. /\ queue' = {}
      /\ logged' = [r \in TxRequests |-> IF r \in flushed
                       THEN <<{q[2] : q \in {x \in queue : x[1] = r}} \cup {stored[ctxOf[r]]}>> \o logged[r]
                       ELSE logged[r]]
      /\ handles' = [r \in TxRequests |-> IF r \in flushed THEN handles[r] \ {"flush"} ELSE handles[r]]
      /\ UNCHANGED <<at, ctxOf, txPhase, stored, copies, called>>
  BY DEF Drain, ctxVars, bodyVars
<1>2. PICK kept \in SUBSET {ctxOf[r] : r \in {x \in flushed : handles[x] = {"flush"}}} :
        pool' = pool \cup kept
  BY DEF Drain
<1>3. ASSUME NEW r \in flushed
      PROVE  \E k \in Kinds : r \in TxRequests /\ <<r, k>> \in queue
  <2>1. PICK q \in queue : r = q[1]
    BY <1>3
  <2>2. q[1] \in TxRequests /\ q[2] \in Kinds /\ q = <<q[1], q[2]>>
    BY DEF TxInv, TxShape
  <2> QED BY <2>1, <2>2
<1>4. ASSUME NEW r \in TxRequests, r \notin flushed, NEW k \in Kinds
      PROVE  <<r, k>> \notin queue
  <2> SUFFICES ASSUME <<r, k>> \in queue PROVE FALSE
    OBVIOUS
  <2>1. <<r, k>>[1] \in flushed
    OBVIOUS
  <2> QED BY <2>1, <1>4
<1>5. ASSUME NEW r \in flushed
      PROVE  /\ r \in TxRequests /\ called[r] = Kinds /\ "flush" \in handles[r]
             /\ logged'[r] = <<Kinds>>
  <2>1. PICK k \in Kinds : r \in TxRequests /\ <<r, k>> \in queue
    BY <1>3, <1>5
  <2>2. /\ "flush" \in handles[r] /\ called[r] = Kinds /\ logged[r] = <<>>
        /\ {k, stored[ctxOf[r]]} = Kinds
        /\ \A l \in Kinds : <<r, l>> \in queue => l = k
    BY <2>1 DEF TxInv, FlushQueued
  <2>3. {q[2] : q \in {x \in queue : x[1] = r}} = {k}
    <3>1. ASSUME NEW q \in queue, q[1] = r PROVE q[2] = k
      <4>1. q = <<q[1], q[2]>> /\ q[2] \in Kinds
        BY DEF TxInv, TxShape
      <4> QED BY <4>1, <3>1, <2>2
    <3>2. <<r, k>>[1] = r /\ <<r, k>>[2] = k
      OBVIOUS
    <3> QED BY <3>1, <3>2, <2>1
  <2>4. logged'[r] = <<{k} \cup {stored[ctxOf[r]]}>> \o <<>>
    BY <2>1, <2>2, <2>3, <1>1
  <2>5. {k} \cup {stored[ctxOf[r]]} = Kinds
    BY <2>2
  <2>6. <<Kinds>> \o <<>> = <<Kinds>>
    OBVIOUS
  <2> QED BY <2>1, <2>2, <2>4, <2>5, <2>6
<1> HIDE DEF flushed
<1>6. \A r \in TxRequests : /\ handles'[r] \subseteq handles[r]
                            /\ handles[r] \ {"flush"} \subseteq handles'[r]
                            /\ r \notin flushed => handles'[r] = handles[r]
                            /\ r \notin flushed => logged'[r] = logged[r]
  BY <1>1
<1>7. ASSUME NEW c \in kept
      PROVE  \E r \in TxRequests : c = ctxOf[r] /\ handles[r] # {} /\ handles'[r] = {}
  <2>1. PICK r \in flushed : c = ctxOf[r] /\ handles[r] = {"flush"}
    BY <1>7
  <2> QED BY <2>1, <1>1, <1>5
<1>8. TxShape'
  <2>1. logged' \in [TxRequests -> {<<>>, <<Kinds>>}]
    BY <1>1, <1>5, <1>6 DEF TxInv, TxShape
  <2>2. handles' \in [TxRequests -> SUBSET {"handler", "request", "response", "flush"}]
    BY <1>1 DEF TxInv, TxShape
  <2>3. pool' \subseteq TxRequests
    BY <1>2, <1>7 DEF TxInv, TxShape, ContextsExist
  <2> QED BY <2>1, <2>2, <2>3, <1>1 DEF TxInv, TxShape
<1>9. ContextsExist'
  BY <1>1, <1>2, <1>6, <1>7 DEF TxInv, ContextsExist
<1>10. ContextExclusive'
  <2>1. \A s, t \in TxRequests : s # t /\ handles'[s] # {} /\ handles'[t] # {} => ctxOf'[s] # ctxOf'[t]
    BY <1>1, <1>6 DEF TxInv, ContextExclusive
  <2>2. ASSUME NEW s \in TxRequests, handles'[s] # {} PROVE ctxOf[s] \notin pool'
    <3>1. ctxOf[s] \notin pool
      BY <2>2, <1>6 DEF TxInv, ContextExclusive
    <3>2. ctxOf[s] \notin kept
      BY <2>2, <1>6, <1>7 DEF TxInv, ContextExclusive
    <3> QED BY <3>1, <3>2, <1>2
  <2> QED BY <2>1, <2>2, <1>1 DEF ContextExclusive
<1>11. ASSUME NEW r \in TxRequests PROVE Stage(r)' /\ ContextCounts(r)' /\ FlushQueued(r)'
  <2>1. Stage(r) /\ ContextCounts(r) /\ FlushQueued(r)
    BY DEF TxInv
  <2>2. Stage(r)'
    BY <2>1, <1>1, <1>6 DEF Stage
  <2>3. ContextCounts(r)'
    BY <2>1, <1>1, <1>6 DEF ContextCounts
  <2>4. FlushQueued(r)'
    <3>1. called[r] # Kinds => logged'[r] = <<>>
      BY <2>1, <1>5, <1>6 DEF FlushQueued
    <3> QED BY <3>1, <1>1 DEF FlushQueued
  <2> QED BY <2>2, <2>3, <2>4
<1> QED BY <1>8, <1>9, <1>10, <1>11 DEF TxInv

(* The invariant says nothing of the other variables. *)
LEMMA Untouched ==
  ASSUME TxInv,
         UNCHANGED <<at, ctxOf, handles, copies, txPhase, stored, pool, queue, called, logged>>
  PROVE  TxInv'
<1>1. TxShape' /\ ContextsExist' /\ ContextExclusive'
  BY DEF TxInv, TxShape, ContextsExist, ContextExclusive
<1>2. ASSUME NEW r \in TxRequests PROVE Stage(r)' /\ ContextCounts(r)' /\ FlushQueued(r)'
  BY DEF TxInv, Stage, ContextCounts, FlushQueued
<1> QED BY <1>1, <1>2 DEF TxInv

(* The invariant of the transactions is inductive. *)
LEMMA TxInvariant == TxSpec => []TxInv
<1>1. TxInit => TxInv
  <2> SUFFICES ASSUME TxInit PROVE TxInv
    OBVIOUS
  <2>1. TxShape
    BY DEF TxInit, TxShape, Contexts
  <2>2. ContextsExist /\ ContextExclusive
    BY DEF TxInit, ContextsExist, ContextExclusive
  <2>3. ASSUME NEW r \in TxRequests PROVE Stage(r) /\ ContextCounts(r) /\ FlushQueued(r)
    BY DEF TxInit, Stage, ContextCounts, FlushQueued
  <2> QED BY <2>1, <2>2, <2>3 DEF TxInv
<1>2. TxInv /\ [TxNext]_txVars => TxInv'
  <2> SUFFICES ASSUME TxInv, [TxNext]_txVars PROVE TxInv'
    OBVIOUS
  <2> DEFINE Hs == {"handler", "request", "response", "flush"}
             Cs == Tries \cup {"own", "body"}
  <2>0. ASSUME NEW r \in TxRequests
        PROVE  /\ at[r] \in {"idle", "acquired", "early", "forwarded", "replaying", "answered", "failed"}
               /\ handles[r] \subseteq Hs /\ copies[r] \subseteq Cs
               /\ at = [at EXCEPT ![r] = at[r]] /\ copies = [copies EXCEPT ![r] = copies[r]]
               /\ Stage(r)
    BY DEF TxInv, TxShape
  <2>1. ASSUME NEW r \in TxRequests, Acquire(r) PROVE TxInv'
    BY <2>1, AcquireStep
  <2>2. ASSUME NEW r \in TxRequests, EarlyFailure(r) PROVE TxInv'
    <3>1. handles[r] = {"handler"} /\ copies[r] = {} /\ called[r] = {}
      BY <2>0, <2>2 DEF EarlyFailure, Stage
    <3>2. /\ at[r] = "acquired" /\ at' = [at EXCEPT ![r] = "early"]
          /\ SetHandles(r, {"response"}) /\ copies' = [copies EXCEPT ![r] = {}]
          /\ UNCHANGED <<ctxOf, ctxVars, queue, called, logged>>
      BY <2>0, <2>2, <3>1 DEF EarlyFailure, bodyVars, queueVars
    <3>3. /\ handles[r] # {} /\ {"response"} \subseteq Hs /\ {} \in SUBSET Cs
          /\ "flush" \notin handles[r]
      BY <3>1
    <3> QED BY <3>2, <3>3, SilentStep
  <2>3. ASSUME NEW r \in TxRequests, ForwardBody(r) PROVE TxInv'
    <3> DEFINE hs == {"handler", "request"}
               cs == {"body"}
    <3>1. handles[r] = {"handler"} /\ copies[r] = {} /\ called[r] = {}
      BY <2>0, <2>3 DEF ForwardBody, Stage
    <3>2. /\ at[r] # "idle" /\ at' = [at EXCEPT ![r] = "forwarded"]
          /\ SetHandles(r, hs) /\ copies' = [copies EXCEPT ![r] = cs]
          /\ UNCHANGED <<ctxOf, ctxVars, queue, called, logged>>
      BY <2>3 DEF ForwardBody, queueVars
    <3>3. /\ handles[r] # {} /\ hs \subseteq Hs /\ cs \in SUBSET Cs
          /\ "flush" \notin handles[r] /\ "request" \notin called[r]
          /\ "handler" \in hs /\ "request" \in hs
      BY <3>1
    <3> HIDE DEF hs, cs
    <3> QED BY <3>2, <3>3, SilentStep
  <2>4. ASSUME NEW r \in TxRequests, CollectForReplay(r) PROVE TxInv'
    <3>1. /\ at[r] = "forwarded" /\ at' = [at EXCEPT ![r] = "replaying"]
          /\ copies[r] = {"body"} /\ copies' = [copies EXCEPT ![r] = {"own"}]
          /\ UNCHANGED <<handles, pool>>
          /\ UNCHANGED <<ctxOf, ctxVars, queue, called, logged>>
      BY <2>4 DEF CollectForReplay, queueVars
    <3>2. "handler" \in handles[r] /\ "request" \in handles[r] /\ "request" \notin called[r]
      BY <2>0, <3>1 DEF Stage
    <3> QED BY <2>0, <3>1, <3>2, SilentStep
  <2>5. ASSUME NEW r \in TxRequests, NEW t \in Tries, Attempt(r, t) PROVE TxInv'
    <3>1. /\ at[r] = "replaying" /\ at' = at
          /\ copies' = [copies EXCEPT ![r] = copies[r] \cup {t}]
          /\ UNCHANGED <<handles, pool>>
          /\ UNCHANGED <<ctxOf, ctxVars, queue, called, logged>>
      BY <2>5 DEF Attempt, queueVars
    <3>2. /\ "handler" \in handles[r] /\ "own" \in copies[r]
          /\ "request" \in handles[r] /\ "request" \notin called[r]
      BY <2>0, <3>1 DEF Stage
    <3>3. copies[r] \cup {t} \in SUBSET Cs
      BY <2>0
    <3> QED BY <2>0, <3>1, <3>2, <3>3, SilentStep
  <2>6. ASSUME NEW r \in TxRequests, NEW ok \in BOOLEAN, Answer(r, ok) PROVE TxInv'
    <3> DEFINE to == IF ok THEN "answered" ELSE "failed"
               gone == {"handler"} \cup (IF copies[r] = {"own"} THEN {"request"} ELSE {})
               hs == (handles[r] \ gone) \cup (IF ok THEN {"response"} ELSE {})
    <3>1. /\ at[r] \in {"forwarded", "replaying"} /\ at' = [at EXCEPT ![r] = to]
          /\ copies' = [copies EXCEPT ![r] = copies[r] \ {"own"}]
          /\ SetHandles(r, hs)
          /\ UNCHANGED <<ctxOf, ctxVars, queue, called, logged>>
      BY <2>6 DEF Answer, LetGo, queueVars
    <3>2. /\ "handler" \in handles[r]
          /\ copies[r] # {} => "request" \in handles[r] /\ "request" \notin called[r]
      BY <2>0, <3>1 DEF Stage
    <3>3. /\ hs \subseteq Hs
          /\ "flush" \in handles[r] => "flush" \in hs
          /\ copies[r] \ {"own"} \in SUBSET Cs
          /\ to \in {"early", "forwarded", "replaying", "answered", "failed"}
          /\ to \notin {"forwarded", "replaying"}
      BY <2>0
    <3>4. copies[r] \ {"own"} # {} => "request" \in hs /\ "request" \notin called[r]
      BY <3>2
    <3> HIDE DEF hs, to
    <3>5. handles[r] # {} /\ at[r] # "idle"
      BY <3>1, <3>2
    <3> QED BY <3>1, <3>3, <3>4, <3>5, SilentStep
  <2>7. ASSUME NEW r \in TxRequests, NEW h \in Tries \cup {"body"}, DropLast(r, h) PROVE TxInv'
    <3>1. /\ copies[r] = {h} /\ copies' = [copies EXCEPT ![r] = {}]
          /\ Callback(r, "request", {"request"})
          /\ UNCHANGED <<at, ctxOf, logged>>
      BY <2>7 DEF DropLast, LetGo
    <3>2. "request" \in handles[r] /\ "request" \notin called[r] /\ at[r] # "idle"
      BY <2>0, <3>1 DEF Stage
    <3>3. at[r] # "replaying"
      BY <2>0, <3>1, TransactionAssumption DEF Stage
    <3>4. "request" \in Kinds
      BY DEF Kinds
    <3> QED BY <3>1, <3>2, <3>3, <3>4, CallbackStep
  <2>8. ASSUME NEW r \in TxRequests, NEW h, LookAtCopies(r, h) PROVE TxInv'
    <3>1. /\ copies[r] # {} /\ copies' = copies /\ at' = at
          /\ UNCHANGED <<handles, pool>>
          /\ UNCHANGED <<ctxOf, ctxVars, queue, called, logged>>
      BY <2>8 DEF LookAtCopies, queueVars
    <3>2. UNCHANGED <<txPhase, stored>>
      BY <3>1 DEF ctxVars
    <3> QED BY <3>1, <3>2, Untouched
  <2>9. ASSUME NEW r \in TxRequests, NEW h \in Tries \cup {"body"}, DropCopy(r, h) PROVE TxInv'
    <3> DEFINE hs == IF copies[r] = {h} THEN handles[r] \ {"request"} ELSE handles[r]
    <3>1. /\ copies' = [copies EXCEPT ![r] = copies[r] \ {h}] /\ at' = at
          /\ SetHandles(r, hs)
          /\ UNCHANGED <<ctxOf, ctxVars, queue, called, logged>>
      BY <2>9 DEF DropCopy, LetGo, queueVars
    <3>2. CASE handles[r] = {}
      <4>1. copies[r] = {}
        BY <2>0, <3>2 DEF Stage
      <4>2. UNCHANGED <<copies, handles, pool>>
        BY <3>1, <3>2, <4>1, <2>0 DEF SetHandles, TxInv, TxShape
      <4>3. UNCHANGED <<txPhase, stored>>
        BY <3>1 DEF ctxVars
      <4> QED BY <3>1, <4>2, <4>3, Untouched
    <3>3. CASE handles[r] # {}
      <4>1. at[r] # "idle" /\ at[r] \in {"acquired", "early", "forwarded", "replaying", "answered", "failed"}
        BY <2>0, <3>3 DEF Stage
      <4>2. CASE copies[r] = {}
        <5>1. copies' = copies
          BY <4>2, <3>1, <2>0
        <5>2. hs = handles[r]
          BY <4>2
        <5>3. handles' = handles /\ pool' = pool
          BY <5>2, <3>1, <3>3 DEF SetHandles, TxInv, TxShape
        <5>4. UNCHANGED <<txPhase, stored>>
          BY <3>1 DEF ctxVars
        <5> QED BY <3>1, <5>1, <5>3, <5>4, Untouched
      <4>3. CASE copies[r] # {}
        <5>1. /\ at[r] # "acquired"
              /\ "request" \in handles[r] /\ "request" \notin called[r]
              /\ at[r] \in {"forwarded", "replaying"} => "handler" \in handles[r]
              /\ at[r] = "replaying" => "own" \in copies[r]
          BY <4>3, <2>0 DEF Stage
        <5>2. /\ hs \subseteq Hs
              /\ "flush" \in handles[r] => "flush" \in hs
              /\ "handler" \in handles[r] => "handler" \in hs
              /\ copies[r] \ {h} # {} => "request" \in hs
              /\ copies[r] \ {h} \in SUBSET Cs
          BY <5>1, <2>0
        <5>3. at[r] = "replaying" => "own" \in copies[r] \ {h}
          BY <5>1, TransactionAssumption
        <5>4. at[r] \in {"early", "forwarded", "replaying", "answered", "failed"}
          BY <4>1, <5>1
        <5>5. at' = [at EXCEPT ![r] = at[r]]
          BY <3>1, <2>0
        <5> HIDE DEF hs
        <5> QED BY <3>1, <3>3, <4>1, <5>1, <5>2, <5>3, <5>4, <5>5, SilentStep
      <4> QED BY <4>2, <4>3
    <3> QED BY <3>2, <3>3
  <2>10. ASSUME NEW r \in TxRequests, DropResponse(r) PROVE TxInv'
    <3>1. /\ "response" \in handles[r] /\ "response" \notin called[r]
          /\ Callback(r, "response", {"response"})
          /\ copies' = [copies EXCEPT ![r] = copies[r]]
          /\ UNCHANGED <<at, ctxOf, logged>>
      BY <2>10, <2>0 DEF DropResponse, bodyVars
    <3>2. at[r] # "idle" /\ (copies[r] = {} => at[r] # "replaying") /\ copies[r] \in SUBSET Cs
      BY <2>0, <3>1 DEF Stage
    <3>3. "response" \in Kinds
      BY DEF Kinds
    <3> QED BY <3>1, <3>2, <3>3, CallbackStep
  <2>11. CASE SeePending
    BY <2>11, Untouched DEF SeePending, ctxVars, bodyVars
  <2>12. CASE Drain
    BY <2>12, DrainStep
  <2>13. CASE UNCHANGED txVars
    BY <2>13, Untouched DEF txVars
  <2> QED
    BY <2>1, <2>2, <2>3, <2>4, <2>5, <2>6, <2>7, <2>8, <2>9, <2>10, <2>11, <2>12, <2>13
       DEF TxNext, TxAnswered, DropsCopy
<1> QED BY <1>1, <1>2, PTL DEF TxSpec

(* The contexts that transactions recycle through the pool: no two live      *)
(* transactions share one, none that is held is in the pool, and a           *)
(* transaction is flushed at most once and then with both of its bodies,     *)
(* whichever of the bodies, the copies of a retry and the drains come first. *)
THEOREM TransactionsStayApart == TxSpec => []TransactionsKept
<1>1. TxInv => TransactionsKept
  BY DEF TxInv, TxShape, TransactionsKept, FlushedOnce
<1> QED BY <1>1, TxInvariant, PTL

-----------------------------------------------------------------------------
(* UpstreamRequests.                                                       *)

Stages == {"idle", "prepare", "send", "collect", "try", "backoff", "map", "answered", "release", "done"}

(* The call with a result of any kind. *)
CallRecords(results) ==
    [at : Stages, policy : Policies, channels : Nat, channel : Nat, timed : BOOLEAN,
     permit : BOOLEAN, started : Nat, requests : Nat, timeouts : Nat, result : results,
     bodyTimeout : Nat, slot : BOOLEAN]

Tried == Outcomes \cup {Failure("PerTryTimeout")}

RqShape ==
    /\ call \in CallRecords({call.result})
    /\ clock \in 0 .. RouteTimeout
    /\ tries \in Seq(Tried)

(* An outcome that the policy lets retry, the attempts that timed out and   *)
(* the retries that were made.                                              *)
Covered(policy, r) ==
    \/ IsError(r) /\ r.err = "PerTryTimeout"
    \/ \E on \in Range(policy.retryOn) : Holds(on, r)
Late(s) == {i \in DOMAIN s : s[i] = Failure("PerTryTimeout")}
Made(s) == IF s = <<>> THEN 0 ELSE Len(s) - 1

(* Before a channel is tried and while the body is collected there is no    *)
(* attempt; inside the loop every attempt was retried and counted.          *)
LoopInv ==
    /\ call.at \in {"idle", "prepare", "release", "collect"} => tries = <<>>
    /\ call.at \in {"idle", "prepare", "release"} => call.bodyTimeout = 0
    /\ call.at = "collect" => call.requests = 0 /\ call.timeouts = 0
    /\ call.at \in {"try", "backoff"} =>
          /\ Len(tries) <= call.policy.retries
          /\ \A i \in 1 .. Len(tries) : Covered(call.policy, tries[i])
          /\ call.requests = Len(tries)
          /\ call.timeouts = Cardinality(Late(tries))

(* The last attempt or the route timeout is what is mapped. *)
ResultOfLoop ==
    call.at = "map" /\ tries # <<>> => call.result \in {Last(tries), Failure("RouteTimeout")}

ChannelsInOrder == call.at \notin {"idle", "release", "done"} => call.channel <= call.channels

RqInv ==
    /\ RqShape /\ LoopInv /\ ResultOfLoop /\ ChannelsInOrder
    /\ RetriesKept

-----------------------------------------------------------------------------

(* The types of what the policy and the timeouts are compared with. *)
LEMMA PolicyTypes ==
  /\ RouteTimeout \in Nat /\ RouteTimeout > 0
  /\ NoPolicy \in Policies /\ NoPolicy.retries = 0 /\ NoPolicy.on = FALSE
  /\ \A p \in Policies : p.retries \in Nat /\ p.on \in BOOLEAN
<1>1. RouteTimeout \in Nat /\ RouteTimeout > 0 /\ MaxRetries \in Nat
  BY RequestAssumption
<1>2. NoPolicy \in Policies /\ NoPolicy.retries = 0 /\ NoPolicy.on = FALSE
  BY DEF Policies, NoPolicy
<1>3. ASSUME NEW p \in Policies PROVE p.retries \in Nat /\ p.on \in BOOLEAN
  <2>1. CASE p = NoPolicy
    BY <2>1 DEF NoPolicy
  <2>2. CASE p \in [retryOn : RetryOns, retries : {MaxRetries}, perTry : BOOLEAN, on : {TRUE}]
    BY <1>1, <2>2
  <2> QED BY <2>1, <2>2 DEF Policies
<1> QED BY <1>1, <1>2, <1>3

(* What is retried is covered by the policy. *)
LEMMA RetriedIsCovered ==
  ASSUME NEW policy, NEW r, ShouldRetry(policy.retryOn, r)
  PROVE  Covered(policy, r)
  BY DEF ShouldRetry, Covered, Range

(* The failure of a timed out attempt is the only outcome of its kind. *)
LEMMA LateOutcome ==
  ASSUME NEW r \in Tried
  PROVE  /\ r = Failure("PerTryTimeout") <=> IsError(r) /\ r.err = "PerTryTimeout"
         /\ r = Failure("PerTryTimeout") => HasCondition(r)
<1>1. CASE r \in Responses
  <2>1. r.code # 0
    BY <1>1 DEF Responses, Response
  <2> QED BY <2>1 DEF IsError, Failure
<1>2. CASE r \in {Failure(e) : e \in UpstreamErrors \ {"PerTryTimeout", "RouteTimeout"}}
             \cup {Failure("NotUpstream")}
  <2>1. PICK e \in (UpstreamErrors \ {"PerTryTimeout", "RouteTimeout"}) \cup {"NotUpstream"} : r = Failure(e)
    BY <1>2
  <2>2. r.err = e /\ e # "PerTryTimeout" /\ Failure("PerTryTimeout").err = "PerTryTimeout"
    BY <2>1 DEF Failure, UpstreamErrors
  <2> QED BY <2>2
<1>3. CASE r = Failure("PerTryTimeout")
  BY <1>3 DEF Failure, IsError, HasCondition, UpstreamErrors
<1> QED BY <1>1, <1>2, <1>3 DEF Tried, Outcomes

(* One more attempt. *)
LEMMA OneMoreTry ==
  ASSUME NEW s \in Seq(Tried), NEW r \in Tried
  PROVE  LET n == Append(s, r)
         IN /\ n \in Seq(Tried) /\ Len(n) = Len(s) + 1 /\ n # <<>> /\ Len(s) \in Nat
            /\ Last(n) = r /\ n[Len(s) + 1] = r
            /\ \A i \in 1 .. Len(s) : n[i] = s[i]
            /\ Made(n) = Len(s)
            /\ Cardinality(Late(s)) \in Nat
            /\ Cardinality(Late(n)) = Cardinality(Late(s)) + IF r = Failure("PerTryTimeout") THEN 1 ELSE 0
<1> DEFINE n == Append(s, r)
<1>1. /\ n \in Seq(Tried) /\ Len(n) = Len(s) + 1 /\ Len(s) \in Nat
      /\ n[Len(s) + 1] = r /\ \A i \in 1 .. Len(s) : n[i] = s[i]
      /\ DOMAIN s = 1 .. Len(s) /\ DOMAIN n = 1 .. (Len(s) + 1)
  OBVIOUS
<1> HIDE DEF n
<1>2. n # <<>> /\ Last(n) = r /\ Made(n) = Len(s)
  BY <1>1 DEF Last, Made
<1>3. IsFiniteSet(Late(s)) /\ Cardinality(Late(s)) \in Nat /\ (Len(s) + 1) \notin Late(s)
  <2>1. IsFiniteSet(1 .. Len(s))
    <3>1. 1 \in Int /\ Len(s) \in Int
      BY <1>1
    <3> QED BY <3>1, FS_Interval, Zenon
  <2>2. Late(s) \subseteq 1 .. Len(s)
    BY <1>1 DEF Late
  <2> QED BY <1>1, <2>1, <2>2, FS_Subset, FS_CardinalityType
<1>4. CASE r = Failure("PerTryTimeout")
  <2>1. Late(n) = Late(s) \cup {Len(s) + 1}
    BY <1>1, <1>4 DEF Late
  <2> QED BY <1>1, <1>2, <1>3, <1>4, <2>1, FS_AddElement DEF n
<1>5. CASE r # Failure("PerTryTimeout")
  <2>1. Late(n) = Late(s)
    BY <1>1, <1>5 DEF Late
  <2> QED BY <1>1, <1>2, <1>3, <1>5, <2>1 DEF n
<1> QED BY <1>4, <1>5

-----------------------------------------------------------------------------

(* The types of the state, and what RetriesKept says in terms of Covered. *)
LEMMA RqTypes ==
  ASSUME RqInv
  PROVE  /\ call \in CallRecords({call.result})
         /\ clock \in Nat /\ clock <= RouteTimeout /\ RouteTimeout \in Nat
         /\ tries \in Seq(Tried) /\ Len(tries) \in Nat
         /\ call.at \in Stages /\ call.policy \in Policies /\ call.policy.retries \in Nat
         /\ call.permit \in BOOLEAN /\ call.requests \in Nat /\ call.timeouts \in Nat
         /\ call.channel \in Nat /\ call.channels \in Nat /\ call.bodyTimeout \in Nat
         /\ call.timed \in BOOLEAN
<1>1. call \in CallRecords({call.result}) /\ clock \in 0 .. RouteTimeout /\ tries \in Seq(Tried)
  BY DEF RqInv, RqShape
<1>2. /\ call.at \in Stages /\ call.policy \in Policies
      /\ call.permit \in BOOLEAN /\ call.requests \in Nat /\ call.timeouts \in Nat
      /\ call.channel \in Nat /\ call.channels \in Nat /\ call.bodyTimeout \in Nat
      /\ call.timed \in BOOLEAN
  BY <1>1 DEF CallRecords
<1> QED BY <1>1, <1>2, PolicyTypes

(* A step that leaves no attempts. *)
LEMMA NoAttempts ==
  ASSUME RqShape', tries' = <<>>, ~call'.permit, call'.at # "backoff", ChannelsInOrder',
         call'.at \in {"collect", "try", "map"} => call'.requests = 0 /\ call'.timeouts = 0,
         call'.at \in {"idle", "prepare", "release", "answered"} => call'.bodyTimeout = 0,
         call'.at = "answered" => call'.result.code = 0
  PROVE  RqInv'
<1>1. /\ Len(tries') = 0 /\ call'.policy.retries \in Nat /\ RouteTimeout \in Nat
      /\ clock' \in Nat /\ clock' <= RouteTimeout
  BY PolicyTypes DEF RqShape, CallRecords
<1>2. Late(tries') = {} /\ Cardinality(Late(tries')) = 0
  BY FS_EmptySet DEF Late
<1>3. LoopInv'
  BY <1>1, <1>2 DEF LoopInv
<1>4. RetriesJustified'
  BY <1>1 DEF RetriesJustified
<1>5. RetriesReported'
  <2> SUFFICES ASSUME call'.at = "map" PROVE RetriesReported'
    BY DEF RetriesReported
  <2>1. call'.requests = 0 /\ call'.timeouts = 0
    OBVIOUS
  <2> QED BY <1>2, <2>1 DEF RetriesReported, Late
<1>6. DeadlineKept'
  BY <1>1 DEF DeadlineKept
<1>7. FailoverExhausts'
  BY DEF FailoverExhausts
<1> QED BY <1>3, <1>4, <1>5, <1>6, <1>7 DEF RqInv, ResultOfLoop, RetriesKept

(* The steps that set a call up, and start a channel. *)
LEMMA SetUpSteps ==
  ASSUME RqInv,
         \/ /\ call.at = "idle"
            /\ \E p \in Policies, n \in 1..MaxChannels, t \in BOOLEAN, f \in RefusalKinds :
                  AcquireHttpUpstream(p, n, t, f)
         \/ \E fails \in BOOLEAN : PrepareFailover(fails) \/ SendRequest(fails) \/ CollectBody(fails)
         \/ PrepareSingle \/ Again
  PROVE  RqInv'
<1>0. /\ call \in CallRecords({call.result}) /\ clock \in Nat /\ clock <= RouteTimeout
      /\ RouteTimeout \in Nat /\ tries \in Seq(Tried) /\ call.at \in Stages
      /\ clock \in 0 .. RouteTimeout /\ 0 \in 0 .. RouteTimeout
  BY RqTypes
<1>1. /\ call.at \in {"idle", "prepare", "release", "collect"} => tries = <<>>
      /\ call.at \in {"idle", "prepare", "release"} => call.bodyTimeout = 0
      /\ call.at \notin {"try", "backoff"} => ~call.permit
      /\ call.at = "collect" => call.requests = 0 /\ call.timeouts = 0
      /\ call.at \notin {"idle", "release", "done"} => call.channel <= call.channels
  BY DEF RqInv, LoopInv, RetriesKept, RetriesJustified, ChannelsInOrder
<1>2. ASSUME NEW p \in Policies, NEW n \in 1..MaxChannels, NEW t \in BOOLEAN, NEW f \in RefusalKinds,
             AcquireHttpUpstream(p, n, t, f)
      PROVE  RqInv'
  <2>0. n \in Nat /\ 1 <= n
    BY RequestAssumption
  <2>1. /\ call' \in CallRecords({call'.result}) /\ tries' = <<>> /\ clock' = clock
        /\ ~call'.permit /\ call'.at \in {"prepare", "done", "release"} /\ call'.bodyTimeout = 0
        /\ call'.at = "prepare" => call'.channel <= call'.channels
    <3>1. CASE f = "none"
      <4>1. call' = [NoCall EXCEPT !.at = "prepare", !.policy = p,
                                   !.channels = n, !.channel = 1, !.timed = t, !.slot = TRUE]
        BY <1>2, <3>1 DEF AcquireHttpUpstream
      <4>2. call' = [at |-> "prepare", policy |-> p, channels |-> n, channel |-> 1, timed |-> t,
                     permit |-> FALSE, started |-> 0, requests |-> 0, timeouts |-> 0,
                     result |-> Failure("none"), bodyTimeout |-> 0, slot |-> TRUE]
        BY <4>1 DEF NoCall
      <4>3. /\ call'.at = "prepare" /\ call'.permit = FALSE /\ call'.bodyTimeout = 0
            /\ call'.channel = 1 /\ call'.channels = n /\ call'.result = Failure("none")
        BY <4>2
      <4>4. call' \in CallRecords({call'.result})
        BY <2>0, <4>2 DEF CallRecords, Stages
      <4> QED BY <1>1, <1>2, <2>0, <4>3, <4>4 DEF AcquireHttpUpstream
    <3>2. CASE f \in {"ClusterNotFound", "CircuitBreakerOverflow"}
      <4>1. call' = [NoCall EXCEPT !.at = "done", !.result = Failure(f)]
        BY <1>2, <3>2 DEF AcquireHttpUpstream
      <4> QED BY <1>1, <1>2, <4>1, PolicyTypes DEF AcquireHttpUpstream, NoCall, CallRecords, Stages
    <3>3. CASE f \in {"RoutingContext", "Connection"}
      <4>1. call' = [NoCall EXCEPT !.at = "release", !.result = Failure(f), !.slot = TRUE]
        BY <1>2, <3>3 DEF AcquireHttpUpstream
      <4> QED BY <1>1, <1>2, <4>1, PolicyTypes DEF AcquireHttpUpstream, NoCall, CallRecords, Stages
    <3> QED BY <3>1, <3>2, <3>3 DEF RefusalKinds
  <2>2. RqShape' /\ ChannelsInOrder'
    BY <1>0, <2>1, EmptySeq DEF RqShape, ChannelsInOrder
  <2> QED BY <2>1, <2>2, NoAttempts
<1>3. ASSUME NEW fails \in BOOLEAN, PrepareFailover(fails) PROVE RqInv'
  <2>1. /\ call' \in CallRecords({call'.result}) /\ tries' = <<>> /\ clock' = clock
        /\ ~call'.permit /\ call'.at \in {"answered", "send"} /\ call'.bodyTimeout = 0
        /\ call'.channel = call.channel /\ call'.channels = call.channels
        /\ call'.at = "answered" => call'.result.code = 0
    <3>1. CASE fails
      BY <1>0, <1>1, <1>3, <3>1 DEF PrepareFailover, CallRecords, Stages, Failure
    <3>2. CASE ~fails
      <4>1. call' = [call EXCEPT !.at = "send", !.policy = NoPolicy]
        BY <1>3, <3>2 DEF PrepareFailover
      <4> QED BY <1>0, <1>1, <1>3, <4>1, PolicyTypes DEF PrepareFailover, CallRecords, Stages
    <3> QED BY <3>1, <3>2
  <2>2. RqShape' /\ ChannelsInOrder'
    BY <1>0, <1>1, <1>3, <2>1, EmptySeq DEF RqShape, ChannelsInOrder, PrepareFailover
  <2> QED BY <2>1, <2>2, NoAttempts
<1>4. ASSUME NEW fails \in BOOLEAN, SendRequest(fails) PROVE RqInv'
  <2>1. /\ call' \in CallRecords({call'.result}) /\ tries' = <<>> /\ clock' = 0
        /\ ~call'.permit /\ call'.at \in {"map", "collect", "try"}
        /\ call'.requests = 0 /\ call'.timeouts = 0
        /\ call'.channel = call.channel /\ call'.channels = call.channels
    BY <1>0, <1>1, <1>4 DEF SendRequest, CallRecords, Stages
  <2>2. RqShape' /\ ChannelsInOrder'
    BY <1>0, <1>1, <1>4, <2>1, EmptySeq DEF RqShape, ChannelsInOrder, SendRequest
  <2> QED BY <2>1, <2>2, NoAttempts
<1>5. ASSUME NEW fails \in BOOLEAN, CollectBody(fails) PROVE RqInv'
  <2>1. /\ call' \in CallRecords({call'.result}) /\ tries' = <<>> /\ clock' = clock
        /\ ~call'.permit /\ call'.at \in {"map", "try"}
        /\ call'.requests = 0 /\ call'.timeouts = 0
        /\ call'.channel = call.channel /\ call'.channels = call.channels
    BY <1>0, <1>1, <1>5 DEF CollectBody, CallRecords, Stages
  <2>2. RqShape' /\ ChannelsInOrder'
    BY <1>0, <1>1, <1>5, <2>1, EmptySeq DEF RqShape, ChannelsInOrder, CollectBody
  <2> QED BY <2>1, <2>2, NoAttempts
<1>6. CASE PrepareSingle
  <2>1. /\ call' \in CallRecords({call'.result}) /\ tries' = <<>> /\ clock' = clock
        /\ ~call'.permit /\ call'.at = "send"
        /\ call'.channel = call.channel /\ call'.channels = call.channels
    BY <1>0, <1>1, <1>6 DEF PrepareSingle, CallRecords, Stages
  <2>2. RqShape' /\ ChannelsInOrder'
    BY <1>0, <1>1, <1>6, <2>1, EmptySeq DEF RqShape, ChannelsInOrder, PrepareSingle
  <2> QED BY <2>1, <2>2, NoAttempts
<1>7. CASE Again
  <2>1. /\ call' \in CallRecords({call'.result}) /\ tries' = <<>> /\ clock' = 0
        /\ ~call'.permit /\ call'.at = "idle" /\ call'.bodyTimeout = 0
    BY <1>7, PolicyTypes DEF Again, NoCall, CallRecords, Stages
  <2>2. RqShape' /\ ChannelsInOrder'
    BY <1>0, <2>1, EmptySeq DEF RqShape, ChannelsInOrder
  <2> QED BY <2>1, <2>2, NoAttempts
<1> QED BY <1>2, <1>3, <1>4, <1>5, <1>6, <1>7

-----------------------------------------------------------------------------

(* A step that leaves the loop's counters and the attempts as they are. *)
LEMMA SameAttempts ==
  ASSUME RqInv, RqShape', tries' = tries, call'.policy = call.policy
  PROVE  /\ Len(tries') <= call'.policy.retries + 1
         /\ \A i \in 1 .. (Len(tries') - 1) : Covered(call'.policy, tries'[i])
  BY DEF RqInv, RetriesKept, RetriesJustified, Covered

(* Time passes. *)
LEMMA TickStep ==
  ASSUME RqInv, Tick
  PROVE  RqInv'
<1>0. /\ clock \in Nat /\ clock <= RouteTimeout /\ RouteTimeout \in Nat
      /\ call' = call /\ tries' = tries /\ clock' = clock + 1 /\ clock < RouteTimeout
      /\ call.at \in {"collect", "try", "backoff"}
  BY RqTypes DEF Tick, Underway
<1>1. RqShape'
  BY <1>0 DEF RqInv, RqShape
<1>2. LoopInv' /\ ResultOfLoop' /\ ChannelsInOrder'
  BY <1>0 DEF RqInv, LoopInv, ResultOfLoop, ChannelsInOrder
<1>3. RetriesJustified' /\ RetriesReported'
  BY <1>0 DEF RqInv, RetriesKept, RetriesJustified, RetriesReported
<1>4. DeadlineKept' /\ FailoverExhausts'
  BY <1>0 DEF DeadlineKept, FailoverExhausts
<1> QED BY <1>1, <1>2, <1>3, <1>4 DEF RqInv, RetriesKept

(* The route timeout ends the loop: the retry it was in is counted. *)
LEMMA TimeoutStep ==
  ASSUME RqInv, RouteTimeoutFires
  PROVE  RqInv'
<1>0. /\ call \in CallRecords({call.result}) /\ clock \in Nat /\ clock <= RouteTimeout
      /\ RouteTimeout \in Nat /\ tries \in Seq(Tried) /\ Len(tries) \in Nat
      /\ call.policy.retries \in Nat
  BY RqTypes
<1>1. /\ call' \in CallRecords({call'.result}) /\ tries' = tries /\ clock' = clock
      /\ call'.at = "map" /\ call'.result = Failure("RouteTimeout") /\ ~call'.permit
      /\ call'.policy = call.policy /\ call'.requests = call.requests
      /\ call'.timeouts = call.timeouts /\ call'.timed = call.timed
      /\ call'.channel = call.channel /\ call'.channels = call.channels
      /\ call.at \in {"collect", "try", "backoff"}
  BY <1>0 DEF RouteTimeoutFires, Underway, CallRecords, Stages
<1>2. RqShape'
  BY <1>1 DEF RqInv, RqShape
<1>3. LoopInv' /\ ResultOfLoop' /\ ChannelsInOrder'
  BY <1>1 DEF RqInv, LoopInv, ResultOfLoop, ChannelsInOrder
<1>4. RetriesJustified'
  BY <1>1, <1>2, SameAttempts DEF RetriesJustified, Covered
<1>5. RetriesReported'
  <2>1. call.requests = Len(tries) /\ call.timeouts = Cardinality(Late(tries))
    <3>1. CASE call.at = "collect"
      <4>1. tries = <<>> /\ call.requests = 0 /\ call.timeouts = 0
        BY <3>1 DEF RqInv, LoopInv
      <4>2. Late(<<>>) = {}
        BY DEF Late
      <4> QED BY <4>1, <4>2, FS_EmptySet
    <3>2. CASE call.at \in {"try", "backoff"}
      BY <3>2 DEF RqInv, LoopInv
    <3> QED BY <1>1, <3>1, <3>2
  <2>2. call'.timeouts = Cardinality({i \in DOMAIN tries' : tries'[i] = Failure("PerTryTimeout")})
    BY <1>1, <2>1 DEF Late
  <2>3. LET made == IF tries' = <<>> THEN 0 ELSE Len(tries') - 1
        IN call'.requests \in {made, made + 1}
    BY <1>0, <1>1, <2>1
  <2> QED BY <1>1, <2>2, <2>3 DEF RetriesReported
<1>6. DeadlineKept' /\ FailoverExhausts'
  BY <1>0, <1>1 DEF DeadlineKept, FailoverExhausts
<1> QED BY <1>2, <1>3, <1>4, <1>5, <1>6 DEF RqInv, RetriesKept

(* The back-off is over. *)
LEMMA BackedOffStep ==
  ASSUME RqInv, BackedOff
  PROVE  RqInv'
<1>0. /\ call \in CallRecords({call.result}) /\ clock \in Nat /\ clock <= RouteTimeout
      /\ RouteTimeout \in Nat /\ tries \in Seq(Tried) /\ call.permit
  BY RqTypes DEF RqInv, RetriesKept, RetriesJustified, BackedOff
<1>1. /\ call' \in CallRecords({call'.result}) /\ tries' = tries /\ clock' = clock
      /\ call'.at = "try" /\ call'.permit
      /\ call'.policy = call.policy /\ call'.requests = call.requests
      /\ call'.timeouts = call.timeouts /\ call'.timed = call.timed
      /\ call'.channel = call.channel /\ call'.channels = call.channels
      /\ call.at = "backoff"
  BY <1>0 DEF BackedOff, CallRecords, Stages
<1>2. RqShape'
  BY <1>1 DEF RqInv, RqShape
<1>3. LoopInv' /\ ResultOfLoop' /\ ChannelsInOrder'
  BY <1>1 DEF RqInv, LoopInv, ResultOfLoop, ChannelsInOrder
<1>4. RetriesJustified' /\ RetriesReported'
  BY <1>1, <1>2, SameAttempts DEF RetriesJustified, Covered, RetriesReported
<1>6. DeadlineKept' /\ FailoverExhausts'
  BY <1>0, <1>1 DEF DeadlineKept, FailoverExhausts
<1> QED BY <1>2, <1>3, <1>4, <1>6 DEF RqInv, RetriesKept

(* The permit of the request is dropped at its end. *)
LEMMA DropStep ==
  ASSUME RqInv, DropPermit
  PROVE  RqInv'
<1>0. /\ call \in CallRecords({call.result}) /\ clock \in Nat /\ clock <= RouteTimeout
      /\ RouteTimeout \in Nat /\ tries \in Seq(Tried)
  BY RqTypes
<1>1. /\ call' \in CallRecords({call'.result}) /\ tries' = tries /\ clock' = clock
      /\ call'.at = "done" /\ ~call'.permit /\ call'.policy = call.policy
  BY <1>0 DEF DropPermit, CallRecords, Stages, RqInv, RetriesKept, RetriesJustified
<1>2. RqShape'
  BY <1>1 DEF RqInv, RqShape
<1>3. LoopInv' /\ ResultOfLoop' /\ ChannelsInOrder'
  BY <1>1 DEF RqInv, LoopInv, ResultOfLoop, ChannelsInOrder
<1>4. RetriesJustified' /\ RetriesReported'
  BY <1>1, <1>2, SameAttempts DEF RetriesJustified, Covered, RetriesReported
<1>6. DeadlineKept' /\ FailoverExhausts'
  BY <1>0, <1>1 DEF DeadlineKept, FailoverExhausts
<1> QED BY <1>2, <1>3, <1>4, <1>6 DEF RqInv, RetriesKept

(* The answer of a channel, or the next channel. *)
LEMMA MapStep ==
  ASSUME RqInv, MapUpstreamResult
  PROVE  RqInv'
<1> DEFINE r == Mapped(call.result)
           timeout == IF Timed /\ ~IsError(call.result) THEN Remaining ELSE 0
           next == HasFailover /\ call.channel < call.channels /\ (IsError(r) \/ r.code >= 500)
<1>0. /\ call \in CallRecords({call.result}) /\ clock \in Nat /\ clock <= RouteTimeout
      /\ RouteTimeout \in Nat /\ tries \in Seq(Tried) /\ call.at = "map"
      /\ call.channel \in Nat /\ call.channels \in Nat /\ ~call.permit
      /\ call.channel <= call.channels /\ call.timed \in BOOLEAN
  BY RqTypes DEF MapUpstreamResult, RqInv, RetriesKept, RetriesJustified, ChannelsInOrder
<1>1. timeout \in Nat /\ (timeout > 0 => clock + timeout = RouteTimeout)
  BY <1>0 DEF Remaining
<1>2. /\ next => call' = [[call EXCEPT !.result = r, !.bodyTimeout = timeout]
                            EXCEPT !.at = "send", !.channel = call.channel + 1]
      /\ ~next => call' = [[call EXCEPT !.result = r, !.bodyTimeout = timeout] EXCEPT !.at = "answered"]
      /\ UNCHANGED <<clock, tries>>
  BY <1>0 DEF MapUpstreamResult, CallRecords
<1>3. next => call.channel + 1 \in Nat /\ call.channel + 1 <= call.channels
  BY <1>0
<1> HIDE DEF r, timeout
<1>4. /\ call' \in CallRecords({call'.result}) /\ tries' = tries /\ clock' = clock
      /\ call'.at = IF next THEN "send" ELSE "answered"
      /\ ~call'.permit /\ call'.policy = call.policy /\ call'.timed = call.timed
      /\ call'.channels = call.channels /\ call'.result = r /\ call'.bodyTimeout = timeout
      /\ call'.channel <= call'.channels /\ (~next => call'.channel = call.channel)
  <2>1. CASE next
    BY <1>0, <1>1, <1>2, <1>3, <2>1 DEF CallRecords, Stages
  <2>2. CASE ~next
    BY <1>0, <1>1, <1>2, <2>2 DEF CallRecords, Stages
  <2> QED BY <2>1, <2>2
<1>5. RqShape'
  BY <1>4 DEF RqInv, RqShape
<1>6. LoopInv' /\ ResultOfLoop' /\ ChannelsInOrder'
  BY <1>4 DEF LoopInv, ResultOfLoop, ChannelsInOrder
<1>7. RetriesJustified' /\ RetriesReported'
  BY <1>4, <1>5, SameAttempts DEF RetriesJustified, Covered, RetriesReported
<1>8. DeadlineKept'
  <2>1. (Timed => clock <= RouteTimeout)'
    BY <1>0, <1>4
  <2>2. (call.at = "answered" /\ Timed /\ call.bodyTimeout > 0 => clock + call.bodyTimeout = RouteTimeout)'
    BY <1>1, <1>4
  <2>3. tries # <<>> => r \in {Mapped(Last(tries)), Mapped(Failure("RouteTimeout"))}
    BY <1>0 DEF RqInv, ResultOfLoop, r
  <2> QED BY <1>4, <2>1, <2>2, <2>3 DEF DeadlineKept
<1>9. FailoverExhausts'
  <2> SUFFICES ASSUME call'.at = "answered", call'.channels > 1, call'.result.code >= 500
               PROVE  call'.channel = call'.channels
    BY DEF FailoverExhausts, HasFailover
  <2>1. ~next /\ HasFailover /\ r.code >= 500
    BY <1>4 DEF HasFailover
  <2> QED BY <1>0, <1>4, <2>1
<1> QED BY <1>5, <1>6, <1>7, <1>8, <1>9 DEF RqInv, RetriesKept

(* An attempt ends, in an answer or at its own timeout: the loop goes round  *)
(* or is over, and counts the attempt in every case.                         *)
LEMMA EndOfTryStep ==
  ASSUME RqInv, call.at = "try", NEW r \in Tried, NEW admitted \in BOOLEAN, EndOfTry(r, admitted),
         r = Failure("PerTryTimeout") => call.policy.on
  PROVE  RqInv'
<1> DEFINE late == IF IsError(r) /\ r.err = "PerTryTimeout" THEN 1 ELSE 0
           silent == ~call.policy.on \/ ~HasCondition(r)
           should == ShouldRetry(call.policy.retryOn, r)
           again == ~silent /\ should /\ Len(tries) + 1 <= call.policy.retries /\ (call.permit \/ admitted)
           timeouts == IF silent THEN call.timeouts ELSE call.timeouts + late
           requests == IF ~silent /\ should THEN call.requests + 1 ELSE call.requests
<1>0. /\ call \in CallRecords({call.result}) /\ clock \in Nat /\ clock <= RouteTimeout
      /\ RouteTimeout \in Nat /\ tries \in Seq(Tried) /\ Len(tries) \in Nat
      /\ call.policy.retries \in Nat /\ call.requests \in Nat /\ call.timeouts \in Nat
      /\ call.permit \in BOOLEAN
  BY RqTypes
<1>1. /\ Len(tries) <= call.policy.retries
      /\ \A i \in 1 .. Len(tries) : Covered(call.policy, tries[i])
      /\ call.requests = Len(tries) /\ call.timeouts = Cardinality(Late(tries))
      /\ call.channel <= call.channels
  BY DEF RqInv, LoopInv, ChannelsInOrder
<1>2. /\ tries' = Append(tries, r) /\ clock' = clock
      /\ tries' \in Seq(Tried) /\ Len(tries') = Len(tries) + 1 /\ tries' # <<>>
      /\ Last(tries') = r /\ tries'[Len(tries) + 1] = r
      /\ \A i \in 1 .. Len(tries) : tries'[i] = tries[i]
      /\ Cardinality(Late(tries')) = Cardinality(Late(tries)) + IF r = Failure("PerTryTimeout") THEN 1 ELSE 0
  BY <1>0, OneMoreTry DEF EndOfTry
<1>3. timeouts = Cardinality(Late(tries')) /\ timeouts \in Nat /\ requests \in Nat
  BY <1>0, <1>1, <1>2, LateOutcome
<1>4. /\ call' \in CallRecords({call'.result})
      /\ call'.at = IF again THEN "backoff" ELSE "map"
      /\ call'.permit = again /\ call'.result = r
      /\ call'.policy = call.policy /\ call'.requests = requests /\ call'.timeouts = timeouts
      /\ call'.channel = call.channel /\ call'.channels = call.channels /\ call'.timed = call.timed
  <2>1. CASE silent
    <3>1. call' = [call EXCEPT !.at = "map", !.result = r, !.permit = FALSE]
      BY <2>1 DEF EndOfTry, Finished
    <3> QED BY <1>0, <2>1, <3>1 DEF CallRecords, Stages
  <2>2. CASE ~silent /\ ~should
    <3>1. call' = [[call EXCEPT !.timeouts = @ + late] EXCEPT !.at = "map", !.result = r, !.permit = FALSE]
      BY <2>2 DEF EndOfTry
    <3> QED BY <1>0, <1>3, <2>2, <3>1 DEF CallRecords, Stages
  <2>3. CASE again
    <3>1. call' = [[call EXCEPT !.timeouts = @ + late]
                    EXCEPT !.at = "backoff", !.permit = TRUE, !.requests = @ + 1, !.result = r]
      BY <2>3 DEF EndOfTry
    <3> QED BY <1>0, <1>3, <2>3, <3>1 DEF CallRecords, Stages
  <2>4. CASE ~silent /\ should /\ ~again
    <3>1. call' = [[[call EXCEPT !.timeouts = @ + late] EXCEPT !.at = "map", !.result = r, !.permit = FALSE]
                    EXCEPT !.requests = @ + 1]
      BY <2>4 DEF EndOfTry
    <3> QED BY <1>0, <1>3, <2>4, <3>1 DEF CallRecords, Stages
  <2> QED BY <2>1, <2>2, <2>3, <2>4
<1>5. RqShape'
  BY <1>0, <1>2, <1>4 DEF RqShape
<1>6. ResultOfLoop' /\ ChannelsInOrder'
  BY <1>1, <1>2, <1>4 DEF ResultOfLoop, ChannelsInOrder
<1>7. should => Covered(call.policy, r)
  BY RetriedIsCovered
<1>8. LoopInv'
  <2>1. CASE again
    <3>1. Len(tries') <= call'.policy.retries /\ call'.requests = Len(tries')
      BY <1>0, <1>1, <1>2, <1>4, <2>1
    <3>2. \A i \in 1 .. Len(tries') : Covered(call'.policy, tries'[i])
      BY <1>0, <1>1, <1>2, <1>4, <1>7, <2>1
    <3> HIDE DEF timeouts, again
    <3> QED BY <1>3, <1>4, <2>1, <3>1, <3>2 DEF LoopInv
  <2>2. CASE ~again
    BY <1>4, <2>2 DEF LoopInv
  <2> QED BY <2>1, <2>2
<1>9. RetriesJustified'
  <2>1. Len(tries') <= call'.policy.retries + 1
    BY <1>0, <1>1, <1>2, <1>4
  <2>2. \A i \in 1 .. (Len(tries') - 1) : Covered(call'.policy, tries'[i])
    BY <1>0, <1>1, <1>2, <1>4
  <2> HIDE DEF again
  <2> QED BY <1>4, <2>1, <2>2 DEF RetriesJustified, Covered
<1>10. RetriesReported'
  <2>1. call'.requests \in {Len(tries), Len(tries) + 1} /\ Len(tries') - 1 = Len(tries)
    BY <1>0, <1>1, <1>2, <1>4
  <2>2. call'.requests = Len(tries) + 1 => should
    BY <1>0, <1>1, <1>4
  <2>3. call'.timeouts = Cardinality(Late(tries'))
    BY <1>3, <1>4
  <2> HIDE DEF should
  <2> QED BY <1>2, <1>4, <2>1, <2>2, <2>3 DEF RetriesReported, Late, should
<1>11. DeadlineKept' /\ FailoverExhausts'
  BY <1>0, <1>2, <1>4 DEF DeadlineKept, FailoverExhausts
<1> QED BY <1>5, <1>6, <1>8, <1>9, <1>10, <1>11 DEF RqInv, RetriesKept

(* The invariant of a request is inductive. *)
LEMMA RqInvariant == RqSpec => []RqInv
<1>1. RqInit => RqInv
  <2> SUFFICES ASSUME RqInit PROVE RqInv
    OBVIOUS
  <2>1. /\ call \in CallRecords({call.result}) /\ call.at = "idle" /\ ~call.permit
        /\ call.bodyTimeout = 0 /\ tries = <<>> /\ clock = 0 /\ Len(tries) = 0
    BY PolicyTypes DEF RqInit, NoCall, CallRecords, Stages
  <2>2. call.policy.retries \in Nat /\ RouteTimeout \in Nat
    BY <2>1, PolicyTypes DEF CallRecords
  <2>3. RqShape
    BY <2>1, <2>2, EmptySeq DEF RqShape
  <2>4. LoopInv /\ ResultOfLoop /\ ChannelsInOrder
    BY <2>1 DEF LoopInv, ResultOfLoop, ChannelsInOrder
  <2>5. RetriesJustified /\ RetriesReported
    BY <2>1, <2>2 DEF RetriesJustified, RetriesReported
  <2>6. DeadlineKept /\ FailoverExhausts
    BY <2>1, <2>2 DEF DeadlineKept, FailoverExhausts
  <2> QED BY <2>3, <2>4, <2>5, <2>6 DEF RqInv, RetriesKept
<1>2. RqInv /\ [RqNext]_rqVars => RqInv'
  <2> SUFFICES ASSUME RqInv, [RqNext]_rqVars PROVE RqInv'
    OBVIOUS
  <2>1. CASE UNCHANGED rqVars
    BY <2>1 DEF rqVars, RqInv, RqShape, LoopInv, ResultOfLoop, ChannelsInOrder, RetriesKept,
                RetriesJustified, RetriesReported, DeadlineKept, FailoverExhausts, Timed, HasFailover
  <2>2. ASSUME NEW r \in Outcomes, NEW a \in BOOLEAN, Answers(r, a) PROVE RqInv'
    <3>1. r \in Tried /\ r # Failure("PerTryTimeout")
      <4>1. CASE r \in Responses
        <5>1. r.code # 0
          BY <4>1 DEF Responses, Response
        <5> QED BY <5>1 DEF Tried, Failure
      <4>2. CASE r \notin Responses
        <5>1. PICK e \in (UpstreamErrors \ {"PerTryTimeout", "RouteTimeout"}) \cup {"NotUpstream"} : r = Failure(e)
          BY <4>2 DEF Outcomes
        <5>2. r.err = e /\ e # "PerTryTimeout" /\ Failure("PerTryTimeout").err = "PerTryTimeout"
          BY <5>1 DEF Failure, UpstreamErrors
        <5> QED BY <5>2 DEF Tried
      <4> QED BY <4>1, <4>2
    <3> QED BY <2>2, <3>1, EndOfTryStep DEF Answers
  <2>3. ASSUME NEW a \in BOOLEAN, PerTryTimeoutFires(a) PROVE RqInv'
    BY <2>3, EndOfTryStep DEF PerTryTimeoutFires, Tried
  <2> QED BY <2>1, <2>2, <2>3, SetUpSteps, TickStep, TimeoutStep, BackedOffStep, MapStep, DropStep DEF RqNext
<1> QED BY <1>1, <1>2, PTL DEF RqSpec

(* A request on its way upstream: whatever the attempts bring and whenever  *)
(* the per-try and the route timeout fire, what is retried is covered by    *)
(* the policy and within num_retries, under one permit of the retry         *)
(* breaker; the counters are those of the attempts; the answer and its body *)
(* fit the route timeout; and a failing channel is not answered from while  *)
(* another is left.                                                         *)
THEOREM RetriesAsAskedFor == RqSpec => []RetriesKept
<1>1. RqInv => RetriesKept
  BY DEF RqInv
<1> QED BY <1>1, RqInvariant, PTL

-----------------------------------------------------------------------------
(* HttpPipeline.                                                           *)

Phases == {"idle", "match", "filters", "prepare", "upgrade", "send", "response", "done"}
Decided == [pos : Nat, kind : FilterKinds, route : [version : Nat, name : RouteNames \cup {"none"}],
            decision : FilterDecision]
RequestStates ==
    [phase : Phases, snapshot : Nat, route : [version : Nat, name : RouteNames \cup {"none"}],
     pos : Nat, active : Seq(Decided), ran : Seq(Decided), back : Seq(Decided),
     status : Nat, mutated : BOOLEAN, permit : BOOLEAN, tunnel : BOOLEAN]

(* What a request has met, from lower to higher positions, lies behind it. *)
Rising(s) == \A i, j \in DOMAIN s : i < j => s[i].pos < s[j].pos
Falling(s) == \A i, j \in DOMAIN s : i < j => s[i].pos > s[j].pos
Behind(s, n) == \A i \in DOMAIN s : s[i].pos < n

(* The filters that a request met and those that have not seen its response. *)
Met(q) ==
    /\ Rising(q.ran) /\ Rising(q.active) /\ Falling(q.back)
    /\ Behind(q.ran, q.pos) /\ Behind(q.active, q.pos)
    /\ \A v \in Range(q.active), w \in Range(q.back) : v.pos < w.pos
    /\ Range(q.active) \cup Range(q.back) = {v \in Range(q.ran) : v.decision # "DirectResponse"}
    /\ q.phase \notin {"response", "done"} => q.back = <<>>

(* The routes that a request was matched to are those of its snapshot. *)
OneTable(q) ==
    /\ q.route.version \in {q.snapshot, NoTable}
    /\ \A i \in DOMAIN q.ran : q.ran[i].route.version \in {q.snapshot, NoTable}

PermitHeld(q) == q.permit => q.phase \in {"prepare", "upgrade", "send"}

RequestOK(q) ==
    /\ q \in RequestStates
    /\ q.phase = "idle" => q = Resting
    /\ Met(q) /\ OneTable(q) /\ PermitHeld(q)

PipelineInv == table \in Nat /\ versions \in Nat /\ RequestOK(rq)

-----------------------------------------------------------------------------

(* A request at rest has met nothing. *)
LEMMA RestingOK == RequestOK(Resting)
<1>1. Resting \in RequestStates
  BY DEF Resting, RequestStates, Phases, NoTable, NoRoute
<1>2. Met(Resting) /\ OneTable(Resting) /\ PermitHeld(Resting)
  BY DEF Resting, Met, OneTable, PermitHeld, Rising, Falling, Behind, Range, NoTable, NoRoute
<1> QED BY <1>1, <1>2 DEF RequestOK

(* The components of a request's record. *)
LEMMA Components ==
  ASSUME NEW q \in RequestStates
  PROVE  /\ q.ran \in Seq(Decided) /\ q.active \in Seq(Decided) /\ q.back \in Seq(Decided)
         /\ q.pos \in Nat /\ q.snapshot \in Nat /\ q.phase \in Phases
         /\ q.permit \in BOOLEAN /\ q.route.version \in Nat
  BY DEF RequestStates

(* A visit has a position. *)
LEMMA Positions ==
  ASSUME NEW s \in Seq(Decided)
  PROVE  /\ Len(s) \in Nat /\ DOMAIN s = 1 .. Len(s)
         /\ \A i \in DOMAIN s : s[i] \in Decided /\ s[i].pos \in Nat
<1>1. Len(s) \in Nat /\ DOMAIN s = 1 .. Len(s) /\ \A i \in DOMAIN s : s[i] \in Decided
  OBVIOUS
<1>2. \A v \in Decided : v.pos \in Nat
  BY DEF Decided
<1> QED BY <1>1, <1>2

(* What a step that meets no filter and ends no visit may change. *)
LEMMA MovedOn ==
  ASSUME NEW q, NEW p, RequestOK(q), q.phase # "idle", p \in RequestStates,
         p.ran = q.ran, p.active = q.active, p.back = q.back, p.snapshot = q.snapshot,
         p.route = q.route \/ p.route.version \in {q.snapshot, NoTable},
         p.pos >= q.pos, p.phase # "idle",
         p.phase \notin {"response", "done"} => q.phase \notin {"response", "done"},
         p.permit => p.phase \in {"prepare", "upgrade", "send"}
  PROVE  RequestOK(p)
<1>0. q \in RequestStates /\ Met(q) /\ OneTable(q)
  BY DEF RequestOK
<1>1. Met(p)
  <2>1. /\ q.pos \in Nat /\ p.pos \in Nat
        /\ \A i \in DOMAIN q.ran : q.ran[i].pos \in Nat
        /\ \A i \in DOMAIN q.active : q.active[i].pos \in Nat
    BY <1>0, Components, Positions
  <2>2. Behind(p.ran, p.pos) /\ Behind(p.active, p.pos)
    BY <1>0, <2>1 DEF Met, Behind
  <2> QED BY <1>0, <2>2 DEF Met
<1>2. OneTable(p)
  BY <1>0 DEF OneTable
<1>3. PermitHeld(p)
  BY DEF PermitHeld
<1> QED BY <1>1, <1>2, <1>3 DEF RequestOK

(* One visit more. *)
LEMMA Visited ==
  ASSUME NEW s \in Seq(Decided), NEW v \in Decided, Rising(s), Behind(s, v.pos)
  PROVE  /\ Append(s, v) \in Seq(Decided) /\ Rising(Append(s, v))
         /\ Behind(Append(s, v), v.pos + 1)
         /\ Range(Append(s, v)) = Range(s) \cup {v}
<1>1. /\ Append(s, v) \in Seq(Decided)
      /\ DOMAIN Append(s, v) = 1 .. (Len(s) + 1)
      /\ \A i \in 1 .. Len(s) : Append(s, v)[i] = s[i]
      /\ Append(s, v)[Len(s) + 1] = v
  OBVIOUS
<1>2. /\ Len(s) \in Nat /\ DOMAIN s = 1 .. Len(s)
      /\ \A i \in DOMAIN s : s[i].pos \in Nat
      /\ v.pos \in Nat
  BY Positions DEF Decided
<1>3. Rising(Append(s, v))
  BY <1>1, <1>2 DEF Rising, Behind
<1>4. Behind(Append(s, v), v.pos + 1)
  <2>1. ASSUME NEW i \in DOMAIN Append(s, v) PROVE Append(s, v)[i].pos < v.pos + 1
    <3>1. CASE i = Len(s) + 1
      BY <1>1, <1>2, <3>1
    <3>2. CASE i \in 1 .. Len(s)
      BY <1>1, <1>2, <3>2 DEF Behind
    <3> QED BY <1>1, <1>2, <3>1, <3>2
  <2> QED BY <2>1 DEF Behind
<1>5. Range(Append(s, v)) = Range(s) \cup {v}
  BY <1>1, <1>2 DEF Range
<1> QED BY <1>1, <1>3, <1>4, <1>5

(* A filter decides. *)
LEMMA DecisionOK ==
  ASSUME RequestOK(rq), In("filters"), NEW kind \in FilterKinds, NEW d \in FilterDecision
  PROVE  RequestOK(AfterDecision(kind, d))
<1> DEFINE v == Visit(kind, d)
           p == AfterDecision(kind, d)
<1>0. /\ rq \in RequestStates /\ Met(rq) /\ OneTable(rq) /\ PermitHeld(rq)
      /\ rq.phase = "filters"
  BY DEF RequestOK, In
<1>1. /\ rq.ran \in Seq(Decided) /\ rq.active \in Seq(Decided) /\ rq.back = <<>>
      /\ rq.pos \in Nat
  BY <1>0, Components DEF Met
<1>2. v \in Decided /\ v.pos = rq.pos /\ v.route = rq.route /\ v.decision = d
  BY <1>0 DEF Visit, Decided, RequestStates
<1>3. /\ p \in RequestStates
      /\ p.ran = Append(rq.ran, v) /\ p.pos = rq.pos + 1 /\ p.back = rq.back
      /\ p.active = IF d = "DirectResponse" THEN rq.active ELSE Append(rq.active, v)
      /\ p.snapshot = rq.snapshot /\ p.route = rq.route /\ p.phase # "idle"
      /\ p.permit => p.phase \in {"prepare", "upgrade", "send"}
  <2>1. Append(rq.ran, v) \in Seq(Decided) /\ Append(rq.active, v) \in Seq(Decided)
    BY <1>1, <1>2
  <2>2. ~rq.permit
    BY <1>0 DEF PermitHeld
  <2> DEFINE ran == Append(rq.ran, v)
             active == Append(rq.active, v)
             passed == [rq EXCEPT !.active = active, !.pos = rq.pos + 1, !.ran = ran]
             refused == [rq EXCEPT !.phase = "response", !.status = 403, !.mutated = TRUE,
                                   !.permit = FALSE, !.pos = rq.pos + 1, !.ran = ran]
  <2>3. /\ d = "Continue" => p = passed
        /\ d = "Reroute" => p = [passed EXCEPT !.phase = "match"]
        /\ d = "DirectResponse" => p = refused
    <3>1. d = "Continue" => p = passed
      BY DEF AfterDecision
    <3>2. d = "Reroute" => p = [passed EXCEPT !.phase = "match"]
      BY DEF AfterDecision
    <3>3. d = "DirectResponse" => p = refused
      <4>1. d = "DirectResponse" => p = [Answered(403, TRUE) EXCEPT !.pos = @ + 1, !.ran = Append(@, v)]
        BY DEF AfterDecision
      <4>2. Answered(403, TRUE).pos = rq.pos /\ Answered(403, TRUE).ran = rq.ran
        BY <1>0 DEF Answered, RequestStates
      <4>3. [Answered(403, TRUE) EXCEPT !.pos = @ + 1, !.ran = Append(@, v)] = refused
        BY <1>0, <4>2 DEF Answered, RequestStates
      <4> QED BY <4>1, <4>3
    <3> QED BY <3>1, <3>2, <3>3
  <2>4. ran \in Seq(Decided) /\ active \in Seq(Decided) /\ rq.pos + 1 \in Nat
    BY <1>1, <2>1
  <2> HIDE DEF v, p, ran, active
  <2>5. CASE d = "Continue"
    <3>1. p = passed
      BY <2>3, <2>5
    <3>2. /\ p \in RequestStates /\ p.ran = ran /\ p.active = active /\ p.pos = rq.pos + 1
          /\ p.back = rq.back /\ p.snapshot = rq.snapshot /\ p.route = rq.route
          /\ p.phase = rq.phase /\ p.permit = rq.permit
      BY <1>0, <2>4, <3>1 DEF RequestStates
    <3> QED BY <1>0, <2>2, <2>5, <3>2 DEF ran, active
  <2>6. CASE d = "Reroute"
    <3>1. p = [passed EXCEPT !.phase = "match"]
      BY <2>3, <2>6
    <3>2. /\ p \in RequestStates /\ p.ran = ran /\ p.active = active /\ p.pos = rq.pos + 1
          /\ p.back = rq.back /\ p.snapshot = rq.snapshot /\ p.route = rq.route
          /\ p.phase = "match" /\ p.permit = rq.permit
      BY <1>0, <2>4, <3>1 DEF RequestStates, Phases
    <3> QED BY <2>2, <2>6, <3>2 DEF ran, active
  <2>7. CASE d = "DirectResponse"
    <3>1. p = refused
      BY <2>3, <2>7
    <3>2. /\ p.ran = ran /\ p.active = rq.active /\ p.pos = rq.pos + 1
          /\ p.back = rq.back /\ p.snapshot = rq.snapshot /\ p.route = rq.route
          /\ p.phase = "response" /\ p.permit = FALSE
      BY <1>0, <3>1 DEF RequestStates
    <3>3. p \in RequestStates
      <4> DEFINE denied == [rq EXCEPT !.phase = "response", !.status = 403, !.mutated = TRUE, !.permit = FALSE]
      <4>1. 403 \in Nat /\ TRUE \in BOOLEAN /\ FALSE \in BOOLEAN /\ "response" \in Phases
        BY DEF Phases
      <4>2. denied \in RequestStates
        <5>1. [rq EXCEPT !.phase = "response", !.status = 403] \in RequestStates
          <6>1. \A r \in RequestStates, ph \in Phases, n \in Nat :
                   [r EXCEPT !.phase = ph, !.status = n] \in RequestStates
            BY DEF RequestStates
          <6> QED BY <1>0, <4>1, <6>1, Zenon
        <5>2. \A r \in RequestStates : [r EXCEPT !.mutated = TRUE, !.permit = FALSE] \in RequestStates
          BY <4>1, Zenon DEF RequestStates
        <5>3. denied = [[rq EXCEPT !.phase = "response", !.status = 403] EXCEPT !.mutated = TRUE, !.permit = FALSE]
          OBVIOUS
        <5> QED BY <5>1, <5>2, <5>3
      <4>3. p = [denied EXCEPT !.pos = rq.pos + 1, !.ran = ran]
        BY <1>0, <3>1 DEF RequestStates
      <4> HIDE DEF denied
      <4> QED BY <2>4, <4>2, <4>3 DEF RequestStates
    <3> QED BY <2>7, <3>2, <3>3 DEF ran
  <2> QED BY <2>5, <2>6, <2>7 DEF FilterDecision
<1>4. /\ Rising(p.ran) /\ Behind(p.ran, p.pos) /\ Range(p.ran) = Range(rq.ran) \cup {v}
  BY <1>0, <1>1, <1>2, <1>3, Visited DEF Met
<1> HIDE DEF v, p
<1>5. Rising(p.active) /\ Behind(p.active, p.pos)
      /\ Range(p.active) = IF d = "DirectResponse" THEN Range(rq.active) ELSE Range(rq.active) \cup {v}
  <2>1. CASE d = "DirectResponse"
    <3>1. \A i \in DOMAIN rq.active : rq.active[i].pos \in Nat
      BY <1>1, Positions
    <3> QED BY <1>0, <1>1, <1>3, <2>1, <3>1 DEF Met, Behind
  <2>2. CASE d # "DirectResponse"
    BY <1>0, <1>1, <1>2, <1>3, <2>2, Visited DEF Met
  <2> QED BY <2>1, <2>2
<1>6. Met(p)
  <2>1. Falling(p.back) /\ Range(p.back) = {} /\ Range(rq.back) = {}
    BY <1>1, <1>3 DEF Falling, Range
  <2>2. Range(p.active) = {w \in Range(p.ran) : w.decision # "DirectResponse"}
    <3>1. Range(rq.active) = {w \in Range(rq.ran) : w.decision # "DirectResponse"}
      BY <1>0, <2>1 DEF Met
    <3> QED BY <1>2, <1>4, <1>5, <3>1
  <2> QED BY <1>1, <1>3, <1>4, <1>5, <2>1, <2>2 DEF Met
<1>7. OneTable(p)
  <2>1. Len(rq.ran) \in Nat /\ DOMAIN rq.ran = 1 .. Len(rq.ran)
    BY <1>1
  <2>2. /\ DOMAIN p.ran = 1 .. (Len(rq.ran) + 1)
        /\ \A i \in 1 .. Len(rq.ran) : p.ran[i] = rq.ran[i]
        /\ p.ran[Len(rq.ran) + 1] = v
    BY <1>1, <1>2, <1>3
  <2> QED BY <1>0, <1>2, <1>3, <2>1, <2>2 DEF OneTable
<1> QED BY <1>3, <1>6, <1>7 DEF RequestOK, PermitHeld, p

(* The last filter of those that have not seen the response sees it next. *)
LEMMA SeenNext ==
  ASSUME NEW a \in Seq(Decided), NEW b \in Seq(Decided), NEW n \in Nat, a # <<>>,
         Rising(a), Behind(a, n), Falling(b),
         \A i \in DOMAIN a, j \in DOMAIN b : a[i].pos < b[j].pos
  PROVE  /\ Front(a) \in Seq(Decided) /\ Append(b, Last(a)) \in Seq(Decided)
         /\ Rising(Front(a)) /\ Behind(Front(a), n) /\ Falling(Append(b, Last(a)))
         /\ \A v \in Range(Front(a)), w \in Range(Append(b, Last(a))) : v.pos < w.pos
         /\ Range(Front(a)) \cup Range(Append(b, Last(a))) = Range(a) \cup Range(b)
<1> DEFINE v == Last(a)
           f == Front(a)
           g == Append(b, Last(a))
<1>1. /\ Len(a) \in Nat /\ Len(a) > 0 /\ DOMAIN a = 1 .. Len(a)
      /\ \A i \in 1 .. Len(a) : a[i] \in Decided /\ a[i].pos \in Nat
  BY Positions
<1>2. /\ Len(b) \in Nat /\ DOMAIN b = 1 .. Len(b)
      /\ \A i \in 1 .. Len(b) : b[i].pos \in Nat
  BY Positions
<1>3. v = a[Len(a)] /\ v \in Decided
  BY <1>1 DEF Last
<1>4. /\ f \in Seq(Decided) /\ DOMAIN f = 1 .. (Len(a) - 1)
      /\ \A i \in 1 .. (Len(a) - 1) : f[i] = a[i]
  BY <1>1 DEF Front
<1>5. /\ g \in Seq(Decided) /\ DOMAIN g = 1 .. (Len(b) + 1)
      /\ \A i \in 1 .. Len(b) : g[i] = b[i]
      /\ g[Len(b) + 1] = v
  BY <1>2, <1>3
<1> HIDE DEF v, f, g
<1>6. Rising(f) /\ Behind(f, n)
  <2>1. ASSUME NEW i \in DOMAIN f, NEW j \in DOMAIN f, i < j PROVE f[i].pos < f[j].pos
    <3>1. i \in DOMAIN a /\ j \in DOMAIN a /\ f[i] = a[i] /\ f[j] = a[j]
      BY <1>1, <1>4
    <3> QED BY <2>1, <3>1 DEF Rising
  <2>2. Behind(f, n)
    BY <1>1, <1>4 DEF Behind
  <2> QED BY <2>1, <2>2 DEF Rising
<1>7. ASSUME NEW i \in DOMAIN g, NEW j \in DOMAIN g, i < j PROVE g[i].pos > g[j].pos
  <2>1. i \in DOMAIN b /\ g[i] = b[i]
    BY <1>2, <1>5, <1>7
  <2>2. CASE j \in DOMAIN b
    BY <1>2, <1>5, <1>7, <2>1, <2>2 DEF Falling
  <2>3. CASE j = Len(b) + 1
    <3>1. Len(a) \in DOMAIN a /\ g[j] = a[Len(a)]
      BY <1>1, <1>3, <1>5, <2>3
    <3>2. a[Len(a)].pos < b[i].pos
      BY <2>1, <3>1
    <3> QED BY <1>1, <1>2, <2>1, <3>1, <3>2
  <2> QED BY <1>2, <1>5, <2>2, <2>3
<1>8. ASSUME NEW i \in DOMAIN f, NEW j \in DOMAIN g PROVE f[i].pos < g[j].pos
  <2>1. i \in 1 .. Len(a) /\ f[i] = a[i] /\ i < Len(a)
    BY <1>1, <1>4
  <2>2. CASE j = Len(b) + 1
    BY <1>1, <1>3, <1>5, <2>1, <2>2 DEF Rising
  <2>3. CASE j \in 1 .. Len(b)
    BY <1>1, <1>2, <1>5, <2>1, <2>3
  <2> QED BY <1>2, <1>5, <2>2, <2>3
<1>9. Range(f) \cup Range(g) = Range(a) \cup Range(b)
  <2>1. ASSUME NEW x PROVE x \in Range(g) <=> x \in Range(b) \/ x = v
    <3>1. x \in Range(g) <=> \E i \in 1 .. (Len(b) + 1) : x = g[i]
      BY <1>5 DEF Range
    <3>2. x \in Range(b) <=> \E i \in 1 .. Len(b) : x = g[i]
      BY <1>2, <1>5 DEF Range
    <3>3. \A i : i \in 1 .. (Len(b) + 1) <=> i \in 1 .. Len(b) \/ i = Len(b) + 1
      BY <1>2
    <3> QED BY <1>5, <3>1, <3>2, <3>3, Zenon
  <2>2. ASSUME NEW x PROVE x \in Range(a) <=> x \in Range(f) \/ x = v
    <3>1. x \in Range(a) <=> \E i \in 1 .. Len(a) : x = a[i]
      BY <1>1 DEF Range
    <3>2. x \in Range(f) <=> \E i \in 1 .. (Len(a) - 1) : x = a[i]
      BY <1>4 DEF Range
    <3>3. \A i : i \in 1 .. Len(a) <=> i \in 1 .. (Len(a) - 1) \/ i = Len(a)
      BY <1>1
    <3> QED BY <1>3, <3>1, <3>2, <3>3, Zenon
  <2> QED BY <2>1, <2>2
<1>10. Falling(g) /\ \A x \in Range(f), y \in Range(g) : x.pos < y.pos
  BY <1>7, <1>8 DEF Falling, Range
<1> QED BY <1>4, <1>5, <1>6, <1>9, <1>10 DEF f, g

(* A filter sees the response. *)
LEMMA ResponseOK ==
  ASSUME RequestOK(rq), In("response"), rq.active # <<>>, NEW status \in Nat
  PROVE  RequestOK([rq EXCEPT !.active = Front(@), !.back = Append(@, Last(rq.active)),
                              !.status = status])
<1> DEFINE a == rq.active
           b == rq.back
           p == [rq EXCEPT !.active = Front(@), !.back = Append(@, Last(rq.active)),
                           !.status = status]
<1>0. /\ rq \in RequestStates /\ Met(rq) /\ OneTable(rq) /\ PermitHeld(rq)
      /\ rq.phase = "response"
  BY DEF RequestOK, In
<1>1. a \in Seq(Decided) /\ b \in Seq(Decided) /\ a # <<>> /\ rq.pos \in Nat
  BY <1>0, Components
<1>2. /\ Rising(a) /\ Behind(a, rq.pos) /\ Falling(b)
      /\ \A i \in DOMAIN a, j \in DOMAIN b : a[i].pos < b[j].pos
  BY <1>0 DEF Met, Range
<1>3. /\ Front(a) \in Seq(Decided) /\ Append(b, Last(a)) \in Seq(Decided)
      /\ Rising(Front(a)) /\ Behind(Front(a), rq.pos) /\ Falling(Append(b, Last(a)))
      /\ \A v \in Range(Front(a)), w \in Range(Append(b, Last(a))) : v.pos < w.pos
      /\ Range(Front(a)) \cup Range(Append(b, Last(a))) = Range(a) \cup Range(b)
  <2> HIDE DEF a, b
  <2> QED BY <1>1, <1>2, SeenNext
<1>4. /\ p \in RequestStates /\ p.active = Front(a) /\ p.back = Append(b, Last(a))
      /\ p.ran = rq.ran /\ p.pos = rq.pos /\ p.route = rq.route
      /\ p.snapshot = rq.snapshot /\ p.phase = "response" /\ p.permit = rq.permit
  BY <1>0, <1>3 DEF RequestStates
<1> HIDE DEF p
<1>5. Met(p)
  BY <1>0, <1>3, <1>4 DEF Met
<1>6. OneTable(p) /\ PermitHeld(p)
  BY <1>0, <1>4 DEF OneTable, PermitHeld
<1> QED BY <1>4, <1>5, <1>6 DEF RequestOK, p

(* Statuses of failed acquisitions are numbers. *)
LEMMA Statuses == \A e \in DOMAIN AcquireStatus : AcquireStatus[e] \in Nat
  BY DEF AcquireStatus

(* The updates of a request that its steps are made of. *)
Unrouted(status) == [Answered(status, FALSE) EXCEPT !.route = NoRoute]
Tunnelled(status) == [Answered(status, TRUE) EXCEPT !.tunnel = TRUE]
Moved(phase, permit, route, pos) ==
    [rq EXCEPT !.phase = phase, !.permit = permit, !.route = route, !.pos = pos]
Ended(status) == [rq EXCEPT !.phase = "done", !.status = status, !.permit = FALSE]

(* An answer of the proxy, of the upstream or of a filter. *)
LEMMA AnsweredOK ==
  ASSUME RequestOK(rq), rq.phase \notin {"idle", "done"}, NEW status \in Nat, NEW m \in BOOLEAN
  PROVE  /\ RequestOK(Answered(status, m))
         /\ RequestOK(Unrouted(status))
         /\ RequestOK(Tunnelled(status))
<1>1. rq \in RequestStates
  BY DEF RequestOK
<1> DEFINE p == Answered(status, m)
           n == Unrouted(status)
           t == Tunnelled(status)
<1>2. p \in RequestStates /\ n \in RequestStates /\ t \in RequestStates
  BY <1>1 DEF RequestStates, Answered, Unrouted, Tunnelled, Phases, NoRoute
<1>3. \A x \in {p, n, t} :
         /\ x.ran = rq.ran /\ x.active = rq.active /\ x.back = rq.back /\ x.snapshot = rq.snapshot
         /\ x.pos = rq.pos /\ x.phase = "response" /\ x.permit = FALSE
         /\ x.route = rq.route \/ x.route = NoRoute
  BY <1>1 DEF RequestStates, Answered, Unrouted, Tunnelled
<1>4. NoRoute.version = NoTable
  BY DEF NoRoute, NoTable
<1>5. rq.pos \in Nat
  BY <1>1, Components
<1> HIDE DEF p, n, t
<1>6. ASSUME NEW x \in {p, n, t} PROVE RequestOK(x)
  BY <1>2, <1>3, <1>4, <1>5, MovedOn
<1> QED BY <1>6 DEF p, n, t

(* A change of the phase alone. *)
LEMMA PhaseOK ==
  ASSUME RequestOK(rq), rq.phase \notin {"idle", "response", "done"},
         NEW phase \in {"filters", "prepare", "upgrade", "send"}, NEW permit \in BOOLEAN,
         permit => phase \in {"prepare", "upgrade", "send"},
         NEW route \in [version : Nat, name : RouteNames \cup {"none"}],
         route.version \in {rq.snapshot, NoTable}, NEW pos \in Nat, pos >= rq.pos
  PROVE  RequestOK(Moved(phase, permit, route, pos))
<1>1. rq \in RequestStates
  BY DEF RequestOK
<1> DEFINE p == Moved(phase, permit, route, pos)
<1>2. p \in RequestStates
  BY <1>1 DEF RequestStates, Phases, Moved
<1>3. /\ p.ran = rq.ran /\ p.active = rq.active /\ p.back = rq.back /\ p.snapshot = rq.snapshot
      /\ p.pos = pos /\ p.phase = phase /\ p.permit = permit /\ p.route = route
  BY <1>1 DEF RequestStates, Moved
<1> HIDE DEF p
<1>4. RequestOK(p)
  BY <1>2, <1>3, MovedOn
<1> QED BY <1>4 DEF p

(* The end of a request. *)
LEMMA DoneOK ==
  ASSUME RequestOK(rq), rq.phase \notin {"idle", "done"}, NEW status \in Nat
  PROVE  RequestOK(Ended(status))
<1>1. rq \in RequestStates
  BY DEF RequestOK
<1> DEFINE p == Ended(status)
<1>2. p \in RequestStates
  BY <1>1 DEF RequestStates, Phases, Ended
<1>3. /\ p.ran = rq.ran /\ p.active = rq.active /\ p.back = rq.back /\ p.snapshot = rq.snapshot
      /\ p.pos = rq.pos /\ p.phase = "done" /\ p.permit = FALSE /\ p.route = rq.route
      /\ rq.pos \in Nat
  BY <1>1 DEF RequestStates, Ended
<1> HIDE DEF p
<1>4. RequestOK(p)
  BY <1>2, <1>3, MovedOn
<1> QED BY <1>4 DEF p

(* Every step of the listener and of the request keeps the invariant. *)
LEMMA PipelineInvStep == PipelineInv /\ [PipelineNext]_pipelineVars => PipelineInv'
<1> SUFFICES ASSUME PipelineInv, [PipelineNext]_pipelineVars PROVE PipelineInv'
  OBVIOUS
<1>0. RequestOK(rq) /\ table \in Nat /\ versions \in Nat
  BY DEF PipelineInv
<1>s. ASSUME NEW p, RequestOK(p), Step(p) PROVE PipelineInv'
  BY <1>0, <1>s DEF Step, PipelineInv
<1>r. /\ rq \in RequestStates /\ rq.pos \in Nat /\ rq.snapshot \in Nat
      /\ rq.route \in [version : Nat, name : RouteNames \cup {"none"}]
      /\ rq.permit \in BOOLEAN /\ rq.route.version \in {rq.snapshot, NoTable}
  BY <1>0 DEF RequestOK, RequestStates, OneTable
<1>n. /\ 101 \in Nat /\ 200 \in Nat /\ 301 \in Nat /\ 400 \in Nat
      /\ 403 \in Nat /\ 404 \in Nat /\ 502 \in Nat
  OBVIOUS
<1>p. rq.pos >= rq.pos /\ rq.pos + 1 >= rq.pos /\ rq.pos + 1 \in Nat /\ TRUE \in BOOLEAN /\ FALSE \in BOOLEAN
  BY <1>r
<1>1. CASE UpdateRoute
  BY <1>0, <1>1 DEF UpdateRoute, PipelineInv
<1>2. CASE RemoveRoute
  BY <1>0, <1>2 DEF RemoveRoute, PipelineInv, NoTable
<1>3. CASE Begin
  <2>1. rq = Resting
    BY <1>0, <1>3 DEF Begin, In, RequestOK
  <2>2. ASSUME NEW status \in Nat PROVE RequestOK([rq EXCEPT !.phase = "done", !.status = status])
    <3> DEFINE p == [rq EXCEPT !.phase = "done", !.status = status]
    <3>1. p \in RequestStates
      BY <1>r DEF RequestStates, Phases
    <3>2. Met(p) /\ OneTable(p) /\ PermitHeld(p) /\ p.phase = "done"
      BY <2>1 DEF Resting, Met, OneTable, PermitHeld, Rising, Falling, Behind, Range, NoTable, NoRoute
    <3> HIDE DEF p
    <3>3. RequestOK(p)
      BY <3>1, <3>2 DEF RequestOK
    <3> QED BY <3>3 DEF p
  <2>3. RequestOK([rq EXCEPT !.phase = "match", !.snapshot = table])
    <3> DEFINE p == [rq EXCEPT !.phase = "match", !.snapshot = table]
    <3>1. p \in RequestStates
      BY <1>0, <1>r DEF RequestStates, Phases
    <3>2. Met(p) /\ OneTable(p) /\ PermitHeld(p) /\ p.phase = "match"
      BY <2>1 DEF Resting, Met, OneTable, PermitHeld, Rising, Falling, Behind, Range, NoTable, NoRoute
    <3> HIDE DEF p
    <3>3. RequestOK(p)
      BY <3>1, <3>2 DEF RequestOK
    <3> QED BY <3>3 DEF p
  <2>4. \/ Step([rq EXCEPT !.phase = "done", !.status = 404])
        \/ Step([rq EXCEPT !.phase = "done", !.status = 400])
        \/ Step([rq EXCEPT !.phase = "match", !.snapshot = table])
    BY <1>3 DEF Begin
  <2>5. CASE Step([rq EXCEPT !.phase = "match", !.snapshot = table])
    BY <1>s, <2>3, <2>5
  <2>6. ASSUME NEW status \in Nat, Step([rq EXCEPT !.phase = "done", !.status = status])
        PROVE  PipelineInv'
    BY <1>s, <2>2, <2>6
  <2> QED BY <1>n, <2>4, <2>5, <2>6, Zenon
<1>4. CASE MatchRequestRoute
  <2>0. rq.phase = "match"
    BY <1>4 DEF MatchRequestRoute, In
  <2>1. RequestOK(Unrouted(404))
    <3>1. 404 \in Nat /\ rq.phase \notin {"idle", "done"} /\ TRUE \in BOOLEAN
      BY <2>0
    <3> QED BY <1>0, <3>1, AnsweredOK, Zenon
  <2>2. ASSUME NEW name \in RouteNames
        PROVE  RequestOK([rq EXCEPT !.phase = "filters", !.route = Matched(name)])
    <3>1. Matched(name) \in [version : Nat, name : RouteNames \cup {"none"}]
          /\ Matched(name).version = rq.snapshot
      BY <1>r DEF Matched
    <3>2. ~rq.permit
      BY <1>0, <2>0 DEF RequestOK, PermitHeld
    <3>3. RequestOK(Moved("filters", FALSE, Matched(name), rq.pos))
      <4>1. rq.phase \notin {"idle", "response", "done"}
        BY <2>0
      <4> QED BY <1>0, <1>p, <1>r, <3>1, <4>1, PhaseOK, Zenon
    <3>4. [rq EXCEPT !.phase = "filters", !.route = Matched(name)]
          = Moved("filters", FALSE, Matched(name), rq.pos)
      BY <1>r, <3>2 DEF RequestStates, Moved
    <3> QED BY <3>3, <3>4
  <2> QED BY <1>4, <1>s, <2>1, <2>2 DEF MatchRequestRoute, Unrouted
<1>5. CASE ApplyRequest
  <2>0. rq.phase = "filters" /\ In("filters")
    BY <1>5 DEF ApplyRequest, In
  <2>1. RequestOK([rq EXCEPT !.pos = @ + 1])
    <3>1. ~rq.permit
      BY <1>0, <2>0 DEF RequestOK, PermitHeld
    <3>2. RequestOK(Moved("filters", FALSE, rq.route, rq.pos + 1))
      <4>1. rq.phase \notin {"idle", "response", "done"}
        BY <2>0
      <4> QED BY <1>0, <1>p, <1>r, <4>1, PhaseOK, Zenon
    <3>3. [rq EXCEPT !.pos = @ + 1]
          = Moved("filters", FALSE, rq.route, rq.pos + 1)
      BY <1>r, <2>0, <3>1 DEF RequestStates, Moved
    <3> QED BY <3>2, <3>3
  <2>2. ASSUME NEW kind \in FilterKinds, NEW d \in RequestDecisions(kind)
        PROVE  RequestOK(AfterDecision(kind, d))
    <3>1. d \in FilterDecision
      BY DEF RequestDecisions
    <3> QED BY <1>0, <2>0, <3>1, DecisionOK
  <2> QED BY <1>5, <1>s, <2>1, <2>2 DEF ApplyRequest
<1>6. ASSUME rq.phase \in {"filters", "prepare", "upgrade", "send"},
             NEW status \in Nat
      PROVE  /\ Step(Answered(status, TRUE)) => PipelineInv'
             /\ Step(Tunnelled(status)) => PipelineInv'
             /\ Step(Failed) => PipelineInv'
  <2>1. RequestOK(Answered(status, TRUE)) /\ RequestOK(Tunnelled(status))
    BY <1>0, <1>6, AnsweredOK
  <2>2. RequestOK(Failed)
    <3>1. RequestOK(Ended(500))
      BY <1>0, <1>6, DoneOK
    <3> QED BY <3>1 DEF Failed, Ended
  <2> QED BY <1>s, <2>1, <2>2
<1>7. CASE AnswerDirectly \/ RedirectFails
  <2>1. rq.phase = "filters"
    BY <1>7 DEF AnswerDirectly, RedirectFails, ChainDone, In
  <2>2. Step(Answered(200, TRUE)) \/ Step(Answered(301, TRUE)) \/ Step(Failed)
    BY <1>7 DEF AnswerDirectly, RedirectFails
  <2> QED BY <1>6, <1>n, <2>1, <2>2, Zenon
<1>8. CASE AcquireUpstream
  <2>0. rq.phase = "filters"
    BY <1>8 DEF AcquireUpstream, ChainDone, In
  <2>1. RequestOK([rq EXCEPT !.phase = "prepare", !.permit = TRUE])
    <3>1. RequestOK(Moved("prepare", TRUE, rq.route, rq.pos))
      <4>1. rq.phase \notin {"idle", "response", "done"}
        BY <2>0
      <4> QED BY <1>0, <1>p, <1>r, <4>1, PhaseOK, Zenon
    <3>2. [rq EXCEPT !.phase = "prepare", !.permit = TRUE]
          = Moved("prepare", TRUE, rq.route, rq.pos)
      BY <1>r DEF RequestStates, Moved
    <3> QED BY <3>1, <3>2
  <2> QED BY <1>8, <1>6, <1>s, <2>0, <2>1, Statuses DEF AcquireUpstream
<1>9. CASE Prepare
  <2>0. rq.phase = "prepare"
    BY <1>9 DEF Prepare, In
  <2>1. ASSUME NEW phase \in {"upgrade", "send"} PROVE RequestOK([rq EXCEPT !.phase = phase])
    <3>1. RequestOK(Moved(phase, rq.permit, rq.route, rq.pos))
      <4>1. rq.phase \notin {"idle", "response", "done"}
        BY <2>0
      <4> QED BY <1>0, <1>p, <1>r, <4>1, PhaseOK, Zenon
    <3>2. [rq EXCEPT !.phase = phase]
          = Moved(phase, rq.permit, rq.route, rq.pos)
      BY <1>r DEF RequestStates, Moved
    <3> QED BY <3>1, <3>2
  <2>2. \/ Step(Failed) \/ Step(Answered(403, TRUE)) \/ Step(Answered(400, TRUE))
        \/ Step([rq EXCEPT !.phase = "upgrade"]) \/ Step([rq EXCEPT !.phase = "send"])
    BY <1>9 DEF Prepare
  <2>3. CASE \E phase \in {"upgrade", "send"} : Step([rq EXCEPT !.phase = phase])
    BY <1>s, <2>1, <2>3
  <2>4. CASE Step(Failed) \/ Step(Answered(403, TRUE)) \/ Step(Answered(400, TRUE))
    BY <1>6, <1>n, <2>0, <2>4, Zenon
  <2> QED BY <2>2, <2>3, <2>4
<1>10. CASE UpgradeWebsocket \/ Send
  <2>1. rq.phase \in {"upgrade", "send"}
    BY <1>10 DEF UpgradeWebsocket, Send, In
  <2>2. Step(Answered(200, TRUE)) \/ Step(Answered(502, TRUE)) \/ Step(Tunnelled(101))
    BY <1>10 DEF UpgradeWebsocket, Send, Tunnelled
  <2> QED BY <1>6, <1>n, <2>1, <2>2, Zenon
<1>11. CASE ApplyResponse
  <2>1. PICK d \in ResponseDecisions(Last(rq.active).kind) :
          Step([rq EXCEPT !.active = Front(@), !.back = Append(@, Last(rq.active)),
                          !.status = IF d = "DirectResponse" THEN 403 ELSE @])
    BY <1>11 DEF ApplyResponse
  <2> DEFINE status == IF d = "DirectResponse" THEN 403 ELSE rq.status
  <2>2. status \in Nat
    BY <1>r DEF RequestStates
  <2> HIDE DEF status
  <2>3. RequestOK([rq EXCEPT !.active = Front(@), !.back = Append(@, Last(rq.active)), !.status = status])
    BY <1>0, <1>11, <2>2, ResponseOK DEF ApplyResponse
  <2> QED BY <1>s, <2>1, <2>3 DEF status
<1>12. CASE Respond
  <2>1. ~rq.permit /\ rq.phase = "response" /\ rq.status \in Nat
    BY <1>0, <1>12, <1>r DEF Respond, In, RequestOK, PermitHeld, RequestStates
  <2>2. RequestOK(Ended(rq.status))
    BY <1>0, <2>1, DoneOK
  <2>3. [rq EXCEPT !.phase = "done"] = Ended(rq.status)
    BY <1>r, <2>1 DEF RequestStates, Ended
  <2> QED BY <1>12, <1>s, <2>2, <2>3 DEF Respond
<1>13. CASE Cancel
  <2>1. rq.phase \notin {"idle", "done"} /\ Step(Ended(0))
    BY <1>13 DEF Cancel, In, Ended
  <2> QED BY <1>0, <1>s, <2>1, DoneOK
<1>14. CASE NextRequest
  BY <1>14, <1>s, RestingOK DEF NextRequest
<1>15. CASE UNCHANGED pipelineVars
  BY <1>0, <1>15 DEF pipelineVars, PipelineInv
<1> QED BY <1>1, <1>2, <1>3, <1>4, <1>5, <1>7, <1>8, <1>9, <1>10, <1>11, <1>12, <1>13, <1>14, <1>15
        DEF PipelineNext, PipelineStep

(* Whatever the listener pushes while a request is under way, the request   *)
(* goes through the filters of one routing state, its response through      *)
(* those that let it pass, in reverse order, and the circuit breaker's      *)
(* permit is held only while the upstream owes the headers.                 *)
THEOREM PipelineOneState == PipelineSpec => []PipelineKept
<1>1. PipelineInit => PipelineInv
  BY RestingOK DEF PipelineInit, PipelineInv, NoTable
<1>2. PipelineInv => PipelineKept
  <2> SUFFICES ASSUME PipelineInv PROVE PipelineKept
    OBVIOUS
  <2>1. Met(rq) /\ OneTable(rq) /\ PermitHeld(rq)
    BY DEF PipelineInv, RequestOK
  <2>2. ResponseMirrorsRequest
    BY <2>1 DEF Met, ResponseMirrorsRequest, Rising, Falling, Visits
  <2>3. OneRoutingState
    BY <2>1 DEF OneTable, OneRoutingState, Visits, Range
  <2> QED BY <2>1, <2>2, <2>3 DEF PermitHeld, PermitOnlyUpstream, PipelineKept
<1> QED BY <1>1, <1>2, PipelineInvStep, PTL DEF PipelineSpec

-----------------------------------------------------------------------------
(* Listeners.                                                              *)

Added == [kind : {"Added"}, gen : Generations, config : Configs, tls : Nat]
Removed == [kind : {"Removed"}]
TlsContextChanged == [kind : {"TlsContextChanged"}, tls : Nat]
Changes == Added \cup Removed \cup TlsContextChanged

TaskStates == [pc : {"none", "spawned", "running", "gone"}, aborted : BOOLEAN,
               uses : BOOLEAN, internal : BOOLEAN,
               routeAt : Nat, secretAt : Nat, route : Nat, tls : Nat]

Routes == [n : Nat, added : BOOLEAN]

ListenersShape ==
    /\ conf \in [Runtimes -> Seq(Changes)]
    /\ routeConf \in [Runtimes -> Seq(Routes)]
    /\ up \subseteq Runtimes
    /\ handle \in [Runtimes -> [gen : Nat, from : Nat]]
    /\ task \in [Runtimes -> [Generations -> TaskStates]]
    /\ routeLog \in [Runtimes -> Seq(Routes)]
    /\ secretLog \in [Runtimes -> Seq(Nat)]
    /\ registry \in [Runtimes -> {0} \cup Generations]
    /\ sent \in [generations : Nat, removals : Nat, routes : Nat, secrets : Nat]

(* The task of g is there and its handle was not dropped. *)
Alive(r, g) == task[r][g].pc \in {"spawned", "running"} /\ ~task[r][g].aborted

(* No generation is started twice: those on their way have no task yet.    *)
GenerationsFresh(r) ==
    /\ \A g \in Generations : g > sent.generations => task[r][g].pc = "none"
    /\ \A i \in DOMAIN conf[r] : conf[r][i].kind = "Added" =>
          /\ task[r][conf[r][i].gen].pc = "none"
          /\ conf[r][i].gen <= sent.generations
          /\ \A j \in DOMAIN conf[r] :
                conf[r][j].kind = "Added" /\ conf[r][j].gen = conf[r][i].gen => i = j

(* The registry has the channel of an internal listener that runs. *)
RegistrationLives(r) ==
    registry[r] # 0 => task[r][registry[r]].pc = "running" /\ task[r][registry[r]].internal

(* What a task has applied is what was broadcast up to where it reads. *)
RouteApplied(r, g) ==
    Alive(r, g) /\ task[r][g].uses =>
        /\ handle[r].from <= task[r][g].routeAt
        /\ task[r][g].route =
             IF task[r][g].routeAt > handle[r].from /\ routeLog[r][task[r][g].routeAt].added
             THEN routeLog[r][task[r][g].routeAt].n ELSE 0

(* No task reads ahead of the broadcasts. *)
NotAhead(r) ==
    /\ handle[r].from <= Len(routeLog[r])
    /\ \A g \in Generations : /\ task[r][g].routeAt <= Len(routeLog[r])
                              /\ task[r][g].secretAt <= Len(secretLog[r])

(* The secret a task has once it has taken every broadcast. *)
FinalSecret(r, g) ==
    IF task[r][g].secretAt < Len(secretLog[r]) THEN secretLog[r][Len(secretLog[r])]
    ELSE task[r][g].tls

(* A change that carries a secret, with no later secret behind it. *)
CarriesLast(q, i) ==
    /\ q[i].kind \in {"Added", "TlsContextChanged"}
    /\ \A j \in DOMAIN q : j > i => q[j].kind # "TlsContextChanged"

NoSecretIn(q) == \A j \in DOMAIN q : q[j].kind # "TlsContextChanged"

(* The newest secret is the last one on its way to the manager, or, when    *)
(* none is, what the manager's listener has or is about to take.            *)
SecretInOrder(r) ==
    r \in up =>
        /\ \A i \in DOMAIN conf[r] : CarriesLast(conf[r], i) => conf[r][i].tls = sent.secrets
        /\ NoSecretIn(conf[r]) =>
              \A g \in Generations : Alive(r, g) => FinalSecret(r, g) = sent.secrets

(* All that the invariant says of one runtime. *)
RuntimeInv(r) ==
    /\ GenerationsFresh(r)
    /\ \A g \in Generations : Alive(r, g) => handle[r].gen = g
    /\ RegistrationLives(r)
    /\ NotAhead(r)
    /\ \A g \in Generations : RouteApplied(r, g)
    /\ SecretInOrder(r)

(* The inductive invariant. *)
ListenersInv ==
    /\ ListenersShape
    /\ notified \subseteq answered /\ accepted \subseteq answered
    /\ \A r \in Runtimes : RuntimeInv(r)

-----------------------------------------------------------------------------
(* Queues.                                                                 *)

(* Sending appends to a queue and leaves what is in it. *)
LEMMA Appended ==
  ASSUME NEW S, NEW q \in Seq(S), NEW x \in S
  PROVE  /\ Append(q, x) \in Seq(S)
         /\ Len(q) \in Nat
         /\ DOMAIN q = 1..Len(q)
         /\ DOMAIN Append(q, x) = 1..(Len(q) + 1)
         /\ Len(Append(q, x)) = Len(q) + 1
         /\ \A i \in 1..Len(q) : Append(q, x)[i] = q[i]
         /\ Append(q, x)[Len(q) + 1] = x
  OBVIOUS

(* Receiving takes the first and moves the others up by one. *)
LEMMA Taken ==
  ASSUME NEW S, NEW q \in Seq(S), q # <<>>
  PROVE  /\ Tail(q) \in Seq(S)
         /\ Head(q) \in S /\ Head(q) = q[1]
         /\ Len(q) \in Nat \ {0}
         /\ DOMAIN q = 1..Len(q)
         /\ DOMAIN Tail(q) = 1..(Len(q) - 1)
         /\ \A i \in 1..(Len(q) - 1) : Tail(q)[i] = q[i + 1]
  OBVIOUS

(* Taking the first change leaves the others in their order, the last secret *)
(* last.                                                                     *)
LEMMA SecretsAfterTaking ==
  ASSUME NEW q \in Seq(Changes), q # <<>>
  PROVE  /\ \A i \in DOMAIN Tail(q) :
               /\ i + 1 \in DOMAIN q /\ Tail(q)[i] = q[i + 1]
               /\ CarriesLast(Tail(q), i) => CarriesLast(q, i + 1)
         /\ NoSecretIn(Tail(q)) =>
               /\ Head(q).kind # "TlsContextChanged" => NoSecretIn(q)
               /\ Head(q).kind \in {"Added", "TlsContextChanged"} => CarriesLast(q, 1)
         /\ 1 \in DOMAIN q /\ q[1] = Head(q)
<1>1. /\ Head(q) = q[1] /\ Len(q) \in Nat \ {0} /\ DOMAIN q = 1..Len(q)
      /\ DOMAIN Tail(q) = 1..(Len(q) - 1)
      /\ \A i \in 1..(Len(q) - 1) : Tail(q)[i] = q[i + 1]
  BY Taken
<1>2. ASSUME NEW j \in DOMAIN q, j # 1
      PROVE  j - 1 \in DOMAIN Tail(q) /\ Tail(q)[j - 1] = q[j] /\ j > 1
  <2>1. j - 1 \in 1..(Len(q) - 1) /\ j > 1
    BY <1>1, <1>2
  <2>2. Tail(q)[j - 1] = q[(j - 1) + 1]
    BY <1>1, <2>1
  <2> QED BY <1>1, <1>2, <2>1, <2>2
<1>3. ASSUME NEW i \in DOMAIN Tail(q), CarriesLast(Tail(q), i)
      PROVE  CarriesLast(q, i + 1)
  <2>1. i \in 1..(Len(q) - 1) /\ q[i + 1] = Tail(q)[i]
    BY <1>1
  <2>2. ASSUME NEW j \in DOMAIN q, j > i + 1 PROVE q[j].kind # "TlsContextChanged"
    <3>1. j # 1 /\ j - 1 > i
      BY <1>1, <2>1, <2>2
    <3> QED BY <1>2, <1>3, <3>1 DEF CarriesLast
  <2> QED BY <1>3, <2>1, <2>2 DEF CarriesLast
<1>4. ASSUME NoSecretIn(Tail(q)), NEW j \in DOMAIN q, j # 1
      PROVE  q[j].kind # "TlsContextChanged"
  BY <1>2, <1>4 DEF NoSecretIn
<1>5. ASSUME NoSecretIn(Tail(q)), Head(q).kind # "TlsContextChanged" PROVE NoSecretIn(q)
  BY <1>1, <1>4, <1>5 DEF NoSecretIn
<1>6. ASSUME NoSecretIn(Tail(q)), Head(q).kind \in {"Added", "TlsContextChanged"}
      PROVE  CarriesLast(q, 1)
  BY <1>1, <1>4, <1>6 DEF CarriesLast
<1> QED BY <1>1, <1>3, <1>5, <1>6

(* A change that is sent stands behind the others. *)
LEMMA SecretsAfterSending ==
  ASSUME NEW q \in Seq(Changes), NEW x \in Changes
  PROVE  /\ x.kind # "TlsContextChanged" =>
               /\ NoSecretIn(Append(q, x)) => NoSecretIn(q)
               /\ \A i \in DOMAIN q : CarriesLast(Append(q, x), i) => CarriesLast(q, i)
         /\ x.kind = "TlsContextChanged" =>
               /\ ~NoSecretIn(Append(q, x))
               /\ \A i \in DOMAIN q : ~CarriesLast(Append(q, x), i)
<1> DEFINE long == Append(q, x)
<1>1. /\ Len(q) \in Nat /\ DOMAIN q = 1..Len(q)
      /\ DOMAIN long = 1..(Len(q) + 1)
      /\ \A i \in 1..Len(q) : long[i] = q[i]
      /\ long[Len(q) + 1] = x
  BY Appended
<1> HIDE DEF long
<1>2. DOMAIN q \subseteq DOMAIN long /\ Len(q) + 1 \in DOMAIN long
  BY <1>1
<1>3. ASSUME NoSecretIn(long) PROVE NoSecretIn(q)
  BY <1>1, <1>2, <1>3 DEF NoSecretIn
<1>4. ASSUME NEW i \in DOMAIN q, CarriesLast(long, i) PROVE CarriesLast(q, i)
  BY <1>1, <1>2, <1>4 DEF CarriesLast
<1>5. ASSUME x.kind = "TlsContextChanged"
      PROVE  ~NoSecretIn(long) /\ \A i \in DOMAIN q : ~CarriesLast(long, i)
  <2>1. \A i \in DOMAIN q : Len(q) + 1 > i
    BY <1>1
  <2> QED BY <1>1, <1>2, <1>5, <2>1 DEF NoSecretIn, CarriesLast
<1> QED BY <1>3, <1>4, <1>5 DEF long

-----------------------------------------------------------------------------
(* The configurator.                                                       *)

(* A runtime of which nothing changes, when no new generation was sent. *)
LEMMA RuntimeStays ==
  ASSUME NEW r \in Runtimes, RuntimeInv(r),
         conf'[r] = conf[r], handle'[r] = handle[r], task'[r] = task[r],
         routeLog'[r] = routeLog[r], secretLog'[r] = secretLog[r], registry'[r] = registry[r],
         r \in up' => r \in up,
         sent'.generations = sent.generations,
         r \in up' => sent'.secrets = sent.secrets
  PROVE  RuntimeInv(r)'
<1>1. GenerationsFresh(r)'
  BY DEF RuntimeInv, GenerationsFresh
<1>2. \A g \in Generations : Alive(r, g)' => handle'[r].gen = g
  BY DEF RuntimeInv, Alive
<1>3. RegistrationLives(r)' /\ NotAhead(r)'
  BY DEF RuntimeInv, RegistrationLives, NotAhead
<1>4. \A g \in Generations : RouteApplied(r, g)'
  BY DEF RuntimeInv, RouteApplied, Alive
<1>5. SecretInOrder(r)'
  BY DEF RuntimeInv, SecretInOrder, Alive, FinalSecret
<1> QED BY <1>1, <1>2, <1>3, <1>4, <1>5 DEF RuntimeInv

(* Nothing of what the managers and the tasks have changes. *)
Aside == UNCHANGED <<routeConf, up, handle, task, routeLog, secretLog, registry>>

(* A listener or secret change is sent to a manager that runs. *)
LEMMA ChangeSent ==
  ASSUME ListenersInv, NEW r \in Runtimes, NEW x \in Changes, Aside,
         conf'[r] = IF r \in up THEN Append(conf[r], x) ELSE conf[r],
         sent'.generations \in Nat, sent.generations <= sent'.generations,
         x.kind = "Added" =>
            /\ x.gen \in Generations /\ sent.generations < x.gen /\ x.gen <= sent'.generations
            /\ x.tls = sent'.secrets,
         x.kind = "TlsContextChanged" => x.tls = sent'.secrets,
         x.kind # "TlsContextChanged" => sent'.secrets = sent.secrets
  PROVE  RuntimeInv(r)'
<1> DEFINE q == conf[r]
           long == Append(q, x)
<1>0. /\ RuntimeInv(r) /\ q \in Seq(Changes)
      /\ sent.generations \in Nat
      /\ UNCHANGED <<routeConf, up, handle, task, routeLog, secretLog, registry>>
  BY DEF ListenersInv, ListenersShape, Aside
<1>1. \A g \in Generations : g \in Nat
  BY ListenersAssumption DEF Generations
<1>2. /\ Len(q) \in Nat /\ DOMAIN q = 1..Len(q)
      /\ DOMAIN long = 1..(Len(q) + 1)
      /\ \A i \in 1..Len(q) : long[i] = q[i]
      /\ long[Len(q) + 1] = x
  BY <1>0, Appended
<1>3. \A i \in DOMAIN q : q[i].kind = "Added" =>
        /\ q[i].gen \in Generations
        /\ task[r][q[i].gen].pc = "none"
        /\ q[i].gen <= sent.generations
  <2>1. ASSUME NEW i \in DOMAIN q, q[i].kind = "Added" PROVE q[i].gen \in Generations
    <3>1. q[i] \in Changes
      BY <1>0
    <3> QED BY <2>1, <3>1 DEF Changes, Added, Removed, TlsContextChanged
  <2> QED BY <2>1, <1>0 DEF RuntimeInv, GenerationsFresh
<1>4. GenerationsFresh(r)'
  <2>1. \A g \in Generations : g > sent'.generations => task'[r][g].pc = "none"
    BY <1>0, <1>1 DEF RuntimeInv, GenerationsFresh
  <2>2. CASE r \notin up
    BY <2>1, <2>2, <1>0, <1>1, <1>3 DEF RuntimeInv, GenerationsFresh
  <2>3. CASE r \in up
    <3>1. conf'[r] = long
      BY <2>3
    <3>2. ASSUME NEW i \in DOMAIN long, long[i].kind = "Added"
          PROVE  /\ task[r][long[i].gen].pc = "none"
                 /\ long[i].gen <= sent'.generations
      <4>1. CASE i \in 1..Len(q)
        BY <4>1, <3>2, <1>0, <1>1, <1>2, <1>3
      <4>2. CASE i = Len(q) + 1
        BY <4>2, <3>2, <1>0, <1>1, <1>2 DEF RuntimeInv, GenerationsFresh
      <4> QED BY <4>1, <4>2, <1>2
    <3>3. ASSUME NEW i \in DOMAIN long, NEW j \in DOMAIN long,
                 long[i].kind = "Added", long[j].kind = "Added", long[j].gen = long[i].gen
          PROVE  i = j
      <4>1. CASE i \in 1..Len(q) /\ j \in 1..Len(q)
        BY <4>1, <3>3, <1>0, <1>2 DEF RuntimeInv, GenerationsFresh
      <4>2. ASSUME NEW n \in 1..Len(q), q[n].kind = "Added", x.kind = "Added", q[n].gen = x.gen
            PROVE  FALSE
        BY <4>2, <1>0, <1>1, <1>2, <1>3
      <4> QED BY <4>1, <4>2, <3>3, <1>2
    <3> QED BY <2>1, <3>1, <3>2, <3>3, <1>0 DEF GenerationsFresh
  <2> QED BY <2>2, <2>3
<1>5. \A g \in Generations : Alive(r, g)' => handle'[r].gen = g
  BY <1>0 DEF RuntimeInv, Alive
<1>6. RegistrationLives(r)' /\ NotAhead(r)' /\ \A g \in Generations : RouteApplied(r, g)'
  BY <1>0 DEF RuntimeInv, RegistrationLives, NotAhead, RouteApplied, Alive
<1>7. SecretInOrder(r)'
  <2> SUFFICES ASSUME r \in up PROVE SecretInOrder(r)'
    BY <1>0 DEF SecretInOrder
  <2>1. conf'[r] = long /\ r \in up'
    BY <1>0
  <2>2. ASSUME NEW i \in DOMAIN long, CarriesLast(long, i) PROVE long[i].tls = sent'.secrets
    <3>1. CASE i = Len(q) + 1
      <4>1. x.kind \in {"Added", "TlsContextChanged"}
        BY <3>1, <2>2, <1>2 DEF CarriesLast
      <4> QED BY <3>1, <4>1, <1>2
    <3>2. CASE i \in DOMAIN q
      <4>1. x.kind # "TlsContextChanged" /\ CarriesLast(q, i)
        BY <3>2, <2>2, <1>0, SecretsAfterSending
      <4>2. q[i].tls = sent.secrets
        BY <3>2, <4>1, <1>0 DEF RuntimeInv, SecretInOrder
      <4> QED BY <3>2, <4>1, <4>2, <1>2
    <3> QED BY <3>1, <3>2, <1>2
  <2>3. ASSUME NoSecretIn(long), NEW g \in Generations, Alive(r, g)'
        PROVE  FinalSecret(r, g)' = sent'.secrets
    <3>1. x.kind # "TlsContextChanged" /\ NoSecretIn(q)
      BY <2>3, <1>0, SecretsAfterSending
    <3>2. Alive(r, g) /\ FinalSecret(r, g)' = FinalSecret(r, g)
      BY <2>3, <1>0 DEF Alive, FinalSecret
    <3>3. FinalSecret(r, g) = sent.secrets
      BY <3>1, <3>2, <1>0 DEF RuntimeInv, SecretInOrder
    <3> QED BY <3>1, <3>2, <3>3
  <2> QED BY <2>1, <2>2, <2>3 DEF SecretInOrder
<1> QED BY <1>4, <1>5, <1>6, <1>7 DEF RuntimeInv

Counts == [generations : Nat, removals : Nat, routes : Nat, secrets : Nat]

(* One more of a kind was sent. *)
LEMMA OneMore ==
  ASSUME NEW s \in Counts
  PROVE  /\ s.generations \in Nat
         /\ LET t == [s EXCEPT !.generations = @ + 1]
            IN t \in Counts /\ t.generations = s.generations + 1 /\ t.secrets = s.secrets
         /\ LET t == [s EXCEPT !.removals = @ + 1]
            IN t \in Counts /\ t.generations = s.generations /\ t.secrets = s.secrets
         /\ LET t == [s EXCEPT !.routes = @ + 1]
            IN t \in Counts /\ t.generations = s.generations /\ t.secrets = s.secrets
         /\ LET t == [s EXCEPT !.secrets = @ + 1]
            IN t \in Counts /\ t.generations = s.generations /\ t.secrets = s.secrets + 1
  BY DEF Counts

(* The configurator's steps. *)
LEMMA ConfiguratorSteps ==
  ASSUME ListenersInv,
         \/ \E config \in Configs : PushListener(config)
         \/ PushRemoval
         \/ PushSecret
         \/ \E added \in BOOLEAN : PushRoute(added)
         \/ RouteAccepted
         \/ RouteTimedOut
  PROVE  ListenersInv'
<1>0. /\ ListenersShape /\ notified \subseteq answered /\ accepted \subseteq answered
      /\ \A r \in Runtimes : RuntimeInv(r)
      /\ sent \in Counts
      /\ conf \in [Runtimes -> Seq(Changes)] /\ routeConf \in [Runtimes -> Seq(Routes)]
  BY DEF ListenersInv, ListenersShape, Counts
<1>1. ASSUME NEW x \in Changes, Aside, UNCHANGED <<notified, accepted, answered>>,
             conf' = SendTo(conf, x),
             sent' \in Counts,
             sent.generations <= sent'.generations,
             x.kind = "Added" =>
                /\ x.gen \in Generations /\ sent.generations < x.gen /\ x.gen <= sent'.generations
                /\ x.tls = sent'.secrets,
             x.kind = "TlsContextChanged" => x.tls = sent'.secrets,
             x.kind # "TlsContextChanged" => sent'.secrets = sent.secrets
      PROVE  ListenersInv'
  <2>1. ASSUME NEW r \in Runtimes
        PROVE  /\ conf'[r] = IF r \in up THEN Append(conf[r], x) ELSE conf[r]
               /\ conf'[r] \in Seq(Changes)
    BY <1>0, <1>1 DEF SendTo
  <2>2. conf' \in [Runtimes -> Seq(Changes)]
    BY <2>1, <1>1 DEF SendTo
  <2>3. ListenersShape'
    BY <2>2, <1>0, <1>1 DEF ListenersShape, Aside, Counts
  <2>4. ASSUME NEW r \in Runtimes PROVE RuntimeInv(r)'
    <3>1. sent'.generations \in Nat
      BY <1>1 DEF Counts
    <3> QED BY <2>1, <3>1, <1>1, ChangeSent
  <2> QED BY <2>3, <2>4, <1>0, <1>1 DEF ListenersInv
<1>2. ASSUME NEW config \in Configs, PushListener(config) PROVE ListenersInv'
  <2> DEFINE x == [kind |-> "Added", gen |-> sent.generations + 1,
                   config |-> config, tls |-> sent.secrets]
  <2>1. /\ sent.generations < MaxGenerations
        /\ sent' = [sent EXCEPT !.generations = @ + 1]
        /\ conf' = SendTo(conf, x)
        /\ Aside /\ UNCHANGED <<notified, accepted, answered>>
    BY <1>2 DEF PushListener, Aside
  <2>2. /\ x.gen \in Generations /\ x \in Changes
        /\ x.kind = "Added" /\ x.tls = sent.secrets /\ x.gen = sent.generations + 1
    BY <2>1, <1>0, ListenersAssumption DEF Generations, Changes, Added, Counts
  <2>3. /\ sent' \in Counts
        /\ sent'.generations = sent.generations + 1 /\ sent'.secrets = sent.secrets
        /\ sent.generations \in Nat
    BY <2>1, <1>0, OneMore
  <2> HIDE DEF x
  <2> QED BY <2>1, <2>2, <2>3, <1>1
<1>3. CASE PushRemoval
  <2> DEFINE x == [kind |-> "Removed"]
  <2>1. /\ sent' = [sent EXCEPT !.removals = @ + 1]
        /\ conf' = SendTo(conf, x)
        /\ Aside /\ UNCHANGED <<notified, accepted, answered>>
    BY <1>3 DEF PushRemoval, Aside
  <2>2. x \in Changes /\ x.kind = "Removed"
    BY DEF Changes, Removed
  <2> HIDE DEF x
  <2>3. /\ sent' \in Counts
        /\ sent'.generations = sent.generations /\ sent'.secrets = sent.secrets
        /\ sent.generations \in Nat
    BY <2>1, <1>0, OneMore
  <2> QED BY <2>1, <2>2, <2>3, <1>1
<1>4. CASE PushSecret
  <2> DEFINE x == [kind |-> "TlsContextChanged", tls |-> sent.secrets + 1]
  <2>1. /\ sent' = [sent EXCEPT !.secrets = @ + 1]
        /\ conf' = SendTo(conf, x)
        /\ Aside /\ UNCHANGED <<notified, accepted, answered>>
    BY <1>4 DEF PushSecret, Aside
  <2>2. x \in Changes /\ x.kind = "TlsContextChanged" /\ x.tls = sent.secrets + 1
    BY <1>0 DEF Changes, TlsContextChanged, Counts
  <2> HIDE DEF x
  <2>3. /\ sent' \in Counts
        /\ sent'.generations = sent.generations /\ sent'.secrets = sent.secrets + 1
        /\ sent.generations \in Nat
    BY <2>1, <1>0, OneMore
  <2> QED BY <2>1, <2>2, <2>3, <1>1
<1>5. ASSUME UNCHANGED <<conf, up, handle, task, routeLog, secretLog, registry>>,
             routeConf' \in [Runtimes -> Seq(Routes)],
             sent' \in Counts,
             sent'.generations = sent.generations, sent'.secrets = sent.secrets,
             notified' \subseteq answered', accepted' \subseteq answered'
      PROVE  ListenersInv'
  <2>1. ListenersShape'
    BY <1>0, <1>5 DEF ListenersShape, Counts
  <2>2. ASSUME NEW r \in Runtimes PROVE RuntimeInv(r)'
    BY <1>0, <1>5, RuntimeStays
  <2> QED BY <2>1, <2>2, <1>5 DEF ListenersInv
<1>6. ASSUME NEW added \in BOOLEAN, PushRoute(added) PROVE ListenersInv'
  <2> DEFINE x == [n |-> sent.routes + 1, added |-> added]
  <2>1. /\ sent' = [sent EXCEPT !.routes = @ + 1]
        /\ routeConf' = SendTo(routeConf, x)
        /\ UNCHANGED <<conf, up, handle, task, routeLog, secretLog, registry>>
        /\ UNCHANGED <<notified, accepted, answered>>
    BY <1>6 DEF PushRoute
  <2>2. x \in Routes
    BY <1>0 DEF Routes, Counts
  <2>3. routeConf' \in [Runtimes -> Seq(Routes)]
    <3>1. \A r \in Runtimes : Append(routeConf[r], x) \in Seq(Routes) /\ routeConf[r] \in Seq(Routes)
      BY <2>2, <1>0, Appended
    <3>2. routeConf' = [r \in Runtimes |-> IF r \in up THEN Append(routeConf[r], x) ELSE routeConf[r]]
      BY <2>1 DEF SendTo
    <3> QED BY <3>1, <3>2
  <2> HIDE DEF x
  <2>4. /\ sent' \in Counts
        /\ sent'.generations = sent.generations /\ sent'.secrets = sent.secrets
    BY <2>1, <1>0, OneMore
  <2> QED BY <2>1, <2>3, <2>4, <1>0, <1>5
<1>7. CASE RouteAccepted
  BY <1>0, <1>5, <1>7 DEF RouteAccepted, HasPermit, Counts
<1>8. CASE RouteTimedOut
  BY <1>0, <1>5, <1>8 DEF RouteTimedOut
<1> QED BY <1>2, <1>3, <1>4, <1>6, <1>7, <1>8

-----------------------------------------------------------------------------
(* The managers.                                                           *)

(* Only runtime r changes. *)
OnlyRuntime(r) ==
    \A q \in Runtimes \ {r} :
        /\ conf'[q] = conf[q] /\ handle'[q] = handle[q] /\ task'[q] = task[q]
        /\ routeLog'[q] = routeLog[q] /\ secretLog'[q] = secretLog[q]
        /\ registry'[q] = registry[q]

(* A step of one runtime keeps the invariant when it keeps that runtime's. *)
LEMMA OneRuntimeStep ==
  ASSUME ListenersInv, NEW r \in Runtimes, OnlyRuntime(r), ListenersShape', RuntimeInv(r)',
         up' \subseteq up, sent' = sent,
         notified' \subseteq answered', accepted' \subseteq answered'
  PROVE  ListenersInv'
<1>1. ASSUME NEW q \in Runtimes \ {r} PROVE RuntimeInv(q)'
  <2>1. RuntimeInv(q)
    BY DEF ListenersInv
  <2>2. /\ conf'[q] = conf[q] /\ handle'[q] = handle[q] /\ task'[q] = task[q]
        /\ routeLog'[q] = routeLog[q] /\ secretLog'[q] = secretLog[q]
        /\ registry'[q] = registry[q]
    BY DEF OnlyRuntime
  <2> QED BY <2>1, <2>2, RuntimeStays
<1> QED BY <1>1 DEF ListenersInv

(* What a manager finds when it takes a change. *)
LEMMA TakingChange ==
  ASSUME ListenersInv, NEW r \in Runtimes, NEW kind, Taking(r, kind)
  PROVE  /\ conf[r] \in Seq(Changes) /\ conf[r] # <<>> /\ conf'[r] = Tail(conf[r])
         /\ Head(conf[r]) \in Changes /\ Head(conf[r]).kind = kind
         /\ conf' \in [Runtimes -> Seq(Changes)]
         /\ \A q \in Runtimes \ {r} : conf'[q] = conf[q]
         /\ r \in up
<1>1. conf \in [Runtimes -> Seq(Changes)] /\ conf[r] # <<>>
      /\ conf' = [conf EXCEPT ![r] = Tail(conf[r])] /\ Head(conf[r]).kind = kind /\ r \in up
  BY DEF ListenersInv, ListenersShape, Taking
<1>2. Tail(conf[r]) \in Seq(Changes) /\ Head(conf[r]) \in Changes
  BY <1>1, Taken
<1> QED BY <1>1, <1>2

(* The generations that are still on their way. *)
LEMMA FreshAfterTaking ==
  ASSUME NEW r \in Runtimes, GenerationsFresh(r), conf[r] \in Seq(Changes), conf[r] # <<>>,
         NEW i \in DOMAIN Tail(conf[r]), Tail(conf[r])[i].kind = "Added"
  PROVE  /\ task[r][Tail(conf[r])[i].gen].pc = "none"
         /\ Tail(conf[r])[i].gen \in Generations
         /\ Tail(conf[r])[i].gen <= sent.generations
         /\ Head(conf[r]).kind = "Added" => Tail(conf[r])[i].gen # Head(conf[r]).gen
         /\ \A j \in DOMAIN Tail(conf[r]) :
               Tail(conf[r])[j].kind = "Added" /\ Tail(conf[r])[j].gen = Tail(conf[r])[i].gen => i = j
<1> DEFINE q == conf[r]
<1>1. /\ Head(q) = q[1] /\ Len(q) \in Nat \ {0} /\ DOMAIN q = 1..Len(q)
      /\ DOMAIN Tail(q) = 1..(Len(q) - 1)
      /\ \A j \in 1..(Len(q) - 1) : Tail(q)[j] = q[j + 1]
  BY Taken
<1>2. \A j \in DOMAIN Tail(q) : j + 1 \in DOMAIN q /\ Tail(q)[j] = q[j + 1] /\ j + 1 # 1
  BY <1>1
<1>3. q[i + 1] \in Changes
  BY <1>2
<1>4. Tail(q)[i].gen \in Generations
  BY <1>2, <1>3 DEF Changes, Added, Removed, TlsContextChanged
<1>5. 1 \in DOMAIN q
  BY <1>1
<1>6. Head(q).kind = "Added" => Tail(q)[i].gen # Head(q).gen
  BY <1>1, <1>2, <1>5 DEF GenerationsFresh
<1>7. ASSUME NEW j \in DOMAIN Tail(q), Tail(q)[j].kind = "Added", Tail(q)[j].gen = Tail(q)[i].gen
      PROVE  i = j
  <2>1. i + 1 = j + 1
    BY <1>2, <1>7 DEF GenerationsFresh
  <2> QED BY <2>1, <1>1
<1> QED BY <1>2, <1>4, <1>6, <1>7 DEF GenerationsFresh

(* Dropping a handle only marks its task. *)
LEMMA Aborted ==
  ASSUME NEW ts \in [Generations -> TaskStates], NEW h
  PROVE  /\ Abort(ts, h) \in [Generations -> TaskStates]
         /\ \A g \in Generations :
               /\ Abort(ts, h)[g].pc = ts[g].pc /\ Abort(ts, h)[g].internal = ts[g].internal
               /\ Abort(ts, h)[g].routeAt = ts[g].routeAt
               /\ Abort(ts, h)[g].secretAt = ts[g].secretAt
               /\ g = h => Abort(ts, h)[g].aborted
               /\ g # h => Abort(ts, h)[g] = ts[g]
<1>1. ASSUME NEW g \in Generations
      PROVE  /\ Abort(ts, h)[g] = IF g = h THEN [ts[g] EXCEPT !.aborted = TRUE] ELSE ts[g]
             /\ ts[g] \in TaskStates
  BY DEF Abort
<1>2. ASSUME NEW x \in TaskStates
      PROVE  LET y == [x EXCEPT !.aborted = TRUE]
             IN /\ y \in TaskStates /\ y.pc = x.pc /\ y.internal = x.internal
                /\ y.routeAt = x.routeAt /\ y.secretAt = x.secretAt /\ y.aborted
  BY DEF TaskStates
<1>3. Abort(ts, h) \in [Generations -> TaskStates]
  BY <1>1, <1>2 DEF Abort
<1> QED BY <1>1, <1>2, <1>3

(* The manager starts a listener: its generation is a new one, it has the    *)
(* newest secret or that is on its way, and the one it replaces is aborted.  *)
LEMMA TakeAddedStep ==
  ASSUME ListenersInv, NEW r \in Runtimes, TakeAdded(r)
  PROVE  ListenersInv'
<1> DEFINE q == conf[r]
           change == Head(q)
           new == Spawned(r, change)
           old == Abort(task[r], handle[r].gen)
<1>1. /\ q \in Seq(Changes) /\ q # <<>> /\ conf'[r] = Tail(q)
      /\ change \in Changes /\ change.kind = "Added"
      /\ conf' \in [Runtimes -> Seq(Changes)]
      /\ \A p \in Runtimes \ {r} : conf'[p] = conf[p]
      /\ r \in up
  BY TakingChange DEF TakeAdded
<1>2. /\ task' = [task EXCEPT ![r] = [old EXCEPT ![change.gen] = new]]
      /\ handle' = [handle EXCEPT ![r] = [gen |-> change.gen, from |-> Len(routeLog[r])]]
      /\ UNCHANGED <<routeConf, up, routeLog, secretLog, registry, notified, sent, accepted, answered>>
  BY DEF TakeAdded, StartListener
<1>3. /\ change.gen \in Generations /\ change.config \in Configs /\ change.tls \in Nat
      /\ change.gen \in Nat
  BY <1>1, ListenersAssumption DEF Changes, Added, Removed, TlsContextChanged, Generations
<1>4. /\ ListenersShape /\ RuntimeInv(r)
      /\ task[r] \in [Generations -> TaskStates] /\ task \in [Runtimes -> [Generations -> TaskStates]]
      /\ handle \in [Runtimes -> [gen : Nat, from : Nat]]
      /\ routeLog[r] \in Seq(Routes) /\ secretLog[r] \in Seq(Nat)
      /\ sent.generations \in Nat
      /\ notified \subseteq answered /\ accepted \subseteq answered
  BY DEF ListenersInv, ListenersShape
<1>5. Len(routeLog[r]) \in Nat /\ Len(secretLog[r]) \in Nat
  BY <1>4
<1>6. /\ new \in TaskStates /\ new.pc = "spawned" /\ new.routeAt = Len(routeLog[r])
      /\ new.secretAt = Len(secretLog[r]) /\ new.route = 0 /\ new.tls = change.tls
  BY <1>3, <1>5, ListenersAssumption DEF Spawned, TaskStates
<1>7. /\ old \in [Generations -> TaskStates]
      /\ \A g \in Generations :
            /\ old[g].pc = task[r][g].pc /\ old[g].internal = task[r][g].internal
            /\ old[g].routeAt = task[r][g].routeAt /\ old[g].secretAt = task[r][g].secretAt
            /\ g = handle[r].gen => old[g].aborted
            /\ g # handle[r].gen => old[g] = task[r][g]
  BY <1>4, Aborted
<1> HIDE DEF new, old
<1>8. /\ task' \in [Runtimes -> [Generations -> TaskStates]]
      /\ task'[r][change.gen] = new
      /\ \A g \in Generations \ {change.gen} : task'[r][g] = old[g]
      /\ \A p \in Runtimes \ {r} : task'[p] = task[p]
  BY <1>2, <1>3, <1>4, <1>6, <1>7
<1>9. /\ handle' \in [Runtimes -> [gen : Nat, from : Nat]]
      /\ handle'[r].gen = change.gen /\ handle'[r].from = Len(routeLog[r])
      /\ \A p \in Runtimes \ {r} : handle'[p] = handle[p]
  BY <1>2, <1>3, <1>4, <1>5
<1>10. ListenersShape'
  BY <1>1, <1>2, <1>4, <1>8, <1>9 DEF ListenersShape
<1>11. OnlyRuntime(r)
  BY <1>1, <1>2, <1>8, <1>9 DEF OnlyRuntime
<1>12. task[r][change.gen].pc = "none" /\ change.gen <= sent.generations
  <2>1. 1 \in DOMAIN q /\ q[1] = change
    BY <1>1, Taken
  <2> QED BY <2>1, <1>1, <1>4 DEF RuntimeInv, GenerationsFresh
<1>13. GenerationsFresh(r)'
  <2>1. ASSUME NEW g \in Generations, g > sent.generations PROVE task'[r][g].pc = "none"
    <3>1. g # change.gen
      BY <2>1, <1>3, <1>4, <1>12 DEF Generations
    <3> QED BY <2>1, <3>1, <1>4, <1>7, <1>8 DEF RuntimeInv, GenerationsFresh
  <2>2. ASSUME NEW i \in DOMAIN Tail(q), Tail(q)[i].kind = "Added"
        PROVE  /\ task'[r][Tail(q)[i].gen].pc = "none"
               /\ Tail(q)[i].gen <= sent.generations
               /\ \A j \in DOMAIN Tail(q) :
                     Tail(q)[j].kind = "Added" /\ Tail(q)[j].gen = Tail(q)[i].gen => i = j
    <3>1. /\ task[r][Tail(q)[i].gen].pc = "none" /\ Tail(q)[i].gen \in Generations
          /\ Tail(q)[i].gen # change.gen
          /\ Tail(q)[i].gen <= sent.generations
          /\ \A j \in DOMAIN Tail(q) :
                Tail(q)[j].kind = "Added" /\ Tail(q)[j].gen = Tail(q)[i].gen => i = j
      BY <2>2, <1>1, <1>4, FreshAfterTaking DEF RuntimeInv
    <3> QED BY <3>1, <1>7, <1>8
  <2> QED BY <2>1, <2>2, <1>1, <1>2 DEF GenerationsFresh
<1>14. ASSUME NEW g \in Generations, Alive(r, g)' PROVE g = change.gen
  <2> SUFFICES ASSUME g # change.gen PROVE FALSE
    OBVIOUS
  <2>1. task'[r][g] = old[g]
    BY <1>8
  <2>2. g # handle[r].gen
    BY <2>1, <1>7, <1>14 DEF Alive
  <2>3. Alive(r, g)
    BY <2>1, <2>2, <1>7, <1>14 DEF Alive
  <2> QED BY <2>2, <2>3, <1>4 DEF RuntimeInv
<1>15. RegistrationLives(r)'
  <2> SUFFICES ASSUME registry[r] # 0
               PROVE  task'[r][registry[r]].pc = "running" /\ task'[r][registry[r]].internal
    BY <1>2 DEF RegistrationLives
  <2>1. registry[r] \in Generations
    BY <1>4 DEF ListenersShape
  <2>2. task[r][registry[r]].pc = "running" /\ task[r][registry[r]].internal
    BY <1>4 DEF RuntimeInv, RegistrationLives
  <2>3. registry[r] # change.gen
    BY <2>2, <1>12
  <2> QED BY <2>1, <2>2, <2>3, <1>7, <1>8
<1>16. NotAhead(r)'
  <2>1. ASSUME NEW g \in Generations
        PROVE  /\ task'[r][g].routeAt <= Len(routeLog[r])
               /\ task'[r][g].secretAt <= Len(secretLog[r])
    <3>1. CASE g = change.gen
      BY <3>1, <1>5, <1>6, <1>8
    <3>2. CASE g # change.gen
      BY <3>2, <1>4, <1>7, <1>8 DEF RuntimeInv, NotAhead
    <3> QED BY <3>1, <3>2
  <2> QED BY <2>1, <1>2, <1>5, <1>9 DEF NotAhead
<1>17. \A g \in Generations : RouteApplied(r, g)'
  <2>1. ASSUME NEW g \in Generations, Alive(r, g)'
        PROVE  task'[r][g].routeAt = handle'[r].from /\ task'[r][g].route = 0
    BY <2>1, <1>6, <1>8, <1>9, <1>14
  <2>2. handle'[r].from \in Nat
    BY <1>5, <1>9
  <2> QED BY <2>1, <2>2 DEF RouteApplied
<1>18. SecretInOrder(r)'
  <2>1. /\ \A i \in DOMAIN Tail(q) :
               /\ i + 1 \in DOMAIN q /\ Tail(q)[i] = q[i + 1]
               /\ CarriesLast(Tail(q), i) => CarriesLast(q, i + 1)
        /\ NoSecretIn(Tail(q)) => CarriesLast(q, 1)
        /\ 1 \in DOMAIN q /\ q[1] = change
    BY <1>1, SecretsAfterTaking
  <2>2. \A i \in DOMAIN q : CarriesLast(q, i) => q[i].tls = sent.secrets
    BY <1>1, <1>4 DEF RuntimeInv, SecretInOrder
  <2>3. \A i \in DOMAIN Tail(q) : CarriesLast(Tail(q), i) => Tail(q)[i].tls = sent.secrets
    BY <2>1, <2>2
  <2>4. NoSecretIn(Tail(q)) => change.tls = sent.secrets
    BY <2>1, <2>2
  <2>5. ASSUME NEW g \in Generations, Alive(r, g)' PROVE FinalSecret(r, g)' = change.tls
    <3>1. task'[r][g] = new /\ secretLog' = secretLog
      BY <2>5, <1>2, <1>8, <1>14
    <3>2. ~(Len(secretLog[r]) < Len(secretLog[r]))
      BY <1>5
    <3> QED BY <3>1, <3>2, <1>6 DEF FinalSecret
  <2> QED BY <2>3, <2>4, <2>5, <1>1, <1>2 DEF SecretInOrder
<1>19. RuntimeInv(r)'
  BY <1>9, <1>13, <1>14, <1>15, <1>16, <1>17, <1>18 DEF RuntimeInv
<1> QED BY <1>2, <1>4, <1>10, <1>11, <1>19, OneRuntimeStep

(* The manager stops the listener, or ends with it: no task is left. *)
LEMMA TakeEndStep ==
  ASSUME ListenersInv, NEW r \in Runtimes, TakeRemoved(r) \/ TakeUnbuildable(r)
  PROVE  ListenersInv'
<1> DEFINE q == conf[r]
           old == Abort(task[r], handle[r].gen)
<1>1. PICK kind \in {"Added", "Removed"} : Taking(r, kind) /\ (kind = "Added" => up' = up \ {r})
  BY DEF TakeRemoved, TakeUnbuildable
<1>2. /\ q \in Seq(Changes) /\ q # <<>> /\ conf'[r] = Tail(q)
      /\ Head(q).kind = kind
      /\ conf' \in [Runtimes -> Seq(Changes)]
      /\ \A p \in Runtimes \ {r} : conf'[p] = conf[p]
      /\ r \in up
  BY <1>1, TakingChange
<1>3. /\ task' = [task EXCEPT ![r] = old]
      /\ handle' = [handle EXCEPT ![r] = [gen |-> 0, from |-> 0]]
      /\ up' \subseteq up
      /\ UNCHANGED <<routeConf, routeLog, secretLog, registry, notified, sent, accepted, answered>>
  BY DEF TakeRemoved, TakeUnbuildable
<1>4. /\ ListenersShape /\ RuntimeInv(r)
      /\ task[r] \in [Generations -> TaskStates] /\ task \in [Runtimes -> [Generations -> TaskStates]]
      /\ handle \in [Runtimes -> [gen : Nat, from : Nat]]
      /\ routeLog[r] \in Seq(Routes)
      /\ notified \subseteq answered /\ accepted \subseteq answered
  BY DEF ListenersInv, ListenersShape
<1>5. /\ old \in [Generations -> TaskStates]
      /\ \A g \in Generations :
            /\ old[g].pc = task[r][g].pc /\ old[g].internal = task[r][g].internal
            /\ old[g].routeAt = task[r][g].routeAt /\ old[g].secretAt = task[r][g].secretAt
            /\ g = handle[r].gen => old[g].aborted
            /\ g # handle[r].gen => old[g] = task[r][g]
  BY <1>4, Aborted
<1> HIDE DEF old
<1>6. /\ task' \in [Runtimes -> [Generations -> TaskStates]]
      /\ task'[r] = old
      /\ \A p \in Runtimes \ {r} : task'[p] = task[p]
      /\ handle' \in [Runtimes -> [gen : Nat, from : Nat]]
      /\ handle'[r].from = 0
      /\ \A p \in Runtimes \ {r} : handle'[p] = handle[p]
  BY <1>3, <1>4, <1>5
<1>7. ListenersShape'
  BY <1>2, <1>3, <1>4, <1>6 DEF ListenersShape
<1>8. OnlyRuntime(r)
  BY <1>2, <1>3, <1>6 DEF OnlyRuntime
<1>9. \A g \in Generations : ~Alive(r, g)'
  <2> SUFFICES ASSUME NEW g \in Generations, Alive(r, g)' PROVE FALSE
    OBVIOUS
  <2>1. g # handle[r].gen /\ Alive(r, g)
    BY <1>5, <1>6 DEF Alive
  <2> QED BY <2>1, <1>4 DEF RuntimeInv
<1>10. GenerationsFresh(r)'
  <2>1. \A g \in Generations : g > sent.generations => task'[r][g].pc = "none"
    BY <1>4, <1>5, <1>6 DEF RuntimeInv, GenerationsFresh
  <2>2. ASSUME NEW i \in DOMAIN Tail(q), Tail(q)[i].kind = "Added"
        PROVE  /\ task'[r][Tail(q)[i].gen].pc = "none"
               /\ Tail(q)[i].gen <= sent.generations
               /\ \A j \in DOMAIN Tail(q) :
                     Tail(q)[j].kind = "Added" /\ Tail(q)[j].gen = Tail(q)[i].gen => i = j
    <3>1. /\ task[r][Tail(q)[i].gen].pc = "none" /\ Tail(q)[i].gen \in Generations
          /\ Tail(q)[i].gen <= sent.generations
          /\ \A j \in DOMAIN Tail(q) :
                Tail(q)[j].kind = "Added" /\ Tail(q)[j].gen = Tail(q)[i].gen => i = j
      BY <2>2, <1>2, <1>4, FreshAfterTaking DEF RuntimeInv
    <3> QED BY <3>1, <1>5, <1>6
  <2> QED BY <2>1, <2>2, <1>2, <1>3 DEF GenerationsFresh
<1>11. RegistrationLives(r)'
  BY <1>3, <1>4, <1>5, <1>6 DEF RuntimeInv, RegistrationLives, ListenersShape
<1>12. NotAhead(r)'
  <2>1. Len(routeLog[r]) \in Nat
    BY <1>4
  <2> QED BY <2>1, <1>3, <1>4, <1>5, <1>6 DEF RuntimeInv, NotAhead
<1>13. \A g \in Generations : RouteApplied(r, g)'
  BY <1>9 DEF RouteApplied
<1>14. SecretInOrder(r)'
  <2>1. \A i \in DOMAIN Tail(q) :
               /\ i + 1 \in DOMAIN q /\ Tail(q)[i] = q[i + 1]
               /\ CarriesLast(Tail(q), i) => CarriesLast(q, i + 1)
    BY <1>2, SecretsAfterTaking
  <2>2. \A i \in DOMAIN q : CarriesLast(q, i) => q[i].tls = sent.secrets
    BY <1>2, <1>4 DEF RuntimeInv, SecretInOrder
  <2> QED BY <2>1, <2>2, <1>2, <1>3, <1>9 DEF SecretInOrder
<1>15. RuntimeInv(r)'
  BY <1>9, <1>10, <1>11, <1>12, <1>13, <1>14 DEF RuntimeInv
<1> QED BY <1>3, <1>4, <1>7, <1>8, <1>15, OneRuntimeStep

(* The manager broadcasts a secret, or drops it when nobody listens: every   *)
(* task that is there takes it in the end.                                   *)
LEMMA TakeSecretStep ==
  ASSUME ListenersInv, NEW r \in Runtimes, TakeSecret(r)
  PROVE  ListenersInv'
<1> DEFINE q == conf[r]
           change == Head(q)
           log == secretLog[r]
<1>1. /\ q \in Seq(Changes) /\ q # <<>> /\ conf'[r] = Tail(q)
      /\ change \in Changes /\ change.kind = "TlsContextChanged"
      /\ conf' \in [Runtimes -> Seq(Changes)]
      /\ \A p \in Runtimes \ {r} : conf'[p] = conf[p]
      /\ r \in up
  BY TakingChange DEF TakeSecret
<1>2. /\ secretLog' = IF Subscribed(r) = {} THEN secretLog
                      ELSE [secretLog EXCEPT ![r] = Append(log, change.tls)]
      /\ UNCHANGED <<routeConf, up, handle, task, routeLog, registry, notified, sent, accepted, answered>>
  BY DEF TakeSecret
<1>3. change.tls \in Nat
  BY <1>1 DEF Changes, Added, Removed, TlsContextChanged
<1>4. /\ ListenersShape /\ RuntimeInv(r)
      /\ log \in Seq(Nat) /\ secretLog \in [Runtimes -> Seq(Nat)]
      /\ task \in [Runtimes -> [Generations -> TaskStates]]
      /\ notified \subseteq answered /\ accepted \subseteq answered
  BY DEF ListenersInv, ListenersShape
<1>5. /\ Append(log, change.tls) \in Seq(Nat) /\ Len(log) \in Nat
      /\ Len(Append(log, change.tls)) = Len(log) + 1
      /\ Append(log, change.tls)[Len(log) + 1] = change.tls
  BY <1>3, <1>4, Appended
<1>6. /\ secretLog' \in [Runtimes -> Seq(Nat)]
      /\ \A p \in Runtimes \ {r} : secretLog'[p] = secretLog[p]
      /\ Subscribed(r) # {} => secretLog'[r] = Append(log, change.tls)
      /\ Subscribed(r) = {} => secretLog'[r] = log
  BY <1>2, <1>4, <1>5
<1>7. ListenersShape'
  BY <1>1, <1>2, <1>4, <1>6 DEF ListenersShape
<1>8. OnlyRuntime(r)
  BY <1>1, <1>2, <1>6 DEF OnlyRuntime
<1>9. GenerationsFresh(r)'
  <2>1. ASSUME NEW i \in DOMAIN Tail(q), Tail(q)[i].kind = "Added"
        PROVE  /\ task[r][Tail(q)[i].gen].pc = "none"
               /\ Tail(q)[i].gen <= sent.generations
               /\ \A j \in DOMAIN Tail(q) :
                     Tail(q)[j].kind = "Added" /\ Tail(q)[j].gen = Tail(q)[i].gen => i = j
    BY <2>1, <1>1, <1>4, FreshAfterTaking DEF RuntimeInv
  <2> QED BY <2>1, <1>1, <1>2, <1>4 DEF RuntimeInv, GenerationsFresh
<1>10. (\A g \in Generations : Alive(r, g)' => handle'[r].gen = g) /\ RegistrationLives(r)'
  BY <1>2, <1>4 DEF RuntimeInv, Alive, RegistrationLives
<1>11. NotAhead(r)'
  <2>1. \A g \in Generations : task[r][g].secretAt <= Len(secretLog'[r])
    <3>1. ASSUME NEW g \in Generations PROVE task[r][g].secretAt \in Nat /\ task[r][g].secretAt <= Len(log)
      BY <1>4 DEF RuntimeInv, NotAhead, TaskStates
    <3>2. Len(secretLog'[r]) \in {Len(log), Len(log) + 1}
      BY <1>5, <1>6
    <3> QED BY <3>1, <3>2, <1>5
  <2> QED BY <2>1, <1>2, <1>4 DEF RuntimeInv, NotAhead
<1>12. \A g \in Generations : RouteApplied(r, g)'
  BY <1>2, <1>4 DEF RuntimeInv, RouteApplied, Alive
<1>13. SecretInOrder(r)'
  <2>1. /\ \A i \in DOMAIN Tail(q) :
               /\ i + 1 \in DOMAIN q /\ Tail(q)[i] = q[i + 1]
               /\ CarriesLast(Tail(q), i) => CarriesLast(q, i + 1)
        /\ NoSecretIn(Tail(q)) => CarriesLast(q, 1)
        /\ 1 \in DOMAIN q /\ q[1] = change
    BY <1>1, SecretsAfterTaking
  <2>2. \A i \in DOMAIN q : CarriesLast(q, i) => q[i].tls = sent.secrets
    BY <1>1, <1>4 DEF RuntimeInv, SecretInOrder
  <2>3. \A i \in DOMAIN Tail(q) : CarriesLast(Tail(q), i) => Tail(q)[i].tls = sent.secrets
    BY <2>1, <2>2
  <2>4. NoSecretIn(Tail(q)) => change.tls = sent.secrets
    BY <2>1, <2>2
  <2>5. ASSUME NEW g \in Generations, Alive(r, g)' PROVE FinalSecret(r, g)' = change.tls
    <3>1. g \in Subscribed(r)
      BY <2>5, <1>2 DEF Alive, Subscribed
    <3>2. secretLog'[r] = Append(log, change.tls)
      BY <3>1, <1>6
    <3>3. task[r][g].secretAt <= Len(log) /\ task[r][g].secretAt \in Nat
      BY <1>4 DEF RuntimeInv, NotAhead, TaskStates
    <3>4. task'[r][g].secretAt < Len(secretLog'[r])
      BY <3>2, <3>3, <1>2, <1>5
    <3> QED BY <3>2, <3>4, <1>5 DEF FinalSecret
  <2> QED BY <2>3, <2>4, <2>5, <1>1, <1>2 DEF SecretInOrder
<1>14. RuntimeInv(r)'
  BY <1>9, <1>10, <1>11, <1>12, <1>13 DEF RuntimeInv
<1> QED BY <1>2, <1>4, <1>7, <1>8, <1>14, OneRuntimeStep

(* The manager broadcasts a route change, or answers it when nobody listens. *)
LEMMA TakeRouteStep ==
  ASSUME ListenersInv, NEW r \in Runtimes, TakeRoute(r)
  PROVE  ListenersInv'
<1> DEFINE change == Head(routeConf[r])
           log == routeLog[r]
<1>1. /\ routeConf[r] # <<>>
      /\ routeConf' = [routeConf EXCEPT ![r] = Tail(routeConf[r])]
      /\ \/ /\ notified' = notified \cup {change.n} /\ answered' = answered \cup {change.n}
            /\ routeLog' = routeLog
         \/ /\ routeLog' = [routeLog EXCEPT ![r] = Append(log, change)]
            /\ UNCHANGED <<notified, answered>>
      /\ UNCHANGED <<conf, up, handle, task, secretLog, registry, sent, accepted>>
  BY DEF TakeRoute
<1>2. /\ ListenersShape /\ RuntimeInv(r)
      /\ log \in Seq(Routes) /\ routeLog \in [Runtimes -> Seq(Routes)]
      /\ routeConf \in [Runtimes -> Seq(Routes)]
      /\ task \in [Runtimes -> [Generations -> TaskStates]]
      /\ handle \in [Runtimes -> [gen : Nat, from : Nat]]
      /\ notified \subseteq answered /\ accepted \subseteq answered
  BY DEF ListenersInv, ListenersShape
<1>3. change \in Routes /\ Tail(routeConf[r]) \in Seq(Routes)
  BY <1>1, <1>2, Taken
<1>4. /\ Append(log, change) \in Seq(Routes) /\ Len(log) \in Nat
      /\ Len(Append(log, change)) = Len(log) + 1
      /\ \A i \in 1..Len(log) : Append(log, change)[i] = log[i]
  BY <1>2, <1>3, Appended
<1>5. /\ routeLog' \in [Runtimes -> Seq(Routes)] /\ routeConf' \in [Runtimes -> Seq(Routes)]
      /\ \A p \in Runtimes \ {r} : routeLog'[p] = routeLog[p]
      /\ routeLog'[r] \in {log, Append(log, change)}
  BY <1>1, <1>2, <1>3, <1>4
<1>6. ListenersShape'
  BY <1>1, <1>2, <1>5 DEF ListenersShape
<1>7. OnlyRuntime(r)
  BY <1>1, <1>5 DEF OnlyRuntime
<1>8. /\ Len(routeLog'[r]) \in {Len(log), Len(log) + 1}
      /\ \A i \in 1..Len(log) : routeLog'[r][i] = log[i]
  BY <1>4, <1>5
<1>9. /\ handle[r].from \in Nat /\ handle[r].from <= Len(log)
      /\ \A g \in Generations : /\ task[r][g].routeAt \in Nat
                                 /\ task[r][g].routeAt <= Len(log)
                                 /\ task[r][g].secretAt <= Len(secretLog[r])
  BY <1>2 DEF RuntimeInv, NotAhead, TaskStates
<1>10. GenerationsFresh(r)' /\ RegistrationLives(r)'
  BY <1>1, <1>2 DEF RuntimeInv, GenerationsFresh, RegistrationLives
<1>11. \A g \in Generations : Alive(r, g)' => handle'[r].gen = g
  BY <1>1, <1>2 DEF RuntimeInv, Alive
<1>12. NotAhead(r)'
  BY <1>1, <1>4, <1>8, <1>9 DEF NotAhead
<1>13. ASSUME NEW g \in Generations PROVE RouteApplied(r, g)'
  <2>1. RouteApplied(r, g)
    BY <1>2 DEF RuntimeInv
  <2>2. task[r][g].routeAt > handle[r].from => routeLog'[r][task[r][g].routeAt] = log[task[r][g].routeAt]
    BY <1>4, <1>8, <1>9
  <2> QED BY <2>1, <2>2, <1>1 DEF RouteApplied, Alive
<1>14. SecretInOrder(r)'
  BY <1>1, <1>2 DEF RuntimeInv, SecretInOrder, Alive, FinalSecret
<1>15. RuntimeInv(r)'
  BY <1>10, <1>11, <1>12, <1>13, <1>14 DEF RuntimeInv
<1>16. notified' \subseteq answered' /\ accepted' \subseteq answered'
  BY <1>1, <1>2
<1> QED BY <1>1, <1>6, <1>7, <1>15, <1>16, OneRuntimeStep

-----------------------------------------------------------------------------
(* The tasks.                                                              *)

(* One task that exists goes on to x, or ends. *)
LEMMA TaskMoves ==
  ASSUME ListenersInv, NEW r \in Runtimes, NEW g \in Generations, NEW x \in TaskStates,
         task[r][g].pc \in {"spawned", "running"},
         task' \in [Runtimes -> [Generations -> TaskStates]],
         task'[r][g] = x,
         \A h \in Generations \ {g} : task'[r][h] = task[r][h],
         \A p \in Runtimes \ {r} : task'[p] = task[p],
         UNCHANGED <<conf, routeConf, up, handle, routeLog, secretLog, sent>>,
         notified' \subseteq answered', accepted' \subseteq answered',
         x.pc \in {"running", "gone"},
         x.routeAt <= Len(routeLog[r]), x.secretAt <= Len(secretLog[r]),
         x.pc = "running" => /\ x.aborted = task[r][g].aborted
                             /\ RouteApplied(r, g)'
                             /\ FinalSecret(r, g)' = FinalSecret(r, g),
         registry' \in [Runtimes -> {0} \cup Generations],
         \A p \in Runtimes \ {r} : registry'[p] = registry[p],
         registry'[r] = g => x.pc = "running" /\ x.internal,
         registry'[r] \in {0, g, registry[r]}
  PROVE  ListenersInv'
<1>1. ListenersShape /\ RuntimeInv(r)
  BY DEF ListenersInv
<1>2. ListenersShape'
  BY <1>1 DEF ListenersShape
<1>3. OnlyRuntime(r)
  BY DEF OnlyRuntime
<1>4. \A h \in Generations : Alive(r, h)' => Alive(r, h)
  BY DEF Alive
<1>5. GenerationsFresh(r)'
  <2>1. \A h \in Generations : task[r][h].pc = "none" => task'[r][h].pc = "none"
    OBVIOUS
  <2>2. \A i \in DOMAIN conf[r] : conf[r][i].kind = "Added" => conf[r][i].gen \in Generations
    <3> SUFFICES ASSUME NEW i \in DOMAIN conf[r], conf[r][i].kind = "Added"
                 PROVE  conf[r][i].gen \in Generations
      OBVIOUS
    <3>1. conf[r][i] \in Changes
      BY <1>1 DEF ListenersShape
    <3> QED BY <3>1 DEF Changes, Added, Removed, TlsContextChanged
  <2> QED BY <2>1, <2>2, <1>1 DEF RuntimeInv, GenerationsFresh
<1>6. \A h \in Generations : Alive(r, h)' => handle'[r].gen = h
  BY <1>1, <1>4 DEF RuntimeInv
<1>7. RegistrationLives(r)'
  <2> SUFFICES ASSUME registry'[r] # 0, registry'[r] # g
               PROVE  task'[r][registry'[r]].pc = "running" /\ task'[r][registry'[r]].internal
    BY DEF RegistrationLives
  <2>1. registry'[r] = registry[r] /\ registry[r] \in Generations \ {g}
    BY <1>1 DEF ListenersShape
  <2> QED BY <2>1, <1>1 DEF RuntimeInv, RegistrationLives
<1>8. NotAhead(r)'
  BY <1>1 DEF RuntimeInv, NotAhead
<1>9. ASSUME NEW h \in Generations PROVE RouteApplied(r, h)'
  <2>1. CASE h = g
    BY <2>1 DEF RouteApplied, Alive
  <2>2. CASE h # g
    BY <2>2, <1>1 DEF RuntimeInv, RouteApplied, Alive
  <2> QED BY <2>1, <2>2
<1>10. SecretInOrder(r)'
  <2>1. ASSUME NEW h \in Generations, Alive(r, h)' PROVE FinalSecret(r, h)' = FinalSecret(r, h)
    <3>1. CASE h = g
      BY <3>1, <2>1 DEF Alive
    <3>2. CASE h # g
      BY <3>2 DEF FinalSecret
    <3> QED BY <3>1, <3>2
  <2> QED BY <2>1, <1>1, <1>4 DEF RuntimeInv, SecretInOrder
<1>11. RuntimeInv(r)'
  BY <1>5, <1>6, <1>7, <1>8, <1>9, <1>10 DEF RuntimeInv
<1> QED BY <1>2, <1>3, <1>11, OneRuntimeStep

(* Replacing the state of one task. *)
LEMMA TaskReplaced ==
  ASSUME task \in [Runtimes -> [Generations -> TaskStates]],
         NEW r \in Runtimes, NEW g \in Generations, NEW x \in TaskStates,
         task' = [task EXCEPT ![r][g] = x]
  PROVE  /\ task' \in [Runtimes -> [Generations -> TaskStates]]
         /\ task'[r][g] = x
         /\ \A h \in Generations \ {g} : task'[r][h] = task[r][h]
         /\ \A p \in Runtimes \ {r} : task'[p] = task[p]
<1>1. [task[r] EXCEPT ![g] = x] \in [Generations -> TaskStates]
  OBVIOUS
<1>2. task' = [task EXCEPT ![r] = [task[r] EXCEPT ![g] = x]]
  OBVIOUS
<1> QED BY <1>1, <1>2

(* What is known of a task before it moves. *)
LEMMA TaskBefore ==
  ASSUME ListenersInv, NEW r \in Runtimes, NEW g \in Generations
  PROVE  /\ task \in [Runtimes -> [Generations -> TaskStates]]
         /\ task[r][g] \in TaskStates
         /\ task[r][g].routeAt \in Nat /\ task[r][g].secretAt \in Nat
         /\ task[r][g].route \in Nat /\ task[r][g].tls \in Nat
         /\ task[r][g].aborted \in BOOLEAN /\ task[r][g].uses \in BOOLEAN
         /\ task[r][g].routeAt <= Len(routeLog[r]) /\ task[r][g].secretAt <= Len(secretLog[r])
         /\ RouteApplied(r, g)
         /\ routeLog[r] \in Seq(Routes) /\ secretLog[r] \in Seq(Nat)
         /\ Len(routeLog[r]) \in Nat /\ Len(secretLog[r]) \in Nat
         /\ handle[r].from \in Nat
         /\ registry \in [Runtimes -> {0} \cup Generations]
         /\ registry[r] = g => task[r][g].pc = "running" /\ task[r][g].internal
         /\ g # 0
         /\ notified \subseteq answered /\ accepted \subseteq answered
<1>1. ListenersShape /\ RuntimeInv(r) /\ notified \subseteq answered /\ accepted \subseteq answered
  BY DEF ListenersInv
<1>2. /\ task \in [Runtimes -> [Generations -> TaskStates]]
      /\ routeLog[r] \in Seq(Routes) /\ secretLog[r] \in Seq(Nat)
      /\ handle[r].from \in Nat
      /\ registry \in [Runtimes -> {0} \cup Generations]
  BY <1>1 DEF ListenersShape
<1>3. task[r][g] \in TaskStates
  BY <1>2
<1>4. Len(routeLog[r]) \in Nat /\ Len(secretLog[r]) \in Nat
  BY <1>2
<1>5. g # 0
  BY DEF Generations
<1> QED BY <1>1, <1>2, <1>3, <1>4, <1>5 DEF RuntimeInv, NotAhead, RegistrationLives, TaskStates

(* A task that starts registers or binds, and subscribes. *)
LEMMA StartStep ==
  ASSUME ListenersInv, NEW r \in Runtimes, NEW g \in Generations, Start(r, g)
  PROVE  ListenersInv'
<1> DEFINE x == Started(r, g)
<1>0. /\ task \in [Runtimes -> [Generations -> TaskStates]]
      /\ task[r][g] \in TaskStates
      /\ task[r][g].routeAt <= Len(routeLog[r]) /\ task[r][g].secretAt <= Len(secretLog[r])
      /\ RouteApplied(r, g)
      /\ registry \in [Runtimes -> {0} \cup Generations]
      /\ registry[r] = g => task[r][g].pc = "running"
      /\ notified \subseteq answered /\ accepted \subseteq answered
  BY TaskBefore
<1>1. /\ task[r][g].pc = "spawned"
      /\ task' = [task EXCEPT ![r][g] = x]
      /\ registry' = IF task[r][g].internal THEN [registry EXCEPT ![r] = g] ELSE registry
      /\ UNCHANGED <<conf, routeConf, up, handle, routeLog, secretLog, notified, sent, accepted, answered>>
  BY DEF Start
<1>2. /\ x \in TaskStates /\ x.pc = "running" /\ x.aborted = task[r][g].aborted
      /\ x.uses = task[r][g].uses /\ x.internal = task[r][g].internal
      /\ x.routeAt = task[r][g].routeAt /\ x.secretAt = task[r][g].secretAt
      /\ x.route = task[r][g].route /\ x.tls = task[r][g].tls
  BY <1>0 DEF Started, TaskStates
<1> HIDE DEF x
<1>3. /\ task' \in [Runtimes -> [Generations -> TaskStates]]
      /\ task'[r][g] = x
      /\ \A h \in Generations \ {g} : task'[r][h] = task[r][h]
      /\ \A p \in Runtimes \ {r} : task'[p] = task[p]
  BY <1>0, <1>1, <1>2, TaskReplaced
<1>4. RouteApplied(r, g)'
  BY <1>0, <1>1, <1>2, <1>3 DEF RouteApplied, Alive
<1>5. FinalSecret(r, g)' = FinalSecret(r, g)
  BY <1>1, <1>2, <1>3 DEF FinalSecret
<1>6. /\ registry' \in [Runtimes -> {0} \cup Generations]
      /\ \A p \in Runtimes \ {r} : registry'[p] = registry[p]
      /\ registry'[r] = g => x.internal
      /\ registry'[r] \in {0, g, registry[r]}
  BY <1>0, <1>1, <1>2
<1> QED BY <1>0, <1>1, <1>2, <1>3, <1>4, <1>5, <1>6, TaskMoves

(* A task that ends, for whatever reason, takes its registration with it. *)
LEMMA EndStep ==
  ASSUME ListenersInv, NEW r \in Runtimes, NEW g \in Generations, End(r, g),
         task[r][g].pc \in {"spawned", "running"},
         UNCHANGED <<conf, routeConf, up, handle, routeLog, secretLog,
                     notified, sent, accepted, answered>>
  PROVE  ListenersInv'
<1> DEFINE x == [NoTask EXCEPT !.pc = "gone"]
<1>0. /\ task \in [Runtimes -> [Generations -> TaskStates]]
      /\ Len(routeLog[r]) \in Nat /\ Len(secretLog[r]) \in Nat
      /\ registry \in [Runtimes -> {0} \cup Generations]
      /\ registry[r] = g => task[r][g].pc = "running" /\ task[r][g].internal
      /\ g # 0
      /\ notified \subseteq answered /\ accepted \subseteq answered
  BY TaskBefore
<1>1. /\ task' = [task EXCEPT ![r][g] = x]
      /\ registry' = IF task[r][g].internal /\ task[r][g].pc = "running"
                     THEN [registry EXCEPT ![r] = 0] ELSE registry
  BY DEF End
<1>2. x \in TaskStates /\ x.pc = "gone" /\ x.routeAt = 0 /\ x.secretAt = 0
  BY DEF NoTask, TaskStates
<1> HIDE DEF x
<1>3. /\ task' \in [Runtimes -> [Generations -> TaskStates]]
      /\ task'[r][g] = x
      /\ \A h \in Generations \ {g} : task'[r][h] = task[r][h]
      /\ \A p \in Runtimes \ {r} : task'[p] = task[p]
  BY <1>0, <1>1, <1>2, TaskReplaced
<1>4. /\ registry' \in [Runtimes -> {0} \cup Generations]
      /\ \A p \in Runtimes \ {r} : registry'[p] = registry[p]
      /\ registry'[r] # g
      /\ registry'[r] \in {0, g, registry[r]}
  BY <1>0, <1>1
<1>5. x.routeAt <= Len(routeLog[r]) /\ x.secretAt <= Len(secretLog[r])
  BY <1>0, <1>2
<1> QED BY <1>0, <1>2, <1>3, <1>4, <1>5, TaskMoves

(* What a route change that the task uses, one it does not use and a secret *)
(* make of a task.                                                           *)
RouteTaken(old, x, a, b) == x = [old EXCEPT !.routeAt = a, !.route = b]
RoutePassed(old, x, a) == x = [old EXCEPT !.routeAt = a]
SecretTaken(old, x, a, b) == x = [old EXCEPT !.tls = a, !.secretAt = b]

SameTask(old, x) ==
    /\ x \in TaskStates /\ x.pc = old.pc /\ x.aborted = old.aborted
    /\ x.uses = old.uses /\ x.internal = old.internal

(* They leave the rest of its record alone. *)
LEMMA TaskUpdated ==
  ASSUME NEW old \in TaskStates, NEW x, NEW a \in Nat, NEW b \in Nat
  PROVE  /\ RouteTaken(old, x, a, b) =>
               /\ SameTask(old, x) /\ x.routeAt = a /\ x.route = b
               /\ x.secretAt = old.secretAt /\ x.tls = old.tls
         /\ RoutePassed(old, x, a) =>
               /\ SameTask(old, x) /\ x.routeAt = a
               /\ x.secretAt = old.secretAt /\ x.tls = old.tls
         /\ SecretTaken(old, x, a, b) =>
               /\ SameTask(old, x) /\ x.tls = a /\ x.secretAt = b
               /\ x.routeAt = old.routeAt /\ x.route = old.route
  BY DEF RouteTaken, RoutePassed, SecretTaken, SameTask, TaskStates

(* A route change is applied at its turn. *)
LEMMA ApplyRouteStep ==
  ASSUME ListenersInv, NEW r \in Runtimes, NEW g \in Generations, ApplyRoute(r, g)
  PROVE  ListenersInv'
<1> DEFINE old == task[r][g]
           change == routeLog[r][old.routeAt + 1]
           x == IF old.uses
                THEN [old EXCEPT !.routeAt = old.routeAt + 1, !.route = IF change.added THEN change.n ELSE 0]
                ELSE [old EXCEPT !.routeAt = old.routeAt + 1]
<1>0. /\ task \in [Runtimes -> [Generations -> TaskStates]]
      /\ old \in TaskStates /\ old.routeAt \in Nat /\ old.aborted \in BOOLEAN /\ old.uses \in BOOLEAN
      /\ old.routeAt <= Len(routeLog[r]) /\ old.secretAt <= Len(secretLog[r])
      /\ RouteApplied(r, g)
      /\ routeLog[r] \in Seq(Routes) /\ Len(routeLog[r]) \in Nat /\ handle[r].from \in Nat
      /\ registry \in [Runtimes -> {0} \cup Generations]
      /\ registry[r] = g => old.pc = "running" /\ old.internal
      /\ notified \subseteq answered /\ accepted \subseteq answered
  BY TaskBefore
<1>1. /\ old.pc = "running" /\ old.routeAt < Len(routeLog[r])
      /\ notified' \subseteq answered' /\ accepted' \subseteq answered'
      /\ UNCHANGED <<conf, routeConf, up, handle, routeLog, secretLog, registry, sent>>
  BY <1>0 DEF ApplyRoute, NextRoute
<1>2. change \in Routes
  BY <1>0, <1>1
<1>3. change.n \in Nat /\ change.added \in BOOLEAN
  BY <1>2 DEF Routes
<1>4. /\ x \in TaskStates /\ x.pc = "running" /\ x.aborted = old.aborted /\ x.uses = old.uses
      /\ x.internal = old.internal /\ x.routeAt = old.routeAt + 1
      /\ x.secretAt = old.secretAt /\ x.tls = old.tls
      /\ old.uses => x.route = IF change.added THEN change.n ELSE 0
  <2>0. old.routeAt + 1 \in Nat /\ (IF change.added THEN change.n ELSE 0) \in Nat
    BY <1>0, <1>3
  <2>1. CASE old.uses
    <3> DEFINE a == old.routeAt + 1
               b == IF change.added THEN change.n ELSE 0
    <3>1. RouteTaken(old, x, a, b)
      BY <2>1 DEF RouteTaken
    <3>2. a \in Nat /\ b \in Nat
      BY <2>0
    <3> HIDE DEF a, b, x
    <3>3. SameTask(old, x) /\ x.routeAt = a /\ x.route = b /\ x.secretAt = old.secretAt /\ x.tls = old.tls
      BY <3>1, <3>2, <1>0, TaskUpdated
    <3> QED BY <3>3, <1>1 DEF SameTask, a, b
  <2>2. CASE ~old.uses
    <3>1. RoutePassed(old, x, old.routeAt + 1)
      BY <2>2 DEF RoutePassed
    <3> HIDE DEF old, change, x
    <3> QED BY <3>1, <2>0, <1>0, <1>1, <2>2, TaskUpdated DEF SameTask
  <2> QED BY <2>1, <2>2
<1>5. task' = [task EXCEPT ![r][g] = x]
  <2>1. CASE old.uses
    <3>1. x = [old EXCEPT !.routeAt = old.routeAt + 1, !.route = IF change.added THEN change.n ELSE 0]
      BY <2>1
    <3> QED BY <3>1, <2>1, Zenon DEF ApplyRoute, NextRoute
  <2>2. CASE ~old.uses
    <3>1. x = [old EXCEPT !.routeAt = old.routeAt + 1]
      BY <2>2
    <3> QED BY <3>1, <2>2, Zenon DEF ApplyRoute, NextRoute
  <2> QED BY <2>1, <2>2
<1> HIDE DEF x
<1>6. /\ task' \in [Runtimes -> [Generations -> TaskStates]]
      /\ task'[r][g] = x
      /\ \A h \in Generations \ {g} : task'[r][h] = task[r][h]
      /\ \A p \in Runtimes \ {r} : task'[p] = task[p]
  BY <1>0, <1>4, <1>5, TaskReplaced
<1>7. RouteApplied(r, g)'
  <2> SUFFICES ASSUME Alive(r, g)', task'[r][g].uses
               PROVE  /\ handle[r].from <= x.routeAt
                      /\ x.route = IF x.routeAt > handle[r].from /\ routeLog[r][x.routeAt].added
                                   THEN routeLog[r][x.routeAt].n ELSE 0
    BY <1>1, <1>6 DEF RouteApplied
  <2>1. Alive(r, g) /\ old.uses
    BY <1>1, <1>4, <1>6 DEF Alive
  <2>2. handle[r].from <= old.routeAt
    BY <2>1, <1>0 DEF RouteApplied
  <2>3. x.routeAt > handle[r].from
    BY <2>2, <1>0, <1>4
  <2> QED BY <2>1, <2>2, <2>3, <1>0, <1>4
<1>8. FinalSecret(r, g)' = FinalSecret(r, g)
  BY <1>1, <1>4, <1>6 DEF FinalSecret
<1>9. x.routeAt <= Len(routeLog[r]) /\ x.secretAt <= Len(secretLog[r])
  BY <1>0, <1>1, <1>4
<1> QED BY <1>0, <1>1, <1>4, <1>6, <1>7, <1>8, <1>9, TaskMoves

(* A secret is taken at its turn, and the last one is what the task ends up *)
(* with.                                                                    *)
LEMMA ApplySecretStep ==
  ASSUME ListenersInv, NEW r \in Runtimes, NEW g \in Generations, ApplySecret(r, g)
  PROVE  ListenersInv'
<1> DEFINE old == task[r][g]
           x == [old EXCEPT !.tls = secretLog[r][old.secretAt + 1], !.secretAt = old.secretAt + 1]
<1>0. /\ task \in [Runtimes -> [Generations -> TaskStates]]
      /\ old \in TaskStates /\ old.secretAt \in Nat
      /\ old.routeAt <= Len(routeLog[r]) /\ old.secretAt <= Len(secretLog[r])
      /\ RouteApplied(r, g)
      /\ secretLog[r] \in Seq(Nat) /\ Len(secretLog[r]) \in Nat
      /\ registry \in [Runtimes -> {0} \cup Generations]
      /\ registry[r] = g => old.pc = "running" /\ old.internal
      /\ notified \subseteq answered /\ accepted \subseteq answered
  BY TaskBefore
<1>1. /\ old.pc = "running" /\ old.secretAt < Len(secretLog[r])
      /\ UNCHANGED <<conf, routeConf, up, handle, routeLog, secretLog, registry, sent,
                     notified, accepted, answered>>
  BY DEF ApplySecret
<1>2. secretLog[r][old.secretAt + 1] \in Nat
  BY <1>0, <1>1
<1>3. /\ x \in TaskStates /\ x.pc = "running" /\ x.aborted = old.aborted /\ x.uses = old.uses
      /\ x.internal = old.internal /\ x.routeAt = old.routeAt /\ x.route = old.route
      /\ x.secretAt = old.secretAt + 1 /\ x.tls = secretLog[r][old.secretAt + 1]
  <2>1. old.secretAt + 1 \in Nat
    BY <1>0
  <2> DEFINE a == secretLog[r][old.secretAt + 1]
             b == old.secretAt + 1
  <2>2. SecretTaken(old, x, a, b)
    BY DEF SecretTaken
  <2>3. a \in Nat /\ b \in Nat /\ old \in TaskStates
    BY <2>1, <1>0, <1>2
  <2> HIDE DEF a, b, x, old
  <2>4. SameTask(old, x) /\ x.tls = a /\ x.secretAt = b /\ x.routeAt = old.routeAt /\ x.route = old.route
    BY <2>2, <2>3, TaskUpdated
  <2> QED BY <2>4, <1>1 DEF SameTask, a, b
<1>4. task' = [task EXCEPT ![r][g] = x]
  BY DEF ApplySecret
<1> HIDE DEF x
<1>5. /\ task' \in [Runtimes -> [Generations -> TaskStates]]
      /\ task'[r][g] = x
      /\ \A h \in Generations \ {g} : task'[r][h] = task[r][h]
      /\ \A p \in Runtimes \ {r} : task'[p] = task[p]
  BY <1>0, <1>3, <1>4, TaskReplaced
<1>6. RouteApplied(r, g)'
  BY <1>0, <1>1, <1>3, <1>5 DEF RouteApplied, Alive
<1>7. FinalSecret(r, g)' = FinalSecret(r, g)
  <2>1. FinalSecret(r, g) = secretLog[r][Len(secretLog[r])]
    BY <1>1 DEF FinalSecret
  <2>2. FinalSecret(r, g)' = IF x.secretAt < Len(secretLog[r])
                             THEN secretLog[r][Len(secretLog[r])] ELSE x.tls
    BY <1>1, <1>5 DEF FinalSecret
  <2>3. ~(x.secretAt < Len(secretLog[r])) => old.secretAt + 1 = Len(secretLog[r])
    BY <1>0, <1>1, <1>3
  <2> QED BY <2>1, <2>2, <2>3, <1>3
<1>8. x.routeAt <= Len(routeLog[r]) /\ x.secretAt <= Len(secretLog[r])
  BY <1>0, <1>1, <1>3
<1> QED BY <1>0, <1>1, <1>3, <1>5, <1>6, <1>7, <1>8, TaskMoves

-----------------------------------------------------------------------------

(* The invariant of the listeners is inductive. *)
LEMMA ListenersInvariant == ListenersSpec => []ListenersInv
<1>1. ListenersInit => ListenersInv
  <2> SUFFICES ASSUME ListenersInit PROVE ListenersInv
    OBVIOUS
  <2>1. NoTask \in TaskStates /\ NoTask.pc = "none" /\ NoTask.routeAt = 0 /\ NoTask.secretAt = 0
    BY DEF NoTask, TaskStates
  <2>2. ListenersShape
    BY <2>1 DEF ListenersInit, ListenersShape
  <2>3. ASSUME NEW r \in Runtimes PROVE RuntimeInv(r)
    <3>1. /\ conf[r] = <<>> /\ routeLog[r] = <<>> /\ secretLog[r] = <<>>
          /\ registry[r] = 0 /\ handle[r].from = 0
          /\ \A g \in Generations : task[r][g] = NoTask
      BY DEF ListenersInit
    <3>2. \A g \in Generations : ~Alive(r, g)
      BY <2>1, <3>1 DEF Alive
    <3>3. GenerationsFresh(r)
      BY <2>1, <3>1 DEF GenerationsFresh
    <3>4. NotAhead(r) /\ RegistrationLives(r)
      BY <2>1, <3>1 DEF NotAhead, RegistrationLives
    <3>5. SecretInOrder(r)
      BY <3>1, <3>2 DEF SecretInOrder
    <3> QED BY <3>2, <3>3, <3>4, <3>5 DEF RuntimeInv, RouteApplied
  <2> QED BY <2>2, <2>3 DEF ListenersInit, ListenersInv
<1>2. ListenersInv /\ [ListenersNext]_listenerVars => ListenersInv'
  <2> SUFFICES ASSUME ListenersInv, [ListenersNext]_listenerVars PROVE ListenersInv'
    OBVIOUS
  <2>1. CASE \/ \E config \in Configs : PushListener(config)
             \/ PushRemoval
             \/ PushSecret
             \/ \E added \in BOOLEAN : PushRoute(added)
             \/ RouteAccepted
             \/ RouteTimedOut
    BY <2>1, ConfiguratorSteps
  <2>2. ASSUME NEW r \in Runtimes, ManagerStep(r) PROVE ListenersInv'
    BY <2>2, TakeAddedStep, TakeEndStep, TakeSecretStep, TakeRouteStep DEF ManagerStep
  <2>3. ASSUME NEW r \in Runtimes, NEW g \in Generations,
               TaskStep(r, g) \/ BindFails(r, g) \/ ChannelClosed(r, g)
        PROVE  ListenersInv'
    <3>1. CASE Start(r, g)
      BY <3>1, StartStep
    <3>2. CASE ApplyRoute(r, g)
      BY <3>2, ApplyRouteStep
    <3>3. CASE ApplySecret(r, g)
      BY <3>3, ApplySecretStep
    <3>4. CASE Lagged(r, g)
      BY <3>4, EndStep DEF Lagged
    <3>5. CASE Dropped(r, g)
      BY <3>5, EndStep DEF Dropped
    <3>6. CASE BindFails(r, g)
      BY <3>6, EndStep DEF BindFails
    <3>7. CASE ChannelClosed(r, g)
      BY <3>7, EndStep DEF ChannelClosed
    <3> QED BY <2>3, <3>1, <3>2, <3>3, <3>4, <3>5, <3>6, <3>7 DEF TaskStep
  <2>4. CASE UNCHANGED listenerVars
    <3>1. UNCHANGED <<conf, routeConf, up, handle, task, routeLog, secretLog, registry,
                      notified, sent, accepted, answered>>
      BY <2>4 DEF listenerVars
    <3>2. ListenersShape'
      BY <3>1 DEF ListenersInv, ListenersShape
    <3>3. ASSUME NEW r \in Runtimes PROVE RuntimeInv(r)'
      <4>1. RuntimeInv(r)
        BY DEF ListenersInv
      <4> QED BY <3>1, <4>1, RuntimeStays
    <3> QED BY <3>1, <3>2, <3>3 DEF ListenersInv
  <2> QED BY <2>1, <2>2, <2>3, <2>4 DEF ListenersNext
<1> QED BY <1>1, <1>2, PTL DEF ListenersSpec

(* The configuration path of a listener, from the configurator through the   *)
(* managers of all runtimes to the tasks: no task outlives its handle, the   *)
(* registry has no dead listener, an update is accepted only for itself, and *)
(* a serving task that has taken its updates has the last route broadcast    *)
(* since its start and the newest secret, whatever order select! serves the  *)
(* two channels in, however far a task lags and whenever it is replaced.     *)
THEOREM ListenersInStep == ListenersSpec => []ListenersKept
<1>1. ListenersInv => ListenersKept
  <2> SUFFICES ASSUME ListenersInv PROVE ListenersKept
    OBVIOUS
  <2>0. \A r \in Runtimes : RuntimeInv(r)
    BY DEF ListenersInv
  <2>1. NoOrphans
    BY <2>0 DEF NoOrphans, RuntimeInv, Alive
  <2>2. AcceptedForItself
    BY DEF ListenersInv, AcceptedForItself
  <2>3. NoDeadRegistration
    BY <2>0 DEF RuntimeInv, RegistrationLives, NoDeadRegistration
  <2>4. RoutesAreComplete
    <3> SUFFICES ASSUME NEW r \in Runtimes, NEW g \in Generations,
                        Serves(r, g), task[r][g].uses, task[r][g].routeAt = Len(routeLog[r])
                 PROVE  task[r][g].route =
                          IF Len(routeLog[r]) > handle[r].from /\ Last(routeLog[r]).added
                          THEN Last(routeLog[r]).n ELSE 0
      BY DEF RoutesAreComplete
    <3>1. Alive(r, g)
      BY DEF Serves, Alive
    <3>2. RouteApplied(r, g)
      BY <2>0 DEF RuntimeInv
    <3>3. Last(routeLog[r]) = routeLog[r][task[r][g].routeAt]
      BY DEF Last
    <3> QED BY <3>1, <3>2, <3>3 DEF RouteApplied
  <2>5. SecretIsCurrent
    <3> SUFFICES ASSUME NEW r \in Runtimes, NEW g \in Generations,
                        Serves(r, g), r \in up, conf[r] = <<>>,
                        task[r][g].secretAt = Len(secretLog[r])
                 PROVE  task[r][g].tls = sent.secrets
      BY DEF SecretIsCurrent
    <3>1. Alive(r, g) /\ NoSecretIn(conf[r])
      BY DEF Serves, Alive, NoSecretIn
    <3>2. FinalSecret(r, g) = sent.secrets
      BY <2>0, <3>1 DEF RuntimeInv, SecretInOrder
    <3>3. Len(secretLog[r]) \in Nat
      BY TaskBefore
    <3> QED BY <3>2, <3>3 DEF FinalSecret
  <2> QED BY <2>1, <2>2, <2>3, <2>4, <2>5 DEF ListenersKept
<1> QED BY <1>1, ListenersInvariant, PTL
=============================================================================
