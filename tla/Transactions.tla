---------------------------- MODULE Transactions ----------------------------
(***************************************************************************)
(* The transactions of the HTTP connection manager: their contexts, which  *)
(* are recycled through a pool (http_connection_manager.rs), the bodies    *)
(* whose end is reported by a callback (body/instrumented_body.rs), and    *)
(* the flush of a transaction, queued on its connection and run when the   *)
(* connection is polled (utils/instrumented_stream.rs).                    *)
(*                                                                         *)
(* The callback of a body is shared by the copies a retry or a failover    *)
(* makes (transport/http_channel.rs). A copy that is dropped looks whether *)
(* it is the only holder and then lets go of the callback, in two steps;   *)
(* bodies are dropped by any thread.                                       *)
(***************************************************************************)
EXTENDS Naturals, Sequences, FiniteSets

CONSTANTS
    TxRequests,
    Tries,      \* the attempts of a request that is retried
    PoolCap,    \* contexts the pool of a thread keeps
    TracingOn     \* whether the tracing feature is built in

ASSUME TransactionAssumption ==
    /\ PoolCap \in Nat
    /\ TracingOn \in BOOLEAN
    /\ Tries \cap {"own", "body"} = {}   \* holders of a body beside the attempts

Kinds == {"request", "response"}
Contexts == TxRequests    \* a context is named for the request it was made for

VARIABLES
    at,         \* at[r]: where the handling of r is
    ctxOf,      \* ctxOf[r]: its context
    handles,    \* handles[r]: the PooledTxnCtx of r that are alive
    copies,     \* copies[r]: the holders of the callback of its request body
    checked,    \* checked[r]: holders that were found not to be the only one
    txPhase,      \* txPhase[c]: TransactionPhase
    stored,     \* stored[c]: the body whose bytes TransactionState has
    ended,      \* ended[c]: whether the server span was ended
    pool,       \* TX_CONTEXT_POOL
    queue,      \* the flushes queued, as <<r, body that completed it>>
    pending,    \* has_pending
    draining,   \* whether a drain has seen has_pending
    called,     \* history: called[r]: the bodies of r whose callback has run
    logged      \* history: logged[r]: the flushes of r, as sets of bodies

txVars == <<at, ctxOf, handles, copies, checked, txPhase, stored, ended, pool, queue, pending,
            draining, called, logged>>
bodyVars == <<copies, checked>>
ctxVars == <<txPhase, stored, ended>>
queueVars == <<queue, pending, draining>>

None == "none"

TxInit ==
    /\ at = [r \in TxRequests |-> "idle"]
    /\ ctxOf = [r \in TxRequests |-> None]
    /\ handles = [r \in TxRequests |-> {}]
    /\ copies = [r \in TxRequests |-> {}]
    /\ checked = [r \in TxRequests |-> {}]
    /\ txPhase = [c \in Contexts |-> 0]
    /\ stored = [c \in Contexts |-> None]
    /\ ended = [c \in Contexts |-> FALSE]
    /\ pool = {}
    /\ queue = {} /\ pending = FALSE /\ draining = FALSE
    /\ called = [r \in TxRequests |-> {}]
    /\ logged = [r \in TxRequests |-> <<>>]

\* A context from the pool, reset, or a new one.
\* Mutant: a recycled context is not reset.
AcquireStale(r) ==
    /\ at[r] = "idle"
    /\ \E c \in IF pool = {} THEN {r} ELSE pool :
          /\ ctxOf' = [ctxOf EXCEPT ![r] = c]
          /\ pool' = pool \ {c}
    /\ handles' = [handles EXCEPT ![r] = {"handler"}]
    /\ at' = [at EXCEPT ![r] = "acquired"]
    /\ UNCHANGED <<ctxVars, bodyVars, queueVars, called, logged>>

Acquire(r) ==
    /\ at[r] = "idle"
    /\ \E c \in IF pool = {} THEN {r} ELSE pool :
          /\ ctxOf' = [ctxOf EXCEPT ![r] = c]
          /\ pool' = pool \ {c}
          /\ txPhase' = [txPhase EXCEPT ![c] = 0]
          /\ stored' = [stored EXCEPT ![c] = None]
          /\ ended' = [ended EXCEPT ![c] = FALSE]
    /\ handles' = [handles EXCEPT ![r] = {"handler"}]
    /\ at' = [at EXCEPT ![r] = "acquired"]
    /\ UNCHANGED <<bodyVars, queueVars, called, logged>>

\* The handles of r become hs; the last one to go recycles the context.
\* Mutant: a context is recycled by the handler, whoever else has it.
SetHandlesEager(r, hs) ==
    /\ handles' = [handles EXCEPT ![r] = hs]
    /\ pool' = IF "handler" \in handles[r] \ hs THEN pool \cup {ctxOf[r]} ELSE pool

SetHandles(r, hs) ==
    /\ handles' = [handles EXCEPT ![r] = hs]
    /\ pool' = IF hs = {} /\ handles[r] # {} /\ Cardinality(pool) < PoolCap
               THEN pool \cup {ctxOf[r]} ELSE pool

\* No route configuration or an invalid request: only the response is instrumented.
EarlyFailure(r) ==
    /\ at[r] = "acquired"
    /\ at' = [at EXCEPT ![r] = "early"]
    /\ SetHandles(r, {"response"})
    /\ UNCHANGED <<ctxOf, ctxVars, bodyVars, queueVars, called, logged>>

\* The request goes on, its body instrumented.
ForwardBody(r) ==
    /\ at[r] = "acquired"
    /\ at' = [at EXCEPT ![r] = "forwarded"]
    /\ SetHandles(r, {"handler", "request"})
    /\ copies' = [copies EXCEPT ![r] = {"body"}]
    /\ UNCHANGED <<ctxOf, ctxVars, checked, queueVars, called, logged>>

\* A retry loop or a failover keeps a reference of its own, which is no body, and
\* collects the body; every attempt is given a copy.
CollectForReplay(r) ==
    /\ at[r] = "forwarded" /\ copies[r] = {"body"} /\ checked[r] = {}
    /\ at' = [at EXCEPT ![r] = "replaying"]
    /\ copies' = [copies EXCEPT ![r] = {"own"}]
    /\ UNCHANGED <<ctxOf, handles, pool, ctxVars, checked, queueVars, called, logged>>

Attempt(r, t) ==
    /\ at[r] = "replaying" /\ t \notin copies[r]
    /\ copies' = [copies EXCEPT ![r] = @ \cup {t}]
    /\ UNCHANGED <<at, ctxOf, handles, pool, ctxVars, checked, queueVars, called, logged>>

\* The closure goes with its last reference, and the handle it holds with it.
LetGo(r, h) ==
    /\ copies' = [copies EXCEPT ![r] = @ \ {h}]
    /\ checked' = [checked EXCEPT ![r] = @ \ {h}]

\* The answer is there: the handler is done with the request and its response is
\* instrumented, unless the request failed with an error.
Answer(r, ok) ==
    /\ at[r] \in {"forwarded", "replaying"}
    /\ at' = [at EXCEPT ![r] = IF ok THEN "answered" ELSE "failed"]
    /\ LetGo(r, "own")
    /\ LET gone == {"handler"} \cup (IF copies[r] = {"own"} THEN {"request"} ELSE {})
       IN SetHandles(r, (handles[r] \ gone) \cup (IF ok THEN {"response"} ELSE {}))
    /\ UNCHANGED <<ctxOf, ctxVars, queueVars, called, logged>>

\* The callback of a body, under the lock of TransactionState: the second one of
\* the transaction queues the flush, the first leaves its bytes. With tracing the
\* txPhase is asked a second time, for the end of the span.
Bumps == IF TracingOn THEN 2 ELSE 1

\* Mutant: the transaction is complete at the third callback.
IsCompleteLate(c) == txPhase[c] > 1
IsComplete(c) == txPhase[c] > 0

Callback(r, kind, dropped) ==
    LET c == ctxOf[r] IN
    /\ txPhase' = [txPhase EXCEPT ![c] = @ + Bumps]
    /\ ended' = [ended EXCEPT ![c] = @ \/ TracingOn]
    /\ called' = [called EXCEPT ![r] = @ \cup {kind}]
    /\ IF IsComplete(c)
       THEN /\ queue' = queue \cup {<<r, kind>>} /\ pending' = TRUE
            /\ SetHandles(r, (handles[r] \ dropped) \cup {"flush"})
            /\ UNCHANGED stored
       ELSE /\ stored' = [stored EXCEPT ![c] = kind]
            /\ SetHandles(r, handles[r] \ dropped)
            /\ UNCHANGED <<queue, pending>>
    /\ UNCHANGED draining

\* A body of the request is dropped: the only holder runs the callback, any other
\* has looked and then lets go.
\* Mutant: a body that is dropped lets go of the callback only.
DropLastSilently(r, h) ==
    /\ copies[r] = {h}
    /\ LetGo(r, h)
    /\ SetHandles(r, handles[r] \ {"request"})
    /\ UNCHANGED <<at, ctxOf, ctxVars, queueVars, called, logged>>

DropLast(r, h) ==
    /\ copies[r] = {h} /\ h \in Tries \cup {"body"} /\ h \notin checked[r]
    /\ LetGo(r, h)
    /\ Callback(r, "request", {"request"})
    /\ UNCHANGED <<at, ctxOf, logged>>

LookAtCopies(r, h) ==
    /\ h \in copies[r] \ {"own"} /\ copies[r] # {h} /\ h \notin checked[r]
    /\ checked' = [checked EXCEPT ![r] = @ \cup {h}]
    /\ UNCHANGED <<at, ctxOf, handles, pool, copies, ctxVars, queueVars, called, logged>>

DropCopy(r, h) ==
    /\ h \in checked[r]
    /\ LetGo(r, h)
    /\ SetHandles(r, IF copies[r] = {h} THEN handles[r] \ {"request"} ELSE handles[r])
    /\ UNCHANGED <<at, ctxOf, ctxVars, queueVars, called, logged>>

DropResponse(r) ==
    /\ "response" \in handles[r] /\ "response" \notin called[r]
    /\ Callback(r, "response", {"response"})
    /\ UNCHANGED <<at, ctxOf, bodyVars, logged>>

\* The connection is polled, flushed, shut down or dropped.
SeePending ==
    /\ pending /\ ~draining
    /\ draining' = TRUE
    /\ UNCHANGED <<at, ctxOf, handles, pool, ctxVars, bodyVars, queue, pending, called, logged>>

\* HttpTxnFlush::run: the bytes stored and those of the body that came second.
\* Mutant: has_pending is cleared although the queue is kept for the next drain.
DrainKeeping ==
    /\ draining
    /\ draining' = FALSE /\ pending' = FALSE
    /\ UNCHANGED <<at, ctxOf, handles, pool, ctxVars, bodyVars, queue, called, logged>>

Drain ==
    /\ draining
    /\ draining' = FALSE /\ pending' = FALSE /\ queue' = {}
    /\ LET flushed == {q[1] : q \in queue} IN
       /\ logged' = [r \in TxRequests |-> IF r \in flushed
                        THEN <<{q[2] : q \in {x \in queue : x[1] = r}} \cup {stored[ctxOf[r]]}>> \o logged[r]
                        ELSE logged[r]]
       /\ handles' = [r \in TxRequests |-> IF r \in flushed THEN handles[r] \ {"flush"} ELSE handles[r]]
       /\ \E kept \in SUBSET {ctxOf[r] : r \in {x \in flushed : handles[x] = {"flush"}}} :
             /\ Cardinality(pool \cup kept) <= PoolCap
             /\ pool' = pool \cup kept
    /\ UNCHANGED <<at, ctxOf, ctxVars, bodyVars, called>>

TxAnswered(r) == \E ok \in BOOLEAN : Answer(r, ok)
DropsCopy(r) == \E h \in Tries \cup {"body"} : DropLast(r, h) \/ LookAtCopies(r, h) \/ DropCopy(r, h)

TxNext ==
    \/ \E r \in TxRequests :
          \/ Acquire(r) \/ EarlyFailure(r) \/ ForwardBody(r) \/ CollectForReplay(r) \/ DropResponse(r)
          \/ \E t \in Tries : Attempt(r, t)
          \/ TxAnswered(r)
          \/ DropsCopy(r)
    \/ SeePending \/ Drain

\* Tokio polls what is ready: bodies end or are dropped, and the connection
\* drains the flushes it was woken for.
TxFairness ==
    /\ \A r \in TxRequests : WF_txVars(DropResponse(r)) /\ WF_txVars(TxAnswered(r)) /\ WF_txVars(DropsCopy(r))
    /\ WF_txVars(SeePending) /\ WF_txVars(Drain)

TxSpec == TxInit /\ [][TxNext]_txVars /\ TxFairness

-----------------------------------------------------------------------------
\* A context is one transaction's at a time: no two requests that still hold
\* handles share one and a pooled one is held by none, so that the bytes, the
\* txPhase and the span of one transaction never enter another's.
ContextExclusive ==
    /\ \A r, s \in TxRequests : r # s /\ handles[r] # {} /\ handles[s] # {} => ctxOf[r] # ctxOf[s]
    /\ \A r \in TxRequests : handles[r] # {} => ctxOf[r] \notin pool

\* A transaction is flushed (its access log line written, its wire bytes taken) at
\* most once, and then with the bytes of both of its bodies.
FlushedOnce ==
    \A r \in TxRequests : logged[r] \in {<<>>, <<Kinds>>}

\* A request that was forwarded without a replay and answered is flushed, whichever
\* of its bodies ends first and on whichever threads.
ForwardedIsFlushed ==
    \A r \in TxRequests :
        (at[r] = "answered" /\ (copies[r] = {"body"} \/ "request" \in called[r])) ~> logged[r] # <<>>

\* Transactions are kept apart and accounted once.
TransactionsKept == ContextExclusive /\ FlushedOnce

\* The callback of a request body has run once its last holder is gone.
CallbackRuns ==
    \A r \in TxRequests :
        at[r] \in {"answered", "failed"} /\ copies[r] = {} => "request" \in called[r]
=============================================================================
