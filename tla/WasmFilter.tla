----------------------------- MODULE WasmFilter -----------------------------
(***************************************************************************)
(* The WebAssembly filter (wasm.rs, the state of wasm/hostcalls.rs): every *)
(* transaction takes an instance of the plugin from a pool, runs the hooks *)
(* the plugin exports on its request and its response, and gives the       *)
(* instance back when the filter is dropped. The plugin is any guest: in a *)
(* hook it makes host calls and returns an action, or traps.               *)
(*                                                                         *)
(* The per-transaction fields of an instance (WasmState) hold the          *)
(* transaction they belong to. A body is its length. A transaction may be  *)
(* cancelled, its filter dropped, at any await.                            *)
(***************************************************************************)
EXTENDS Integers, FiniteSets

CONSTANTS
    Txs,            \* transactions
    Instances,      \* total_core_instances of the engine
    PoolSize,       \* WASM_INSTANCE_POOL_SIZE
    Nobody,
    MaxBody,        \* longest body
    MaxCalls,       \* host calls of a transaction that keep something
    Plugins         \* the sets of hooks plugins may export

ASSUME WasmAssumption == PoolSize \in Nat /\ MaxBody \in Nat /\ MaxCalls \in Nat /\ Nobody \notin Txs \cup Instances

VARIABLES
    hooks,      \* HookFlags: what the plugin exports
    vm,         \* the WasmState of every instance
    pool,       \* instance_pool, an ArrayQueue
    tx          \* the transactions with their filters

HookFlags == {"start", "complete", "reqHeaders", "reqBody", "rspHeaders", "rspBody"}
Running == HookFlags
Sides == {"request", "response"}
Sizes == 0..MaxBody
None == -1

\* WasmState as get_state makes it, and reset_ephemeral.
FreshState == [direct |-> Nobody, body |-> [s \in Sides |-> None], trailers |-> [s \in Sides |-> Nobody],
               ops |-> Nobody, deadline |-> Nobody, active |-> "none", ctx |-> Nobody]
\* Mutant: a staged direct response is not cleared.
ResetKeepsDirect(s) == [FreshState EXCEPT !.direct = s.direct]
ResetEphemeral(s) == FreshState

\* A request or a response of the other side; reading a broken one fails. by: the transaction
\* whose plugin replaced it as a whole.
Message(n, cl, broken) == [body |-> n, cl |-> cl, broken |-> broken, by |-> Nobody]
Messages == {Message(n, None, FALSE) : n \in Sizes} \cup {Message(n, n, FALSE) : n \in Sizes} \cup {Message(0, None, TRUE)}
FreshTx == [stage |-> "idle", inst |-> Nobody, calls |-> 0, msg |-> Message(0, None, FALSE), 
            sent |-> Nobody, logged |-> Nobody]
WasmInit ==
    /\ hooks = HookFlags /\ pool = {}
    /\ vm = [i \in Instances |-> FreshState]
    /\ tx = [t \in Txs |-> [FreshTx EXCEPT !.stage = "unconfigured"]]

Held == {tx[t].inst : t \in Txs} \ {Nobody}
Unused == Instances \ (pool \cup Held)

\* try_new: the flags are the exports of the module.
TryNew ==
    /\ \A t \in Txs : tx[t].stage = "unconfigured"
    /\ hooks' \in Plugins
    /\ tx' = [t \in Txs |-> FreshTx]
    /\ UNCHANGED <<vm, pool>>

-----------------------------------------------------------------------------
\* get_state: the instance of the filter, one of the pool, or a new one; instantiating may fail.
GetState(t) ==
    CASE tx[t].inst # Nobody -> {tx[t].inst}
      [] tx[t].inst = Nobody /\ pool # {} -> pool
      [] OTHER -> Unused \cup {Nobody}

HeadersOf(s) == IF s = "request" THEN "reqHeaders" ELSE "rspHeaders"
BodyOf(s) == IF s = "request" THEN "reqBody" ELSE "rspBody"

\* What the filter does with an instance it holds: the handles are set before the first hook of a
\* message, a body hook sees the collected body, and what it leaves goes back into the message.
SetHandles(s, t, side) == [s EXCEPT !.active = side, !.ctx = t]

\* maybe_update_content_length.
\* Mutant: only a body that grew is noticed.
MaybeUpdateGrown(m, new) == IF new > m.body /\ m.cl # None THEN new ELSE m.cl
MaybeUpdateContentLength(m, new) == IF m.body # new /\ m.cl # None THEN new ELSE m.cl

\* The end of apply_request and apply_response: the access log operators go to the transaction.
WithOperators(w, s) == [w EXCEPT !.logged = IF s.ops = Nobody THEN w.logged ELSE s.ops]
ExtractOperators(t, i, w) ==
    /\ tx' = [tx EXCEPT ![t] = WithOperators(w, vm[i])]
    /\ vm' = [vm EXCEPT ![i].ops = Nobody]

After(side) == IF side = "request" THEN "forwarded" ELSE "finished"
Fails(t, w) == tx' = [tx EXCEPT ![t] = [w EXCEPT !.stage = "refused"]] /\ UNCHANGED vm

-----------------------------------------------------------------------------
\* apply_request up to its first hook. The transaction hook runs before the handles are set.
BeginRequest(t) ==
    IF "start" \in hooks /\ tx[t].stage = "idle" THEN "start"
    ELSE IF hooks \cap {"reqHeaders", "reqBody"} = {} THEN "forwarded"
    ELSE IF "reqHeaders" \in hooks THEN "reqHeaders"
    ELSE "collectRequest"
BeginResponse ==
    CASE hooks \cap {"rspHeaders", "rspBody"} = {} -> "finished"
      [] "rspHeaders" \in hooks -> "rspHeaders"
      [] OTHER -> "collectResponse"
EnterStage(t, i, stage, side, m) ==
    LET needs == stage \notin {"forwarded", "finished"}
    IN /\ tx' = [tx EXCEPT ![t].msg = m, ![t].stage = IF needs /\ i = Nobody THEN "refused" ELSE stage,
                           ![t].inst = IF needs THEN i ELSE tx[t].inst]
       /\ pool' = IF needs THEN pool \ {i} ELSE pool
       /\ vm' = IF needs /\ i # Nobody /\ stage # "start" THEN [vm EXCEPT ![i] = SetHandles(vm[i], t, side)] ELSE vm
       /\ UNCHANGED hooks
ApplyRequest(t) ==
    /\ tx[t].stage \in {"idle", "started"}
    /\ \E i \in GetState(t), m \in IF tx[t].stage = "idle" THEN Messages ELSE {tx[t].msg} :
          EnterStage(t, i, BeginRequest(t), "request", m)
ApplyResponse(t) ==
    /\ tx[t].stage = "forwarded"
    /\ \E i \in GetState(t), m \in Messages : EnterStage(t, i, BeginResponse, "response", m)
OnTransactionStart(t) ==
    /\ tx[t].stage = "start"
    /\ tx' = [tx EXCEPT ![t].stage = "started"]
    /\ UNCHANGED <<hooks, vm, pool>>

-----------------------------------------------------------------------------
\* The host calls that keep something for later (hostcalls.rs). The message they work on is the
\* active one; without one they fail and change nothing.
InHook(t) == tx[t].stage \in Running \cup {"completing"} /\ tx[t].calls < MaxCalls
SendDirectResponse(s, t) == [s EXCEPT !.direct = t]
SetBody(s, n) == IF s.active = "none" THEN s ELSE [s EXCEPT !.body[s.active] = n]
SetTrailers(s, t) == IF s.active = "none" THEN s ELSE [s EXCEPT !.trailers[s.active] = t]
SetAccessLogOperators(s, t) == [s EXCEPT !.ops = t]
SetIoTimeout(s, t) == [s EXCEPT !.deadline = t]
ClearIoTimeout(s) == [s EXCEPT !.deadline = Nobody]
Calls(s, t) ==
    {SendDirectResponse(s, t), SetTrailers(s, t), SetAccessLogOperators(s, t), SetIoTimeout(s, t), ClearIoTimeout(s)}
      \cup {SetBody(s, n) : n \in Sizes}
HostCall(t) ==
    /\ InHook(t)
    /\ \E s \in Calls(vm[tx[t].inst], t) : vm' = [vm EXCEPT ![tx[t].inst] = s]
    /\ tx' = [tx EXCEPT ![t].calls = @ + 1]
    /\ UNCHANGED <<hooks, pool>>
\* The handles are addresses (wasm.rs:386, 586) that no host call checks. In the hooks of a message
\* they are those of the message; when the last hook runs the message is gone, and what is at
\* its address is nothing of the model or the message that another transaction put there.
InFlight(u) == tx[u].stage \notin {"unconfigured", "idle", "completing"}
PointsTo(t) ==
    IF tx[t].stage # "completing" THEN {t} ELSE {Nobody} \cup {u \in Txs \ {t} : InFlight(u)}
\* set_request, set_response: headers and body at once, the new headers agree with the new body.
\* All they ask for is that the handle is set.
ReplaceMessage(t, side) ==
    /\ InHook(t) /\ vm[tx[t].inst].active = side
    /\ \E n \in Sizes, u \in PointsTo(t) :
          /\ vm' = [vm EXCEPT ![tx[t].inst].body[side] = n]
          /\ tx' = [v \in Txs |-> [tx[v] EXCEPT !.calls = IF v = t THEN @ + 1 ELSE @,
                                                !.msg = IF v = u THEN [@ EXCEPT !.cl = n, !.by = t] ELSE @]]
    /\ UNCHANGED <<hooks, pool>>
SetRequest(t) == ReplaceMessage(t, "request")
SetResponse(t) == ReplaceMessage(t, "response")

-----------------------------------------------------------------------------
\* A hook returns: an action, or a trap or a number that is none (both an error). DirectResponse
\* takes what some hook of this transaction staged.
Direct(t, w, s) ==
    IF s.direct = Nobody THEN [w EXCEPT !.stage = "refused"]
    ELSE [w EXCEPT !.stage = "answered", !.sent = s.direct]
OnHeaders(t, side) ==
    /\ tx[t].stage = HeadersOf(side)
    /\ LET i == tx[t].inst
       IN \/ ExtractOperators(t, i, [tx[t] EXCEPT !.stage = After(side)])
          \/ /\ tx' = [tx EXCEPT ![t].stage = IF side = "request" THEN "collectRequest" ELSE "collectResponse"]
             /\ UNCHANGED vm
          \/ /\ tx' = [tx EXCEPT ![t] = WithOperators(Direct(t, tx[t], vm[i]), vm[i])]
             /\ vm' = [vm EXCEPT ![i].ops = Nobody, ![i].direct = Nobody]
          \/ ExtractOperators(t, i, [tx[t] EXCEPT !.stage = "refused"])
    /\ UNCHANGED <<hooks, pool>>
\* The body is collected: a failure answers 500 without the operators.
Collect(t, side) ==
    /\ tx[t].stage = (IF side = "request" THEN "collectRequest" ELSE "collectResponse")
    /\ LET i == tx[t].inst  m == tx[t].msg
       IN \/ m.broken /\ Fails(t, tx[t])
          \/ /\ ~m.broken /\ BodyOf(side) \in hooks
             /\ tx' = [tx EXCEPT ![t].stage = BodyOf(side)]
             /\ vm' = [vm EXCEPT ![i].body[side] = m.body, ![i].trailers[side] = t]
          \/ /\ ~m.broken /\ BodyOf(side) \notin hooks
             /\ ExtractOperators(t, i, [tx[t] EXCEPT !.stage = After(side)])
    /\ UNCHANGED <<hooks, pool>>
OnBody(t, side) ==
    /\ tx[t].stage = BodyOf(side)
    /\ LET i == tx[t].inst
           new == IF vm[i].body[side] = None THEN 0 ELSE vm[i].body[side]
           m == tx[t].msg
           restored == [tx[t] EXCEPT !.msg.cl = MaybeUpdateContentLength(m, new), !.msg.body = new]
       IN \E answer \in {"continue", "direct", "error"} :
             /\ tx' = [tx EXCEPT ![t] = WithOperators(
                         CASE answer = "continue" -> [restored EXCEPT !.stage = After(side)]
                           [] answer = "error" -> [restored EXCEPT !.stage = "refused"]
                           [] OTHER -> Direct(t, tx[t], vm[i]), vm[i])]
             /\ vm' = [vm EXCEPT ![i].body[side] = None, ![i].trailers[side] = Nobody, ![i].ops = Nobody,
                                 ![i].direct = IF answer = "direct" THEN Nobody ELSE vm[i].direct]
    /\ UNCHANGED <<hooks, pool>>

OnRequestHeaders(t) == OnHeaders(t, "request")
OnResponseHeaders(t) == OnHeaders(t, "response")
CollectRequest(t) == Collect(t, "request")
CollectResponse(t) == Collect(t, "response")
OnRequestBody(t) == OnBody(t, "request")
OnResponseBody(t) == OnBody(t, "response")

-----------------------------------------------------------------------------
\* Drop for WasmFilter, at the end or when the transaction is cancelled: the last hook runs in a
\* task of its own that holds the instance, with the handles as they were although the message
\* and the context are gone. A full pool drops the instance (on_plugin_destroy).
GiveBack(t, i) ==
    /\ vm' = [vm EXCEPT ![i] = IF Cardinality(pool) < PoolSize THEN ResetEphemeral(vm[i]) ELSE FreshState]
    /\ pool' = IF Cardinality(pool) < PoolSize THEN pool \cup {i} ELSE pool
    /\ tx' = [tx EXCEPT ![t] = FreshTx]
DropFilter(t) ==
    /\ tx[t].stage \notin {"unconfigured", "idle", "completing"}
    /\ CASE tx[t].inst = Nobody -> tx' = [tx EXCEPT ![t] = FreshTx] /\ UNCHANGED <<vm, pool>>
         [] tx[t].inst # Nobody /\ "complete" \in hooks ->
              tx' = [tx EXCEPT ![t].stage = "completing", ![t].msg = Message(0, None, FALSE)] /\ UNCHANGED <<vm, pool>>
         [] OTHER -> GiveBack(t, tx[t].inst)
    /\ UNCHANGED hooks
OnTransactionComplete(t) ==
    /\ tx[t].stage = "completing"
    /\ GiveBack(t, tx[t].inst)
    /\ UNCHANGED hooks

WasmStep(t) ==
    \/ ApplyRequest(t) \/ ApplyResponse(t) \/ OnTransactionStart(t) \/ HostCall(t) \/ SetRequest(t) \/ SetResponse(t)
    \/ OnRequestHeaders(t) \/ CollectRequest(t) \/ OnRequestBody(t)
    \/ OnResponseHeaders(t) \/ CollectResponse(t) \/ OnResponseBody(t)
    \/ DropFilter(t) \/ OnTransactionComplete(t)
WasmNext == TryNew \/ \E t \in Txs : WasmStep(t)
wasmVars == <<hooks, vm, pool, tx>>
WasmSpec == WasmInit /\ [][WasmNext]_wasmVars

-----------------------------------------------------------------------------
\* An instance serves one transaction at a time, and whatever it keeps between two host calls
\* belongs to the transaction that holds it: a pooled instance keeps nothing, and no direct
\* response or access log operator reaches another transaction (reset_ephemeral, hostcalls.rs:69).
\* Of a plugin without on_transaction_complete the same is said of the messages: what a hook
\* writes through a handle lands in the message of its own transaction. With that hook it is not
\* so: the hook runs with the handles of a message that is gone, and set_request may overwrite
\* whatever message has its place.
Belongs(x, t) == x \in {t, Nobody}
NothingLeaks ==
    /\ \A t, u \in Txs : t # u => Belongs(tx[t].inst, Nobody) \/ tx[t].inst # tx[u].inst
    /\ \A i \in pool : vm[i] = FreshState /\ i \notin Held
    /\ \A t \in Txs :
          /\ Belongs(tx[t].sent, t) /\ Belongs(tx[t].logged, t)
          /\ "complete" \notin hooks => Belongs(tx[t].msg.by, t)
          /\ tx[t].inst # Nobody =>
                LET s == vm[tx[t].inst]
                IN /\ \A x \in {s.direct, s.ops, s.deadline, s.ctx} : Belongs(x, t)
                   /\ tx[t].stage \in {"reqHeaders", "reqBody"} => s.active = "request" /\ s.ctx = t
                   /\ tx[t].stage \in {"rspHeaders", "rspBody"} => s.active = "response" /\ s.ctx = t

\* A message that goes on with a Content-Length declares the length of the body it goes on with
\* (maybe_update_content_length), unless a plugin replaced the message as a whole: the body it
\* gives in a headers hook is dropped and its headers stay, and a later set_body of the length
\* that came in is not noticed.
LengthAgrees ==
    \A t \in Txs :
       LET m == tx[t].msg
       IN tx[t].stage \in {"forwarded", "finished"} /\ m.by = Nobody => m.cl \in {None, m.body}
=============================================================================
