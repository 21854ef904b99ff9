----------------------------- MODULE McpGateway -----------------------------
(***************************************************************************)
(* The MCP gateway filter answering requests: the endpoints, the sessions   *)
(* of a listener and their idle clean-up, the JSON-RPC dispatch, and the    *)
(* call of a tool through a REST or an MCP server backend.  The registry is *)
(* here one tool whose entry the xDS worker replaces at any time.           *)
(***************************************************************************)
EXTENDS FiniteSets, Integers, Sequences

CONSTANTS
  GwRequests,       \* requests in flight
  SessionIds,       \* Uuids the run can draw
  MaxSessions,      \* MAX_SESSIONS_LIMIT
  IdleTimeout,      \* SESSION_IDLE_TIMEOUT, in clean-up periods
  MaxVersions,      \* entries the tool has in a run
  MaxResponse,      \* max_response_bytes, in units
  NoSession

ASSUME GatewayAssumption ==
  /\ MaxSessions \in Nat \ {0} /\ IdleTimeout \in Nat \ {0}
  /\ MaxVersions \in Nat \ {0} /\ MaxResponse \in Nat \ {0}
  /\ NoSession \notin SessionIds /\ IsFiniteSet(GwRequests)

VARIABLES
  session,   \* session_map: id -> periods since last_activity
  drawn,     \* ids drawn so far
  client,    \* id -> whether mcp_upstreams caches a client for the backend
  cleaned,   \* whether this period's clean-up ran
  entry,     \* the tool: its version, who may call it, how it is served
  gw         \* request -> its progress

gatewayVars == <<session, drawn, client, cleaned, entry, gw>>

Backends == {"rest", "mcp", "function_graph"}
Entries == [version : 1..MaxVersions, access : {"absent", "denied", "permitted"},
            backend : Backends, schema : BOOLEAN]

\* What a message says.  Bodies, names and arguments count only by whether
\* they can be read, name a tool, and match the input schema.
McpMessages ==
  [endpoint : {"search", "message", "other"}, verb : {"GET", "POST", "DELETE"},
   accepts : BOOLEAN, body : {"ok", "broken", "malformed"},
   kind : {"request", "notification"},
   method : {"initialize", "initialized", "ping", "list", "call", "other"},
   params : BOOLEAN, session : SessionIds \cup {NoSession}]

IdleGw == [at |-> "idle"]
Reply(status, what) == [at |-> "replied", status |-> status, what |-> what]

GatewayInit ==
  /\ session = [s \in {} |-> 0] /\ drawn = {} /\ client = [s \in {} |-> FALSE]
  /\ cleaned = FALSE
  /\ entry = [version |-> 1, access |-> "permitted", backend |-> "rest", schema |-> TRUE]
  /\ gw = [q \in GwRequests |-> IdleGw]

GatewayTypeOK ==
  /\ DOMAIN session \subseteq drawn /\ drawn \subseteq SessionIds
  /\ DOMAIN client = drawn /\ entry \in Entries

(***************************************************************************)
(* The endpoints: apply_request with the checks before any await.           *)
(***************************************************************************)

\* The reply to a message that is refused or answered at once; "proceed" when
\* it needs the session map or the registry.
SearchReply(m) ==
  IF m.verb # "POST" THEN "method_not_allowed"
  ELSE IF m.body # "ok" THEN "bad_request"
  ELSE IF ~m.params THEN "bad_request" ELSE "ok"

FirstCheck(m) ==
  IF m.endpoint = "other" THEN "no_route"
  ELSE IF m.endpoint = "search" THEN SearchReply(m)
  ELSE IF m.verb = "GET" THEN "method_not_allowed"
  ELSE IF m.verb = "DELETE" THEN IF m.session = NoSession THEN "bad_request" ELSE "proceed"
  ELSE IF ~m.accepts THEN "bad_request"
  ELSE IF m.body = "broken" THEN "internal"
  ELSE IF m.body = "malformed" THEN "bad_request" ELSE "proceed"

\* What of a message still matters after the first checks: the parameters do
\* for the methods that read them.
Kept(m) ==
  IF m.verb = "DELETE" THEN [verb |-> m.verb, session |-> m.session]
  ELSE LET method == IF m.kind = "notification" THEN m.kind ELSE m.method
       IN [verb |-> m.verb, session |-> m.session, method |-> method,
           params |-> m.params \/ method \notin {"initialize", "call"}]

\* Where a request is after apply_request's first checks of some message.
Arrivals ==
  {IF FirstCheck(m) = "proceed" THEN [at |-> "session", msg |-> Kept(m)]
   ELSE Reply(FirstCheck(m), "text") : m \in McpMessages}

Receive(q) ==
  /\ gw[q].at = "idle"
  /\ \E a \in Arrivals : gw' = [gw EXCEPT ![q] = a]
  /\ UNCHANGED <<session, drawn, client, cleaned, entry>>

DeleteSession(q) ==
  /\ gw[q].at = "session" /\ gw[q].msg.verb = "DELETE"
  /\ LET s == gw[q].msg.session
     IN /\ gw' = [gw EXCEPT ![q] = Reply(IF s \in DOMAIN session THEN "accepted" ELSE "not_found", "text")]
        /\ session' = [x \in DOMAIN session \ {s} |-> session[x]]
  /\ UNCHANGED <<drawn, client, cleaned, entry>>

\* get_valid_session finds the session; a session it does not find is a 404.
FindSession(q) ==
  /\ gw[q].at = "session" /\ gw[q].msg.verb = "POST"
  /\ LET s == gw[q].msg.session
     IN gw' = [gw EXCEPT ![q] = IF s \notin DOMAIN session \cup {NoSession}
                                THEN Reply("not_found", "rpc_error")
                                ELSE [at |-> IF s = NoSession THEN "dispatch" ELSE "touch", msg |-> gw[q].msg]]
  /\ UNCHANGED <<session, drawn, client, cleaned, entry>>

\* ... and stores its activity, which a clean-up may have overtaken.
TouchSession(q) ==
  /\ gw[q].at = "touch"
  /\ LET s == gw[q].msg.session
     IN session' = [x \in DOMAIN session |-> IF x = s THEN 0 ELSE session[x]]
  /\ gw' = [gw EXCEPT ![q].at = "dispatch"]
  /\ UNCHANGED <<drawn, client, cleaned, entry>>

\* handle_rpc_json_message and handle_rpc_json_request, up to the first await.
Dispatched(m) ==
  CASE m.method = "notification" ->
         IF m.session = NoSession THEN Reply("bad_request", "rpc_error") ELSE Reply("accepted", "nothing")
    [] m.method = "initialize" ->
         IF m.session # NoSession THEN Reply("bad_request", "rpc_error")
         ELSE IF ~m.params THEN Reply("ok", "rpc_error") ELSE [at |-> "create"]
    [] m.method \notin {"notification", "initialize"} /\ m.session = NoSession -> Reply("bad_request", "rpc_error")
    [] OTHER ->
         CASE m.method = "initialized" -> Reply("accepted", "nothing")
           [] m.method = "ping" -> Reply("ok", "result")
           [] m.method = "list" -> Reply("ok", "result")
           [] m.method = "other" -> Reply("ok", "rpc_error")
           [] m.method = "call" -> IF m.params THEN [at |-> "call", msg |-> m] ELSE Reply("ok", "rpc_error")

Dispatch(q) ==
  /\ gw[q].at = "dispatch"
  /\ gw' = [gw EXCEPT ![q] = Dispatched(gw[q].msg)]
  /\ UNCHANGED <<session, drawn, client, cleaned, entry>>

(***************************************************************************)
(* Sessions.                                                                *)
(***************************************************************************)
\* Mutant: the limit is compared with `>`.
HasRoomForOneMore == Cardinality(DOMAIN session) <= MaxSessions

HasRoom == Cardinality(DOMAIN session) < MaxSessions

\* create_session looks at the length first and inserts afterwards.
CheckRoom(q) ==
  /\ gw[q].at = "create"
  /\ gw' = [gw EXCEPT ![q] = IF HasRoom THEN [at |-> "insert"] ELSE Reply("ok", "rpc_error")]
  /\ UNCHANGED <<session, drawn, client, cleaned, entry>>

InsertSession(q) ==
  /\ gw[q].at = "insert"
  /\ \E s \in SessionIds \ drawn :
       /\ session' = [x \in DOMAIN session \cup {s} |-> IF x = s THEN 0 ELSE session[x]]
       /\ client' = [x \in drawn \cup {s} |-> IF x = s THEN FALSE ELSE client[x]]
       /\ drawn' = drawn \cup {s}
  /\ gw' = [gw EXCEPT ![q] = Reply("ok", "result")]
  /\ UNCHANGED <<cleaned, entry>>

CleanUp ==
  /\ ~cleaned /\ cleaned' = TRUE
  /\ session' = [s \in {x \in DOMAIN session : session[x] < IdleTimeout} |-> session[s]]
  /\ UNCHANGED <<drawn, client, entry, gw>>

Period ==
  /\ cleaned /\ cleaned' = FALSE
  /\ session' = [s \in DOMAIN session |-> IF session[s] < IdleTimeout THEN session[s] + 1 ELSE IdleTimeout]
  /\ UNCHANGED <<drawn, client, entry, gw>>

(***************************************************************************)
(* Tool calls.                                                              *)
(***************************************************************************)

\* An xDS update or a refresh replaces the entry under its name.
ReplaceEntry ==
  /\ entry.version < MaxVersions
  /\ \E e \in Entries : e.version = entry.version + 1 /\ entry' = e
  /\ UNCHANGED <<session, drawn, client, cleaned, gw>>

\* Mutant: the backend is looked up by name again when it is called.
CalledEntryByName(q) == entry

\* get_tool clones the entry; everything after works on that clone.
CalledEntry(q) == gw[q].entry

\* invoke_tool: found, permitted, arguments valid, in this order.
InvokeTool(q) ==
  /\ gw[q].at = "call"
  /\ \E valid \in BOOLEAN :
       gw' = [gw EXCEPT ![q] =
         IF entry.access # "permitted" \/ ~valid \/ entry.backend = "function_graph"
         THEN Reply("ok", "rpc_error")
         ELSE [at |-> "backend", s |-> gw[q].msg.session, entry |-> entry]]
  /\ UNCHANGED <<session, drawn, client, cleaned, entry>>

\* RestBackend::invoke: the request may not encode; the upstream may not be
\* acquired, time out or fail; its response may be too large, an error
\* status, not JSON or not of the output schema.
RestOutcome(q, size, status, valid) ==
  IF size > MaxResponse THEN "response_too_large"
  ELSE IF status = "504" THEN "upstream_timeout"
  ELSE IF status # "200" THEN "upstream_error"
  ELSE IF CalledEntry(q).schema /\ ~valid THEN "invalid_output" ELSE "success"

Completed(q, outcome, size, valid) ==
  [at |-> "replied", status |-> "ok", what |-> "result", outcome |-> outcome,
   fits |-> size <= MaxResponse,
   valid |-> valid \/ ~(CalledEntry(q).backend = "rest" /\ CalledEntry(q).schema),
   checked |-> gw[q].entry.version, invoked |-> CalledEntry(q).version]

RestEncodingFails(q) ==
  /\ gw[q].at = "backend" /\ CalledEntry(q).backend = "rest"
  /\ gw' = [gw EXCEPT ![q] = Reply("ok", "rpc_error")]
  /\ UNCHANGED <<session, drawn, client, cleaned, entry>>

RestUpstreamFails(q) ==
  /\ gw[q].at = "backend" /\ CalledEntry(q).backend = "rest"
  /\ \E why \in {"overflow", "upstream_error", "upstream_timeout"} :
       gw' = [gw EXCEPT ![q] = Completed(q, why, 0, FALSE)]
  /\ UNCHANGED <<session, drawn, client, cleaned, entry>>

RestAnswers(q) ==
  /\ gw[q].at = "backend" /\ CalledEntry(q).backend = "rest"
  /\ \E size \in 0..MaxResponse + 1, status \in {"200", "429", "504"}, valid \in BOOLEAN :
       gw' = [gw EXCEPT ![q] = Completed(q, RestOutcome(q, size, status, valid), size, valid)]
  /\ UNCHANGED <<session, drawn, client, cleaned, entry>>

\* invoke_mcp_server: the session's client is used, or one is connected and
\* cached unless another call cached its own first.
McpConnect(q) ==
  /\ gw[q].at = "backend" /\ CalledEntry(q).backend = "mcp"
  /\ \/ client' = [client EXCEPT ![gw[q].s] = TRUE] /\ gw' = [gw EXCEPT ![q].at = "mcp"]
     \/ ~client[gw[q].s] /\ UNCHANGED client
        /\ gw' = [gw EXCEPT ![q] = Completed(q, "upstream_error", 0, FALSE)]
  /\ UNCHANGED <<session, drawn, cleaned, entry>>

\* The result is weighed after it arrived whole.
McpAnswers(q) ==
  /\ gw[q].at = "mcp"
  /\ \E size \in 0..MaxResponse + 1 :
       gw' = [gw EXCEPT ![q] =
         Completed(q, IF size > MaxResponse THEN "response_too_large" ELSE "success", size, TRUE)]
  /\ UNCHANGED <<session, drawn, client, cleaned, entry>>

\* A transport error drops the cached client, whichever client it is by then.
McpFails(q) ==
  /\ gw[q].at = "mcp"
  /\ \/ gw' = [gw EXCEPT ![q] = Completed(q, "upstream_error", 0, FALSE)]
        /\ client' \in {client, [client EXCEPT ![gw[q].s] = FALSE]}
     \/ gw' = [gw EXCEPT ![q] = Completed(q, "upstream_timeout", 0, FALSE)] /\ UNCHANGED client
  /\ UNCHANGED <<session, drawn, cleaned, entry>>

\* The response leaves, or the client left before.
FinishCall(q) ==
  /\ gw[q].at \in {"replied", "backend", "mcp"}
  /\ gw' = [gw EXCEPT ![q] = IdleGw]
  /\ UNCHANGED <<session, drawn, client, cleaned, entry>>

GatewayNext ==
  \/ \E q \in GwRequests :
       \/ Receive(q) \/ DeleteSession(q) \/ FindSession(q) \/ TouchSession(q) \/ Dispatch(q)
       \/ CheckRoom(q) \/ InsertSession(q) \/ InvokeTool(q)
       \/ RestEncodingFails(q) \/ RestUpstreamFails(q) \/ RestAnswers(q)
       \/ McpConnect(q) \/ McpAnswers(q) \/ McpFails(q) \/ FinishCall(q)
  \/ CleanUp \/ Period \/ ReplaceEntry

GatewaySpec == GatewayInit /\ [][GatewayNext]_gatewayVars

-----------------------------------------------------------------------------
(* Properties *)

\* A call is served by the entry whose access rule admitted the caller and
\* whose schemas checked its arguments, however often the tool is replaced
\* while it is served, and a result that is passed on as a success is within
\* the size limit and, from a REST backend with an output schema, valid.
ServedAsChecked ==
  \A q \in GwRequests :
    (gw[q].at = "replied" /\ gw[q].what = "result" /\ "invoked" \in DOMAIN gw[q]) =>
      /\ gw[q].invoked = gw[q].checked
      /\ gw[q].outcome = "success" => gw[q].fits /\ gw[q].valid

\* The check and the insertion of create_session are apart, so concurrent
\* initializations overrun MAX_SESSIONS_LIMIT, but by no more than the number of
\* them that looked before the others inserted.
SessionOverrun ==
  Cardinality(DOMAIN session) + Cardinality({q \in GwRequests : gw[q].at = "insert"})
    <= MaxSessions + Cardinality(GwRequests) - 1

(* Calls are served as they were checked, and sessions stay bounded.       *)
CallsAndSessionsKept == ServedAsChecked /\ SessionOverrun

-----------------------------------------------------------------------------
(***************************************************************************)
(* Code mode of the MCP gateway: one client-visible tool, `execute`, runs  *)
(* a script in a sandbox (codemode.rs, codemode/engine.rs) and the script  *)
(* calls tools and the catalog through host calls (codemode/hostcalls.rs,  *)
(* codemode/dispatcher.rs).  The host calls are tasks of their own, so     *)
(* they run beside the script, beside each other and, when an execution is *)
(* dropped, beside the report of its result.  What the script computes is  *)
(* the environment's choice; sizes are counted in units.                   *)
(***************************************************************************)

CONSTANTS
    Executions,      \* calls of `execute`, each used once
    MaxExecutions,   \* max_concurrent_executions
    MaxHostCalls,    \* max_host_calls
    MaxDispatches,   \* max_concurrent_tool_calls
    CpuBudget,       \* cpu_timeout, in epochs
    MaxLogEntries,   \* MAX_LOG_ENTRIES
    MaxOutput        \* max_output_bytes, in units

(* try_new_with_artifact refuses the limits that are zero. *)
ASSUME CodeModeAssumption ==
    /\ {MaxExecutions, MaxHostCalls, MaxDispatches, MaxOutput} \subseteq Nat \ {0}
    /\ {CpuBudget, MaxLogEntries} \subseteq Nat

VARIABLES
    execPermits,     \* free permits of CodeModeEngine.exec_permits
    activity,        \* EpochTicker.activity
    ex               \* ex[e]: the execution e

codeModeVars == <<execPermits, activity, ex>>

(* A malformed tool call is answered in its task and is no tool call.      *)
Kinds == {"tool_call", "other"}

(* A reply: the counts of tool calls and logs it keeps, and its own size.  *)
NoReply == [kind |-> "none", base |-> 0, calls |-> 0, logs |-> 0]

NewState ==
    [ st |-> "idle", response |-> "none", outcome |-> "none", hostCalls |-> 0,
      limited |-> FALSE, cpu |-> 0, exhausted |-> FALSE, logs |-> 0,
      calls |-> <<>>, records |-> {}, drained |-> {}, reply |-> NoReply ]

CodeModeInit ==
    /\ execPermits = MaxExecutions
    /\ activity = 0
    /\ ex = [e \in Executions |-> NewState]

RunningExecutions(e) == ex[e].st \in {"guest", "waiting", "quiescing"}

InState(e, S) == {i \in DOMAIN ex[e].calls : ex[e].calls[i].st \in S}

Inflight(e) == InState(e, {"queued", "running", "ended"})

-----------------------------------------------------------------------------
(* Sizes of what the result holds beside them: little, or all there is.    *)
Bases == {1, MaxOutput}

(* The size of a result that keeps `c` tool calls and `l` logs, each of    *)
(* two units; the note about what was omitted takes one.                   *)
Build(base, c, l, truncated) == base + 2 * (c + l) + (IF truncated THEN 1 ELSE 0)

(* Mutant: the middle is rounded down and the search stops one short.      *)
LargestFittingPrefixShort(total, fits) ==
    LET Search[low \in 0 .. total, high \in 0 .. total] ==
          LET middle == low + (high - low) \div 2
          IN IF low >= high - 1 THEN low
             ELSE IF fits[middle] THEN Search[middle, high]
             ELSE Search[low, middle - 1]
    IN Search[0, total]

(* The binary search of largest_fitting_prefix.                            *)
LargestFittingPrefix(total, fits) ==
    LET Search[low \in 0 .. total, high \in 0 .. total] ==
          LET middle == low + (high - low + 1) \div 2
          IN IF low >= high THEN low
             ELSE IF fits[middle] THEN Search[middle, high]
             ELSE Search[low, middle - 1]
    IN Search[0, total]

CallToolResult(base, c, l) ==
    LET keptCalls == LargestFittingPrefix(c,
                        [n \in 0 .. c |-> Build(base, n, 0, TRUE) <= MaxOutput])
        keptLogs == LargestFittingPrefix(l,
                        [n \in 0 .. l |-> Build(base, keptCalls, n, TRUE) <= MaxOutput])
        Fitted(kind, k, n) == [kind |-> kind, base |-> base, calls |-> k, logs |-> n]
    IN IF Build(base, c, l, FALSE) <= MaxOutput THEN Fitted("full", c, l)
       ELSE IF Build(base, 0, 0, TRUE) > MaxOutput THEN Fitted("too_large", 0, 0)
       ELSE Fitted("truncated", keptCalls, keptLogs)

(* The store is dropped: of the host calls only the live tasks remain.     *)
Dropped(calls) ==
    [i \in DOMAIN calls |->
       IF calls[i].st \in {"queued", "running"} THEN calls[i]
       ELSE [kind |-> "other", st |-> "aborted"]]

(* The end of call_tool: the records are drained and the result is built.  *)
ReportedCalls(e, outcome, logs, base) ==
    [NewState EXCEPT
       !.st = "done", !.outcome = outcome, !.logs = logs,
       !.calls = Dropped(ex[e].calls),
       !.records = ex[e].records, !.drained = ex[e].records,
       !.reply = CallToolResult(base, Cardinality(ex[e].records), logs)]

Release ==
    /\ execPermits' = execPermits + 1
    /\ activity' = activity - 1

-----------------------------------------------------------------------------
(* call_tool up to `run`: the arguments, the script's size and syntax and  *)
(* the permit are checked in this order; none of the refusals waits.       *)
Refuse(e) ==
    /\ ex[e].st = "idle"
    /\ \/ \E error \in {"NotFound", "Validation"} :
            ex' = [ex EXCEPT ![e].st = "done", ![e].outcome = error]
       \/ \E error \in {"ScriptTooLarge", "Syntax"},
             base \in Bases :
            ex' = [ex EXCEPT ![e] = ReportedCalls(e, error, 0, base)]
       \/ /\ execPermits = 0
          /\ ex' = [ex EXCEPT ![e].st = "done", ![e].outcome = "ConcurrencyLimit"]
    /\ UNCHANGED <<execPermits, activity>>

Execute(e) ==
    /\ ex[e].st = "idle"
    /\ execPermits > 0
    /\ execPermits' = execPermits - 1
    /\ activity' = activity + 1
    /\ ex' = [ex EXCEPT ![e].st = "guest"]

(* The component cannot be instantiated (the pool or the memory is short). *)
InstantiateFails(e) ==
    /\ ex[e].st = "guest" /\ ex[e].hostCalls = 0 /\ ex[e].cpu = 0
    /\ \E base \in Bases :
         ex' = [ex EXCEPT ![e] = ReportedCalls(e, "Execution", 0, base)]
    /\ Release

(* consume_host_call: beyond the budget the call fails and the flag stays. *)
Consume(e) ==
    IF ex[e].hostCalls >= MaxHostCalls
    THEN [ex[e] EXCEPT !.limited = TRUE]
    ELSE [ex[e] EXCEPT !.hostCalls = ex[e].hostCalls + 1]

Allowed(e) == ex[e].hostCalls < MaxHostCalls

Request(e, kind) ==
    /\ ex[e].st = "guest"
    /\ LET s == Consume(e)
           room == s.logs < MaxLogEntries
       IN ex' = [ex EXCEPT ![e] =
                   IF Allowed(e) /\ kind = "log" /\ room
                   THEN [s EXCEPT !.logs = s.logs + 1] ELSE s]
    /\ UNCHANGED <<execPermits, activity>>

Submit(e, kind) ==
    /\ ex[e].st = "guest"
    /\ ex' = [ex EXCEPT ![e] =
                IF Allowed(e)
                THEN [Consume(e) EXCEPT
                        !.calls = Append(ex[e].calls, [kind |-> kind, st |-> "queued"])]
                ELSE Consume(e)]
    /\ UNCHANGED <<execPermits, activity>>

NextCompletion(e) ==
    /\ ex[e].st = "guest"
    /\ Inflight(e) # {}
    /\ ex' = [ex EXCEPT ![e].st = "waiting"]
    /\ UNCHANGED <<execPermits, activity>>

WaitForCompletion(e, i) ==
    /\ ex[e].st = "waiting"
    /\ i \in InState(e, {"ended"})
    /\ ex' = [ex EXCEPT ![e].st = "guest", ![e].calls[i].st = "joined"]
    /\ UNCHANGED <<execPermits, activity>>

(* The epoch callback; only the guest's own time is counted.               *)
CpuDeadline(e) ==
    /\ ex[e].st = "guest" /\ activity > 0
    /\ ex[e].cpu < CpuBudget
    /\ LET cpu == ex[e].cpu + 1
       IN ex' = [ex EXCEPT ![e] =
                   IF cpu >= CpuBudget
                   THEN [ex[e] EXCEPT !.cpu = cpu, !.exhausted = TRUE,
                                      !.st = "quiescing", !.response = "trap"]
                   ELSE [ex[e] EXCEPT !.cpu = cpu]]
    /\ UNCHANGED <<execPermits, activity>>

(* call_execute returns: the guest's answer, its error, or a trap.         *)
GuestReturns(e) ==
    /\ ex[e].st = "guest"
    /\ \E r \in {"json", "json_large", "guest_error", "trap"} :
         ex' = [ex EXCEPT ![e].st = "quiescing", ![e].response = r]
    /\ UNCHANGED <<execPermits, activity>>

-----------------------------------------------------------------------------
(* The task of a host call waits for one of the dispatch permits ...       *)
Acquire(e, i) ==
    /\ i \in InState(e, {"queued"})
    /\ Cardinality(InState(e, {"running"})) < MaxDispatches
    /\ ex' = [ex EXCEPT ![e].calls[i].st = "running"]
    /\ UNCHANGED <<execPermits, activity>>

(* ... and records the tool call it made once the tool has answered.       *)
CallTool(e, i) ==
    /\ i \in InState(e, {"running"})
    /\ ex' = [ex EXCEPT ![e].calls[i].st = "ended",
                        ![e].records = IF ex[e].calls[i].kind = "tool_call"
                                       THEN @ \cup {i} ELSE @]
    /\ UNCHANGED <<execPermits, activity>>

(* The token is cancelled and the task aborted, by quiesce_host_calls or   *)
(* by the drop of the execution; a task in the middle of a poll still ends *)
(* that poll, which is CallTool.                                           *)
Cancelled(e, i) ==
    /\ ex[e].st \in {"quiescing", "done"}
    /\ i \in InState(e, {"queued", "running"})
    /\ ex' = [ex EXCEPT ![e].calls[i].st = "aborted"]
    /\ UNCHANGED <<execPermits, activity>>

(* Mutant: the tasks are cancelled and not awaited.                        *)
QuiescedEagerly(e) == ex[e].st = "quiescing"

(* quiesce_host_calls returns when every task has ended.                   *)
Quiesced(e) == ex[e].st = "quiescing" /\ InState(e, {"queued", "running"}) = {}

Outcome(e) ==
    IF ex[e].limited THEN "HostCallLimit"
    ELSE IF ex[e].response = "trap" /\ ex[e].exhausted THEN "CpuLimit"
    ELSE IF ex[e].response = "trap" THEN "Execution"
    ELSE IF ex[e].response = "json" THEN "completed"
    ELSE IF ex[e].response = "json_large" THEN "ResultTooLarge"
    ELSE "Guest"

Report(e) ==
    /\ Quiesced(e)
    /\ \E base \in Bases :
         ex' = [ex EXCEPT ![e] = ReportedCalls(e, Outcome(e), ex[e].logs, base)]
    /\ Release

(* The deadline of `execute` drops `run` wherever it is: the logs go with  *)
(* the store, the tasks are aborted without being awaited.                 *)
Timeout(e) ==
    /\ RunningExecutions(e)
    /\ \E base \in Bases :
         ex' = [ex EXCEPT ![e] = ReportedCalls(e, "Timeout", 0, base)]
    /\ Release

(* The client goes away: the whole call is dropped and nothing reported.   *)
Abandon(e) ==
    /\ RunningExecutions(e)
    /\ ex' = [ex EXCEPT ![e] =
                [NewState EXCEPT !.st = "done", !.outcome = "abandoned",
                                 !.calls = Dropped(ex[e].calls)]]
    /\ Release

CodeModeNext ==
    \E e \in Executions :
      \/ Refuse(e) \/ Execute(e) \/ InstantiateFails(e)
      \/ \E kind \in {"log", "other"} : Request(e, kind)
      \/ \E kind \in Kinds : Submit(e, kind)
      \/ NextCompletion(e) \/ CpuDeadline(e) \/ GuestReturns(e)
      \/ \E i \in DOMAIN ex[e].calls :
           WaitForCompletion(e, i) \/ Acquire(e, i) \/ CallTool(e, i) \/ Cancelled(e, i)
      \/ Report(e) \/ Timeout(e) \/ Abandon(e)

CodeModeSpec == CodeModeInit /\ [][CodeModeNext]_codeModeVars

-----------------------------------------------------------------------------
(* Types of the engine's counters and of an execution's bookkeeping, and   *)
(* the permit and the activity count held by each running execution and by *)
(* no other (the guard dropped on every way out of `run`).                 *)
CodeModeTypeOK ==
    /\ execPermits = MaxExecutions - Cardinality({e \in Executions : RunningExecutions(e)})
    /\ activity = Cardinality({e \in Executions : RunningExecutions(e)})
    /\ \A e \in Executions :
         /\ ex[e].st \in {"idle", "guest", "waiting", "quiescing", "done"}
         /\ ex[e].hostCalls \in 0 .. MaxHostCalls
         /\ ex[e].logs \in 0 .. MaxLogEntries
         /\ RunningExecutions(e) => Len(ex[e].calls) + ex[e].logs <= ex[e].hostCalls
         /\ ex[e].records \subseteq DOMAIN ex[e].calls

(* "Cancel and await outstanding dispatches so tool-call records drained   *)
(* by the caller are complete before this execution reports its result":   *)
(* unless the deadline or the client cut the run short, no tool call is    *)
(* made or recorded after the result of an execution was built.            *)
RecordsComplete ==
    \A e \in Executions :
      ex[e].st = "done" /\ ex[e].outcome \notin {"Timeout", "abandoned"} =>
        /\ ex[e].records = ex[e].drained
        /\ InState(e, {"queued", "running"}) = {}

(* A truncated result fits the output limit, and no result that keeps one  *)
(* more tool call, or one more log beside the kept tool calls, would.      *)
TruncationIsLargest ==
    \A e \in Executions :
      LET r == ex[e].reply
          Fits(c, l) == Build(r.base, c, l, TRUE) <= MaxOutput
      IN r.kind = "truncated" =>
           /\ Fits(r.calls, r.logs)
           /\ r.calls < Cardinality(ex[e].drained) => ~Fits(r.calls + 1, 0)
           /\ r.logs < ex[e].logs => ~Fits(r.calls, r.logs + 1)
=============================================================================
