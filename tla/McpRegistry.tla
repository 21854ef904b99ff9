---------------------------- MODULE McpRegistry ----------------------------
(***************************************************************************)
(* ToolsRegistry of an MCP gateway filter: the tools, the dynamic MCP       *)
(* servers and the OpenAPI sources a gateway offers.  The xDS worker adds   *)
(* and removes resources one at a time while requests bring the registry up *)
(* to date before they read it: they bootstrap the servers once, refresh    *)
(* the expired ones and embed the tools that have no vector.  Writers hold  *)
(* no common lock; what a request does between two awaits is one step per   *)
(* map operation.  A request is dropped at any await when its client        *)
(* leaves.                                                                  *)
(***************************************************************************)
EXTENDS FiniteSets, Integers, Sequences, SequencesExt

CONSTANTS
  Namespaces, Names,  \* of tools; a tool id is a pair of both
  ToolRequests,       \* requests that may be in flight together
  ServerEntries,      \* the DynamicMcpServerEntry objects a run creates
  MaxUpdates,         \* xDS updates of a run
  Worker,             \* the xDS worker, a writer like the requests
  NoEntry             \* no entry, no request

ASSUME RegistryAssumption ==
  /\ MaxUpdates \in Nat /\ IsFiniteSet(ServerEntries)
  /\ Worker \notin ToolRequests /\ NoEntry \notin ServerEntries \cup ToolRequests
  /\ "done" \notin ToolRequests \cup {NoEntry}  \* a value of `boot` of its own

VARIABLES
  tools,      \* ToolId -> entry, of the ids that are present
  dyn,        \* namespace -> registered DynamicMcpServerEntry or NoEntry
  openApi,    \* namespaces of OpenAPI sources
  server,     \* the entry objects: cache_duration, expires_at, refresh flag
  pending,    \* embeddings_pending
  embedLock,  \* holder of embedding_refresh
  boot,       \* bootstrapped: NoEntry, the request running it, or "done"
  job,        \* writer -> the map operations it still has to do
  update,     \* the xDS update in progress
  rq,         \* request -> where it is
  updates     \* xDS updates so far

registryVars == <<tools, dyn, openApi, server, pending, embedLock, boot, job, update, rq, updates>>

ToolIds == Namespaces \X Names
Sources == {"direct", "dynamic", "openapi"}
Writers == ToolRequests \cup {Worker}

NoJob == [stage |-> "none"]
Jobs == {NoJob} \cup [stage : {"evict", "insert"}, ns : Namespaces, source : Sources,
                      entry : ServerEntries \cup {NoEntry}, supplied : BOOLEAN,
                      todo : SUBSET Names, flagged : BOOLEAN]
ReplaceJob(ns, source, entry, supplied, names) ==
  [stage |-> "evict", ns |-> ns, source |-> source, entry |-> entry,
   supplied |-> supplied, todo |-> names, flagged |-> FALSE]

IdleUpdate == [at |-> "idle"]
IdleRequest == [at |-> "idle", todo |-> {}, cur |-> NoEntry, snap |-> {}]

NewEntry(ns, cached) == [ns |-> ns, cached |-> cached, expires |-> "now", busy |-> FALSE]
Created == DOMAIN server
FreshEntries == ServerEntries \ Created

RegistryInit ==
  /\ tools = [id \in {} |-> {}] /\ openApi = {} /\ pending = FALSE
  /\ server = [e \in {} |-> {}] /\ dyn = [ns \in Namespaces |-> NoEntry]
  /\ embedLock = NoEntry /\ boot = NoEntry
  /\ job = [w \in Writers |-> NoJob] /\ update = IdleUpdate
  /\ rq = [q \in ToolRequests |-> IdleRequest] /\ updates = 0

RegistryTypeOK ==
  /\ DOMAIN tools \subseteq ToolIds
  /\ \A id \in DOMAIN tools : tools[id].source \in Sources
  /\ dyn \in [Namespaces -> Created \cup {NoEntry}] /\ openApi \subseteq Namespaces
  /\ job \in [Writers -> Jobs]
  /\ embedLock \in ToolRequests \cup {NoEntry} /\ boot \in ToolRequests \cup {NoEntry, "done"}

MapPut(f, k, v) == [x \in DOMAIN f \cup {k} |-> IF x = k THEN v ELSE f[x]]
MapWithout(f, S) == [x \in DOMAIN f \ S |-> f[x]]

\* Vectors computed for an entry that left the map are stored where nobody reads.
ForgetIn(r, ids) == [q \in ToolRequests |-> [r[q] EXCEPT !.snap = @ \ ids]]

HasDirectTools(ns) == \E id \in DOMAIN tools : id[1] = ns /\ tools[id].source = "direct"

(***************************************************************************)
(* Map operations of a writer.                                              *)
(***************************************************************************)

\* evict_dynamic_tools_for keeps only the direct tools of the namespace,
\* evict_open_api_tools_for removes only the OpenAPI ones.
Evicted(ns, source) ==
  {id \in DOMAIN tools : /\ id[1] = ns
                         /\ IF source = "dynamic" THEN tools[id].source # "direct"
                                                  ELSE tools[id].source = "openapi"}

EvictTools(w) ==
  /\ job[w].stage = "evict"
  /\ LET gone == Evicted(job[w].ns, job[w].source)
     IN /\ tools' = MapWithout(tools, gone)
        /\ rq' = ForgetIn(rq, gone)
  /\ job' = [job EXCEPT ![w].stage = "insert"]
  /\ UNCHANGED <<dyn, openApi, server, pending, embedLock, boot, update, updates>>

\* insert_tool announces the missing vector first and then inserts.
FlagPending(w) ==
  /\ job[w].stage = "insert" /\ job[w].todo # {}
  /\ ~job[w].flagged /\ ~job[w].supplied
  /\ pending' = TRUE
  /\ job' = [job EXCEPT ![w].flagged = TRUE]
  /\ UNCHANGED <<tools, dyn, openApi, server, embedLock, boot, update, rq, updates>>

InsertTool(w) ==
  /\ job[w].stage = "insert" /\ (job[w].flagged \/ job[w].supplied)
  /\ \E n \in job[w].todo :
       LET id == <<job[w].ns, n>>
       IN /\ tools' = MapPut(tools, id, [source |-> job[w].source, entry |-> job[w].entry,
                                      embedded |-> job[w].supplied])
          /\ rq' = ForgetIn(rq, {id})
          /\ job' = [job EXCEPT ![w].todo = @ \ {n}, ![w].flagged = FALSE]
  /\ UNCHANGED <<dyn, openApi, server, pending, embedLock, boot, update, updates>>

JobDone(w) == job[w].stage = "insert" /\ job[w].todo = {}

(***************************************************************************)
(* The xDS worker: one update at a time.                                    *)
(***************************************************************************)
NextUpdate ==
  /\ update.at = "idle" /\ updates < MaxUpdates
  /\ updates' = updates + 1

Begun(j) == job' = [job EXCEPT ![Worker] = j] /\ update' = [at |-> "write"]

AddTool(ns, n, supplied) ==
  /\ NextUpdate
  /\ IF dyn[ns] # NoEntry \/ ns \in openApi
     THEN UNCHANGED <<job, update>>
     ELSE Begun([ReplaceJob(ns, "direct", NoEntry, supplied, {n}) EXCEPT !.stage = "insert"])
  /\ UNCHANGED <<tools, dyn, openApi, server, pending, embedLock, boot, rq>>

\* Only a direct tool is removed; the entry is looked up and removed apart.
RemoveTool(ns, n) ==
  /\ NextUpdate
  /\ <<ns, n>> \in DOMAIN tools /\ tools[<<ns, n>>].source = "direct"
  /\ update' = [at |-> "remove", id |-> <<ns, n>>]
  /\ UNCHANGED <<tools, dyn, openApi, server, pending, embedLock, boot, job, rq>>

RemoveFound ==
  /\ update.at = "remove"
  /\ tools' = MapWithout(tools, {update.id})
  /\ rq' = ForgetIn(rq, {update.id})
  /\ update' = IdleUpdate
  /\ UNCHANGED <<dyn, openApi, server, pending, embedLock, boot, job, updates>>

AddOpenApiSource(ns, names, supplied) ==
  /\ NextUpdate
  /\ IF HasDirectTools(ns) \/ dyn[ns] # NoEntry
     THEN UNCHANGED <<openApi, job, update>>
     ELSE /\ openApi' = openApi \cup {ns}
          /\ Begun(ReplaceJob(ns, "openapi", NoEntry, supplied, names))
  /\ UNCHANGED <<tools, dyn, server, pending, embedLock, boot, rq>>

RemoveOpenApiSource(ns) ==
  /\ NextUpdate
  /\ ns \in openApi
  /\ openApi' = openApi \ {ns}
  /\ Begun(ReplaceJob(ns, "openapi", NoEntry, FALSE, {}))
  /\ UNCHANGED <<tools, dyn, server, pending, embedLock, boot, rq>>

Taken(ns) == HasDirectTools(ns) \/ ns \in openApi

\* add_dynamic_server checks the namespace, fetches the tools, checks again,
\* registers the entry and only then replaces the tools.
AddDynamicServer(ns, cached) ==
  /\ NextUpdate
  /\ \E e \in FreshEntries :
       IF Taken(ns) THEN UNCHANGED <<server, update>>
       ELSE /\ server' = MapPut(server, e, NewEntry(ns, cached))
            /\ update' = [at |-> "fetch", entry |-> e]
  /\ UNCHANGED <<tools, dyn, openApi, pending, embedLock, boot, job, rq>>

Expiry(e, succeeded) ==
  IF server[e].cached \/ ~succeeded THEN "later" ELSE "never"

AddDynamicServerFetched ==
  /\ update.at = "fetch"
  /\ LET e == update.entry
         ns == server[e].ns
     IN \/ update' = IdleUpdate /\ UNCHANGED <<dyn, server, job>>   \* refused
        \/ /\ ~Taken(ns)
           /\ \E names \in SUBSET Names : Begun(ReplaceJob(ns, "dynamic", e, FALSE, names))
           /\ dyn' = [dyn EXCEPT ![ns] = e]
           /\ server' = [server EXCEPT ![e].expires = Expiry(e, TRUE)]
  /\ UNCHANGED <<tools, openApi, pending, embedLock, boot, rq, updates>>

RemoveDynamicServer(ns) ==
  /\ NextUpdate
  /\ dyn[ns] # NoEntry
  /\ dyn' = [dyn EXCEPT ![ns] = NoEntry]
  /\ Begun(ReplaceJob(ns, "dynamic", NoEntry, FALSE, {}))
  /\ UNCHANGED <<tools, openApi, server, pending, embedLock, boot, rq>>

UpdateEnds ==
  /\ update.at = "write" /\ JobDone(Worker)
  /\ job' = [job EXCEPT ![Worker] = NoJob] /\ update' = IdleUpdate
  /\ UNCHANGED <<tools, dyn, openApi, server, pending, embedLock, boot, rq, updates>>

(***************************************************************************)
(* Requests: ensure_tools_current, then the read.                           *)
(***************************************************************************)
ReqAt(q, place) == rq[q].at = place
ReqGo(q, place) == rq' = [rq EXCEPT ![q].at = place]

RegistryQuiet(q) == UNCHANGED <<tools, dyn, openApi, update, updates>>

EnterRegistry(q) ==
  /\ ReqAt(q, "idle") /\ ReqGo(q, "boot")
  /\ RegistryQuiet(q) /\ UNCHANGED <<server, pending, embedLock, boot, job>>

\* OnceCell::get_or_init: one request bootstraps, the others wait for it.
Bootstrap(q) ==
  /\ ReqAt(q, "boot") /\ boot = NoEntry
  /\ boot' = q
  /\ rq' = [rq EXCEPT ![q].at = "each", ![q].todo = {e \in Created : dyn[server[e].ns] = e}]
  /\ RegistryQuiet(q) /\ UNCHANGED <<server, pending, embedLock, job>>

Bootstrapped(q) ==
  /\ \/ ReqAt(q, "boot") /\ boot = "done"
     \/ ReqAt(q, "each") /\ boot = q /\ rq[q].todo = {}
  /\ boot' = "done" /\ ReqGo(q, "refresh")
  /\ RegistryQuiet(q) /\ UNCHANGED <<server, pending, embedLock, job>>

RefreshExpiredDynamicServers(q) ==
  /\ ReqAt(q, "refresh")
  /\ rq' = [rq EXCEPT ![q].at = "each",
                      ![q].todo = {e \in Created : dyn[server[e].ns] = e /\ server[e].expires = "now"}]
  /\ RegistryQuiet(q) /\ UNCHANGED <<server, pending, embedLock, boot, job>>

FetchForBootstrap(q) ==
  /\ ReqAt(q, "each") /\ boot = q
  /\ \E e \in rq[q].todo :
       rq' = [rq EXCEPT ![q].at = "fetch", ![q].cur = e, ![q].todo = @ \ {e}]
  /\ RegistryQuiet(q) /\ UNCHANGED <<server, pending, embedLock, boot, job>>

\* Mutant: the flag is set without looking at it.
ClaimsRefreshAlways(e) == server[e].expires = "now"

\* Whether refresh_if_idle goes on to fetch: the flag was free and the entry,
\* looked at again, is still expired.
ClaimsRefresh(e) == ~server[e].busy /\ server[e].expires = "now"

RefreshIfIdle(q) ==
  /\ ReqAt(q, "each") /\ boot # q
  /\ \E e \in rq[q].todo :
       IF ClaimsRefresh(e)
       THEN /\ server' = [server EXCEPT ![e].busy = TRUE]
            /\ rq' = [rq EXCEPT ![q].at = "fetch", ![q].cur = e, ![q].todo = @ \ {e}]
       ELSE /\ rq' = [rq EXCEPT ![q].todo = @ \ {e}]
            /\ UNCHANGED server
  /\ RegistryQuiet(q) /\ UNCHANGED <<pending, embedLock, boot, job>>

\* The deferred store of FALSE when refresh_if_idle is left or dropped.
Released(q, s) == IF boot = q THEN s ELSE [s EXCEPT ![rq[q].cur].busy = FALSE]

NextServer(q) == rq' = [rq EXCEPT ![q].at = "each", ![q].cur = NoEntry]

FetchFails(q) ==
  /\ ReqAt(q, "fetch")
  /\ LET e == rq[q].cur
     IN server' = Released(q, [server EXCEPT ![e].expires = Expiry(e, FALSE)])
  /\ NextServer(q)
  /\ RegistryQuiet(q) /\ UNCHANGED <<pending, embedLock, boot, job>>

\* The entry must still be the registered one when the answer arrives.
FetchReturns(q) ==
  /\ ReqAt(q, "fetch")
  /\ LET e == rq[q].cur
         ns == server[e].ns
     IN IF dyn[ns] = e
        THEN /\ \E names \in SUBSET Names :
                  job' = [job EXCEPT ![q] = ReplaceJob(ns, "dynamic", e, FALSE, names)]
             /\ ReqGo(q, "write") /\ UNCHANGED server
        ELSE /\ server' = Released(q, server) /\ NextServer(q) /\ UNCHANGED job
  /\ RegistryQuiet(q) /\ UNCHANGED <<pending, embedLock, boot>>

Materialised(q) ==
  /\ ReqAt(q, "write") /\ JobDone(q)
  /\ job' = [job EXCEPT ![q] = NoJob]
  /\ LET e == rq[q].cur
     IN server' = Released(q, [server EXCEPT ![e].expires = Expiry(e, TRUE)])
  /\ NextServer(q)
  /\ RegistryQuiet(q) /\ UNCHANGED <<pending, embedLock, boot>>

\* embed_unembedded_tools: whoever clears the flag embeds, the others go on.
EmbedUnembeddedTools(q) ==
  /\ ReqAt(q, "each") /\ boot = "done" /\ rq[q].todo = {}
  /\ pending' = FALSE
  /\ ReqGo(q, IF pending THEN "lock" ELSE "read")
  /\ RegistryQuiet(q) /\ UNCHANGED <<server, embedLock, boot, job>>

Unembedded == {id \in DOMAIN tools : ~tools[id].embedded}

EmbedLocked(q) ==
  /\ ReqAt(q, "lock") /\ embedLock = NoEntry
  /\ IF Unembedded = {} THEN ReqGo(q, "read") /\ UNCHANGED embedLock
     ELSE embedLock' = q /\ rq' = [rq EXCEPT ![q].at = "batch", ![q].snap = Unembedded]
  /\ RegistryQuiet(q) /\ UNCHANGED <<server, pending, boot, job>>

\* One chunk: its vectors are stored, or the flag is set again and the next
\* chunk is tried.
EmbedBatch(q) ==
  /\ ReqAt(q, "batch")
  /\ IF rq[q].snap = {} THEN embedLock' = NoEntry /\ ReqGo(q, "read") /\ UNCHANGED <<tools, pending>>
     ELSE \E id \in rq[q].snap :
            /\ \/ tools' = [tools EXCEPT ![id].embedded = TRUE] /\ UNCHANGED pending
               \/ pending' = TRUE /\ UNCHANGED tools
            /\ rq' = [rq EXCEPT ![q].snap = @ \ {id}]
            /\ UNCHANGED embedLock
  /\ UNCHANGED <<dyn, openApi, server, boot, job, update, updates>>

ReadTools(q) ==
  /\ ReqAt(q, "read") /\ rq' = [rq EXCEPT ![q] = IdleRequest]
  /\ RegistryQuiet(q) /\ UNCHANGED <<server, pending, embedLock, boot, job>>

\* The client leaves while the request awaits: guards are dropped, the flag
\* of the embeddings stays as it is.
DropRequest(q) ==
  /\ rq[q].at \in {"boot", "fetch", "lock", "batch"}
  /\ server' = IF ReqAt(q, "fetch") THEN Released(q, server) ELSE server
  /\ boot' = IF boot = q THEN NoEntry ELSE boot
  /\ embedLock' = IF embedLock = q THEN NoEntry ELSE embedLock
  /\ rq' = [rq EXCEPT ![q] = IdleRequest]
  /\ RegistryQuiet(q) /\ UNCHANGED <<pending, job>>

\* A cache duration, or the retry interval after a failure, passes.
DeadlinePasses(e) ==
  /\ server[e].expires = "later"
  /\ server' = [server EXCEPT ![e].expires = "now"]
  /\ UNCHANGED <<tools, dyn, openApi, pending, embedLock, boot, job, update, rq, updates>>

RegistryNext ==
  \/ \E w \in Writers : EvictTools(w) \/ FlagPending(w) \/ InsertTool(w)
  \/ \E ns \in Namespaces :
       \/ \E n \in Names, s \in BOOLEAN : AddTool(ns, n, s)
       \/ \E n \in Names : RemoveTool(ns, n)
       \/ \E S \in SUBSET Names, s \in BOOLEAN : AddOpenApiSource(ns, S, s)
       \/ RemoveOpenApiSource(ns)
       \/ \E c \in BOOLEAN : AddDynamicServer(ns, c)
       \/ RemoveDynamicServer(ns)
  \/ RemoveFound \/ AddDynamicServerFetched \/ UpdateEnds
  \/ \E q \in ToolRequests :
       \/ EnterRegistry(q) \/ Bootstrap(q) \/ Bootstrapped(q) \/ RefreshExpiredDynamicServers(q)
       \/ FetchForBootstrap(q) \/ RefreshIfIdle(q) \/ FetchFails(q) \/ FetchReturns(q)
       \/ Materialised(q) \/ EmbedUnembeddedTools(q) \/ EmbedLocked(q) \/ EmbedBatch(q)
       \/ ReadTools(q) \/ DropRequest(q)
  \/ \E e \in Created : DeadlinePasses(e)

RegistrySpec == RegistryInit /\ [][RegistryNext]_registryVars

-----------------------------------------------------------------------------
(* Properties *)

Refreshing(e) == {q \in ToolRequests : rq[q].cur = e /\ rq[q].at \in {"fetch", "write"}}

\* A dynamic server is fetched by one request at a time, whether to bootstrap
\* or to refresh it, and its refresh_in_progress flag is set exactly while a
\* refresh is under way: a request dropped in mid-fetch never leaves the server
\* locked against every later refresh.
RefreshIsExclusive ==
  \A e \in Created : /\ Cardinality(Refreshing(e)) <= 1
                     /\ server[e].busy <=> \E q \in Refreshing(e) : boot # q

\* The tools of a namespace with a dynamic server are the ones materialised
\* from the server registered now, and none are left of a removed server,
\* whenever no writer is at work on the namespace (docs: removing a server
\* "Evicts all tools materialised from that server").
ToolsOfTheirServer ==
  \A id \in DOMAIN tools :
    (tools[id].source = "dynamic" /\ \A w \in Writers : job[w] = NoJob)
      => dyn[id[1]] = tools[id].entry

\* A tool that still needs a vector is known to somebody: the flag is set, or
\* a request is about to look for such tools, or has this one in its batches.
EmbeddingsNotForgotten ==
  \A id \in Unembedded :
    \/ pending
    \/ \E q \in ToolRequests : rq[q].at = "lock" \/ (rq[q].at = "batch" /\ id \in rq[q].snap)

-----------------------------------------------------------------------------
(***************************************************************************)
(* What a client may see of the tool registry: role based access on the    *)
(* verified token (mcp_gateway/rbac.rs), the paged catalog and the         *)
(* toolkits (tools.rs, tools/entry.rs, codemode/toolkits.rs), and the      *)
(* ranked search, by embeddings or by BM25 (tools/search.rs,               *)
(* embeddings.rs, embeddings/remote.rs).  The registry and the token are   *)
(* the environment's; a walk over the pages of a listing is a behaviour.   *)
(***************************************************************************)

CONSTANTS
    ToolCount,       \* tools 1 .. ToolCount, in the order of their names
    DefaultLimit,    \* DEFAULT_LIMIT of catalog_page
    MaxLimit,        \* MAX_LIMIT of catalog_page
    MaxScore         \* scores 0 .. MaxScore

ASSUME CatalogAssumption ==
    {ToolCount, DefaultLimit, MaxLimit, MaxScore} \subseteq Nat \ {0}

VARIABLE cat         \* the query in progress and what it has shown so far

Unset == 0           \* an absent limit or offset

-----------------------------------------------------------------------------
(* Access.  A token is the pairs <<field, value>> of its header and of its *)
(* claims; without a verified token nothing matches.                       *)
NoToken == [present |-> FALSE, header |-> {}, claims |-> {}]

Tokens ==
    {NoToken} \cup
    [ present : {TRUE}, header : {{}, {<<"kid", "v">>}, {<<"x5c", "v">>}},
      claims : {{}, {<<"aud", "v">>}, {<<"aud", "w">>, <<"aud", "v">>}} ]

(* convert_config_rbac_to_runtime reads an unknown header field as the key *)
(* id; JwtHeaderMatcher can read only some of the others.                  *)
HeaderField(name) == IF name \in {"alg", "x5c"} THEN name ELSE "kid"

ReadableHeader == {"alg", "typ", "cty", "kid", "jku", "x5u"}

Applicable(p, token) ==
    /\ token.present
    /\ \/ /\ p.kind = "header" /\ HeaderField(p.field) \in ReadableHeader
          /\ <<HeaderField(p.field), "v">> \in token.header
       \/ p.kind = "claim" /\ <<p.field, "v">> \in token.claims

Permissions ==
    [kind : {"header"}, field : {"x5c", "misspelt"}] \cup [kind : {"claim"}, field : {"aud"}]

Rules == [action : {"none", "allow", "deny"}, permissions : SUBSET Permissions]

IsPermitted(rule, token) ==
    LET matched == \E p \in rule.permissions : Applicable(p, token)
    IN CASE rule.action = "none" -> TRUE
         [] rule.action = "allow" -> matched
         [] rule.action = "deny" -> ~matched

-----------------------------------------------------------------------------
(* The registry: for each tool its rule, its disclosure, its BM25 score of *)
(* the query and its embedding: absent, of another dimension, or its       *)
(* similarity to the query.                                                *)
NoVector == -1
OtherDimension == -2

Permitted == {t \in cat.tools : IsPermitted(cat.rule[t], cat.token)}

(* catalog_page over the `n` items a listing has.                          *)
Limit(limit) == IF limit = Unset THEN DefaultLimit
                ELSE IF limit > MaxLimit THEN MaxLimit ELSE limit

Page(items, limit, offset) ==
    LET end == offset + Limit(limit)
    IN SubSeq(items, offset + 1, IF end > Len(items) THEN Len(items) ELSE end)

(* Mutant: the next offset counts what was asked for, not what was shown.  *)
NextOffsetAsked(items, limit, offset) ==
    offset + (IF limit = Unset THEN DefaultLimit ELSE limit)

NextOffset(items, limit, offset) == offset + Len(Page(items, limit, offset))

(* catalog_list_tools and list_disclosed_tools: sorted by name.            *)
Listed == SetToSortSeq(Permitted, <)

Disclosed(mode) == {t \in Permitted : cat.mode[t] = mode}

(* A toolkit is shown when every tool it names is there and permitted.     *)
(* Mutant: the tools that are not permitted are left out of the toolkit.   *)
PermittedEntriesLenient(ids) ==
    IF ids \cap Permitted = {} THEN {} ELSE {ids \cap cat.tools}

PermittedEntriesById(ids) == IF ids \subseteq Permitted THEN {ids} ELSE {}

-----------------------------------------------------------------------------
(* Search.  The vector scores are used only when the query was embedded    *)
(* and every candidate has a vector of its dimension.                      *)
Candidates(scope) ==
    IF scope = "progressive" THEN Disclosed("progressive") ELSE Permitted

UsesVectors(cands) ==
    cat.embedded /\ \A t \in cands : cat.vector[t] \in 0 .. MaxScore

Score(t, cands) == IF UsesVectors(cands) THEN cat.vector[t] ELSE cat.bm25[t]

(* Mutant: the candidates are cut to the limit before they are ranked.     *)
RankedCut(cands, limit) ==
    LET cut == SubSeq(SetToSortSeq(cands, <), 1, IF limit < Cardinality(cands) THEN limit ELSE Cardinality(cands))
    IN SortSeq(cut, LAMBDA a, b : Score(a, cands) > Score(b, cands))

(* By score, highest first, ties by name; then the first `limit`.          *)
Ranked(cands, limit) ==
    LET ordered == SetToSortSeq(cands, LAMBDA a, b :
                     \/ Score(a, cands) > Score(b, cands)
                     \/ Score(a, cands) = Score(b, cands) /\ a < b)
    IN SubSeq(ordered, 1, IF limit < Len(ordered) THEN limit ELSE Len(ordered))

-----------------------------------------------------------------------------
NewQuery ==
    [ st |-> "idle", tools |-> {}, rule |-> <<>>, token |-> NoToken, mode |-> <<>>,
      embedded |-> FALSE, vector |-> <<>>, bm25 |-> <<>>, limit |-> 0, offset |-> 0,
      shown |-> <<>>, scope |-> "all" ]

CatalogInit == cat = NewQuery

(* The uniform rule of a registry keeps the instance small: one rule for   *)
(* the odd tools, none for the even ones.                                  *)
Ask ==
    /\ cat.st = "idle"
    /\ \E known \in SUBSET (1 .. ToolCount), rule \in Rules, token \in Tokens,
          embedded \in BOOLEAN, odd \in {NoVector, OtherDimension} \cup 0 .. MaxScore :
         cat' = [cat EXCEPT
           !.st = "asked", !.tools = known, !.token = token,
           !.rule = [t \in 1 .. ToolCount |->
                       IF t % 2 = 1 THEN rule ELSE [action |-> "none", permissions |-> {}]],
           !.mode = [t \in 1 .. ToolCount |-> IF t = 1 THEN "eager" ELSE "progressive"],
           !.embedded = embedded,
           !.vector = [t \in 1 .. ToolCount |-> IF t % 2 = 1 THEN odd ELSE t % (MaxScore + 1)],
           !.bm25 = [t \in 1 .. ToolCount |-> (ToolCount - t) % (MaxScore + 1)]]

ListTools ==
    /\ cat.st = "asked"
    /\ \E limit \in 0 .. MaxLimit + 1 : cat' = [cat EXCEPT !.st = "listing", !.limit = limit]

NextPage ==
    /\ cat.st = "listing"
    /\ LET next == NextOffset(Listed, cat.limit, cat.offset)
       IN cat' = [cat EXCEPT !.shown = @ \o Page(Listed, cat.limit, cat.offset),
                             !.offset = next,
                             !.st = IF next < Len(Listed) THEN "listing" ELSE "listed"]

Describe ==
    /\ cat.st = "asked"
    /\ \E t \in 1 .. ToolCount :
         cat' = [cat EXCEPT !.st = "described", !.shown = IF t \in Permitted THEN <<t>> ELSE <<>>]

GetToolkit ==
    /\ cat.st = "asked"
    /\ \E ids \in SUBSET (1 .. ToolCount) :
         /\ Cardinality(ids) >= 2
         /\ cat' = [cat EXCEPT !.st = "rendered",
                               !.shown = SetToSortSeq(UNION PermittedEntriesById(ids), <)]

ListDisclosed ==
    /\ cat.st = "asked"
    /\ cat' = [cat EXCEPT !.st = "described",
                          !.shown = SetToSortSeq(Disclosed("eager"), <)
                                    \o SetToSortSeq(Disclosed("progressive"), <)]

SearchTools ==
    /\ cat.st = "asked"
    /\ \E scope \in {"all", "progressive"}, limit \in 1 .. MaxLimit :
         cat' = [cat EXCEPT !.st = "searched", !.scope = scope, !.limit = limit,
                            !.shown = Ranked(Candidates(scope), limit)]

CatalogNext ==
    Ask \/ ListTools \/ NextPage \/ Describe \/ GetToolkit \/ ListDisclosed \/ SearchTools

CatalogSpec == CatalogInit /\ [][CatalogNext]_cat

-----------------------------------------------------------------------------
(* A client that follows next_offset sees every tool it may use, each once *)
(* and in order, whatever limit it asks for.                               *)
PagesCoverOnce == cat.st = "listed" => cat.shown = Listed

(* No answer, of a listing, a description, a toolkit or a search, names a  *)
(* tool that the caller's token does not permit.                           *)
NothingDeniedIsShown == ToSet(cat.shown) \subseteq Permitted

(* A search answers with the best candidates: none it leaves out scores    *)
(* higher than one it shows, and it shows as many as there are up to its   *)
(* limit.                                                                  *)
SearchShowsTheBest ==
    cat.st = "searched" =>
      LET cands == Candidates(cat.scope)
      IN /\ Len(cat.shown) = IF Cardinality(cands) < cat.limit
                             THEN Cardinality(cands) ELSE cat.limit
         /\ \A x \in ToSet(cat.shown), y \in cands \ ToSet(cat.shown) :
              Score(x, cands) >= Score(y, cands)

(* Listings and searches are complete, and show nothing that is denied.    *)
CatalogIsHonest == PagesCoverOnce /\ NothingDeniedIsShown /\ SearchShowsTheBest

-----------------------------------------------------------------------------
(***************************************************************************)
(* How MCP gateway filters find the xDS worker.  A filter built in some     *)
(* runtime claims its server name in that runtime and subscribes its        *)
(* registry under a scope; the subscription is queued as long as the xDS    *)
(* handler does not exist.  Starting the handler drains the queue, and a    *)
(* filter that queued while the handler appeared drains it too.  A dropped  *)
(* filter unsubscribes and releases its claim.  The lists hang in maps by   *)
(* scope and have a lock each; a list is reached through the map and used   *)
(* after the map was let go.  One scope, with a filter in every runtime.    *)
(***************************************************************************)

CONSTANTS
  Filters,    \* the filters built in a run, all for one server name and scope
  Runtimes,   \* the runtimes
  Holders,    \* the lists (StdArc<Mutex<Vec<_>>>) a run creates
  Starter,    \* the thread that starts the xDS handler
  NoHolder

ASSUME SubscriptionsAssumption ==
  /\ IsFiniteSet(Filters) /\ Starter \notin Filters /\ NoHolder \notin Holders

VARIABLES
  claimed,    \* runtimes in which the server name is claimed
  handler,    \* whether MCP_XDS_HANDLER is set
  queue,      \* PENDING_MCP_XDS_SUBSCRIPTIONS: the scope's list or NoHolder
  scoped,     \* the handler's subscriptions_by_scope: the same
  list,       \* holder -> the filters whose registries it lists
  made,       \* holders in use
  thread,     \* filter or Starter -> where it is
  reached     \* filters the update in progress was applied to, and its end

subscriptionVars == <<claimed, handler, queue, scoped, list, made, thread, reached>>

McpThreads == Filters \cup {Starter}
Gone == [at |-> "gone"]
On(t, place) == thread[t].at = place
Move(t, r) == thread' = [thread EXCEPT ![t] = r]

SubscriptionsInit ==
  /\ claimed = {} /\ handler = FALSE /\ queue = NoHolder /\ scoped = NoHolder
  /\ list = [h \in Holders |-> {}] /\ made = {}
  /\ thread = [t \in McpThreads |-> Gone]
  /\ reached = [at |-> "idle", todo |-> {}]

Places == {"gone", "look", "queue", "recheck", "drain", "take", "register", "live",
           "unregister", "unqueue", "release", "refused"}
SubscriptionsTypeOK ==
  /\ claimed \subseteq Runtimes /\ handler \in BOOLEAN
  /\ {queue, scoped} \subseteq made \cup {NoHolder}
  /\ \A t \in McpThreads : thread[t].at \in Places

(***************************************************************************)
(* Building a filter.                                                       *)
(***************************************************************************)

\* uniqueness::claim: one filter per server name and runtime.
Claim(f, r) ==
  /\ On(f, "gone")
  /\ Move(f, IF r \in claimed THEN [at |-> "refused"] ELSE [at |-> "look", rt |-> r])
  /\ claimed' = claimed \cup {r}
  /\ UNCHANGED <<handler, queue, scoped, list, made, reached>>

\* subscribe_for_updates asks for the handler ...
LookForHandler(f) ==
  /\ On(f, "look")
  /\ \E h \in (IF handler THEN (IF scoped = NoHolder THEN Holders \ made ELSE {scoped})
                          ELSE (IF queue = NoHolder THEN Holders \ made ELSE {queue})) :
       /\ made' = made \cup {h}
       /\ IF handler THEN scoped' = h /\ UNCHANGED queue ELSE queue' = h /\ UNCHANGED scoped
       /\ Move(f, [at |-> IF handler THEN "register" ELSE "queue", rt |-> thread[f].rt,
                   holder |-> h, of |-> {f}, back |-> "live"])
  /\ UNCHANGED <<claimed, handler, list, reached>>

\* ... and pushes to the list that the map gave it, now perhaps out of the map.
QueueSubscription(f) ==
  /\ On(f, "queue")
  /\ list' = [list EXCEPT ![thread[f].holder] = @ \cup {f}]
  /\ Move(f, [at |-> "recheck", rt |-> thread[f].rt])
  /\ UNCHANGED <<claimed, handler, queue, scoped, made, reached>>

Recheck(f) ==
  /\ On(f, "recheck")
  /\ Move(f, [at |-> IF handler THEN "drain" ELSE "live", rt |-> thread[f].rt, back |-> "live"])
  /\ UNCHANGED <<claimed, handler, queue, scoped, list, made, reached>>

(***************************************************************************)
(* Draining the queue, by the starter or by a filter.                       *)
(***************************************************************************)
InitHandler ==
  /\ On(Starter, "gone") /\ ~handler
  /\ handler' = TRUE
  /\ Move(Starter, [at |-> "drain", back |-> "live"])
  /\ UNCHANGED <<claimed, queue, scoped, list, made, reached>>

\* The list is cloned and its scope removed from the map ...
DrainScope(t) ==
  /\ On(t, "drain")
  /\ IF queue = NoHolder
     THEN Move(t, [thread[t] EXCEPT !.at = thread[t].back]) /\ UNCHANGED queue
     ELSE /\ Move(t, [at |-> "take", rt |-> IF t = Starter THEN Starter ELSE thread[t].rt,
                      holder |-> queue, back |-> thread[t].back])
          /\ queue' = NoHolder
  /\ UNCHANGED <<claimed, handler, scoped, list, made, reached>>

\* Registries that are still alive: the drop of a filter's inner part runs
\* unsubscribe and release first.
AliveFilter(f) == thread[f].at \notin {"gone", "refused"}

\* ... then it is emptied, and what is alive in it is registered.
TakeSubscriptions(t) ==
  /\ On(t, "take")
  /\ LET h == thread[t].holder
         live == {f \in list[h] : AliveFilter(f)}
     IN /\ list' = [list EXCEPT ![h] = {}]
        /\ IF live = {}
           THEN Move(t, [thread[t] EXCEPT !.at = thread[t].back]) /\ UNCHANGED <<scoped, made>>
           ELSE \E g \in (IF scoped = NoHolder THEN Holders \ made ELSE {scoped}) :
                  /\ scoped' = g /\ made' = made \cup {g}
                  /\ Move(t, [at |-> "register", rt |-> thread[t].rt, holder |-> g,
                              of |-> live, back |-> thread[t].back])
  /\ UNCHANGED <<claimed, handler, queue, reached>>

\* McpXdsHandler::register pushes to the list it found and subscribes once.
Register(t) ==
  /\ On(t, "register")
  /\ list' = [list EXCEPT ![thread[t].holder] = @ \cup thread[t].of]
  /\ Move(t, [at |-> thread[t].back, rt |-> thread[t].rt])
  /\ UNCHANGED <<claimed, handler, queue, scoped, made, reached>>

(***************************************************************************)
(* Dropping a filter.                                                       *)
(***************************************************************************)

\* remove_subscription: the list is thinned out under its lock; if that
\* emptied it, its scope leaves the map in a step of its own.
Thinned(h, f) == {g \in list[h] : AliveFilter(g) /\ g # f}

DropMcpFilter(f) ==
  /\ On(f, "live")
  /\ IF handler /\ scoped # NoHolder
     THEN /\ list' = [list EXCEPT ![scoped] = Thinned(scoped, f)]
          /\ Move(f, [at |-> "unregister", rt |-> thread[f].rt, empty |-> Thinned(scoped, f) = {}])
     ELSE Move(f, [at |-> "unregister", rt |-> thread[f].rt, empty |-> FALSE]) /\ UNCHANGED list
  /\ UNCHANGED <<claimed, handler, queue, scoped, made, reached>>

Unregister(f) ==
  /\ On(f, "unregister")
  /\ scoped' = IF thread[f].empty THEN NoHolder ELSE scoped
  /\ IF queue # NoHolder
     THEN /\ list' = [list EXCEPT ![queue] = Thinned(queue, f)]
          /\ Move(f, [at |-> "unqueue", rt |-> thread[f].rt, empty |-> Thinned(queue, f) = {}])
     ELSE Move(f, [at |-> "unqueue", rt |-> thread[f].rt, empty |-> FALSE]) /\ UNCHANGED list
  /\ UNCHANGED <<claimed, handler, queue, made, reached>>

Unqueue(f) ==
  /\ On(f, "unqueue")
  /\ queue' = IF thread[f].empty THEN NoHolder ELSE queue
  /\ Move(f, [at |-> "release", rt |-> thread[f].rt])
  /\ UNCHANGED <<claimed, handler, scoped, list, made, reached>>

\* Mutant: the filter that was refused releases the claim as well.
ReleasedByAny(f) == IF On(f, "release") THEN {thread[f].rt} ELSE Runtimes

\* Only a filter that holds its registration releases the claim.
Releases(f) == IF On(f, "release") THEN {thread[f].rt} ELSE {}

ReleaseName(f) ==
  /\ thread[f].at \in {"release", "refused"}
  /\ claimed' = claimed \ Releases(f)
  /\ Move(f, Gone)
  /\ UNCHANGED <<handler, queue, scoped, list, made, reached>>

(***************************************************************************)
(* The xDS worker: handle_update and handle_remove.                         *)
(***************************************************************************)

\* live_subscriptions prunes the list of the scope and snapshots it.
StartUpdate ==
  /\ reached.at = "idle" /\ handler /\ scoped # NoHolder
  /\ LET live == {f \in list[scoped] : AliveFilter(f)}
     IN /\ list' = [list EXCEPT ![scoped] = live]
        /\ reached' = [at |-> "apply", todo |-> live]
  /\ UNCHANGED <<claimed, handler, queue, scoped, made, thread>>

\* The registries one by one; the first that refuses ends the update, the
\* ones before it keep what they got.
ApplyToRegistry ==
  /\ reached.at = "apply"
  /\ IF reached.todo = {} THEN reached' = [at |-> "idle", todo |-> {}]
     ELSE \E f \in reached.todo :
            \/ reached' = [at |-> "apply", todo |-> reached.todo \ {f}]
            \/ reached' = [at |-> "idle", todo |-> {}]
  /\ UNCHANGED <<claimed, handler, queue, scoped, list, made, thread>>

SubscriptionsNext ==
  \/ \E f \in Filters :
       \/ \E r \in Runtimes : Claim(f, r)
       \/ LookForHandler(f) \/ QueueSubscription(f) \/ Recheck(f)
       \/ DropMcpFilter(f) \/ Unregister(f) \/ Unqueue(f) \/ ReleaseName(f)
  \/ \E t \in McpThreads : DrainScope(t) \/ TakeSubscriptions(t) \/ Register(t)
  \/ InitHandler \/ StartUpdate \/ ApplyToRegistry

SubscriptionsSpec == SubscriptionsInit /\ [][SubscriptionsNext]_subscriptionVars

-----------------------------------------------------------------------------
(* Properties *)

\* In every runtime at most one filter that is being built, lives or is being
\* dropped has the server name, and the name is claimed exactly while there is
\* one: a refused duplicate never frees the claim of the filter it collided with.
OneFilterPerName ==
  \A r \in Runtimes :
    LET holding == {f \in Filters : AliveFilter(f) /\ thread[f].rt = r}
    IN Cardinality(holding) <= 1 /\ (r \in claimed <=> holding # {})

\* A filter that lives is known: its registry is on the list of the scope in
\* the handler, or in the queue, or in the hands of a thread that drains
\* ("racing registrations cannot be lost while pending subscriptions are
\* drained").
RegistrationsKept ==
  \A f \in Filters : On(f, "live") =>
    \/ \E h \in {queue, scoped} \ {NoHolder} : f \in list[h]
    \/ \E t \in McpThreads : \/ On(t, "take") /\ f \in list[thread[t].holder]
                             \/ On(t, "register") /\ f \in thread[t].of
=============================================================================
