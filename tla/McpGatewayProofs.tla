-------------------------- MODULE McpGatewayProofs --------------------------
(***************************************************************************)
(* Proofs about the state that the tasks of the MCP gateway share, for     *)
(* every number of requests, servers, tools and updates, filters and       *)
(* runtimes, sessions, executions and host calls: the refresh of dynamic   *)
(* servers, the claim of server names, calls and sessions, and the records *)
(* of code mode executions.  Each part has an inductive invariant of its   *)
(* own; the parts of MCMcpGateway move one at a time.                      *)
(***************************************************************************)
EXTENDS MCMcpGateway, FiniteSetTheorems, TLAPS

-----------------------------------------------------------------------------
(* The registry of tools.                                                  *)

ServerRecords == [ns : Namespaces, cached : BOOLEAN,
                  expires : {"now", "later", "never"}, busy : BOOLEAN]
ToolRecords == [source : Sources, entry : ServerEntries \cup {NoEntry}, embedded : BOOLEAN]
RequestPlaces == {"idle", "boot", "each", "refresh", "fetch", "write", "lock", "batch", "read"}

(* Where a request is, for the entries that exist and the ids there are.   *)
RequestRecords(E) ==
    [at : RequestPlaces, todo : SUBSET E, cur : E \cup {NoEntry}, snap : SUBSET ToolIds]

RegistryShape ==
    /\ RegistryTypeOK
    /\ tools \in [DOMAIN tools -> ToolRecords]
    /\ Created \subseteq ServerEntries /\ server \in [Created -> ServerRecords]
    /\ rq \in [ToolRequests -> RequestRecords(Created)]
    /\ update.at = "fetch" => update.entry \in Created

(* A request that fetches or writes works for an entry.                    *)
WorksForEntry ==
    \A q \in ToolRequests : rq[q].at \in {"fetch", "write"} => rq[q].cur \in Created

(* get_or_init: until the servers are bootstrapped nobody else goes on,    *)
(* and the request that bootstraps them is at their fetches.               *)
BootstrapFirst ==
    /\ boot # "done" => \A q \in ToolRequests : q # boot => rq[q].at \in {"idle", "boot"}
    /\ \A q \in ToolRequests : boot = q => rq[q].at \in {"each", "fetch", "write"}

Refreshes(q, e) == rq[q].cur = e /\ rq[q].at \in {"fetch", "write"}

(* The flag of an entry is set exactly while a request that does not       *)
(* bootstrap works for it, and one request works for it at a time.         *)
FlagIsTrue ==
    \A e \in Created : server[e].busy <=> \E q \in ToolRequests : Refreshes(q, e) /\ boot # q
OneRefresher ==
    \A e \in Created : \A p, q \in ToolRequests : Refreshes(p, e) /\ Refreshes(q, e) => p = q

RegistryInv ==
    RegistryShape /\ WorksForEntry /\ BootstrapFirst /\ FlagIsTrue /\ OneRefresher

-----------------------------------------------------------------------------
(* A set of which any two members are equal has at most one.               *)
LEMMA AtMostOne ==
  ASSUME NEW S, \A x, y \in S : x = y
  PROVE  Cardinality(S) <= 1
<1>1. CASE S = {}
  BY <1>1, FS_EmptySet
<1>2. CASE S # {}
  <2>1. PICK x : x \in S
    BY <1>2
  <2>2. S = {x}
    BY <2>1
  <2>3. QED
    BY <2>2, FS_Singleton
<1>3. QED
  BY <1>1, <1>2

(* The strengthening says what the property does.                          *)
LEMMA RegistryInvImplies == RegistryInv => RefreshIsExclusive
<1>1. SUFFICES ASSUME RegistryInv, NEW e \in Created
               PROVE  /\ Cardinality(Refreshing(e)) <= 1
                      /\ server[e].busy <=> \E q \in Refreshing(e) : boot # q
  BY DEF RefreshIsExclusive
<1>2. \A p, q \in Refreshing(e) : p = q
  BY <1>1 DEF RegistryInv, OneRefresher, Refreshing, Refreshes
<1>3. Cardinality(Refreshing(e)) <= 1
  BY <1>2, AtMostOne
<1>4. server[e].busy <=> \E q \in Refreshing(e) : boot # q
  BY <1>1, Zenon DEF RegistryInv, FlagIsTrue, Refreshing, Refreshes
<1>5. QED
  BY <1>3, <1>4

LEMMA RegistryInvInit == RegistryInit => RegistryInv
<1>1. SUFFICES ASSUME RegistryInit PROVE RegistryInv
  OBVIOUS
<1>2. Created = {} /\ DOMAIN tools = {}
  BY <1>1 DEF RegistryInit, Created
<1>3. RegistryTypeOK
  BY <1>1, <1>2 DEF RegistryInit, RegistryTypeOK, Jobs
<1>4. rq \in [ToolRequests -> RequestRecords(Created)]
  BY <1>1 DEF RegistryInit, IdleRequest, RequestRecords, RequestPlaces
<1>5. server \in [Created -> ServerRecords] /\ tools \in [DOMAIN tools -> ToolRecords]
  BY <1>1, <1>2 DEF RegistryInit
<1>6. update.at # "fetch"
  BY <1>1 DEF RegistryInit, IdleUpdate
<1>7. \A q \in ToolRequests : rq[q].at = "idle" /\ boot # q
  BY <1>1, RegistryAssumption DEF RegistryInit, IdleRequest
<1>8. QED
  BY <1>2, <1>3, <1>4, <1>5, <1>6, <1>7
  DEF RegistryInv, RegistryShape, WorksForEntry, BootstrapFirst, FlagIsTrue, OneRefresher

-----------------------------------------------------------------------------
(* Facts about the operators that the steps are made of.                   *)

JobRecords == [stage : {"evict", "insert"}, ns : Namespaces, source : Sources,
               entry : ServerEntries \cup {NoEntry}, supplied : BOOLEAN,
               todo : SUBSET Names, flagged : BOOLEAN]

(* A writer at work has a job of the full shape.                           *)
LEMMA JobShape ==
  ASSUME RegistryInv, NEW w \in Writers, job[w].stage \in {"evict", "insert"}
  PROVE  job[w] \in JobRecords
<1>1. job[w] \in Jobs
  BY DEF RegistryInv, RegistryShape, RegistryTypeOK
<1>2. job[w] # NoJob
  BY DEF NoJob
<1>3. QED
  BY <1>1, <1>2 DEF Jobs, JobRecords

LEMMA ReplaceJobShape ==
  ASSUME NEW ns \in Namespaces, NEW source \in Sources, NEW e \in ServerEntries \cup {NoEntry},
         NEW supplied \in BOOLEAN, NEW names \in SUBSET Names
  PROVE  /\ ReplaceJob(ns, source, e, supplied, names) \in JobRecords
         /\ [ReplaceJob(ns, source, e, supplied, names) EXCEPT !.stage = "insert"] \in JobRecords
  BY DEF ReplaceJob, JobRecords

(* The jobs stay jobs when one of them is replaced.                        *)
LEMMA JobsKept ==
  ASSUME RegistryInv, NEW w \in Writers, NEW j \in JobRecords \cup {NoJob},
         job' = [job EXCEPT ![w] = j]
  PROVE  job' \in [Writers -> Jobs]
  BY DEF RegistryInv, RegistryShape, RegistryTypeOK, Jobs, JobRecords

LEMMA ForgetShape ==
  ASSUME RegistryInv, NEW ids, rq' = ForgetIn(rq, ids)
  PROVE  /\ rq' \in [ToolRequests -> RequestRecords(Created)]
         /\ \A q \in ToolRequests : rq'[q].at = rq[q].at /\ rq'[q].cur = rq[q].cur
<1>1. rq \in [ToolRequests -> RequestRecords(Created)]
  BY DEF RegistryInv, RegistryShape
<1>2. ASSUME NEW q \in ToolRequests
      PROVE  /\ [rq[q] EXCEPT !.snap = rq[q].snap \ ids] \in RequestRecords(Created)
             /\ [rq[q] EXCEPT !.snap = rq[q].snap \ ids].at = rq[q].at
             /\ [rq[q] EXCEPT !.snap = rq[q].snap \ ids].cur = rq[q].cur
  BY <1>1 DEF RequestRecords
<1>3. rq' = [q \in ToolRequests |-> [rq[q] EXCEPT !.snap = rq[q].snap \ ids]]
  BY DEF ForgetIn
<1>4. QED
  BY <1>2, <1>3

(* The tools stay entries under their ids.                                 *)
LEMMA ToolsWithout ==
  ASSUME RegistryInv, NEW ids, tools' = MapWithout(tools, ids)
  PROVE  /\ DOMAIN tools' \subseteq ToolIds /\ tools' \in [DOMAIN tools' -> ToolRecords]
         /\ \A id \in DOMAIN tools' : tools'[id].source \in Sources
<1>1. tools \in [DOMAIN tools -> ToolRecords] /\ DOMAIN tools \subseteq ToolIds
  BY DEF RegistryInv, RegistryShape, RegistryTypeOK
<1>2. DOMAIN tools' = DOMAIN tools \ ids /\ \A id \in DOMAIN tools' : tools'[id] = tools[id]
  BY DEF MapWithout
<1>3. tools' = [id \in DOMAIN tools' |-> tools'[id]]
  BY DEF MapWithout
<1>4. QED
  BY <1>1, <1>2, <1>3 DEF ToolRecords

LEMMA ToolsPut ==
  ASSUME RegistryInv, NEW id \in ToolIds, NEW r \in ToolRecords, tools' = MapPut(tools, id, r)
  PROVE  /\ DOMAIN tools' \subseteq ToolIds /\ tools' \in [DOMAIN tools' -> ToolRecords]
         /\ \A i \in DOMAIN tools' : tools'[i].source \in Sources
<1>1. tools \in [DOMAIN tools -> ToolRecords] /\ DOMAIN tools \subseteq ToolIds
  BY DEF RegistryInv, RegistryShape, RegistryTypeOK
<1>2. /\ DOMAIN tools' = DOMAIN tools \cup {id}
      /\ \A i \in DOMAIN tools' : tools'[i] = IF i = id THEN r ELSE tools[i]
  BY DEF MapPut
<1>3. tools' = [i \in DOMAIN tools' |-> tools'[i]]
  BY DEF MapPut
<1>4. QED
  BY <1>1, <1>2, <1>3 DEF ToolRecords

(* Steps that move no request and touch no entry leave the control alone.  *)
Control == WorksForEntry /\ BootstrapFirst /\ FlagIsTrue /\ OneRefresher

LEMMA ControlFrame ==
  ASSUME RegistryInv, server' = server, boot' = boot,
         \A q \in ToolRequests : rq'[q].at = rq[q].at /\ rq'[q].cur = rq[q].cur
  PROVE  Control'
  BY DEF RegistryInv, Control, WorksForEntry, BootstrapFirst, FlagIsTrue, OneRefresher, Refreshes, Created

(* What the steps of the writers and of the worker keep.                   *)
LEMMA WriterStep ==
  ASSUME RegistryInv, NEW w \in Writers, EvictTools(w) \/ FlagPending(w) \/ InsertTool(w)
  PROVE  RegistryInv'
<1> USE DEF RegistryInv, RegistryShape, RegistryTypeOK
<1>0. server' = server /\ boot' = boot /\ Created' = Created /\ update' = update
      /\ dyn' = dyn /\ openApi' = openApi /\ embedLock' = embedLock
  BY DEF EvictTools, FlagPending, InsertTool, Created
<1>j. job[w].stage \in {"evict", "insert"} /\ job[w] \in JobRecords
  BY JobShape DEF EvictTools, FlagPending, InsertTool
<1>1. CASE EvictTools(w)
  <2>1. job' = [job EXCEPT ![w] = [job[w] EXCEPT !.stage = "insert"]]
    BY <1>1 DEF EvictTools
  <2>2. job' \in [Writers -> Jobs]
    <3>1. [job[w] EXCEPT !.stage = "insert"] \in JobRecords
      BY <1>j DEF JobRecords
    <3>2. QED
      BY <2>1, <3>1, JobsKept
  <2>3. PICK gone : tools' = MapWithout(tools, gone) /\ rq' = ForgetIn(rq, gone)
    BY <1>1 DEF EvictTools
  <2>4. Control'
    BY <2>3, <1>0, ForgetShape, ControlFrame
  <2>5. QED
    BY <1>0, <2>2, <2>3, <2>4, ToolsWithout, ForgetShape DEF Control
<1>2. CASE FlagPending(w)
  <2>1. job' = [job EXCEPT ![w] = [job[w] EXCEPT !.flagged = TRUE]] /\ tools' = tools /\ rq' = rq
    BY <1>2 DEF FlagPending
  <2>2. job' \in [Writers -> Jobs]
    <3>1. [job[w] EXCEPT !.flagged = TRUE] \in JobRecords
      BY <1>j DEF JobRecords
    <3>2. QED
      BY <2>1, <3>1, JobsKept
  <2>4. Control'
    BY <2>1, <1>0, ControlFrame
  <2>5. QED
    BY <1>0, <2>1, <2>2, <2>4 DEF Control
<1>3. CASE InsertTool(w)
  <2>1. PICK n \in job[w].todo :
          /\ tools' = MapPut(tools, <<job[w].ns, n>>, [source |-> job[w].source, entry |-> job[w].entry,
                                                    embedded |-> job[w].supplied])
          /\ rq' = ForgetIn(rq, {<<job[w].ns, n>>})
          /\ job' = [job EXCEPT ![w] = [job[w] EXCEPT !.todo = job[w].todo \ {n}, !.flagged = FALSE]]
    BY <1>3 DEF InsertTool
  <2>2. job' \in [Writers -> Jobs]
    <3>1. [job[w] EXCEPT !.todo = job[w].todo \ {n}, !.flagged = FALSE] \in JobRecords
      BY <1>j DEF JobRecords
    <3>2. QED
      BY <2>1, <3>1, JobsKept
  <2>3. <<job[w].ns, n>> \in ToolIds
    BY <1>j DEF JobRecords, ToolIds
  <2>4. [source |-> job[w].source, entry |-> job[w].entry, embedded |-> job[w].supplied] \in ToolRecords
    BY <1>j DEF JobRecords, ToolRecords
  <2>5. Control'
    BY <2>1, <1>0, ForgetShape, ControlFrame
  <2>6. QED
    BY <1>0, <2>1, <2>2, <2>3, <2>4, <2>5, ToolsPut, ForgetShape DEF Control
<1>4. QED
  BY <1>1, <1>2, <1>3
(* An update that begins with a job of the worker, or with none.           *)
LEMMA WorkerStep ==
  ASSUME RegistryInv,
         \/ \E ns \in Namespaces :
              \/ \E n \in Names, s \in BOOLEAN : AddTool(ns, n, s)
              \/ \E n \in Names : RemoveTool(ns, n)
              \/ \E S \in SUBSET Names, s \in BOOLEAN : AddOpenApiSource(ns, S, s)
              \/ RemoveOpenApiSource(ns)
              \/ RemoveDynamicServer(ns)
         \/ RemoveFound \/ UpdateEnds
  PROVE  RegistryInv'
<1> USE DEF RegistryInv, RegistryShape, RegistryTypeOK
<1>0. server' = server /\ boot' = boot /\ Created' = Created /\ embedLock' = embedLock
  BY DEF AddTool, RemoveTool, AddOpenApiSource, RemoveOpenApiSource, RemoveDynamicServer,
         RemoveFound, UpdateEnds, Created
<1>w. Worker \in Writers
  BY DEF Writers
<1>f. rq' = rq => Control'
  BY <1>0, ControlFrame
<1>1. ASSUME NEW ns \in Namespaces, NEW n \in Names, NEW s \in BOOLEAN, AddTool(ns, n, s)
      PROVE  RegistryInv'
  <2>1. rq' = rq /\ tools' = tools /\ dyn' = dyn /\ openApi' = openApi
    BY <1>1 DEF AddTool
  <2>2. CASE UNCHANGED <<job, update>>
    BY <1>0, <1>f, <2>1, <2>2 DEF Control
  <2>3. CASE Begun([ReplaceJob(ns, "direct", NoEntry, s, {n}) EXCEPT !.stage = "insert"])
    <3>1. [ReplaceJob(ns, "direct", NoEntry, s, {n}) EXCEPT !.stage = "insert"] \in JobRecords
      BY ReplaceJobShape DEF Sources
    <3>2. job' \in [Writers -> Jobs] /\ update' = [at |-> "write"]
      BY <2>3, <3>1, <1>w, JobsKept DEF Begun
    <3>3. QED
      BY <1>0, <1>f, <2>1, <3>2 DEF Control
  <2>4. QED
    BY <1>1, <2>2, <2>3 DEF AddTool
<1>2. ASSUME NEW ns \in Namespaces, NEW n \in Names, RemoveTool(ns, n) PROVE RegistryInv'
  <2>1. rq' = rq /\ tools' = tools /\ dyn' = dyn /\ openApi' = openApi /\ job' = job
        /\ update'.at = "remove"
    BY <1>2 DEF RemoveTool
  <2>2. QED
    BY <1>0, <1>f, <2>1 DEF Control
<1>3. ASSUME NEW ns \in Namespaces, NEW S \in SUBSET Names, NEW s \in BOOLEAN,
             AddOpenApiSource(ns, S, s)
      PROVE  RegistryInv'
  <2>1. rq' = rq /\ tools' = tools /\ dyn' = dyn
    BY <1>3 DEF AddOpenApiSource
  <2>2. CASE UNCHANGED <<openApi, job, update>>
    BY <1>0, <1>f, <2>1, <2>2 DEF Control
  <2>3. CASE openApi' = openApi \cup {ns} /\ Begun(ReplaceJob(ns, "openapi", NoEntry, s, S))
    <3>1. ReplaceJob(ns, "openapi", NoEntry, s, S) \in JobRecords
      BY ReplaceJobShape DEF Sources
    <3>2. job' \in [Writers -> Jobs] /\ update' = [at |-> "write"]
      BY <2>3, <3>1, <1>w, JobsKept DEF Begun
    <3>3. QED
      BY <1>0, <1>f, <2>1, <2>3, <3>2 DEF Control
  <2>4. QED
    BY <1>3, <2>2, <2>3 DEF AddOpenApiSource
<1>4. ASSUME NEW ns \in Namespaces, RemoveOpenApiSource(ns) PROVE RegistryInv'
  <2>1. rq' = rq /\ tools' = tools /\ dyn' = dyn /\ openApi' = openApi \ {ns}
        /\ Begun(ReplaceJob(ns, "openapi", NoEntry, FALSE, {}))
    BY <1>4 DEF RemoveOpenApiSource
  <2>2. ReplaceJob(ns, "openapi", NoEntry, FALSE, {}) \in JobRecords
    BY ReplaceJobShape DEF Sources
  <2>3. job' \in [Writers -> Jobs] /\ update' = [at |-> "write"]
    BY <2>1, <2>2, <1>w, JobsKept DEF Begun
  <2>4. QED
    BY <1>0, <1>f, <2>1, <2>3 DEF Control
<1>5. ASSUME NEW ns \in Namespaces, RemoveDynamicServer(ns) PROVE RegistryInv'
  <2>1. rq' = rq /\ tools' = tools /\ dyn' = [dyn EXCEPT ![ns] = NoEntry] /\ openApi' = openApi
        /\ Begun(ReplaceJob(ns, "dynamic", NoEntry, FALSE, {}))
    BY <1>5 DEF RemoveDynamicServer
  <2>2. ReplaceJob(ns, "dynamic", NoEntry, FALSE, {}) \in JobRecords
    BY ReplaceJobShape DEF Sources
  <2>3. job' \in [Writers -> Jobs] /\ update' = [at |-> "write"]
    BY <2>1, <2>2, <1>w, JobsKept DEF Begun
  <2>4. QED
    BY <1>0, <1>f, <2>1, <2>3 DEF Control
<1>6. CASE RemoveFound
  <2>1. /\ tools' = MapWithout(tools, {update.id}) /\ rq' = ForgetIn(rq, {update.id})
        /\ update' = IdleUpdate /\ dyn' = dyn /\ openApi' = openApi /\ job' = job
    BY <1>6 DEF RemoveFound
  <2>2. Control'
    BY <2>1, <1>0, ForgetShape, ControlFrame
  <2>3. QED
    BY <1>0, <2>1, <2>2, ToolsWithout, ForgetShape DEF Control, IdleUpdate
<1>7. CASE UpdateEnds
  <2>1. /\ tools' = tools /\ rq' = rq /\ update' = IdleUpdate /\ dyn' = dyn /\ openApi' = openApi
        /\ job' = [job EXCEPT ![Worker] = NoJob]
    BY <1>7 DEF UpdateEnds
  <2>2. job' \in [Writers -> Jobs]
    BY <2>1, <1>w, JobsKept
  <2>3. QED
    BY <1>0, <1>f, <2>1, <2>2 DEF Control, IdleUpdate
<1>8. QED
  BY <1>1, <1>2, <1>3, <1>4, <1>5, <1>6, <1>7

(* An entry that is changed and not its flag leaves the control alone.     *)
LEMMA ExpiryFrame ==
  ASSUME RegistryInv, NEW e \in Created, NEW x \in {"now", "later", "never"},
         server' = [server EXCEPT ![e].expires = x]
  PROVE  /\ Created' = Created /\ server' \in [Created -> ServerRecords]
         /\ \A d \in Created : server'[d].busy = server[d].busy
  BY DEF RegistryInv, RegistryShape, Created, ServerRecords

LEMMA ControlFrameFlags ==
  ASSUME RegistryInv, Created' = Created, boot' = boot,
         \A d \in Created : server'[d].busy = server[d].busy,
         \A q \in ToolRequests : rq'[q].at = rq[q].at /\ rq'[q].cur = rq[q].cur
  PROVE  Control'
  BY DEF RegistryInv, Control, WorksForEntry, BootstrapFirst, FlagIsTrue, OneRefresher, Refreshes

LEMMA ExpiryValue ==
  ASSUME NEW e, NEW b \in BOOLEAN
  PROVE  Expiry(e, b) \in {"now", "later", "never"}
  BY DEF Expiry

LEMMA DeadlineStep ==
  ASSUME RegistryInv, NEW e \in Created, DeadlinePasses(e)
  PROVE  RegistryInv'
<1> USE DEF RegistryInv, RegistryShape, RegistryTypeOK
<1>1. /\ server' = [server EXCEPT ![e].expires = "now"]
      /\ UNCHANGED <<tools, dyn, openApi, embedLock, boot, job, update, rq>>
  BY DEF DeadlinePasses
<1>2. /\ Created' = Created /\ server' \in [Created -> ServerRecords]
      /\ \A d \in Created : server'[d].busy = server[d].busy
  BY <1>1, ExpiryFrame
<1>3. Control'
  BY <1>1, <1>2, ControlFrameFlags
<1>4. QED
  BY <1>1, <1>2, <1>3 DEF Control

(* A new entry is nobody's yet, and not flagged.                           *)
LEMMA AddServerStep ==
  ASSUME RegistryInv, NEW ns \in Namespaces, NEW c \in BOOLEAN, AddDynamicServer(ns, c)
  PROVE  RegistryInv'
<1> USE DEF RegistryInv, RegistryShape, RegistryTypeOK
<1>1. UNCHANGED <<tools, dyn, openApi, embedLock, boot, job, rq>>
  BY DEF AddDynamicServer
<1>2. CASE UNCHANGED <<server, update>>
  <2>1. Control' /\ Created' = Created
    BY <1>1, <1>2, ControlFrame DEF Created
  <2>2. QED
    BY <1>1, <1>2, <2>1 DEF Control
<1>3. ASSUME NEW e \in FreshEntries, server' = MapPut(server, e, NewEntry(ns, c)),
             update' = [at |-> "fetch", entry |-> e]
      PROVE  RegistryInv'
  <2>1. e \in ServerEntries /\ e \notin Created /\ e # NoEntry
    BY <1>3, RegistryAssumption DEF FreshEntries
  <2>2. /\ Created' = Created \cup {e} /\ server'[e] = NewEntry(ns, c)
        /\ \A d \in Created : server'[d] = server[d]
        /\ server' = [d \in Created' |-> server'[d]]
    BY <1>3, <2>1 DEF MapPut, Created
  <2>3. NewEntry(ns, c) \in ServerRecords /\ NewEntry(ns, c).busy = FALSE
    BY DEF NewEntry, ServerRecords
  <2>4. server' \in [Created' -> ServerRecords]
    BY <2>2, <2>3
  <2>5. rq' \in [ToolRequests -> RequestRecords(Created')]
    BY <1>1, <2>2 DEF RequestRecords
  <2>6. dyn' \in [Namespaces -> Created' \cup {NoEntry}] /\ Created' \subseteq ServerEntries
    BY <1>1, <2>1, <2>2
  <2>7. \A q \in ToolRequests : ~ Refreshes(q, e)
    BY <2>1 DEF Refreshes, WorksForEntry
  <2>8. \A q \in ToolRequests : \A d : Refreshes(q, d)' <=> Refreshes(q, d)
    BY <1>1 DEF Refreshes
  <2>9. FlagIsTrue' /\ OneRefresher'
    BY <1>1, <2>2, <2>3, <2>7, <2>8 DEF FlagIsTrue, OneRefresher
  <2>10. WorksForEntry' /\ BootstrapFirst'
    BY <1>1, <2>2 DEF WorksForEntry, BootstrapFirst
  <2>11. QED
    BY <1>1, <1>3, <2>2, <2>4, <2>5, <2>6, <2>9, <2>10
<1>4. QED
  BY <1>2, <1>3 DEF AddDynamicServer

LEMMA ServerFetchedStep ==
  ASSUME RegistryInv, AddDynamicServerFetched
  PROVE  RegistryInv'
<1> USE DEF RegistryInv, RegistryShape, RegistryTypeOK
<1>1. UNCHANGED <<tools, openApi, embedLock, boot, rq>> /\ update.entry \in Created
  BY DEF AddDynamicServerFetched
<1>2. CASE update' = IdleUpdate /\ UNCHANGED <<dyn, server, job>>
  <2>1. Control' /\ Created' = Created
    BY <1>1, <1>2, ControlFrame DEF Created
  <2>2. QED
    BY <1>1, <1>2, <2>1 DEF Control, IdleUpdate
<1>3. ASSUME NEW names \in SUBSET Names,
             Begun(ReplaceJob(server[update.entry].ns, "dynamic", update.entry, FALSE, names)),
             dyn' = [dyn EXCEPT ![server[update.entry].ns] = update.entry],
             server' = [server EXCEPT ![update.entry].expires = Expiry(update.entry, TRUE)]
      PROVE  RegistryInv'
  <2>1. server[update.entry].ns \in Namespaces /\ update.entry \in ServerEntries
    BY <1>1 DEF ServerRecords
  <2>2. ReplaceJob(server[update.entry].ns, "dynamic", update.entry, FALSE, names) \in JobRecords
    BY <2>1, ReplaceJobShape DEF Sources
  <2>3. job' \in [Writers -> Jobs] /\ update' = [at |-> "write"]
    BY <1>3, <2>2, JobsKept DEF Begun, Writers
  <2>4. /\ Created' = Created /\ server' \in [Created -> ServerRecords]
        /\ \A d \in Created : server'[d].busy = server[d].busy
    BY <1>1, <1>3, ExpiryValue, ExpiryFrame
  <2>5. Control'
    BY <1>1, <2>4, ControlFrameFlags
  <2>6. dyn' \in [Namespaces -> Created \cup {NoEntry}]
    BY <1>1, <1>3
  <2>7. QED
    BY <1>1, <2>3, <2>4, <2>5, <2>6 DEF Control
<1>4. QED
  BY <1>2, <1>3 DEF AddDynamicServerFetched
-----------------------------------------------------------------------------
(* The steps of the requests.                                              *)

(* One request changes.                                                    *)
LEMMA RequestMoves ==
  ASSUME RegistryInv, NEW q \in ToolRequests, NEW r \in RequestRecords(Created),
         rq' = [rq EXCEPT ![q] = r]
  PROVE  /\ rq' \in [ToolRequests -> RequestRecords(Created)] /\ rq'[q] = r
         /\ \A p \in ToolRequests : p # q => rq'[p] = rq[p]
  BY DEF RegistryInv, RegistryShape

(* A request that neither leaves nor enters the work for an entry.         *)
LEMMA QuietMove ==
  ASSUME RegistryInv, NEW q \in ToolRequests, NEW r \in RequestRecords(Created),
         rq' = [rq EXCEPT ![q] = r],
         rq[q].at \notin {"fetch", "write"}, r.at \notin {"fetch", "write"},
         server' = server, \A p \in ToolRequests : p # q => (boot' = p <=> boot = p)
  PROVE  WorksForEntry' /\ FlagIsTrue' /\ OneRefresher'
<1> USE DEF RegistryInv
<1>1. Created' = Created
  BY DEF Created
<1>2. \A p \in ToolRequests : \A e : Refreshes(p, e)' <=> Refreshes(p, e)
  BY RequestMoves DEF Refreshes
<1>3. \A e : ~ Refreshes(q, e)
  BY DEF Refreshes
<1>4. WorksForEntry'
  BY <1>1, RequestMoves DEF WorksForEntry
<1>5. OneRefresher'
  BY <1>1, <1>2 DEF OneRefresher
<1>6. FlagIsTrue'
  BY <1>1, <1>2, <1>3 DEF FlagIsTrue
<1>7. QED
  BY <1>4, <1>5, <1>6

(* What a request in the registry does not touch.                          *)
LEMMA RequestShape ==
  ASSUME RegistryInv, UNCHANGED <<tools, dyn, openApi, update>>,
         Created' = Created, server' \in [Created -> ServerRecords],
         rq' \in [ToolRequests -> RequestRecords(Created)],
         job' \in [Writers -> Jobs],
         embedLock' \in ToolRequests \cup {NoEntry},
         boot' \in ToolRequests \cup {NoEntry, "done"}
  PROVE  RegistryShape'
  BY DEF RegistryInv, RegistryShape, RegistryTypeOK

LEMMA EnterSteps ==
  ASSUME RegistryInv, NEW q \in ToolRequests,
         \/ EnterRegistry(q) \/ Bootstrap(q) \/ Bootstrapped(q) \/ RefreshExpiredDynamicServers(q)
         \/ EmbedUnembeddedTools(q) \/ EmbedLocked(q) \/ ReadTools(q)
  PROVE  RegistryInv'
<1> USE RegistryAssumption DEF RegistryInv
<1>0. /\ UNCHANGED <<tools, dyn, openApi, update, server, job>> /\ Created' = Created
      /\ boot \in ToolRequests \cup {NoEntry, "done"} /\ embedLock \in ToolRequests \cup {NoEntry}
      /\ rq[q] \in RequestRecords(Created) /\ Unembedded \subseteq ToolIds
      /\ job \in [Writers -> Jobs] /\ server \in [Created -> ServerRecords]
  BY DEF EnterRegistry, Bootstrap, Bootstrapped, RefreshExpiredDynamicServers,
         EmbedUnembeddedTools, EmbedLocked, ReadTools, RegistryQuiet, Created,
         RegistryShape, RegistryTypeOK, Unembedded
<1>a. ASSUME NEW place \in RequestPlaces
      PROVE  [rq[q] EXCEPT !.at = place] \in RequestRecords(Created)
             /\ [rq[q] EXCEPT !.at = place].at = place
  BY <1>0 DEF RequestRecords
<1>b. ASSUME NEW place \in RequestPlaces, NEW S \in SUBSET Created
      PROVE  [rq[q] EXCEPT !.at = place, !.todo = S] \in RequestRecords(Created)
             /\ [rq[q] EXCEPT !.at = place, !.todo = S].at = place
  BY <1>0 DEF RequestRecords
<1>c. ASSUME NEW S \in SUBSET ToolIds
      PROVE  [rq[q] EXCEPT !.at = "batch", !.snap = S] \in RequestRecords(Created)
             /\ [rq[q] EXCEPT !.at = "batch", !.snap = S].at = "batch"
  BY <1>0 DEF RequestRecords, RequestPlaces
<1>d. IdleRequest \in RequestRecords(Created) /\ IdleRequest.at = "idle"
  BY DEF IdleRequest, RequestRecords, RequestPlaces
<1>e. ASSUME NEW r \in RequestRecords(Created), rq' = [rq EXCEPT ![q] = r],
             rq[q].at \notin {"fetch", "write"}, r.at \notin {"fetch", "write"},
             boot' \in ToolRequests \cup {NoEntry, "done"},
             embedLock' \in ToolRequests \cup {NoEntry},
             \A p \in ToolRequests : p # q => (boot' = p <=> boot = p),
             boot' # "done" => boot # "done" /\ (q # boot' => r.at \in {"idle", "boot"})
                               /\ \A p \in ToolRequests : p # q => (p # boot' => p # boot),
             boot' = q => r.at = "each"
      PROVE  RegistryInv'
  <2>1. WorksForEntry' /\ FlagIsTrue' /\ OneRefresher'
    BY <1>0, <1>e, QuietMove
  <2>2. RegistryShape'
    BY <1>0, <1>e, RequestMoves, RequestShape
  <2>3. BootstrapFirst'
    BY <1>e, RequestMoves DEF BootstrapFirst
  <2>4. QED
    BY <2>1, <2>2, <2>3
<1>1. CASE EnterRegistry(q)
  <2>1. /\ rq[q].at = "idle" /\ rq' = [rq EXCEPT ![q] = [rq[q] EXCEPT !.at = "boot"]]
        /\ boot' = boot /\ embedLock' = embedLock
    BY <1>1 DEF EnterRegistry, ReqAt, ReqGo
  <2>2. boot # q
    BY <2>1 DEF BootstrapFirst
  <2>3. QED
    BY <1>0, <1>a, <1>e, <2>1, <2>2 DEF RequestPlaces
<1>2. CASE Bootstrap(q)
  <2>1. PICK S \in SUBSET Created :
          /\ rq[q].at = "boot" /\ rq' = [rq EXCEPT ![q] = [rq[q] EXCEPT !.at = "each", !.todo = S]]
          /\ boot = NoEntry /\ boot' = q /\ embedLock' = embedLock
    <3>1. {e \in Created : dyn[server[e].ns] = e} \in SUBSET Created
      OBVIOUS
    <3>2. QED
      BY <1>2, <3>1 DEF Bootstrap, ReqAt
  <2>2. /\ [rq[q] EXCEPT !.at = "each", !.todo = S] \in RequestRecords(Created)
        /\ [rq[q] EXCEPT !.at = "each", !.todo = S].at = "each"
    BY <1>b DEF RequestPlaces
  <2>3. QED
    BY <1>0, <1>e, <2>1, <2>2
<1>3. CASE Bootstrapped(q)
  <2>1. /\ rq[q].at \in {"boot", "each"} /\ rq' = [rq EXCEPT ![q] = [rq[q] EXCEPT !.at = "refresh"]]
        /\ boot \in {q, "done"} /\ boot' = "done" /\ embedLock' = embedLock
    BY <1>3 DEF Bootstrapped, ReqAt, ReqGo
  <2>2. QED
    BY <1>0, <1>a, <1>e, <2>1 DEF RequestPlaces
<1>4. CASE RefreshExpiredDynamicServers(q)
  <2>1. PICK S \in SUBSET Created :
          /\ rq[q].at = "refresh" /\ rq' = [rq EXCEPT ![q] = [rq[q] EXCEPT !.at = "each", !.todo = S]]
          /\ boot' = boot /\ embedLock' = embedLock
    <3>1. {e \in Created : dyn[server[e].ns] = e /\ server[e].expires = "now"} \in SUBSET Created
      OBVIOUS
    <3>2. QED
      BY <1>4, <3>1 DEF RefreshExpiredDynamicServers, ReqAt
  <2>2. boot = "done"
    BY <2>1 DEF BootstrapFirst
  <2>3. /\ [rq[q] EXCEPT !.at = "each", !.todo = S] \in RequestRecords(Created)
        /\ [rq[q] EXCEPT !.at = "each", !.todo = S].at = "each"
    BY <1>b DEF RequestPlaces
  <2>4. QED
    BY <1>0, <1>e, <2>1, <2>2, <2>3
<1>5. CASE EmbedUnembeddedTools(q)
  <2>1. PICK place \in {"lock", "read"} :
          /\ rq[q].at = "each" /\ rq' = [rq EXCEPT ![q] = [rq[q] EXCEPT !.at = place]]
          /\ boot = "done" /\ boot' = boot /\ embedLock' = embedLock
    BY <1>5 DEF EmbedUnembeddedTools, ReqAt, ReqGo
  <2>2. QED
    BY <1>0, <1>a, <1>e, <2>1 DEF RequestPlaces
<1>6. CASE EmbedLocked(q)
  <2>0. rq[q].at = "lock" /\ boot' = boot /\ boot = "done"
    BY <1>6 DEF EmbedLocked, ReqAt, BootstrapFirst
  <2>1. CASE ReqGo(q, "read") /\ embedLock' = embedLock
    BY <1>0, <1>a, <1>e, <2>0, <2>1 DEF ReqGo, RequestPlaces
  <2>2. CASE embedLock' = q /\ rq' = [rq EXCEPT ![q] = [rq[q] EXCEPT !.at = "batch", !.snap = Unembedded]]
    BY <1>0, <1>c, <1>e, <2>0, <2>2
  <2>3. QED
    BY <1>6, <2>1, <2>2 DEF EmbedLocked
<1>7. CASE ReadTools(q)
  <2>1. /\ rq[q].at = "read" /\ rq' = [rq EXCEPT ![q] = IdleRequest]
        /\ boot' = boot /\ embedLock' = embedLock
    BY <1>7 DEF ReadTools, ReqAt
  <2>2. boot = "done"
    BY <2>1 DEF BootstrapFirst
  <2>3. QED
    BY <1>0, <1>d, <1>e, <2>1, <2>2
<1>8. QED
  BY <1>1, <1>2, <1>3, <1>4, <1>5, <1>6, <1>7

LEMMA EmbedStep ==
  ASSUME RegistryInv, NEW q \in ToolRequests, EmbedBatch(q)
  PROVE  RegistryInv'
<1> USE DEF RegistryInv
<1>0. /\ UNCHANGED <<dyn, openApi, update, server, job, boot>> /\ Created' = Created
      /\ rq[q].at = "batch" /\ rq[q] \in RequestRecords(Created)
      /\ tools \in [DOMAIN tools -> ToolRecords] /\ embedLock \in ToolRequests \cup {NoEntry}
  BY DEF EmbedBatch, Created, ReqAt, RegistryShape, RegistryTypeOK
<1>1. PICK r \in RequestRecords(Created) :
        rq' = [rq EXCEPT ![q] = r] /\ r.at \in {"batch", "read"}
  <2>1. CASE ReqGo(q, "read")
    <3>1. [rq[q] EXCEPT !.at = "read"] \in RequestRecords(Created) /\ [rq[q] EXCEPT !.at = "read"].at = "read"
      BY <1>0 DEF RequestRecords, RequestPlaces
    <3>2. QED
      BY <2>1, <3>1 DEF ReqGo
  <2>2. ASSUME NEW id \in rq[q].snap, rq' = [rq EXCEPT ![q] = [rq[q] EXCEPT !.snap = rq[q].snap \ {id}]]
        PROVE  \E r \in RequestRecords(Created) : rq' = [rq EXCEPT ![q] = r] /\ r.at \in {"batch", "read"}
    <3>1. /\ [rq[q] EXCEPT !.snap = rq[q].snap \ {id}] \in RequestRecords(Created)
          /\ [rq[q] EXCEPT !.snap = rq[q].snap \ {id}].at = "batch"
      BY <1>0 DEF RequestRecords
    <3>2. QED
      BY <2>2, <3>1
  <2>3. QED
    BY <2>1, <2>2 DEF EmbedBatch
<1>2. /\ DOMAIN tools' = DOMAIN tools /\ tools' \in [DOMAIN tools -> ToolRecords]
      /\ embedLock' \in ToolRequests \cup {NoEntry}
  <2>1. CASE tools' = tools
    BY <1>0, <2>1 DEF EmbedBatch
  <2>2. ASSUME NEW id, tools' = [tools EXCEPT ![id].embedded = TRUE], embedLock' = embedLock
        PROVE  /\ DOMAIN tools' = DOMAIN tools /\ tools' \in [DOMAIN tools -> ToolRecords]
               /\ embedLock' \in ToolRequests \cup {NoEntry}
    <3>1. CASE id \in DOMAIN tools
      <4>1. [tools[id] EXCEPT !.embedded = TRUE] \in ToolRecords
        BY <1>0, <3>1 DEF ToolRecords
      <4>2. tools' = [tools EXCEPT ![id] = [tools[id] EXCEPT !.embedded = TRUE]]
        BY <2>2
      <4>3. QED
        BY <1>0, <2>2, <3>1, <4>1, <4>2
    <3>2. CASE id \notin DOMAIN tools
      BY <1>0, <2>2, <3>2
    <3>3. QED
      BY <3>1, <3>2
  <2>3. QED
    BY <2>1, <2>2 DEF EmbedBatch
<1>3. RegistryShape'
  BY <1>0, <1>1, <1>2, RequestMoves DEF RegistryShape, RegistryTypeOK, ToolRecords
<1>4. WorksForEntry' /\ FlagIsTrue' /\ OneRefresher'
  BY <1>0, <1>1, QuietMove
<1>5. BootstrapFirst'
  BY <1>0, <1>1, RequestMoves DEF BootstrapFirst
<1>6. QED
  BY <1>3, <1>4, <1>5
(* A request starts to work for an entry that nobody works for: to         *)
(* bootstrap it, or to refresh it with its flag set.                       *)
LEMMA FetchStarts ==
  ASSUME RegistryInv, NEW q \in ToolRequests, NEW e \in Created,
         NEW r \in RequestRecords(Created), rq' = [rq EXCEPT ![q] = r],
         r.at = "fetch", r.cur = e, rq[q].at = "each", boot' = boot,
         \A p \in ToolRequests : ~ Refreshes(p, e),
         Created' = Created,
         \A d \in Created : server'[d].busy = (server[d].busy \/ (boot # q /\ d = e))
  PROVE  Control'
<1> USE DEF RegistryInv
<1>1. \A p \in ToolRequests : \A d : Refreshes(p, d)' <=> Refreshes(p, d) \/ (p = q /\ d = e)
  BY RequestMoves DEF Refreshes
<1>2. WorksForEntry'
  BY RequestMoves DEF WorksForEntry
<1>3. BootstrapFirst'
  BY RequestMoves DEF BootstrapFirst
<1>4. OneRefresher'
  BY <1>1 DEF OneRefresher
<1>5. FlagIsTrue'
  BY <1>1 DEF FlagIsTrue
<1>6. QED
  BY <1>2, <1>3, <1>4, <1>5 DEF Control

LEMMA FetchSteps ==
  ASSUME RegistryInv, NEW q \in ToolRequests, FetchForBootstrap(q) \/ RefreshIfIdle(q)
  PROVE  RegistryInv'
<1> USE RegistryAssumption DEF RegistryInv
<1>0. /\ UNCHANGED <<tools, dyn, openApi, update, job, boot, embedLock>> /\ rq[q].at = "each"
      /\ boot \in ToolRequests \cup {NoEntry, "done"} /\ embedLock \in ToolRequests \cup {NoEntry}
      /\ rq[q] \in RequestRecords(Created) /\ rq[q].todo \subseteq Created
      /\ job \in [Writers -> Jobs] /\ server \in [Created -> ServerRecords]
  BY DEF FetchForBootstrap, RefreshIfIdle, RegistryQuiet, RegistryShape, RegistryTypeOK,
         ReqAt, RequestRecords
<1>a. ASSUME NEW e \in Created
      PROVE  /\ [rq[q] EXCEPT !.at = "fetch", !.cur = e, !.todo = rq[q].todo \ {e}] \in RequestRecords(Created)
             /\ [rq[q] EXCEPT !.at = "fetch", !.cur = e, !.todo = rq[q].todo \ {e}].at = "fetch"
             /\ [rq[q] EXCEPT !.at = "fetch", !.cur = e, !.todo = rq[q].todo \ {e}].cur = e
  BY <1>0 DEF RequestRecords, RequestPlaces
<1>1. CASE FetchForBootstrap(q)
  <2>1. PICK e \in rq[q].todo :
          rq' = [rq EXCEPT ![q] = [rq[q] EXCEPT !.at = "fetch", !.cur = e, !.todo = rq[q].todo \ {e}]]
    BY <1>1 DEF FetchForBootstrap
  <2>2. boot = q /\ server' = server /\ Created' = Created /\ e \in Created
    BY <1>0, <1>1, <2>1 DEF FetchForBootstrap, Created
  <2>3. \A p \in ToolRequests : ~ Refreshes(p, e)
    BY <1>0, <2>2 DEF BootstrapFirst, Refreshes
  <2>4. \A d \in Created : server'[d].busy = (server[d].busy \/ (boot # q /\ d = e))
    BY <1>0, <2>2 DEF ServerRecords
  <2>5. Control'
    BY <1>0, <1>a, <2>1, <2>2, <2>3, <2>4, FetchStarts
  <2>6. RegistryShape'
    BY <1>0, <1>a, <2>1, <2>2, RequestMoves, RequestShape
  <2>7. QED
    BY <2>5, <2>6 DEF Control
<1>2. CASE RefreshIfIdle(q)
  <2>0. boot # q /\ boot = "done"
    BY <1>0, <1>2 DEF RefreshIfIdle, BootstrapFirst
  <2>1. ASSUME NEW e \in rq[q].todo, ClaimsRefresh(e),
               server' = [server EXCEPT ![e].busy = TRUE],
               rq' = [rq EXCEPT ![q] = [rq[q] EXCEPT !.at = "fetch", !.cur = e, !.todo = rq[q].todo \ {e}]]
        PROVE  RegistryInv'
    <3>1. e \in Created /\ Created' = Created /\ server' \in [Created -> ServerRecords]
          /\ \A d \in Created : server'[d].busy = (server[d].busy \/ (boot # q /\ d = e))
      BY <1>0, <2>0, <2>1 DEF Created, ServerRecords
    <3>2. \A p \in ToolRequests : ~ Refreshes(p, e)
      BY <2>0, <2>1, <3>1 DEF ClaimsRefresh, FlagIsTrue
    <3> DEFINE r == [rq[q] EXCEPT !.at = "fetch", !.cur = e, !.todo = rq[q].todo \ {e}]
    <3>a. r \in RequestRecords(Created) /\ r.at = "fetch" /\ r.cur = e /\ rq' = [rq EXCEPT ![q] = r]
      BY <1>a, <2>1, <3>1
    <3>b. boot' = boot
      BY <1>0
    <3> HIDE DEF r
    <3>3. Control'
      BY <1>0, <3>a, <3>b, <3>1, <3>2, FetchStarts
    <3>4. RegistryShape'
      BY <1>0, <3>a, <3>1, RequestMoves, RequestShape
    <3>5. QED
      BY <3>3, <3>4 DEF Control
  <2>2. ASSUME NEW e \in rq[q].todo, server' = server,
               rq' = [rq EXCEPT ![q] = [rq[q] EXCEPT !.todo = rq[q].todo \ {e}]]
        PROVE  RegistryInv'
    <3>1. /\ [rq[q] EXCEPT !.todo = rq[q].todo \ {e}] \in RequestRecords(Created)
          /\ [rq[q] EXCEPT !.todo = rq[q].todo \ {e}].at = "each"
      BY <1>0 DEF RequestRecords
    <3>2. WorksForEntry' /\ FlagIsTrue' /\ OneRefresher'
      BY <1>0, <2>2, <3>1, QuietMove
    <3>3. BootstrapFirst'
      BY <1>0, <2>0, <2>2, <3>1, RequestMoves DEF BootstrapFirst
    <3>4. RegistryShape'
      BY <1>0, <2>2, <3>1, RequestMoves, RequestShape DEF Created
    <3>5. QED
      BY <3>2, <3>3, <3>4
  <2>3. QED
    BY <1>2, <2>1, <2>2 DEF RefreshIfIdle
<1>3. QED
  BY <1>1, <1>2

(* The work for an entry ends, and its flag is cleared unless the request  *)
(* bootstrapped it.                                                        *)
LEMMA FetchEnds ==
  ASSUME RegistryInv, NEW q \in ToolRequests, NEW r \in RequestRecords(Created),
         rq' = [rq EXCEPT ![q] = r],
         rq[q].at \in {"fetch", "write"}, r.at \notin {"fetch", "write"}, Created' = Created,
         \A d \in Created : server'[d].busy = (server[d].busy /\ ~(boot # q /\ d = rq[q].cur)),
         \A p \in ToolRequests : p # q => (boot' = p <=> boot = p)
  PROVE  WorksForEntry' /\ FlagIsTrue' /\ OneRefresher'
<1> USE DEF RegistryInv
<1>1. \A p \in ToolRequests : \A d : Refreshes(p, d)' <=> Refreshes(p, d) /\ p # q
  BY RequestMoves DEF Refreshes
<1>2. \A d : Refreshes(q, d) <=> d = rq[q].cur
  BY DEF Refreshes
<1>3. WorksForEntry'
  BY RequestMoves DEF WorksForEntry
<1>4. OneRefresher'
  BY <1>1 DEF OneRefresher
<1>5. ASSUME NEW d \in Created
      PROVE  server'[d].busy <=> \E p \in ToolRequests : Refreshes(p, d)' /\ boot' # p
  <2>1. server[d].busy <=> \E p \in ToolRequests : Refreshes(p, d) /\ boot # p
    BY DEF FlagIsTrue
  <2>2. server'[d].busy = (server[d].busy /\ ~(boot # q /\ d = rq[q].cur))
    OBVIOUS
  <2>3. CASE boot # q /\ d = rq[q].cur
    <3>1. \A p \in ToolRequests : ~ Refreshes(p, d)'
      BY <1>1, <1>2, <2>3 DEF OneRefresher
    <3>2. QED
      BY <2>2, <2>3, <3>1
  <2>4. CASE boot = q \/ d # rq[q].cur
    <3>1. (\E p \in ToolRequests : Refreshes(p, d)' /\ boot' # p)
            <=> (\E p \in ToolRequests : Refreshes(p, d) /\ boot # p)
      BY <1>1, <1>2, <2>4
    <3>2. QED
      BY <2>1, <2>2, <2>4, <3>1
  <2>5. QED
    BY <2>3, <2>4
<1>6. FlagIsTrue'
  BY <1>5 DEF FlagIsTrue
<1>7. QED
  BY <1>3, <1>4, <1>6

LEMMA ReleasedShape ==
  ASSUME RegistryInv, NEW q \in ToolRequests, rq[q].cur \in Created,
         NEW s \in [Created -> ServerRecords], \A d \in Created : s[d].busy = server[d].busy,
         server' = Released(q, s)
  PROVE  /\ Created' = Created /\ server' \in [Created -> ServerRecords]
         /\ \A d \in Created : server'[d].busy = (server[d].busy /\ ~(boot # q /\ d = rq[q].cur))
<1>1. CASE boot = q
  BY <1>1 DEF Released, Created, ServerRecords
<1>2. CASE boot # q
  <2>1. server' = [s EXCEPT ![rq[q].cur] = [s[rq[q].cur] EXCEPT !.busy = FALSE]]
    BY <1>2 DEF Released
  <2>2. [s[rq[q].cur] EXCEPT !.busy = FALSE] \in ServerRecords
        /\ [s[rq[q].cur] EXCEPT !.busy = FALSE].busy = FALSE
    BY DEF ServerRecords
  <2>3. Created' = Created /\ server' \in [Created -> ServerRecords]
    BY <2>1, <2>2 DEF Created
  <2>4. ASSUME NEW d \in Created
        PROVE  server'[d].busy = (server[d].busy /\ ~(boot # q /\ d = rq[q].cur))
    <3>1. CASE d = rq[q].cur
      BY <1>2, <2>1, <2>2, <3>1
    <3>2. CASE d # rq[q].cur
      <4>1. server'[d] = s[d] /\ s[d].busy \in BOOLEAN /\ s[d].busy = server[d].busy
        BY <2>1, <3>2 DEF ServerRecords
      <4>2. QED
        BY <3>2, <4>1
    <3>3. QED
      BY <3>1, <3>2
  <2>5. QED
    BY <2>3, <2>4
<1>3. QED
  BY <1>1, <1>2

(* The request goes on to the next server, or it is dropped.               *)
LEMMA EndSteps ==
  ASSUME RegistryInv, NEW q \in ToolRequests,
         FetchFails(q) \/ FetchReturns(q) \/ Materialised(q) \/ DropRequest(q)
  PROVE  RegistryInv'
<1> USE RegistryAssumption DEF RegistryInv
<1>0. /\ UNCHANGED <<tools, dyn, openApi, update>>
      /\ boot \in ToolRequests \cup {NoEntry, "done"} /\ embedLock \in ToolRequests \cup {NoEntry}
      /\ rq[q] \in RequestRecords(Created) /\ q \in Writers
      /\ job \in [Writers -> Jobs] /\ server \in [Created -> ServerRecords]
      /\ \A e \in Created : server[e].busy \in BOOLEAN /\ server[e].ns \in Namespaces
      /\ Created \subseteq ServerEntries
  BY DEF FetchFails, FetchReturns, Materialised, DropRequest, RegistryQuiet, RegistryShape,
         RegistryTypeOK, Writers, ServerRecords
<1>a. /\ [rq[q] EXCEPT !.at = "each", !.cur = NoEntry] \in RequestRecords(Created)
      /\ [rq[q] EXCEPT !.at = "each", !.cur = NoEntry].at = "each"
  BY <1>0 DEF RequestRecords, RequestPlaces
<1>b. IdleRequest \in RequestRecords(Created) /\ IdleRequest.at = "idle"
  BY DEF IdleRequest, RequestRecords, RequestPlaces
<1>c. rq[q].at \in {"fetch", "write"} => rq[q].cur \in Created
  BY DEF WorksForEntry
<1>d. ASSUME NEW s \in [Created -> ServerRecords], \A d \in Created : s[d].busy = server[d].busy,
             server' = Released(q, s), NextServer(q), rq[q].at \in {"fetch", "write"},
             boot' = boot, embedLock' = embedLock, job' \in [Writers -> Jobs]
      PROVE  RegistryInv'
  <2>1. rq' = [rq EXCEPT ![q] = [rq[q] EXCEPT !.at = "each", !.cur = NoEntry]]
    BY <1>d DEF NextServer
  <2>2. /\ Created' = Created /\ server' \in [Created -> ServerRecords]
        /\ \A d \in Created : server'[d].busy = (server[d].busy /\ ~(boot # q /\ d = rq[q].cur))
    BY <1>c, <1>d, ReleasedShape
  <2>3. WorksForEntry' /\ FlagIsTrue' /\ OneRefresher'
    BY <1>a, <1>d, <2>1, <2>2, FetchEnds
  <2>4. BootstrapFirst'
    BY <1>a, <1>d, <2>1, RequestMoves DEF BootstrapFirst
  <2>5. RegistryShape'
    BY <1>0, <1>a, <1>d, <2>1, <2>2, RequestMoves, RequestShape
  <2>6. QED
    BY <2>3, <2>4, <2>5
<1>e. ASSUME NEW b \in BOOLEAN, rq[q].cur \in Created
      PROVE  /\ [server EXCEPT ![rq[q].cur].expires = Expiry(rq[q].cur, b)] \in [Created -> ServerRecords]
             /\ \A d \in Created :
                  [server EXCEPT ![rq[q].cur].expires = Expiry(rq[q].cur, b)][d].busy = server[d].busy
  <2>1. [server[rq[q].cur] EXCEPT !.expires = Expiry(rq[q].cur, b)] \in ServerRecords
        /\ [server[rq[q].cur] EXCEPT !.expires = Expiry(rq[q].cur, b)].busy = server[rq[q].cur].busy
    BY <1>0, <1>e, ExpiryValue DEF ServerRecords
  <2>2. QED
    BY <1>0, <1>e, <2>1
<1>1. CASE FetchFails(q)
  BY <1>0, <1>1, <1>c, <1>d, <1>e DEF FetchFails, ReqAt
<1>2. CASE FetchReturns(q)
  <2>0. rq[q].at = "fetch" /\ rq[q].cur \in Created /\ boot' = boot /\ embedLock' = embedLock
    BY <1>2, <1>c DEF FetchReturns, ReqAt
  <2>1. ASSUME NEW names \in SUBSET Names,
               job' = [job EXCEPT ![q] = ReplaceJob(server[rq[q].cur].ns, "dynamic", rq[q].cur, FALSE, names)],
               ReqGo(q, "write"), server' = server
        PROVE  RegistryInv'
    <3>1. /\ [rq[q] EXCEPT !.at = "write"] \in RequestRecords(Created)
          /\ [rq[q] EXCEPT !.at = "write"].at = "write" /\ [rq[q] EXCEPT !.at = "write"].cur = rq[q].cur
      BY <1>0 DEF RequestRecords, RequestPlaces
    <3>2. rq' = [rq EXCEPT ![q] = [rq[q] EXCEPT !.at = "write"]] /\ Created' = Created
      BY <2>1 DEF ReqGo, Created
    <3>3. \A p \in ToolRequests : \A d : Refreshes(p, d)' <=> Refreshes(p, d)
      BY <2>0, <3>1, <3>2, RequestMoves DEF Refreshes
    <3>4. FlagIsTrue' /\ OneRefresher'
      BY <2>0, <2>1, <3>2, <3>3 DEF FlagIsTrue, OneRefresher
    <3>5. WorksForEntry' /\ BootstrapFirst'
      BY <2>0, <3>1, <3>2, RequestMoves DEF WorksForEntry, BootstrapFirst
    <3>6. ReplaceJob(server[rq[q].cur].ns, "dynamic", rq[q].cur, FALSE, names) \in JobRecords
      BY <1>0, <2>0, ReplaceJobShape DEF Sources
    <3>7. job' \in [Writers -> Jobs]
      BY <1>0, <2>1, <3>6, JobsKept
    <3>8. RegistryShape'
      BY <1>0, <2>0, <2>1, <3>1, <3>2, <3>7, RequestMoves, RequestShape
    <3>9. QED
      BY <3>4, <3>5, <3>8
  <2>2. CASE server' = Released(q, server) /\ NextServer(q) /\ job' = job
    BY <1>0, <1>d, <2>0, <2>2
  <2>3. QED
    BY <1>2, <2>1, <2>2 DEF FetchReturns
<1>3. CASE Materialised(q)
  <2>1. job' = [job EXCEPT ![q] = NoJob] /\ rq[q].at = "write" /\ boot' = boot /\ embedLock' = embedLock
        /\ server' = Released(q, [server EXCEPT ![rq[q].cur].expires = Expiry(rq[q].cur, TRUE)])
        /\ NextServer(q)
    BY <1>3 DEF Materialised, ReqAt
  <2>2. job' \in [Writers -> Jobs]
    BY <1>0, <2>1, JobsKept
  <2>3. QED
    BY <1>c, <1>d, <1>e, <2>1, <2>2
<1>4. CASE DropRequest(q)
  <2>1. /\ rq[q].at \in {"boot", "fetch", "lock", "batch"} /\ rq' = [rq EXCEPT ![q] = IdleRequest]
        /\ job' = job /\ boot' = (IF boot = q THEN NoEntry ELSE boot)
        /\ embedLock' = (IF embedLock = q THEN NoEntry ELSE embedLock)
        /\ server' = (IF rq[q].at = "fetch" THEN Released(q, server) ELSE server)
    BY <1>4 DEF DropRequest, ReqAt
  <2>2. \A p \in ToolRequests : p # q => (boot' = p <=> boot = p)
    BY <2>1
  <2>3. /\ Created' = Created /\ server' \in [Created -> ServerRecords]
        /\ WorksForEntry' /\ FlagIsTrue' /\ OneRefresher'
    <3>1. CASE rq[q].at = "fetch"
      <4>1. /\ Created' = Created /\ server' \in [Created -> ServerRecords]
            /\ \A d \in Created : server'[d].busy = (server[d].busy /\ ~(boot # q /\ d = rq[q].cur))
        BY <1>0, <1>c, <2>1, <3>1, ReleasedShape
      <4>2. QED
        BY <1>b, <2>1, <2>2, <3>1, <4>1, FetchEnds
    <3>2. CASE rq[q].at # "fetch"
      <4>1. server' = server /\ Created' = Created
        BY <2>1, <3>2 DEF Created
      <4>2. QED
        BY <1>0, <1>b, <2>1, <2>2, <3>2, <4>1, QuietMove
    <3>3. QED
      BY <3>1, <3>2
  <2>4. BootstrapFirst'
    BY <1>b, <2>1, RequestMoves DEF BootstrapFirst
  <2>5. RegistryShape'
    BY <1>0, <1>b, <2>1, <2>3, RequestMoves, RequestShape
  <2>6. QED
    BY <2>3, <2>4, <2>5
<1>5. QED
  BY <1>1, <1>2, <1>3, <1>4

LEMMA RegistryInvStep == RegistryInv /\ [RegistryNext]_registryVars => RegistryInv'
<1>1. ASSUME RegistryInv, RegistryNext PROVE RegistryInv'
  BY <1>1, WriterStep, WorkerStep, AddServerStep, ServerFetchedStep, EnterSteps, EmbedStep,
     FetchSteps, EndSteps, DeadlineStep
  DEF RegistryNext
<1>2. ASSUME RegistryInv, UNCHANGED registryVars PROVE RegistryInv'
  BY <1>2 DEF registryVars, RegistryInv, RegistryShape, RegistryTypeOK, WorksForEntry,
              BootstrapFirst, FlagIsTrue, OneRefresher, Refreshes, Created
<1>3. QED
  BY <1>1, <1>2
-----------------------------------------------------------------------------
(* The filters and the claims of their server name.                        *)

(* The threads are records of their places; one that drains the queue goes *)
(* back to a filter that lives.                                            *)
ThreadShape ==
    /\ thread = [t \in McpThreads |-> thread[t]]
    /\ \A f \in Filters : /\ "at" \in DOMAIN thread[f]
                          /\ AliveFilter(f) => "rt" \in DOMAIN thread[f]
                          /\ thread[f].at \in {"drain", "take", "register"} => thread[f].back = "live"

(* Who holds the name in a runtime, without counting.                      *)
HoldsName(f, r) == AliveFilter(f) /\ thread[f].rt = r
ClaimsAreHeld ==
    \A r \in Runtimes :
      /\ r \in claimed <=> \E f \in Filters : HoldsName(f, r)
      /\ \A f, g \in Filters : HoldsName(f, r) /\ HoldsName(g, r) => f = g

SubscriptionsInv == ThreadShape /\ ClaimsAreHeld

LEMMA SubscriptionsInvImplies == SubscriptionsInv => OneFilterPerName
<1>1. SUFFICES ASSUME SubscriptionsInv, NEW r \in Runtimes
      PROVE LET holding == {f \in Filters : AliveFilter(f) /\ thread[f].rt = r}
            IN Cardinality(holding) <= 1 /\ (r \in claimed <=> holding # {})
  BY DEF OneFilterPerName
<1> DEFINE holding == {f \in Filters : AliveFilter(f) /\ thread[f].rt = r}
<1>2. /\ r \in claimed <=> \E f \in Filters : HoldsName(f, r)
      /\ \A f, g \in Filters : HoldsName(f, r) /\ HoldsName(g, r) => f = g
  BY <1>1 DEF SubscriptionsInv, ClaimsAreHeld
<1>3. \A f \in Filters : f \in holding <=> HoldsName(f, r)
  BY DEF HoldsName
<1>4. \A f, g \in holding : f = g
  BY <1>2, <1>3
<1>5. (r \in claimed) <=> holding # {}
  BY <1>2, <1>3
<1> HIDE DEF holding
<1>6. Cardinality(holding) <= 1
  BY <1>4, AtMostOne
<1>7. QED
  BY <1>5, <1>6 DEF holding

LEMMA SubscriptionsInvInit == SubscriptionsInit => SubscriptionsInv
<1>1. SUFFICES ASSUME SubscriptionsInit PROVE SubscriptionsInv
  OBVIOUS
<1>2. \A t \in McpThreads : thread[t] = Gone /\ thread[t].at = "gone"
  BY <1>1 DEF SubscriptionsInit, Gone
<1>3. ThreadShape
  BY <1>1, <1>2 DEF SubscriptionsInit, ThreadShape, AliveFilter, Gone, McpThreads
<1>4. ClaimsAreHeld
  BY <1>1, <1>2 DEF SubscriptionsInit, ClaimsAreHeld, HoldsName, AliveFilter, McpThreads
<1>5. QED
  BY <1>3, <1>4 DEF SubscriptionsInv

(* One thread moves.                                                       *)
LEMMA ThreadMoves ==
  ASSUME SubscriptionsInv, NEW t \in McpThreads, NEW r, Move(t, r)
  PROVE  /\ thread' = [u \in McpThreads |-> thread'[u]] /\ thread'[t] = r
         /\ \A u \in McpThreads : u # t => thread'[u] = thread[u]
  BY DEF SubscriptionsInv, ThreadShape, Move

(* A thread that keeps its filter alive, if it is one, and its runtime     *)
(* leaves all claims as they are.                                          *)
LEMMA KeepsClaims ==
  ASSUME SubscriptionsInv, claimed' = claimed, NEW t \in McpThreads, NEW r, Move(t, r),
         t \in Filters => /\ AliveFilter(t) /\ {"at", "rt"} \subseteq DOMAIN r
                          /\ r.at \notin {"gone", "refused"} /\ r.rt = thread[t].rt
                          /\ r.at \in {"drain", "take", "register"} => r.back = "live"
  PROVE  SubscriptionsInv'
<1> USE DEF SubscriptionsInv
<1>0. /\ thread' = [u \in McpThreads |-> thread'[u]] /\ thread'[t] = r
      /\ \A u \in McpThreads : u # t => thread'[u] = thread[u]
  BY ThreadMoves
<1>1. \A f \in Filters : /\ AliveFilter(f)' <=> AliveFilter(f)
                         /\ AliveFilter(f) => thread'[f].rt = thread[f].rt
  BY <1>0 DEF AliveFilter, McpThreads
<1>2. ThreadShape'
  BY <1>0, <1>1 DEF ThreadShape, McpThreads, AliveFilter
<1>3. \A f \in Filters : \A x : HoldsName(f, x)' <=> HoldsName(f, x)
  BY <1>1 DEF HoldsName
<1>4. ClaimsAreHeld'
  BY <1>3 DEF ClaimsAreHeld
<1>5. QED
  BY <1>2, <1>4

LEMMA BuildSteps ==
  ASSUME SubscriptionsInv, NEW f \in Filters,
         LookForHandler(f) \/ QueueSubscription(f) \/ Recheck(f)
         \/ DropMcpFilter(f) \/ Unregister(f) \/ Unqueue(f)
  PROVE  SubscriptionsInv'
<1>0. f \in McpThreads /\ claimed' = claimed /\ AliveFilter(f)
  BY DEF McpThreads, LookForHandler, QueueSubscription, Recheck, DropMcpFilter, Unregister,
         Unqueue, AliveFilter, On
<1>1. CASE LookForHandler(f)
  <2>1. PICK h : Move(f, [at |-> IF handler THEN "register" ELSE "queue", rt |-> thread[f].rt,
                          holder |-> h, of |-> {f}, back |-> "live"])
    BY <1>1 DEF LookForHandler
  <2>2. QED
    BY <1>0, <2>1, KeepsClaims
<1>2. CASE QueueSubscription(f)
  <2>1. Move(f, [at |-> "recheck", rt |-> thread[f].rt])
    BY <1>2 DEF QueueSubscription
  <2>2. QED
    BY <1>0, <2>1, KeepsClaims
<1>3. CASE Recheck(f)
  <2>1. Move(f, [at |-> IF handler THEN "drain" ELSE "live", rt |-> thread[f].rt, back |-> "live"])
    BY <1>3 DEF Recheck
  <2>2. QED
    BY <1>0, <2>1, KeepsClaims
<1>4. CASE DropMcpFilter(f)
  <2>1. PICK b : Move(f, [at |-> "unregister", rt |-> thread[f].rt, empty |-> b])
    BY <1>4 DEF DropMcpFilter
  <2>2. QED
    BY <1>0, <2>1, KeepsClaims
<1>5. CASE Unregister(f)
  <2>1. PICK b : Move(f, [at |-> "unqueue", rt |-> thread[f].rt, empty |-> b])
    BY <1>5 DEF Unregister
  <2>2. QED
    BY <1>0, <2>1, KeepsClaims
<1>6. CASE Unqueue(f)
  <2>1. Move(f, [at |-> "release", rt |-> thread[f].rt])
    BY <1>6 DEF Unqueue
  <2>2. QED
    BY <1>0, <2>1, KeepsClaims
<1>7. QED
  BY <1>1, <1>2, <1>3, <1>4, <1>5, <1>6

LEMMA DrainSteps ==
  ASSUME SubscriptionsInv, NEW t \in McpThreads,
         DrainScope(t) \/ TakeSubscriptions(t) \/ Register(t)
  PROVE  SubscriptionsInv'
<1>0. /\ claimed' = claimed /\ thread[t].at \in {"drain", "take", "register"}
      /\ t \in Filters => AliveFilter(t) /\ thread[t].back = "live" /\ {"at", "rt"} \subseteq DOMAIN thread[t]
  BY DEF DrainScope, TakeSubscriptions, Register, AliveFilter, On, SubscriptionsInv, ThreadShape
<1>1. CASE Move(t, [thread[t] EXCEPT !.at = thread[t].back])
  <2> DEFINE r == [thread[t] EXCEPT !.at = thread[t].back]
  <2>1. t \in Filters => {"at", "rt"} \subseteq DOMAIN r /\ r.at = "live" /\ r.rt = thread[t].rt
    BY <1>0
  <2> HIDE DEF r
  <2>2. Move(t, r)
    BY <1>1 DEF r
  <2>3. QED
    BY <1>0, <2>1, <2>2, KeepsClaims
<1>2. ASSUME Move(t, [at |-> "take", rt |-> IF t = Starter THEN Starter ELSE thread[t].rt,
                      holder |-> queue, back |-> thread[t].back])
      PROVE  SubscriptionsInv'
  BY <1>0, <1>2, KeepsClaims, SubscriptionsAssumption
<1>3. ASSUME NEW g, NEW live,
             Move(t, [at |-> "register", rt |-> thread[t].rt, holder |-> g,
                      of |-> live, back |-> thread[t].back])
      PROVE  SubscriptionsInv'
  BY <1>0, <1>3, KeepsClaims
<1>4. ASSUME Move(t, [at |-> thread[t].back, rt |-> thread[t].rt])
      PROVE  SubscriptionsInv'
  BY <1>0, <1>4, KeepsClaims
<1>5. CASE DrainScope(t)
  BY <1>1, <1>2, <1>5 DEF DrainScope
<1>6. CASE TakeSubscriptions(t)
  BY <1>1, <1>3, <1>6 DEF TakeSubscriptions
<1>7. CASE Register(t)
  BY <1>4, <1>7 DEF Register
<1>8. QED
  BY <1>5, <1>6, <1>7

(* The name is claimed by the filter that found it free ...                *)
LEMMA ClaimStep ==
  ASSUME SubscriptionsInv, NEW f \in Filters, NEW r \in Runtimes, Claim(f, r)
  PROVE  SubscriptionsInv'
<1> USE DEF SubscriptionsInv
<1>0. f \in McpThreads /\ thread[f].at = "gone" /\ claimed' = claimed \cup {r}
  BY DEF McpThreads, Claim, On
<1>1. CASE r \in claimed
  <2>1. Move(f, [at |-> "refused"])
    BY <1>1 DEF Claim
  <2>2. /\ thread' = [u \in McpThreads |-> thread'[u]] /\ thread'[f] = [at |-> "refused"]
        /\ \A u \in McpThreads : u # f => thread'[u] = thread[u]
    BY <1>0, <2>1, ThreadMoves
  <2>3. ThreadShape'
    BY <2>2 DEF ThreadShape, AliveFilter, McpThreads
  <2>4. \A g \in Filters : \A x : HoldsName(g, x)' <=> HoldsName(g, x)
    BY <1>0, <2>2 DEF HoldsName, AliveFilter, McpThreads
  <2>5. ClaimsAreHeld'
    BY <1>0, <1>1, <2>4 DEF ClaimsAreHeld
  <2>6. QED
    BY <2>3, <2>5
<1>2. CASE r \notin claimed
  <2>1. Move(f, [at |-> "look", rt |-> r])
    BY <1>2 DEF Claim
  <2>2. /\ thread' = [u \in McpThreads |-> thread'[u]] /\ thread'[f] = [at |-> "look", rt |-> r]
        /\ \A u \in McpThreads : u # f => thread'[u] = thread[u]
    BY <1>0, <2>1, ThreadMoves
  <2>3. ThreadShape'
    BY <2>2 DEF ThreadShape, AliveFilter, McpThreads
  <2>4. \A g \in Filters : \A x : HoldsName(g, x)' <=> HoldsName(g, x) \/ (g = f /\ x = r)
    BY <1>0, <2>2 DEF HoldsName, AliveFilter, McpThreads
  <2>5. ClaimsAreHeld'
    BY <1>0, <1>2, <2>4 DEF ClaimsAreHeld
  <2>6. QED
    BY <2>3, <2>5
<1>3. QED
  BY <1>1, <1>2

(* ... and released by it, not by one that was refused.                    *)
LEMMA ReleaseStep ==
  ASSUME SubscriptionsInv, NEW f \in Filters, ReleaseName(f)
  PROVE  SubscriptionsInv'
<1> USE DEF SubscriptionsInv
<1>0. /\ f \in McpThreads /\ thread[f].at \in {"release", "refused"}
      /\ claimed' = claimed \ Releases(f) /\ Move(f, Gone)
  BY DEF McpThreads, ReleaseName
<1>1. /\ thread' = [u \in McpThreads |-> thread'[u]] /\ thread'[f] = [at |-> "gone"]
      /\ \A u \in McpThreads : u # f => thread'[u] = thread[u]
  BY <1>0, ThreadMoves DEF Gone
<1>2. ThreadShape'
  <2>1. "at" \in DOMAIN thread'[f] /\ thread'[f].at = "gone"
    BY <1>1
  <2>2. ASSUME NEW g \in Filters, g # f
        PROVE  thread'[g] = thread[g] /\ (AliveFilter(g)' <=> AliveFilter(g))
    BY <1>1, <2>2 DEF AliveFilter, McpThreads
  <2>3. QED
    BY <1>1, <2>1, <2>2 DEF ThreadShape, AliveFilter
<1>3. \A g \in Filters : \A x : HoldsName(g, x)' <=> HoldsName(g, x) /\ g # f
  BY <1>0, <1>1 DEF HoldsName, AliveFilter, McpThreads
<1>4. \A x : x \in Releases(f) <=> HoldsName(f, x)
  BY <1>0 DEF HoldsName, AliveFilter, Releases, On
<1>5. ClaimsAreHeld'
  BY <1>0, <1>3, <1>4 DEF ClaimsAreHeld
<1>6. QED
  BY <1>2, <1>5

LEMMA SubscriptionsInvStep ==
  SubscriptionsInv /\ [SubscriptionsNext]_subscriptionVars => SubscriptionsInv'
<1>0. ASSUME SubscriptionsInv, thread' = thread, claimed' = claimed PROVE SubscriptionsInv'
  BY <1>0 DEF SubscriptionsInv, ThreadShape, ClaimsAreHeld, HoldsName, AliveFilter
<1>1. ASSUME SubscriptionsInv, InitHandler PROVE SubscriptionsInv'
  <2>1. /\ Starter \in McpThreads /\ Starter \notin Filters /\ claimed' = claimed
        /\ Move(Starter, [at |-> "drain", back |-> "live"])
    BY <1>1, SubscriptionsAssumption DEF InitHandler, McpThreads
  <2>2. QED
    BY <1>1, <2>1, KeepsClaims
<1>2. ASSUME SubscriptionsInv, StartUpdate \/ ApplyToRegistry \/ UNCHANGED subscriptionVars
      PROVE SubscriptionsInv'
  BY <1>0, <1>2 DEF StartUpdate, ApplyToRegistry, subscriptionVars
<1>3. QED
  BY <1>1, <1>2, ClaimStep, BuildSteps, ReleaseStep, DrainSteps DEF SubscriptionsNext
-----------------------------------------------------------------------------
(* Calls and sessions.                                                     *)

GwMethods == {"notification", "initialize", "initialized", "ping", "list", "call", "other"}

(* A request on its way to the dispatch has a message with a method.       *)
HasMethod(r) ==
    \/ r.at \notin {"session", "touch", "dispatch"}
    \/ r.at = "session" /\ r.msg.verb # "POST"
    \/ "msg" \in DOMAIN r /\ r.msg.method \in GwMethods

ServedWell(r) ==
    (r.at = "replied" /\ r.what = "result" /\ "invoked" \in DOMAIN r) =>
      /\ r.invoked = r.checked
      /\ r.outcome = "success" => r.fits /\ r.valid

GwRecord(r) == "at" \in DOMAIN r /\ HasMethod(r) /\ ServedWell(r)

Inserting == {q \in GwRequests : gw[q].at = "insert"}

GatewayInv ==
    /\ gw = [q \in GwRequests |-> gw[q]]
    /\ \A q \in GwRequests : GwRecord(gw[q])
    /\ IsFiniteSet(DOMAIN session)
    /\ SessionOverrun

LEMMA GatewayInvImplies == GatewayInv => CallsAndSessionsKept
  BY DEF GatewayInv, CallsAndSessionsKept, ServedAsChecked, GwRecord, ServedWell

(* The sizes that the bound adds up.                                       *)
LEMMA InsertingFinite ==
  /\ IsFiniteSet(Inserting) /\ Cardinality(Inserting) \in Nat
  /\ Cardinality(Inserting) <= Cardinality(GwRequests) /\ Cardinality(GwRequests) \in Nat
<1>1. IsFiniteSet(GwRequests) /\ Inserting \subseteq GwRequests
  BY GatewayAssumption DEF Inserting
<1>2. QED
  BY <1>1, FS_Subset, FS_CardinalityType

LEMMA GatewayInvInit == GatewayInit => GatewayInv
<1>1. SUFFICES ASSUME GatewayInit PROVE GatewayInv
  OBVIOUS
<1>2. \A q \in GwRequests : gw[q] = [at |-> "idle"]
  BY <1>1 DEF GatewayInit, IdleGw
<1>3. \A q \in GwRequests : GwRecord(gw[q])
  BY <1>2 DEF GwRecord, HasMethod, ServedWell
<1>4. DOMAIN session = {} /\ Inserting = {}
  BY <1>1, <1>2 DEF GatewayInit, Inserting
<1>5. Cardinality({}) = 0 /\ IsFiniteSet({})
  BY FS_EmptySet
<1>6. SessionOverrun
  BY <1>4, <1>5, InsertingFinite, GatewayAssumption DEF SessionOverrun, Inserting
<1>7. QED
  BY <1>1, <1>3, <1>4, <1>5, <1>6 DEF GatewayInv, GatewayInit

(* A request moves on without inserting a session, and sessions only go.   *)
LEMMA GwMoves ==
  ASSUME GatewayInv, NEW q \in GwRequests, NEW r, GwRecord(r), r.at # "insert",
         gw' = [gw EXCEPT ![q] = r], DOMAIN session' \subseteq DOMAIN session
  PROVE  GatewayInv'
<1>1. /\ gw' = [p \in GwRequests |-> gw'[p]] /\ gw'[q] = r
      /\ \A p \in GwRequests : p # q => gw'[p] = gw[p]
  BY DEF GatewayInv
<1>2. \A p \in GwRequests : GwRecord(gw'[p])
  BY <1>1 DEF GatewayInv
<1>3. Inserting' \subseteq Inserting
  BY <1>1 DEF Inserting
<1>4. Cardinality(Inserting') <= Cardinality(Inserting) /\ Cardinality(Inserting') \in Nat
  BY <1>3, InsertingFinite, FS_Subset, FS_CardinalityType
<1>5. /\ IsFiniteSet(DOMAIN session') /\ Cardinality(DOMAIN session') <= Cardinality(DOMAIN session)
      /\ Cardinality(DOMAIN session') \in Nat /\ Cardinality(DOMAIN session) \in Nat
  BY FS_Subset, FS_CardinalityType DEF GatewayInv
<1>6. SessionOverrun'
  <2>1. Cardinality(DOMAIN session) + Cardinality(Inserting) <= MaxSessions + Cardinality(GwRequests) - 1
    BY DEF GatewayInv, SessionOverrun, Inserting
  <2>2. Cardinality(DOMAIN session') + Cardinality(Inserting') <= MaxSessions + Cardinality(GwRequests) - 1
    BY <1>4, <1>5, <2>1, InsertingFinite, GatewayAssumption
  <2>3. QED
    BY <2>2 DEF SessionOverrun, Inserting
<1>7. QED
  BY <1>1, <1>2, <1>5, <1>6 DEF GatewayInv

(* No request moves, and sessions only go.                                 *)
LEMMA GwStays ==
  ASSUME GatewayInv, gw' = gw, DOMAIN session' \subseteq DOMAIN session
  PROVE  GatewayInv'
<1>1. Inserting' = Inserting
  BY DEF Inserting
<1>2. /\ IsFiniteSet(DOMAIN session') /\ Cardinality(DOMAIN session') <= Cardinality(DOMAIN session)
      /\ Cardinality(DOMAIN session') \in Nat /\ Cardinality(DOMAIN session) \in Nat
  BY FS_Subset, FS_CardinalityType DEF GatewayInv
<1>3. Cardinality(DOMAIN session) + Cardinality(Inserting) <= MaxSessions + Cardinality(GwRequests) - 1
  BY DEF GatewayInv, SessionOverrun, Inserting
<1>4. Cardinality(DOMAIN session') + Cardinality(Inserting') <= MaxSessions + Cardinality(GwRequests) - 1
  BY <1>1, <1>2, <1>3, InsertingFinite, GatewayAssumption
<1>5. QED
  BY <1>2, <1>4 DEF GatewayInv, SessionOverrun, Inserting

(* The replies of the gateway itself are no results of calls.              *)
LEMMA ReplyRecord ==
  ASSUME NEW status, NEW what
  PROVE  GwRecord(Reply(status, what)) /\ Reply(status, what).at = "replied"
  BY DEF GwRecord, HasMethod, ServedWell, Reply

LEMMA ArrivalRecord ==
  ASSUME NEW a \in Arrivals
  PROVE  GwRecord(a) /\ a.at # "insert"
<1>1. PICK m \in McpMessages :
        a = IF FirstCheck(m) = "proceed" THEN [at |-> "session", msg |-> Kept(m)]
            ELSE Reply(FirstCheck(m), "text")
  BY DEF Arrivals
<1>2. CASE FirstCheck(m) = "proceed"
  <2>1. a = [at |-> "session", msg |-> Kept(m)]
    BY <1>1, <1>2
  <2>2. Kept(m).verb # "POST" \/ Kept(m).method \in GwMethods
    <3>1. m.method \in {"initialize", "initialized", "ping", "list", "call", "other"}
          /\ m.kind \in {"request", "notification"}
      BY <1>1 DEF McpMessages
    <3>2. CASE m.verb = "DELETE"
      BY <3>2 DEF Kept
    <3>3. CASE m.verb # "DELETE"
      BY <3>1, <3>3 DEF Kept, GwMethods
    <3>4. QED
      BY <3>2, <3>3
  <2>3. QED
    BY <2>1, <2>2 DEF GwRecord, HasMethod, ServedWell
<1>3. CASE FirstCheck(m) # "proceed"
  BY <1>1, <1>3, ReplyRecord
<1>4. QED
  BY <1>2, <1>3

LEMMA DispatchedRecord ==
  ASSUME NEW m, m.method \in GwMethods
  PROVE  GwRecord(Dispatched(m)) /\ Dispatched(m).at # "insert"
<1>1. \/ \E status, what : Dispatched(m) = Reply(status, what)
      \/ Dispatched(m) = [at |-> "create"]
      \/ Dispatched(m) = [at |-> "call", msg |-> m]
  <2>1. CASE m.method = "notification"
    BY <2>1 DEF Dispatched
  <2>2. CASE m.method = "initialize"
    BY <2>2 DEF Dispatched
  <2>3. CASE m.method \notin {"notification", "initialize"} /\ m.session = NoSession
    BY <2>3 DEF Dispatched
  <2>4. CASE m.method \notin {"notification", "initialize"} /\ m.session # NoSession
    BY <2>4 DEF Dispatched, GwMethods
  <2>5. QED
    BY <2>1, <2>2, <2>3, <2>4
<1>2. QED
  BY <1>1, ReplyRecord DEF GwRecord, HasMethod, ServedWell

LEMMA CompletedRecord ==
  ASSUME NEW q, NEW outcome, NEW size, NEW valid \in BOOLEAN,
         outcome = "success" =>
           /\ size <= MaxResponse
           /\ valid \/ ~(CalledEntry(q).backend = "rest" /\ CalledEntry(q).schema)
  PROVE  GwRecord(Completed(q, outcome, size, valid)) /\ Completed(q, outcome, size, valid).at # "insert"
  BY DEF GwRecord, HasMethod, ServedWell, Completed, CalledEntry
(* What a request does before and after its call.                          *)
LEMMA MessageSteps ==
  ASSUME GatewayInv, NEW q \in GwRequests,
         Receive(q) \/ DeleteSession(q) \/ FindSession(q) \/ TouchSession(q) \/ Dispatch(q)
  PROVE  GatewayInv'
<1>0. GwRecord(gw[q])
  BY DEF GatewayInv
<1>1. CASE Receive(q)
  <2>1. PICK a \in Arrivals : gw' = [gw EXCEPT ![q] = a]
    BY <1>1 DEF Receive
  <2>2. DOMAIN session' \subseteq DOMAIN session
    BY <1>1 DEF Receive
  <2>3. QED
    BY <2>1, <2>2, ArrivalRecord, GwMoves
<1>2. CASE DeleteSession(q)
  <2>1. PICK status : gw' = [gw EXCEPT ![q] = Reply(status, "text")]
    BY <1>2 DEF DeleteSession
  <2>2. DOMAIN session' \subseteq DOMAIN session
    BY <1>2 DEF DeleteSession
  <2>3. QED
    BY <2>1, <2>2, ReplyRecord, GwMoves
<1>3. CASE FindSession(q)
  <2>1. DOMAIN session' \subseteq DOMAIN session
    BY <1>3 DEF FindSession
  <2>2. gw[q].msg.method \in GwMethods
    BY <1>0, <1>3 DEF FindSession, GwRecord, HasMethod
  <2>3. CASE gw' = [gw EXCEPT ![q] = Reply("not_found", "rpc_error")]
    BY <2>1, <2>3, ReplyRecord, GwMoves
  <2>4. ASSUME NEW place \in {"dispatch", "touch"}, gw' = [gw EXCEPT ![q] = [at |-> place, msg |-> gw[q].msg]]
        PROVE  GatewayInv'
    <3>1. GwRecord([at |-> place, msg |-> gw[q].msg]) /\ [at |-> place, msg |-> gw[q].msg].at # "insert"
      BY <2>2, <2>4 DEF GwRecord, HasMethod, ServedWell
    <3>2. QED
      BY <2>1, <2>4, <3>1, GwMoves
  <2>5. QED
    BY <1>3, <2>3, <2>4 DEF FindSession
<1>4. CASE TouchSession(q)
  <2> DEFINE r == [gw[q] EXCEPT !.at = "dispatch"]
  <2>1. gw' = [gw EXCEPT ![q] = r] /\ gw[q].at = "touch"
    BY <1>4 DEF TouchSession
  <2>2. DOMAIN session' \subseteq DOMAIN session
    BY <1>4 DEF TouchSession
  <2>3. GwRecord(r) /\ r.at # "insert"
    BY <1>0, <2>1 DEF GwRecord, HasMethod, ServedWell
  <2> HIDE DEF r
  <2>4. QED
    BY <2>1, <2>2, <2>3, GwMoves
<1>5. CASE Dispatch(q)
  <2>1. gw' = [gw EXCEPT ![q] = Dispatched(gw[q].msg)] /\ gw[q].msg.method \in GwMethods
    BY <1>0, <1>5 DEF Dispatch, GwRecord, HasMethod
  <2>2. DOMAIN session' \subseteq DOMAIN session
    BY <1>5 DEF Dispatch
  <2>3. QED
    BY <2>1, <2>2, DispatchedRecord, GwMoves
<1>6. QED
  BY <1>1, <1>2, <1>3, <1>4, <1>5

(* The length is compared and the session inserted in two steps.           *)
LEMMA CheckRoomStep ==
  ASSUME GatewayInv, NEW q \in GwRequests, CheckRoom(q)
  PROVE  GatewayInv'
<1>0. gw[q].at = "create" /\ session' = session
  BY DEF CheckRoom
<1>1. CASE ~HasRoom
  <2>1. gw' = [gw EXCEPT ![q] = Reply("ok", "rpc_error")] /\ DOMAIN session' \subseteq DOMAIN session
    BY <1>0, <1>1 DEF CheckRoom
  <2>2. QED
    BY <2>1, ReplyRecord, GwMoves
<1>2. CASE HasRoom
  <2>1. gw' = [gw EXCEPT ![q] = [at |-> "insert"]]
    BY <1>2 DEF CheckRoom
  <2>2. /\ gw' = [p \in GwRequests |-> gw'[p]]
        /\ \A p \in GwRequests : GwRecord(gw'[p])
    BY <2>1 DEF GatewayInv, GwRecord, HasMethod, ServedWell
  <2>3. /\ Cardinality(Inserting') \in Nat /\ Cardinality(GwRequests) \in Nat
        /\ Cardinality(Inserting') <= Cardinality(GwRequests)
    <3>1. IsFiniteSet(GwRequests) /\ Inserting' \subseteq GwRequests
      BY GatewayAssumption DEF Inserting
    <3>2. QED
      BY <3>1, FS_Subset, FS_CardinalityType
  <2>4. Cardinality(DOMAIN session) < MaxSessions /\ Cardinality(DOMAIN session) \in Nat
    BY <1>2, FS_CardinalityType DEF HasRoom, GatewayInv
  <2>5. Cardinality(DOMAIN session) + Cardinality(Inserting') <= MaxSessions + Cardinality(GwRequests) - 1
    BY <2>3, <2>4, GatewayAssumption
  <2>6. SessionOverrun'
    BY <1>0, <2>5 DEF SessionOverrun, Inserting
  <2>7. QED
    BY <1>0, <2>2, <2>6 DEF GatewayInv
<1>3. QED
  BY <1>1, <1>2

LEMMA InsertSessionStep ==
  ASSUME GatewayInv, NEW q \in GwRequests, InsertSession(q)
  PROVE  GatewayInv'
<1>0. gw[q].at = "insert" /\ gw' = [gw EXCEPT ![q] = Reply("ok", "result")]
  BY DEF InsertSession
<1>1. PICK s : DOMAIN session' = DOMAIN session \cup {s}
  BY DEF InsertSession
<1>2. /\ gw' = [p \in GwRequests |-> gw'[p]] /\ gw'[q] = Reply("ok", "result")
      /\ \A p \in GwRequests : p # q => gw'[p] = gw[p]
  BY <1>0 DEF GatewayInv
<1>3. \A p \in GwRequests : GwRecord(gw'[p])
  BY <1>2, ReplyRecord DEF GatewayInv
<1>4. Inserting' = Inserting \ {q} /\ q \in Inserting
  BY <1>0, <1>2, ReplyRecord DEF Inserting
<1>5. Cardinality(Inserting') = Cardinality(Inserting) - 1
  BY <1>4, InsertingFinite, FS_RemoveElement
<1>6. /\ IsFiniteSet(DOMAIN session') /\ Cardinality(DOMAIN session') <= Cardinality(DOMAIN session) + 1
      /\ Cardinality(DOMAIN session') \in Nat /\ Cardinality(DOMAIN session) \in Nat
  <2>1. IsFiniteSet(DOMAIN session) /\ Cardinality(DOMAIN session) \in Nat
    BY FS_CardinalityType DEF GatewayInv
  <2>2. CASE s \in DOMAIN session
    <3>1. DOMAIN session' = DOMAIN session
      BY <1>1, <2>2
    <3>2. QED
      BY <2>1, <3>1
  <2>3. CASE s \notin DOMAIN session
    <3>1. /\ IsFiniteSet(DOMAIN session \cup {s})
          /\ Cardinality(DOMAIN session \cup {s}) = Cardinality(DOMAIN session) + 1
      BY <2>1, <2>3, FS_AddElement
    <3>2. QED
      BY <1>1, <2>1, <3>1
  <2>4. QED
    BY <2>2, <2>3
<1>7. Cardinality(DOMAIN session) + Cardinality(Inserting) <= MaxSessions + Cardinality(GwRequests) - 1
  BY DEF GatewayInv, SessionOverrun, Inserting
<1>8. Cardinality(DOMAIN session') + Cardinality(Inserting') <= MaxSessions + Cardinality(GwRequests) - 1
  BY <1>5, <1>6, <1>7, InsertingFinite, GatewayAssumption
<1>9. QED
  BY <1>2, <1>3, <1>6, <1>8 DEF GatewayInv, SessionOverrun, Inserting

LEMMA CallSteps ==
  ASSUME GatewayInv, NEW q \in GwRequests,
         \/ InvokeTool(q) \/ RestEncodingFails(q) \/ RestUpstreamFails(q) \/ RestAnswers(q)
         \/ McpConnect(q) \/ McpAnswers(q) \/ McpFails(q) \/ FinishCall(q)
  PROVE  GatewayInv'
<1>0. DOMAIN session' \subseteq DOMAIN session /\ GwRecord(gw[q])
  BY DEF InvokeTool, RestEncodingFails, RestUpstreamFails, RestAnswers, McpConnect, McpAnswers,
         McpFails, FinishCall, GatewayInv
<1>a. ASSUME NEW outcome, NEW size, NEW valid \in BOOLEAN,
             outcome = "success" =>
               /\ size <= MaxResponse
               /\ valid \/ ~(CalledEntry(q).backend = "rest" /\ CalledEntry(q).schema),
             gw' = [gw EXCEPT ![q] = Completed(q, outcome, size, valid)]
      PROVE  GatewayInv'
  BY <1>0, <1>a, CompletedRecord, GwMoves
<1>b. ASSUME NEW status, NEW what, gw' = [gw EXCEPT ![q] = Reply(status, what)]
      PROVE  GatewayInv'
  BY <1>0, <1>b, ReplyRecord, GwMoves
<1>1. CASE InvokeTool(q)
  <2>1. CASE gw' = [gw EXCEPT ![q] = Reply("ok", "rpc_error")]
    BY <1>b, <2>1
  <2>2. CASE gw' = [gw EXCEPT ![q] = [at |-> "backend", s |-> gw[q].msg.session, entry |-> entry]]
    <3> DEFINE r == [at |-> "backend", s |-> gw[q].msg.session, entry |-> entry]
    <3>1. GwRecord(r) /\ r.at # "insert"
      BY DEF GwRecord, HasMethod, ServedWell
    <3>2. gw' = [gw EXCEPT ![q] = r]
      BY <2>2
    <3> HIDE DEF r
    <3>3. QED
      BY <1>0, <3>1, <3>2, GwMoves
  <2>3. QED
    BY <1>1, <2>1, <2>2 DEF InvokeTool
<1>2. CASE RestEncodingFails(q)
  BY <1>2, <1>b DEF RestEncodingFails
<1>3. CASE RestUpstreamFails(q)
  <2>1. PICK why \in {"overflow", "upstream_error", "upstream_timeout"} :
          gw' = [gw EXCEPT ![q] = Completed(q, why, 0, FALSE)]
    BY <1>3 DEF RestUpstreamFails
  <2>2. why # "success" /\ FALSE \in BOOLEAN
    BY <2>1
  <2>3. QED
    BY <1>a, <2>1, <2>2
<1>4. CASE RestAnswers(q)
  <2>1. PICK size \in 0..MaxResponse + 1, status \in {"200", "429", "504"}, valid \in BOOLEAN :
          gw' = [gw EXCEPT ![q] = Completed(q, RestOutcome(q, size, status, valid), size, valid)]
    BY <1>4 DEF RestAnswers
  <2>2. RestOutcome(q, size, status, valid) = "success" =>
          /\ size <= MaxResponse
          /\ valid \/ ~(CalledEntry(q).backend = "rest" /\ CalledEntry(q).schema)
    BY GatewayAssumption DEF RestOutcome
  <2>3. QED
    BY <1>a, <2>1, <2>2
<1>5. CASE McpConnect(q)
  <2>1. CASE gw' = [gw EXCEPT ![q].at = "mcp"]
    <3> DEFINE r == [gw[q] EXCEPT !.at = "mcp"]
    <3>1. GwRecord(r) /\ r.at # "insert"
      BY <1>0 DEF GwRecord, HasMethod, ServedWell
    <3>2. gw' = [gw EXCEPT ![q] = r]
      BY <2>1
    <3> HIDE DEF r
    <3>3. QED
      BY <1>0, <3>1, <3>2, GwMoves
  <2>2. CASE gw' = [gw EXCEPT ![q] = Completed(q, "upstream_error", 0, FALSE)]
    <3>1. "upstream_error" # "success" /\ FALSE \in BOOLEAN
      OBVIOUS
    <3>2. QED
      BY <1>a, <2>2, <3>1
  <2>3. QED
    BY <1>5, <2>1, <2>2 DEF McpConnect
<1>6. CASE McpAnswers(q)
  <2>1. PICK size \in 0..MaxResponse + 1 :
          gw' = [gw EXCEPT ![q] =
            Completed(q, IF size > MaxResponse THEN "response_too_large" ELSE "success", size, TRUE)]
    BY <1>6 DEF McpAnswers
  <2>2. TRUE \in BOOLEAN
        /\ ((IF size > MaxResponse THEN "response_too_large" ELSE "success") = "success"
              => size <= MaxResponse)
    BY GatewayAssumption
  <2>3. QED
    BY <1>a, <2>1, <2>2
<1>7. CASE McpFails(q)
  <2>1. PICK why \in {"upstream_error", "upstream_timeout"} :
          gw' = [gw EXCEPT ![q] = Completed(q, why, 0, FALSE)]
    BY <1>7 DEF McpFails
  <2>2. why # "success" /\ FALSE \in BOOLEAN
    BY <2>1
  <2>3. QED
    BY <1>a, <2>1, <2>2
<1>8. CASE FinishCall(q)
  <2>1. gw' = [gw EXCEPT ![q] = IdleGw]
    BY <1>8 DEF FinishCall
  <2>2. GwRecord(IdleGw) /\ IdleGw.at # "insert"
    BY DEF GwRecord, HasMethod, ServedWell, IdleGw
  <2>3. QED
    BY <1>0, <2>1, <2>2, GwMoves
<1>9. QED
  BY <1>1, <1>2, <1>3, <1>4, <1>5, <1>6, <1>7, <1>8

LEMMA GatewayInvStep == GatewayInv /\ [GatewayNext]_gatewayVars => GatewayInv'
<1>1. ASSUME GatewayInv, CleanUp \/ Period \/ ReplaceEntry \/ UNCHANGED gatewayVars
      PROVE  GatewayInv'
  <2>1. gw' = gw /\ DOMAIN session' \subseteq DOMAIN session
    BY <1>1 DEF CleanUp, Period, ReplaceEntry, gatewayVars
  <2>2. QED
    BY <1>1, <2>1, GwStays
<1>2. QED
  BY <1>1, MessageSteps, CheckRoomStep, InsertSessionStep, CallSteps DEF GatewayNext
-----------------------------------------------------------------------------
(* The records of code mode executions.                                    *)

ExFields == {"st", "response", "outcome", "hostCalls", "limited", "cpu", "exhausted",
             "logs", "calls", "records", "drained", "reply"}
CallRecords == [kind : Kinds, st : {"queued", "running", "ended", "joined", "aborted"}]

(* The host calls whose tasks are still there.                             *)
LiveCalls(calls) == {i \in DOMAIN calls : calls[i].st \in {"queued", "running"}}

(* An execution: it starts without host calls, makes none without charging *)
(* it to its budget, and has told of all its tool calls when it is done,   *)
(* unless it was cut short.                                                *)
GoodExecution(x) ==
    /\ DOMAIN x = ExFields
    /\ x.calls \in Seq(CallRecords) /\ x.hostCalls \in Nat
    /\ x.st = "idle" => x.calls = <<>> /\ x.records = {} /\ x.drained = {}
    /\ x.st \in {"guest", "waiting", "quiescing"} => Len(x.calls) <= x.hostCalls
    /\ (x.st = "done" /\ x.outcome \notin {"Timeout", "abandoned"}) =>
         x.records = x.drained /\ LiveCalls(x.calls) = {}

CodeModeInv ==
    ex = [e \in Executions |-> ex[e]] /\ \A e \in Executions : GoodExecution(ex[e])

LEMMA CodeModeInvImplies == CodeModeInv => RecordsComplete
  BY DEF CodeModeInv, GoodExecution, RecordsComplete, InState, LiveCalls

LEMMA NewStateFields ==
  /\ DOMAIN NewState = ExFields /\ NewState.hostCalls = 0 /\ NewState.calls = <<>>
  /\ NewState.st = "idle" /\ NewState.records = {} /\ NewState.drained = {}
  BY DEF NewState, ExFields

LEMMA CodeModeInvInit == CodeModeInit => CodeModeInv
<1>1. <<>> \in Seq(CallRecords) /\ 0 \in Nat
  OBVIOUS
<1>2. GoodExecution(NewState)
  BY <1>1, NewStateFields DEF GoodExecution
<1>3. QED
  BY <1>2 DEF CodeModeInit, CodeModeInv

LEMMA ExecutionMoves ==
  ASSUME CodeModeInv, NEW e \in Executions, NEW x, GoodExecution(x), ex' = [ex EXCEPT ![e] = x]
  PROVE  CodeModeInv'
  BY DEF CodeModeInv

(* Dropping the store keeps the tasks that live.                           *)
LEMMA DroppedCalls ==
  ASSUME NEW calls \in Seq(CallRecords)
  PROVE  /\ Dropped(calls) \in Seq(CallRecords)
         /\ LiveCalls(Dropped(calls)) = LiveCalls(calls)
<1>1. Len(calls) \in Nat /\ DOMAIN calls = 1 .. Len(calls)
  OBVIOUS
<1>2. \A i \in DOMAIN calls : calls[i] \in CallRecords
  OBVIOUS
<1>3. [kind |-> "other", st |-> "aborted"] \in CallRecords
  BY DEF CallRecords, Kinds
<1>4. \A i \in DOMAIN calls :
        (IF calls[i].st \in {"queued", "running"} THEN calls[i] ELSE [kind |-> "other", st |-> "aborted"])
          \in CallRecords
  BY <1>2, <1>3
<1>5. Dropped(calls) \in Seq(CallRecords)
  BY <1>1, <1>4 DEF Dropped
<1>6. DOMAIN Dropped(calls) = DOMAIN calls
  BY DEF Dropped
<1>7. \A i \in DOMAIN calls : Dropped(calls)[i].st \in {"queued", "running"}
                                <=> calls[i].st \in {"queued", "running"}
  BY DEF Dropped
<1>8. QED
  BY <1>5, <1>6, <1>7 DEF LiveCalls

(* What is reported, and what is left of an execution that is dropped.     *)
LEMMA ReportedFields ==
  ASSUME NEW e, NEW outcome, NEW logs, NEW base
  PROVE  /\ DOMAIN ReportedCalls(e, outcome, logs, base) = ExFields
         /\ ReportedCalls(e, outcome, logs, base).st = "done"
         /\ ReportedCalls(e, outcome, logs, base).outcome = outcome
         /\ ReportedCalls(e, outcome, logs, base).hostCalls = 0
         /\ ReportedCalls(e, outcome, logs, base).calls = Dropped(ex[e].calls)
         /\ ReportedCalls(e, outcome, logs, base).records = ex[e].records
         /\ ReportedCalls(e, outcome, logs, base).drained = ex[e].records
  BY DEF ReportedCalls, NewState, ExFields

LEMMA ReportedIsGood ==
  ASSUME CodeModeInv, NEW e \in Executions, NEW outcome, NEW logs, NEW base,
         outcome = "Timeout" \/ LiveCalls(ex[e].calls) = {}
  PROVE  GoodExecution(ReportedCalls(e, outcome, logs, base))
<1>1. ex[e].calls \in Seq(CallRecords)
  BY DEF CodeModeInv, GoodExecution
<1>2. 0 \in Nat
  OBVIOUS
<1>3. QED
  BY <1>1, <1>2, DroppedCalls, ReportedFields DEF GoodExecution

LEMMA AbandonedIsGood ==
  ASSUME CodeModeInv, NEW e \in Executions
  PROVE  GoodExecution([NewState EXCEPT !.st = "done", !.outcome = "abandoned",
                                        !.calls = Dropped(ex[e].calls)])
<1> DEFINE x == [NewState EXCEPT !.st = "done", !.outcome = "abandoned", !.calls = Dropped(ex[e].calls)]
<1>1. ex[e].calls \in Seq(CallRecords) /\ 0 \in Nat
  BY DEF CodeModeInv, GoodExecution
<1>2. /\ DOMAIN x = ExFields /\ x.st = "done" /\ x.outcome = "abandoned"
      /\ x.hostCalls = 0 /\ x.calls = Dropped(ex[e].calls)
  BY DEF NewState, ExFields
<1> HIDE DEF x
<1>3. GoodExecution(x)
  BY <1>1, <1>2, DroppedCalls DEF GoodExecution
<1>4. QED
  BY <1>3 DEF x

(* An execution that runs and changes neither its calls nor, but upwards,  *)
(* its budget.                                                             *)
LEMMA RunsOn ==
  ASSUME CodeModeInv, NEW e \in Executions, RunningExecutions(e), NEW x, DOMAIN x = ExFields,
         x.st \in {"guest", "waiting", "quiescing"}, x.calls = ex[e].calls,
         x.hostCalls \in Nat, x.hostCalls >= ex[e].hostCalls, ex' = [ex EXCEPT ![e] = x]
  PROVE  CodeModeInv'
<1>1. GoodExecution(ex[e]) /\ ex[e].st \in {"guest", "waiting", "quiescing"}
  BY DEF CodeModeInv, RunningExecutions
<1>2. x.calls \in Seq(CallRecords) /\ Len(x.calls) \in Nat /\ Len(x.calls) <= ex[e].hostCalls
      /\ ex[e].hostCalls \in Nat
  BY <1>1 DEF GoodExecution
<1>3. Len(x.calls) <= x.hostCalls
  BY <1>2
<1>4. GoodExecution(x)
  BY <1>2, <1>3 DEF GoodExecution
<1>5. QED
  BY <1>4, ExecutionMoves

(* The state of one host call changes.                                     *)
WithCall(calls, i, s) == [calls EXCEPT ![i].st = s]

LEMMA CallChanges ==
  ASSUME NEW calls \in Seq(CallRecords), NEW i \in DOMAIN calls,
         NEW s \in {"queued", "running", "ended", "joined", "aborted"}
  PROVE  /\ WithCall(calls, i, s) \in Seq(CallRecords)
         /\ Len(WithCall(calls, i, s)) = Len(calls)
<1>1. calls[i] \in CallRecords
  OBVIOUS
<1>2. [calls[i] EXCEPT !.st = s] \in CallRecords
  BY <1>1 DEF CallRecords
<1>3. WithCall(calls, i, s) = [calls EXCEPT ![i] = [calls[i] EXCEPT !.st = s]]
  BY DEF WithCall
<1>4. QED
  BY <1>2, <1>3

(* The fields of an execution in which one host call changes, with its     *)
(* place and its records as they may be.                                   *)
LEMMA CallMoves ==
  ASSUME CodeModeInv, NEW e \in Executions, NEW i \in LiveCalls(ex[e].calls) \cup InState(e, {"ended"}),
         NEW s \in {"queued", "running", "ended", "joined", "aborted"}, NEW x,
         DOMAIN x = ExFields, x.calls = WithCall(ex[e].calls, i, s),
         x.hostCalls = ex[e].hostCalls, x.outcome = ex[e].outcome,
         \/ x.st = ex[e].st /\ i \in LiveCalls(ex[e].calls)
         \/ x.st = "guest" /\ ex[e].st = "waiting",
         ex' = [ex EXCEPT ![e] = x]
  PROVE  CodeModeInv'
<1>1. GoodExecution(ex[e]) /\ i \in DOMAIN ex[e].calls
  BY DEF CodeModeInv, LiveCalls, InState
<1>2. x.calls \in Seq(CallRecords) /\ Len(x.calls) = Len(ex[e].calls) /\ x.hostCalls \in Nat
  <2>1. ex[e].calls \in Seq(CallRecords) /\ ex[e].hostCalls \in Nat
    BY <1>1 DEF GoodExecution
  <2>2. /\ WithCall(ex[e].calls, i, s) \in Seq(CallRecords)
        /\ Len(WithCall(ex[e].calls, i, s)) = Len(ex[e].calls)
    BY <1>1, <2>1, CallChanges
  <2>3. QED
    BY <2>1, <2>2
<1>3. x.st \in {"guest", "waiting", "quiescing"} => Len(x.calls) <= x.hostCalls
  BY <1>1, <1>2 DEF GoodExecution
<1>4. x.st # "idle"
  <2>1. CASE x.st = ex[e].st /\ i \in LiveCalls(ex[e].calls)
    BY <1>1, <2>1 DEF GoodExecution
  <2>2. QED
    BY <2>1
<1>5. ~(x.st = "done" /\ x.outcome \notin {"Timeout", "abandoned"})
  BY <1>1 DEF GoodExecution
<1>6. GoodExecution(x)
  BY <1>2, <1>3, <1>4, <1>5 DEF GoodExecution
<1>7. QED
  BY <1>6, ExecutionMoves
LEMMA StartSteps ==
  ASSUME CodeModeInv, NEW e \in Executions, Refuse(e) \/ Execute(e) \/ InstantiateFails(e)
  PROVE  CodeModeInv'
<1>0. GoodExecution(ex[e])
  BY DEF CodeModeInv
<1>a. ex[e].st = "idle" => LiveCalls(ex[e].calls) = {}
  BY <1>0 DEF GoodExecution, LiveCalls
<1>1. CASE Refuse(e)
  <2>0. ex[e].st = "idle"
    BY <1>1 DEF Refuse
  <2>1. ASSUME NEW error, ex' = [ex EXCEPT ![e].st = "done", ![e].outcome = error]
        PROVE  CodeModeInv'
    <3> DEFINE x == [ex[e] EXCEPT !.st = "done", !.outcome = error]
    <3>1. /\ DOMAIN x = ExFields /\ x.st = "done" /\ x.calls = ex[e].calls
          /\ x.hostCalls = ex[e].hostCalls /\ x.records = ex[e].records /\ x.drained = ex[e].drained
      BY <1>0 DEF GoodExecution, ExFields
    <3>2. ex' = [ex EXCEPT ![e] = x]
      BY <2>1
    <3> HIDE DEF x
    <3>3. GoodExecution(x)
      BY <1>0, <1>a, <2>0, <3>1 DEF GoodExecution
    <3>4. QED
      BY <3>2, <3>3, ExecutionMoves
  <2>2. ASSUME NEW error, NEW base, ex' = [ex EXCEPT ![e] = ReportedCalls(e, error, 0, base)]
        PROVE  CodeModeInv'
    BY <1>a, <2>0, <2>2, ReportedIsGood, ExecutionMoves
  <2>3. QED
    BY <1>1, <2>1, <2>2 DEF Refuse
<1>2. CASE Execute(e)
  <2> DEFINE x == [ex[e] EXCEPT !.st = "guest"]
  <2>0. ex[e].st = "idle" /\ ex' = [ex EXCEPT ![e] = x]
    BY <1>2 DEF Execute
  <2>1. /\ DOMAIN x = ExFields /\ x.st = "guest" /\ x.calls = ex[e].calls
        /\ x.hostCalls = ex[e].hostCalls
    BY <1>0 DEF GoodExecution, ExFields
  <2> HIDE DEF x
  <2>2. x.calls = <<>> /\ x.hostCalls \in Nat
    BY <1>0, <2>0, <2>1 DEF GoodExecution
  <2>3. Len(x.calls) <= x.hostCalls /\ x.calls \in Seq(CallRecords)
    BY <2>2
  <2>4. GoodExecution(x)
    BY <2>1, <2>2, <2>3 DEF GoodExecution
  <2>5. QED
    BY <2>0, <2>4, ExecutionMoves
<1>3. CASE InstantiateFails(e)
  <2>1. ex[e].st = "guest" /\ ex[e].hostCalls = 0
    BY <1>3 DEF InstantiateFails
  <2>2. PICK base : ex' = [ex EXCEPT ![e] = ReportedCalls(e, "Execution", 0, base)]
    BY <1>3 DEF InstantiateFails
  <2>3. Len(ex[e].calls) = 0 /\ ex[e].calls \in Seq(CallRecords)
    BY <1>0, <2>1 DEF GoodExecution
  <2>4. LiveCalls(ex[e].calls) = {}
    BY <2>3 DEF LiveCalls
  <2>5. QED
    BY <2>2, <2>4, ReportedIsGood, ExecutionMoves
<1>4. QED
  BY <1>1, <1>2, <1>3

(* The script asks its host: each call is charged before it is made.       *)
LEMMA ConsumeFields ==
  ASSUME CodeModeInv, NEW e \in Executions
  PROVE  /\ DOMAIN Consume(e) = ExFields /\ Consume(e).st = ex[e].st
         /\ Consume(e).calls = ex[e].calls /\ Consume(e).hostCalls \in Nat
         /\ Consume(e).hostCalls >= ex[e].hostCalls
         /\ Allowed(e) => Consume(e).hostCalls = ex[e].hostCalls + 1
<1>1. DOMAIN ex[e] = ExFields /\ ex[e].hostCalls \in Nat
  BY DEF CodeModeInv, GoodExecution
<1>2. CASE ex[e].hostCalls >= MaxHostCalls
  <2>1. Consume(e) = [ex[e] EXCEPT !.limited = TRUE]
    BY <1>2 DEF Consume
  <2>2. ~ Allowed(e)
    BY <1>1, <1>2, CodeModeAssumption DEF Allowed
  <2>3. QED
    BY <1>1, <2>1, <2>2 DEF ExFields
<1>3. CASE ~(ex[e].hostCalls >= MaxHostCalls)
  <2>1. Consume(e) = [ex[e] EXCEPT !.hostCalls = ex[e].hostCalls + 1]
    BY <1>3 DEF Consume
  <2>2. QED
    BY <1>1, <2>1 DEF ExFields
<1>4. QED
  BY <1>2, <1>3

LEMMA GuestSteps ==
  ASSUME CodeModeInv, NEW e \in Executions,
         \/ \E kind \in {"log", "other"} : Request(e, kind)
         \/ NextCompletion(e) \/ CpuDeadline(e) \/ GuestReturns(e)
  PROVE  CodeModeInv'
<1>0. /\ GoodExecution(ex[e]) /\ ex[e].st = "guest" /\ RunningExecutions(e)
      /\ DOMAIN ex[e] = ExFields /\ ex[e].hostCalls \in Nat /\ ex[e].hostCalls >= ex[e].hostCalls
  BY DEF CodeModeInv, Request, NextCompletion, CpuDeadline, GuestReturns, RunningExecutions, GoodExecution
<1>1. ASSUME NEW kind, Request(e, kind) PROVE CodeModeInv'
  <2> DEFINE s == Consume(e)
             x == IF Allowed(e) /\ kind = "log" /\ s.logs < MaxLogEntries
                  THEN [s EXCEPT !.logs = s.logs + 1] ELSE s
  <2>1. ex' = [ex EXCEPT ![e] = x]
    BY <1>1 DEF Request
  <2>2. /\ DOMAIN s = ExFields /\ s.st = "guest" /\ s.calls = ex[e].calls
        /\ s.hostCalls \in Nat /\ s.hostCalls >= ex[e].hostCalls
    BY <1>0, ConsumeFields
  <2> HIDE DEF s
  <2>3. /\ DOMAIN x = ExFields /\ x.st = "guest" /\ x.calls = ex[e].calls
        /\ x.hostCalls \in Nat /\ x.hostCalls >= ex[e].hostCalls
    BY <2>2 DEF ExFields
  <2> HIDE DEF x
  <2>4. QED
    BY <1>0, <2>1, <2>3, RunsOn
<1>2. CASE NextCompletion(e)
  <2> DEFINE x == [ex[e] EXCEPT !.st = "waiting"]
  <2>1. ex' = [ex EXCEPT ![e] = x]
    BY <1>2 DEF NextCompletion
  <2>2. DOMAIN x = ExFields /\ x.st = "waiting" /\ x.calls = ex[e].calls /\ x.hostCalls = ex[e].hostCalls
    BY <1>0 DEF ExFields
  <2> HIDE DEF x
  <2>3. QED
    BY <1>0, <2>1, <2>2, RunsOn
<1>3. CASE CpuDeadline(e)
  <2>1. PICK cpu :
          \/ ex' = [ex EXCEPT ![e] = [ex[e] EXCEPT !.cpu = cpu, !.exhausted = TRUE,
                                                   !.st = "quiescing", !.response = "trap"]]
          \/ ex' = [ex EXCEPT ![e] = [ex[e] EXCEPT !.cpu = cpu]]
    BY <1>3 DEF CpuDeadline
  <2>2. CASE ex' = [ex EXCEPT ![e] = [ex[e] EXCEPT !.cpu = cpu, !.exhausted = TRUE,
                                                   !.st = "quiescing", !.response = "trap"]]
    <3> DEFINE x == [ex[e] EXCEPT !.cpu = cpu, !.exhausted = TRUE, !.st = "quiescing", !.response = "trap"]
    <3>1. DOMAIN x = ExFields /\ x.st = "quiescing" /\ x.calls = ex[e].calls /\ x.hostCalls = ex[e].hostCalls
      BY <1>0 DEF ExFields
    <3>2. ex' = [ex EXCEPT ![e] = x]
      BY <2>2
    <3> HIDE DEF x
    <3>3. QED
      BY <1>0, <3>1, <3>2, RunsOn
  <2>3. CASE ex' = [ex EXCEPT ![e] = [ex[e] EXCEPT !.cpu = cpu]]
    <3> DEFINE x == [ex[e] EXCEPT !.cpu = cpu]
    <3>1. DOMAIN x = ExFields /\ x.st = "guest" /\ x.calls = ex[e].calls /\ x.hostCalls = ex[e].hostCalls
      BY <1>0 DEF ExFields
    <3>2. ex' = [ex EXCEPT ![e] = x]
      BY <2>3
    <3> HIDE DEF x
    <3>3. QED
      BY <1>0, <3>1, <3>2, RunsOn
  <2>4. QED
    BY <2>1, <2>2, <2>3
<1>4. CASE GuestReturns(e)
  <2>1. PICK r : ex' = [ex EXCEPT ![e] = [ex[e] EXCEPT !.st = "quiescing", !.response = r]]
    BY <1>4 DEF GuestReturns
  <2> DEFINE x == [ex[e] EXCEPT !.st = "quiescing", !.response = r]
  <2>2. DOMAIN x = ExFields /\ x.st = "quiescing" /\ x.calls = ex[e].calls /\ x.hostCalls = ex[e].hostCalls
    BY <1>0 DEF ExFields
  <2>3. ex' = [ex EXCEPT ![e] = x]
    BY <2>1
  <2> HIDE DEF x
  <2>4. QED
    BY <1>0, <2>2, <2>3, RunsOn
<1>5. QED
  BY <1>1, <1>2, <1>3, <1>4

LEMMA SubmitStep ==
  ASSUME CodeModeInv, NEW e \in Executions, NEW kind \in Kinds, Submit(e, kind)
  PROVE  CodeModeInv'
<1>0. /\ GoodExecution(ex[e]) /\ ex[e].st = "guest" /\ RunningExecutions(e)
  BY DEF CodeModeInv, Submit, RunningExecutions
<1>s. /\ DOMAIN Consume(e) = ExFields /\ Consume(e).st = "guest"
      /\ Consume(e).calls = ex[e].calls /\ Consume(e).hostCalls \in Nat
      /\ Consume(e).hostCalls >= ex[e].hostCalls
  BY <1>0, ConsumeFields
<1>1. CASE ~ Allowed(e)
  <2>1. ex' = [ex EXCEPT ![e] = Consume(e)]
    BY <1>1 DEF Submit
  <2>2. QED
    BY <1>0, <1>s, <2>1, RunsOn
<1>2. CASE Allowed(e)
  <2> DEFINE call == [kind |-> kind, st |-> "queued"]
             x == [Consume(e) EXCEPT !.calls = Append(ex[e].calls, call)]
  <2>1. ex' = [ex EXCEPT ![e] = x]
    BY <1>2 DEF Submit
  <2>2. call \in CallRecords
    BY DEF CallRecords
  <2> HIDE DEF call
  <2>3. /\ DOMAIN x = ExFields /\ x.st = "guest" /\ x.calls = Append(ex[e].calls, call)
        /\ x.hostCalls = ex[e].hostCalls + 1
    BY <1>s, <1>2, ConsumeFields DEF ExFields
  <2> HIDE DEF x
  <2>4. /\ ex[e].calls \in Seq(CallRecords) /\ ex[e].hostCalls \in Nat
        /\ Len(ex[e].calls) <= ex[e].hostCalls /\ Len(ex[e].calls) \in Nat
    BY <1>0 DEF GoodExecution
  <2>5. x.calls \in Seq(CallRecords) /\ Len(x.calls) = Len(ex[e].calls) + 1
    BY <2>2, <2>3, <2>4
  <2>6. GoodExecution(x)
    BY <2>3, <2>4, <2>5 DEF GoodExecution
  <2>7. QED
    BY <2>1, <2>6, ExecutionMoves
<1>3. QED
  BY <1>1, <1>2

(* The tasks of host calls: an execution that is done and was not cut      *)
(* short has none that could still move.                                   *)
LEMMA TaskSteps ==
  ASSUME CodeModeInv, NEW e \in Executions, NEW i \in DOMAIN ex[e].calls,
         WaitForCompletion(e, i) \/ Acquire(e, i) \/ CallTool(e, i) \/ Cancelled(e, i)
  PROVE  CodeModeInv'
<1>0. DOMAIN ex[e] = ExFields
  BY DEF CodeModeInv, GoodExecution
<1>1. CASE WaitForCompletion(e, i)
  <2> DEFINE x == [ex[e] EXCEPT !.st = "guest", !.calls = WithCall(ex[e].calls, i, "joined")]
  <2>1. ex' = [ex EXCEPT ![e] = x]
    BY <1>1 DEF WaitForCompletion, WithCall
  <2>2. /\ DOMAIN x = ExFields /\ x.st = "guest" /\ x.calls = WithCall(ex[e].calls, i, "joined")
        /\ x.hostCalls = ex[e].hostCalls /\ x.outcome = ex[e].outcome
    BY <1>0 DEF ExFields
  <2>3. ex[e].st = "waiting" /\ i \in LiveCalls(ex[e].calls) \cup InState(e, {"ended"})
    BY <1>1 DEF WaitForCompletion
  <2> HIDE DEF x
  <2>4. QED
    BY <2>1, <2>2, <2>3, CallMoves
<1>2. CASE Acquire(e, i)
  <2> DEFINE x == [ex[e] EXCEPT !.calls = WithCall(ex[e].calls, i, "running")]
  <2>1. ex' = [ex EXCEPT ![e] = x]
    BY <1>2 DEF Acquire, WithCall
  <2>2. /\ DOMAIN x = ExFields /\ x.st = ex[e].st /\ x.calls = WithCall(ex[e].calls, i, "running")
        /\ x.hostCalls = ex[e].hostCalls /\ x.outcome = ex[e].outcome
    BY <1>0 DEF ExFields
  <2>3. i \in LiveCalls(ex[e].calls)
    BY <1>2 DEF Acquire, InState, LiveCalls
  <2> HIDE DEF x
  <2>4. QED
    BY <2>1, <2>2, <2>3, CallMoves
<1>3. CASE CallTool(e, i)
  <2>1. PICK S : ex' = [ex EXCEPT ![e] = [ex[e] EXCEPT !.calls = WithCall(ex[e].calls, i, "ended"),
                                                       !.records = S]]
    BY <1>3 DEF CallTool, WithCall
  <2> DEFINE x == [ex[e] EXCEPT !.calls = WithCall(ex[e].calls, i, "ended"), !.records = S]
  <2>2. /\ DOMAIN x = ExFields /\ x.st = ex[e].st /\ x.calls = WithCall(ex[e].calls, i, "ended")
        /\ x.hostCalls = ex[e].hostCalls /\ x.outcome = ex[e].outcome
    BY <1>0 DEF ExFields
  <2>3. i \in LiveCalls(ex[e].calls)
    BY <1>3 DEF CallTool, InState, LiveCalls
  <2>4. ex' = [ex EXCEPT ![e] = x]
    BY <2>1
  <2> HIDE DEF x
  <2>5. QED
    BY <2>2, <2>3, <2>4, CallMoves
<1>4. CASE Cancelled(e, i)
  <2> DEFINE x == [ex[e] EXCEPT !.calls = WithCall(ex[e].calls, i, "aborted")]
  <2>1. ex' = [ex EXCEPT ![e] = x]
    BY <1>4 DEF Cancelled, WithCall
  <2>2. /\ DOMAIN x = ExFields /\ x.st = ex[e].st /\ x.calls = WithCall(ex[e].calls, i, "aborted")
        /\ x.hostCalls = ex[e].hostCalls /\ x.outcome = ex[e].outcome
    BY <1>0 DEF ExFields
  <2>3. i \in LiveCalls(ex[e].calls)
    BY <1>4 DEF Cancelled, InState, LiveCalls
  <2> HIDE DEF x
  <2>4. QED
    BY <2>1, <2>2, <2>3, CallMoves
<1>5. QED
  BY <1>1, <1>2, <1>3, <1>4

(* The ways out of an execution.                                           *)
LEMMA EndOfExecution ==
  ASSUME CodeModeInv, NEW e \in Executions, Report(e) \/ Timeout(e) \/ Abandon(e)
  PROVE  CodeModeInv'
<1>1. CASE Report(e)
  <2>1. PICK outcome, logs, base : ex' = [ex EXCEPT ![e] = ReportedCalls(e, outcome, logs, base)]
    BY <1>1 DEF Report
  <2>2. LiveCalls(ex[e].calls) = {}
    BY <1>1 DEF Report, Quiesced, InState, LiveCalls
  <2>3. QED
    BY <2>1, <2>2, ReportedIsGood, ExecutionMoves
<1>2. CASE Timeout(e)
  <2>1. PICK base : ex' = [ex EXCEPT ![e] = ReportedCalls(e, "Timeout", 0, base)]
    BY <1>2 DEF Timeout
  <2>2. QED
    BY <2>1, ReportedIsGood, ExecutionMoves
<1>3. CASE Abandon(e)
  BY <1>3, AbandonedIsGood, ExecutionMoves DEF Abandon
<1>4. QED
  BY <1>1, <1>2, <1>3

LEMMA CodeModeInvStep == CodeModeInv /\ [CodeModeNext]_codeModeVars => CodeModeInv'
<1>1. ASSUME CodeModeInv, UNCHANGED codeModeVars PROVE CodeModeInv'
  BY <1>1 DEF codeModeVars, CodeModeInv
<1>2. QED
  BY <1>1, StartSteps, GuestSteps, SubmitStep, TaskSteps, EndOfExecution DEF CodeModeNext

-----------------------------------------------------------------------------
McpInv == RegistryInv /\ SubscriptionsInv /\ GatewayInv /\ CodeModeInv

(* However the requests, updates, filters, sessions, calls and executions  *)
(* of an MCP gateway interleave, and wherever they are dropped: a dynamic  *)
(* server is refreshed by one request at a time and never left locked, a   *)
(* server name has one filter in a runtime, a call is served by the entry  *)
(* that was checked, sessions exceed their limit by less than the requests *)
(* in flight, and an execution that reports has told of all its tool calls *)
(* (tools/dynamic.rs, uniqueness.rs, mcp.rs, codemode/engine.rs).          *)
THEOREM GatewayTasksKeepState == McpSpec => []McpStateKept
<1>1. McpInit => McpInv
  BY RegistryInvInit, SubscriptionsInvInit, GatewayInvInit, CodeModeInvInit DEF McpInit, McpInv
<1>2. McpInv /\ [McpNext]_mcpVars => McpInv'
  <2> SUFFICES ASSUME McpInv, [McpNext]_mcpVars PROVE McpInv'
    OBVIOUS
  <2>1. /\ [RegistryNext]_registryVars /\ [SubscriptionsNext]_subscriptionVars
        /\ [GatewayNext]_gatewayVars /\ [CodeModeNext]_codeModeVars
    BY DEF McpNext, mcpVars
  <2>2. QED
    BY <2>1, RegistryInvStep, SubscriptionsInvStep, GatewayInvStep, CodeModeInvStep DEF McpInv
<1>3. McpInv => McpStateKept
  BY RegistryInvImplies, SubscriptionsInvImplies, GatewayInvImplies, CodeModeInvImplies
  DEF McpInv, McpStateKept
<1>4. QED
  BY <1>1, <1>2, <1>3, PTL DEF McpSpec
=============================================================================
