---------------------------- MODULE HttpPipeline ----------------------------
(***************************************************************************)
(* One request through the HTTP connection manager                         *)
(* (http_connection_manager.rs, http_filters.rs, route.rs, upgrades.rs):   *)
(* the routing state is loaded once, the route's filters run in order and  *)
(* may answer or ask for a new route, the route's action answers, and the  *)
(* filters that let the request pass see the response in reverse order.    *)
(* The listener may replace the routing state at any step.                 *)
(*                                                                         *)
(* A routing state is its version; a route is [version, name], where the   *)
(* name is any the request may match. What a filter decides, what the      *)
(* request asks for and how the upstream answers are inputs.               *)
(***************************************************************************)
EXTENDS Integers, Sequences, SequencesExt, FiniteSets, TLC

CONSTANTS
    ChainLength,    \* filters of the connection manager
    MaxUpdates,     \* routing states pushed by the listener
    RouteNames      \* routes of a routing state

ASSUME PipelineAssumption == ChainLength \in Nat /\ MaxUpdates \in Nat \ {0} /\ RouteNames # {}

VARIABLES
    table,      \* routing_state: the version in force, NoTable before the first and after a removal
    versions,   \* versions pushed so far
    rq          \* the request

pipelineVars == <<table, versions, rq>>

NoTable == 0
NoRoute == [version |-> 0, name |-> "none"]

\* Filters: what a kind may decide on a request, and whether it looks at responses.
FilterKinds == {"Wasm", "RateLimit", "Rbac", "ExternalProcessor", "JwtAuthentication", "Cors",
                "McpGateway", "UserRateLimit", "CedarPolicy", "OAuth2"}
FilterDecision == {"Continue", "Reroute", "DirectResponse"}
RequestDecisions(kind) ==
    IF kind \in {"ExternalProcessor", "JwtAuthentication"} THEN FilterDecision ELSE FilterDecision \ {"Reroute"}
ResponseDecisions(kind) ==
    IF kind \in {"ExternalProcessor", "McpGateway", "Cors", "Wasm"} THEN {"Continue", "DirectResponse"} ELSE {"Continue"}

\* The override of a route: no entry, disabled, settings of a kind that can be overridden, or
\* settings that build no filter (compile_route_http_filters, from_filter_override).
Overrides(kind) ==
    {"inherit", "disabled", "empty"} \cup
    (IF kind \in {"RateLimit", "Rbac", "ExternalProcessor", "Cors"} THEN {"settings"} ELSE {})
Runs(override) == override \in {"inherit", "settings"}

\* SyntheticHttpResponse and the statuses of a failed acquisition (RouteAction::to_response).
AcquireStatus ==
    [ClusterNotFound |-> 500, CircuitBreakerOverflow |-> 503, Connect |-> 503, RefusedStream |-> 503, Io |-> 503,
     PerTryTimeout |-> 504, RouteTimeout |-> 504, Reset |-> 502, Protocol |-> 502, Other |-> 500]

Resting == [phase |-> "idle", snapshot |-> NoTable, route |-> NoRoute, pos |-> 1, active |-> <<>>, ran |-> <<>>,
            back |-> <<>>, status |-> 0, mutated |-> FALSE, permit |-> FALSE, tunnel |-> FALSE]

PipelineInit == table = NoTable /\ versions = 0 /\ rq = Resting

-----------------------------------------------------------------------------
\* update_route, remove_route.
UpdateRoute ==
    /\ versions < MaxUpdates
    /\ versions' = versions + 1
    /\ table' = versions + 1
    /\ UNCHANGED rq
RemoveRoute == table # NoTable /\ table' = NoTable /\ UNCHANGED <<versions, rq>>

In(phase) == rq.phase = phase
Step(r) == rq' = r /\ UNCHANGED <<table, versions>>
Answered(status, mutated) == [rq EXCEPT !.phase = "response", !.status = status, !.mutated = mutated, !.permit = FALSE]

\* handle_request and TransactionSvc::call: one load of the routing state; without one, 404; a
\* request reject_request_if_invalid refuses, 400. Neither meets a filter.
Begin ==
    /\ In("idle")
    /\ \/ table = NoTable /\ Step([rq EXCEPT !.phase = "done", !.status = 404])
       \/ table # NoTable /\ Step([rq EXCEPT !.phase = "done", !.status = 400])
       \/ table # NoTable /\ Step([rq EXCEPT !.phase = "match", !.snapshot = table])

\* match_request_route: any route of the snapshot, or none.
\* Mutant: a reroute consults the routing state in force.
MatchedInForce(name) == [version |-> table, name |-> name]
Matched(name) == [version |-> rq.snapshot, name |-> name]

MatchRequestRoute ==
    /\ In("match")
    /\ \/ \E name \in RouteNames : Step([rq EXCEPT !.phase = "filters", !.route = Matched(name)])
       \/ Step([Answered(404, FALSE) EXCEPT !.route = NoRoute])

Visit(kind, decision) == [pos |-> rq.pos, kind |-> kind, route |-> rq.route, decision |-> decision]

\* The filter loop: a filter that answers is not among those that see the response.
\* Mutant: the filter is recorded before it decides.
AfterDecisionEager(kind, decision) ==
    LET passed == [rq EXCEPT !.active = Append(@, Visit(kind, decision)), !.pos = @ + 1, !.ran = Append(@, Visit(kind, decision))] IN
    CASE decision = "Continue" -> passed
      [] decision = "Reroute" -> [passed EXCEPT !.phase = "match"]
      [] OTHER -> [passed EXCEPT !.phase = "response", !.status = 403, !.mutated = TRUE]
AfterDecision(kind, decision) ==
    LET passed == [rq EXCEPT !.active = Append(@, Visit(kind, decision)), !.pos = @ + 1, !.ran = Append(@, Visit(kind, decision))] IN
    CASE decision = "Continue" -> passed
      [] decision = "Reroute" -> [passed EXCEPT !.phase = "match"]
      [] OTHER -> [Answered(403, TRUE) EXCEPT !.pos = @ + 1, !.ran = Append(@, Visit(kind, decision))]

ApplyRequest ==
    /\ In("filters")
    /\ rq.pos <= ChainLength
    /\ \E kind \in FilterKinds :
          \/ \E o \in Overrides(kind) : ~Runs(o) /\ Step([rq EXCEPT !.pos = @ + 1])
          \/ \E o \in Overrides(kind), d \in RequestDecisions(kind) : Runs(o) /\ Step(AfterDecision(kind, d))

ChainDone == In("filters") /\ rq.pos > ChainLength

\* Action::DirectResponse and Action::Redirect: the configured status; an invalid location is an error.
AnswerDirectly == ChainDone /\ \E status \in {200, 301} : Step(Answered(status, TRUE))

\* An Err leaves the handler by `?`: neither mutations nor response filters; handle_request makes
\* it a 500.
Failed == [rq EXCEPT !.phase = "done", !.status = 500, !.permit = FALSE]
RedirectFails == ChainDone /\ Step(Failed)

\* acquire_http_upstream takes the request permit.
AcquireUpstream ==
    /\ ChainDone
    /\ \/ Step([rq EXCEPT !.phase = "prepare", !.permit = TRUE])
       \/ \E error \in DOMAIN AcquireStatus : Step(Answered(AcquireStatus[error], TRUE))
       \/ Step(Failed)

\* is_valid_websocket_upgrade_request on the headers Connection and Upgrade.
HeaderTexts == {"absent", "token", "other", "notAscii"}
WebsocketUpgrade(connection, upgrade) ==
    IF "absent" \in {connection, upgrade} THEN "no"
    ELSE IF "notAscii" \in {connection, upgrade} THEN "notAscii"
    ELSE IF connection = "other" THEN "no"
    ELSE IF upgrade = "other" THEN "unsupported"
    ELSE "yes"

\* apply_preflight_functions: CONNECT, and Connection: upgrade, are refused.
Disallowed(method, connection) == method = "CONNECT" \/ connection = "token"

\* The rewrite of the path may fail; the version becomes the upstream's, which is what a
\* websocket upgrade is tested against.
Prepare ==
    /\ In("prepare")
    /\ \/ Step(Failed)
       \/ \E connection, upgrade \in HeaderTexts, enabled \in BOOLEAN, method \in {"GET", "CONNECT"}, version \in {1, 2} :
             LET asked == WebsocketUpgrade(connection, upgrade) IN
             Step(IF asked = "unsupported" THEN Answered(403, TRUE)
                  ELSE IF asked = "notAscii" THEN Answered(400, TRUE)
                  ELSE IF asked = "yes" /\ enabled /\ version = 1 THEN [rq EXCEPT !.phase = "upgrade"]
                  ELSE IF asked = "yes" THEN Answered(400, TRUE)
                  ELSE IF Disallowed(method, connection) THEN Answered(403, TRUE)
                  ELSE [rq EXCEPT !.phase = "send"])

\* handle_websocket_upgrade: 101 leaves a tunnel behind.
UpgradeWebsocket ==
    /\ In("upgrade")
    /\ \/ Step([Answered(101, TRUE) EXCEPT !.tunnel = TRUE])
       \/ \E status \in {200, 502} : Step(Answered(status, TRUE))

\* The upstream's answer, or 502 for an error; the permit goes back when the headers arrive.
\* Mutant: the permit lives until the response filters have run.
SendKeepingPermit == In("send") /\ \E status \in {200, 502} : Step([Answered(status, TRUE) EXCEPT !.permit = rq.permit])
Send == In("send") /\ \E status \in {200, 502} : Step(Answered(status, TRUE))

\* The filters that passed, last first; one that answers replaces the response and the rest go on.
ApplyResponse ==
    /\ In("response")
    /\ rq.active # <<>>
    /\ \E d \in ResponseDecisions(Last(rq.active).kind) :
          Step([rq EXCEPT !.active = Front(@), !.back = Append(@, Last(rq.active)),
                          !.status = IF d = "DirectResponse" THEN 403 ELSE @])
Respond == In("response") /\ rq.active = <<>> /\ Step([rq EXCEPT !.phase = "done"])

\* The connection closes: the future is dropped, and with it the permit.
Cancel == ~In("idle") /\ ~In("done") /\ Step([rq EXCEPT !.phase = "done", !.status = 0, !.permit = FALSE])
NextRequest == In("done") /\ Step(Resting)

PipelineStep ==
    \/ Begin \/ MatchRequestRoute \/ ApplyRequest \/ AnswerDirectly \/ RedirectFails \/ AcquireUpstream
    \/ Prepare \/ UpgradeWebsocket \/ Send \/ ApplyResponse \/ Respond
PipelineNext == UpdateRoute \/ RemoveRoute \/ PipelineStep \/ Cancel \/ NextRequest
PipelineSpec == PipelineInit /\ [][PipelineNext]_pipelineVars

-----------------------------------------------------------------------------
Visits == Range(rq.ran)

\* No filter position runs twice for a request, however often it is rerouted; the filters that see
\* the response are exactly those that let the request pass, in reverse order; and a filter that
\* answered the request never sees the response it made. Positions tell visits apart, so the order
\* of the positions is the order of the visits.
ResponseMirrorsRequest ==
    /\ \A i, j \in DOMAIN rq.ran : i < j => rq.ran[i].pos < rq.ran[j].pos
    /\ \A i, j \in DOMAIN rq.active : i < j => rq.active[i].pos < rq.active[j].pos
    /\ \A i, j \in DOMAIN rq.back : i < j => rq.back[i].pos > rq.back[j].pos
    /\ \A v \in Range(rq.active), w \in Range(rq.back) : v.pos < w.pos
    /\ Range(rq.active) \cup Range(rq.back) = {v \in Visits : v.decision # "DirectResponse"}

\* Whatever the listener pushes meanwhile, every filter a request meets and the route that
\* answers it come from the one routing state loaded when the request began.
OneRoutingState == \A v \in Visits \cup {[route |-> rq.route]} : v.route.version \in {rq.snapshot, NoTable}

\* A request holds its circuit-breaker permit only while the upstream owes it headers.
PermitOnlyUpstream == rq.permit => rq.phase \in {"prepare", "upgrade", "send"}

PipelineTypeOK ==
    /\ table \in 0..MaxUpdates /\ versions \in 0..MaxUpdates
    /\ rq.phase \in {"idle", "match", "filters", "prepare", "upgrade", "send", "response", "done"}
    /\ rq.pos \in 1..ChainLength + 1

\* A request goes through the filters of one routing state, its response
\* through those that saw it, and the permit is held for the upstream only.
PipelineKept == OneRoutingState /\ ResponseMirrorsRequest /\ PermitOnlyUpstream

-----------------------------------------------------------------------------
(***************************************************************************)
(* What the HTTP connection manager decides about a request before and     *)
(* after its filters: the virtual host its host selects                    *)
(* (VirtualHostTable), the route its path selects and the path it is       *)
(* rewritten to (config/.../route.rs), the client address trusted from     *)
(* x-forwarded-for (http_modifiers.rs) and the location of a redirect      *)
(* (redirect.rs). Each is a function of its input, evaluated on every      *)
(* bounded input and compared with a reference.                            *)
(*                                                                         *)
(* Hosts and paths are sequences over small alphabets: "a" and "b" are     *)
(* characters, "port" is a ":" with digits, "dot" the final dot of a host. *)
(***************************************************************************)

CONSTANTS
    MaxDomains,     \* domains in a route configuration
    MaxHops         \* xff_num_trusted_hops, and the entries of the header

ASSUME RoutingAssumption == MaxDomains \in Nat /\ MaxHops \in Nat

VARIABLE eval       \* [what, in, out]: a decision, its input and its result

Idle == [what |-> "idle"]
RoutingInit == eval = Idle

Texts(S, n) == UNION {[1..k -> S] : k \in 0..n}
Evaluate(what, in, out) == eval' = [what |-> what, in |-> in, out |-> out]

-----------------------------------------------------------------------------
\* Virtual hosts. A domain belongs to the virtual host named by its position.
MatchKinds == <<"Wildcard", "Prefix", "Suffix", "Exact">>
Exact(t)  == [kind |-> "Exact", text |-> t]
Suffix(t) == [kind |-> "Suffix", text |-> t]
Prefix(t) == [kind |-> "Prefix", text |-> t]
Wildcard  == [kind |-> "Wildcard", text |-> <<>>]

\* try_from_smol_str: one star, at an end.
MatchHost(t) ==
    IF t = <<"*">> THEN Wildcard
    ELSE IF Cardinality({i \in DOMAIN t : t[i] = "*"}) > 1 THEN [kind |-> "error", text |-> t]
    ELSE IF Cardinality({i \in DOMAIN t : t[i] = "*"}) = 0 THEN Exact(t)
    ELSE IF t[1] = "*" THEN Suffix(Tail(t))
    ELSE IF Last(t) = "*" THEN Prefix(Front(t))
    ELSE [kind |-> "error", text |-> t]

DomainTexts == {<<"*">>, <<"a">>, <<"a", "b">>, <<"b", "port">>, <<"a", "b", "port">>,
                <<"*", "b">>, <<"*", "a", "b">>, <<"*", "b", "port">>, <<"*", "port">>,
                <<"a", "*">>, <<"a", "b", "*">>, <<"b", "*">>}
HostTexts == {t \o d \o p : t \in Texts({"a", "b"}, 3) \ {<<>>}, d \in {<<>>, <<"dot">>}, p \in {<<>>, <<"port">>}}

StripDot(h) == IF h # <<>> /\ Last(h) = "dot" THEN Front(h) ELSE h
StripPort(h) == IF h # <<>> /\ Last(h) = "port" THEN <<Front(h)>> ELSE <<>>   \* an Option
RequestHost(h) == [full |-> h, withoutPort |-> StripPort(h)]

\* The texts of one kind, longest first, each with the position of its domain.
\* Mutant: in the order of the configuration.
CompileUnsorted(domains, kind) ==
    SelectSeq([i \in DOMAIN domains |-> [text |-> domains[i].text, vh |-> i, kind |-> domains[i].kind]],
              LAMBDA d : d.kind = kind)
Compile(domains, kind) ==
    SortSeq(SelectSeq([i \in DOMAIN domains |-> [text |-> domains[i].text, vh |-> i, kind |-> domains[i].kind]],
                      LAMBDA d : d.kind = kind),
            LAMBDA d, e : Len(d.text) > Len(e.text))

NoMatch == [kind |-> "none", len |-> 0, vh |-> 0]
FirstOf(s, Test(_), kind) ==
    LET hits == {i \in DOMAIN s : Test(s[i].text)} IN
    IF hits = {} THEN NoMatch
    ELSE LET i == CHOOSE i \in hits : \A j \in hits : i <= j
         IN [kind |-> kind, len |-> Len(s[i].text), vh |-> s[i].vh]

MatchSingle(domains, raw) ==
    LET stripped == StripDot(raw)
        exact  == FirstOf(Compile(domains, "Exact"), LAMBDA t : t = stripped, "Exact")
        suffix == FirstOf(Compile(domains, "Suffix"),
                          LAMBDA t : Len(stripped) > Len(t) /\ IsSuffix(t, stripped), "Suffix")
        prefix == FirstOf(Compile(domains, "Prefix"), LAMBDA t : Len(raw) > Len(t) /\ IsPrefix(t, raw), "Prefix")
    IN IF exact # NoMatch THEN exact ELSE IF suffix # NoMatch THEN suffix ELSE prefix

Rank(kind) == CHOOSE i \in 0..4 : (i = 0 /\ kind = "none") \/ (i > 0 /\ MatchKinds[i] = kind)
Beats(m, n) == Rank(m.kind) > Rank(n.kind) \/ (m.kind = n.kind /\ m.len > n.len)

\* Mutant: the host without its port is asked only when the full one matches nothing.
SelectFullFirst(domains, host) ==
    LET full == MatchSingle(domains, host.full)
        bare == IF host.withoutPort = <<>> THEN NoMatch ELSE MatchSingle(domains, host.withoutPort[1])
        matched == IF full = NoMatch THEN bare ELSE full
        wildcard == FirstOf(Compile(domains, "Wildcard"), LAMBDA t : TRUE, "Wildcard")
    IN IF matched # NoMatch THEN matched ELSE wildcard

Select(domains, host) ==
    LET full == MatchSingle(domains, host.full)
        bare == IF host.withoutPort = <<>> THEN NoMatch ELSE MatchSingle(domains, host.withoutPort[1])
        matched == IF full.kind = "Exact" \/ ~Beats(bare, full) THEN full ELSE bare
        wildcard == FirstOf(Compile(domains, "Wildcard"), LAMBDA t : TRUE, "Wildcard")
    IN IF matched # NoMatch THEN matched ELSE wildcard

\* The score a single domain has for a host (MatchHost::eval_lpm).
EvalHost(d, h) ==
    LET hit == CASE d.kind = "Exact"  -> d.text = StripDot(h)
                 [] d.kind = "Suffix" -> Len(StripDot(h)) > Len(d.text) /\ IsSuffix(d.text, StripDot(h))
                 [] d.kind = "Prefix" -> Len(h) > Len(d.text) /\ IsPrefix(d.text, h)
                 [] OTHER -> TRUE
    IN IF hit THEN [kind |-> d.kind, len |-> Len(d.text), vh |-> 0] ELSE NoMatch
EvalLpm(d, host) ==
    IF EvalHost(d, host.full) # NoMatch \/ host.withoutPort = <<>> THEN EvalHost(d, host.full)
    ELSE EvalHost(d, host.withoutPort[1])

SelectVirtualHost ==
    /\ eval.what = "idle"
    /\ \E ds \in SUBSET DomainTexts :
          /\ Cardinality(ds) \in 1..MaxDomains
          /\ LET domains == [i \in 1..Cardinality(ds) |-> MatchHost(SetToSeq(ds)[i])] IN
             \E h \in HostTexts :
                Evaluate("host", [domains |-> domains, host |-> RequestHost(h)], Select(domains, RequestHost(h)))

-----------------------------------------------------------------------------
\* Routes: the part of the path a matcher matched, and the rewrite of the path.
Unmatched == -1
PathMatches(spec, path) ==
    CASE spec.kind = "Exact"  -> IF path = spec.text THEN Len(path) ELSE Unmatched
      [] spec.kind = "Prefix" -> IF IsPrefix(spec.text, path) THEN Len(spec.text) ELSE Unmatched
      [] spec.kind = "PathSeparatedPrefix" ->
            IF spec.text # <<>> /\ Last(spec.text) = "/" /\ path = Front(spec.text) THEN Len(path)
            ELSE IF IsPrefix(spec.text, path) THEN Len(spec.text) ELSE Unmatched

\* A route matches on its path, then its headers, then its query parameters.
MatchRequest(spec, path, headers, query) ==
    LET range == PathMatches(spec, path)
        headersMatched == range # Unmatched /\ headers
        queryMatched == headersMatched /\ query
    IN [matched |-> range # Unmatched /\ headersMatched /\ queryMatched,
        range |-> IF headersMatched THEN range ELSE Unmatched]

\* One header matcher on the values of its header ("bad" is not visible ASCII).
HeaderMatches(present, values, asEmpty, invert, wanted) ==
    LET Xor(p, q) == p # q IN
    IF values = <<>>
    THEN IF asEmpty THEN Xor(present \/ wanted = "", invert) ELSE present /\ Xor(FALSE, invert)
    ELSE Xor(\E i \in DOMAIN values : values[i] # "bad" /\ (present \/ values[i] = wanted), invert)

\* Mutant: the slash that ends the match is taken with it.
ApplyPrefixEager(prefix, path, range) == prefix \o SubSeq(path, range + 1, Len(path))

\* PathRewriteSpecifier::apply with a prefix; the query is kept beside the path.
ApplyPrefix(prefix, path, range) ==
    LET boundary == IF range > 0 /\ path[range] = "/" THEN range - 1 ELSE range
        remainder == SubSeq(path, boundary + 1, Len(path))
        kept == IF remainder # <<>> /\ remainder[1] = "/" /\ prefix # <<>> /\ Last(prefix) = "/"
                THEN Front(prefix) ELSE prefix
    IN IF kept \o remainder = <<>> THEN <<"/">> ELSE kept \o remainder

Paths == {<<"/">> \o t : t \in Texts({"a", "/"}, 3)}
PathSpecs == {[kind |-> k, text |-> t] :
                 k \in {"Exact", "Prefix", "PathSeparatedPrefix"},
                 t \in {<<"/">>, <<"/", "a">>, <<"/", "a", "/">>}}
RewritePrefixes == {<<"/">>, <<"/", "b">>, <<"/", "b", "/">>}

MatchRoute ==
    /\ eval.what = "idle"
    /\ \E s \in PathSpecs, p \in Paths, x \in RewritePrefixes, h \in BOOLEAN, q \in BOOLEAN :
          LET m == MatchRequest(s, p, h, q) IN
          Evaluate("path", [spec |-> s, path |-> p, prefix |-> x, headers |-> h, query |-> q],
                   [match |-> m, path |-> IF m.range = Unmatched THEN p ELSE ApplyPrefix(x, p, m.range)])

\* A header matcher asked about 0 to 2 values.
MatchHeader ==
    /\ eval.what = "idle"
    /\ \E present, asEmpty, invert \in BOOLEAN, vs \in Texts({"v", "w", "bad"}, 2) :
          Evaluate("header", [present |-> present, asEmpty |-> asEmpty, invert |-> invert, values |-> vs],
                   HeaderMatches(present, vs, asEmpty, invert, "v"))

-----------------------------------------------------------------------------
\* x-forwarded-for: the entries from left to right, an address or junk.
Entries == {"internal", "external", "junk"}
IsInternal(ip) == ip \in {"internal", "internalPeer"}
Valid(xff) == SelectSeq(xff, LAMBDA e : e # "junk")
FromRight(xff, n, default) == LET v == Valid(xff) IN IF Len(v) > n THEN v[Len(v) - n] ELSE default

\* Mutant: the hops are counted from the end of the list.
TrustedOneFurther(xff, peer, cfg) == [addr |-> FromRight(xff, cfg.hops, peer), single |-> FALSE]
TrustedClientAddress(xff, peer, cfg) ==
    IF (cfg.useRemote /\ cfg.hops = 0) \/ xff = <<"absent">> THEN [addr |-> peer, single |-> FALSE]
    ELSE IF cfg.useRemote /\ cfg.hops > 0 THEN [addr |-> FromRight(xff, cfg.hops - 1, peer), single |-> FALSE]
    ELSE IF ~cfg.useRemote /\ cfg.hops > 0 THEN [addr |-> FromRight(xff, cfg.hops, peer), single |-> FALSE]
    ELSE [addr |-> FromRight(xff, 0, peer), single |-> Len(Valid(xff)) = 1]

\* apply_xff_headers: the list sent on and the two x-envoy headers. sent: the
\* x-envoy headers the request came with.
XffHeaders(xff, peer, cfg, sent) ==
    LET trusted == TrustedClientAddress(xff, peer, cfg)
        absent == xff = <<"absent">>
        cleared == IF IsInternal(peer) THEN sent ELSE [external |-> "", internal |-> ""]
        setTrue == (cfg.useRemote /\ IsInternal(peer) /\ absent) \/ (trusted.single /\ IsInternal(trusted.addr))
        setFalse == (cfg.useRemote /\ ~IsInternal(peer) /\ absent) \/ (trusted.single /\ ~IsInternal(trusted.addr))
    IN IF ~cfg.useRemote /\ cfg.skipAppend THEN [xff |-> xff] @@ cleared
       ELSE [xff |-> IF cfg.useRemote /\ ~cfg.skipAppend THEN (IF absent THEN <<>> ELSE xff) \o <<peer>> ELSE xff,
             external |-> IF cfg.useRemote /\ cleared.external = "" /\ ~IsInternal(trusted.addr)
                          THEN trusted.addr ELSE cleared.external,
             internal |-> IF setTrue THEN "true" ELSE IF setFalse THEN "false" ELSE cleared.internal]

XffConfigs == [useRemote : BOOLEAN, skipAppend : BOOLEAN, hops : 0..MaxHops]
XffSent == {[external |-> "", internal |-> ""], [external |-> "forged", internal |-> "true"]}

ApplyXff ==
    /\ eval.what = "idle"
    /\ \E xff \in {<<"absent">>} \cup (Texts(Entries, MaxHops + 1) \ {<<>>}),
          peer \in {"internalPeer", "peer"}, cfg \in XffConfigs, sent \in XffSent :
          Evaluate("xff", [xff |-> xff, peer |-> peer, cfg |-> cfg, sent |-> sent],
                   [trusted |-> TrustedClientAddress(xff, peer, cfg).addr] @@ XffHeaders(xff, peer, cfg, sent))

-----------------------------------------------------------------------------
\* Redirects. A port 0 is an authority that names none; "" is an absent part.
DefaultPort(scheme) == CASE scheme = "http" -> 80 [] scheme = "https" -> 443 [] OTHER -> 0
NoAuthority == [host |-> "", port |-> 0]

\* Mutant: the default port of either scheme is left out.
StripDefaultPortAny(auth, scheme) == IF auth.port \in {80, 443} THEN [auth EXCEPT !.port = 0] ELSE auth
StripDefaultPort(auth, scheme) ==
    IF auth.port # 0 /\ auth.port = DefaultPort(scheme) THEN [auth EXCEPT !.port = 0] ELSE auth

\* The authority and the scheme the redirect starts from.
OriginalOf(action, req) ==
    LET filled == action.redirect # "none" \/ action.scheme # ""
        auth == IF req.uriAuthority # NoAuthority \/ ~filled THEN req.uriAuthority ELSE req.hostHeader
    IN [scheme |-> IF req.uriScheme # "" \/ ~filled THEN req.uriScheme ELSE req.listenerScheme,
        auth |-> IF action.scheme # "" THEN [auth EXCEPT !.port = 0] ELSE auth]

Redirect(action, req) ==
    LET orig == OriginalOf(action, req)
        scheme == IF action.scheme # "" THEN action.scheme ELSE orig.scheme
        auth == CASE action.redirect = "none" -> orig.auth
                  [] action.redirect = "Authority" -> [host |-> "new", port |-> action.port]
                  [] action.redirect = "Host" -> [host |-> "new", port |->
                        IF orig.auth.port = DefaultPort(orig.scheme) THEN 0 ELSE orig.auth.port]
                  [] action.redirect = "Port" -> [orig.auth EXCEPT !.port = action.port]
        final == IF auth # NoAuthority /\ scheme # "" THEN StripDefaultPort(auth, scheme) ELSE auth
    IN IF action.redirect = "Port" /\ orig.auth.host = "" THEN [error |-> TRUE]
       ELSE IF (scheme = "") # (final = NoAuthority) THEN [error |-> TRUE]
       ELSE [error |-> FALSE, scheme |-> scheme, auth |-> final]

Ports == {0, 80, 443, 8080}
RedirectActions == [redirect : {"none", "Authority", "Host", "Port"}, port : Ports, scheme : {"", "http", "https"}]
Authorities == {NoAuthority} \cup [host : {"old"}, port : Ports]
RedirectRequests ==
    [uriScheme : {""}, uriAuthority : {NoAuthority}, hostHeader : Authorities, listenerScheme : {"http", "https"}]
    \cup [uriScheme : {"http", "https"}, uriAuthority : Authorities \ {NoAuthority}, hostHeader : {NoAuthority},
          listenerScheme : {"http", "https"}]

ToRedirect ==
    /\ eval.what = "idle"
    /\ \E a \in {x \in RedirectActions : x.redirect = "Port" => x.port # 0}, r \in RedirectRequests :
          Evaluate("redirect", [action |-> a, req |-> r], Redirect(a, r))

-----------------------------------------------------------------------------
\* Header mutations of one header, seen as the sequence of its values. A level (route
\* configuration, virtual host, route) removes the header, then adds to it.
HeaderAppendAction == {"AppendIfExistsOrAdd", "AppendIfAbsent", "OverwriteIfExistsOrAdd", "OverwriteIfExists"}
Adds(level) == {<<>>} \cup {<<[action |-> a, value |-> v, keep |-> k]>> :
                              a \in HeaderAppendAction, v \in {level, "empty"}, k \in BOOLEAN}
LevelMutations(level) == [remove : BOOLEAN, add : {a \in Adds(level) : a # <<>> => (a[1].keep => a[1].value = "empty")}]

\* run_action: an empty value removes the header unless it is to be kept.
RunAction(header, add, appends) ==
    IF add.value = "empty" /\ ~add.keep THEN <<>>
    ELSE IF appends THEN Append(header, add.value)
    ELSE <<add.value>>
ApplyOption(header, add) ==
    CASE add.action = "AppendIfAbsent" /\ header # <<>> -> header
      [] add.action = "OverwriteIfExists" /\ header = <<>> -> header
      [] OTHER -> RunAction(header, add, add.action \in {"AppendIfExistsOrAdd", "AppendIfAbsent"})
ApplyPair(header, level) ==
    LET removed == IF level.remove THEN <<>> ELSE header
    IN IF level.add = <<>> THEN removed ELSE ApplyOption(removed, level.add[1])

\* recompute_mutation_flags: the flag of a routing state, computed when it is built.
HasMutations(levels) == \E i \in DOMAIN levels : levels[i].remove \/ levels[i].add # <<>>

\* Mutant: the most general level has the last word.
OrderGeneralLast(levels, mostSpecificWins) == IF mostSpecificWins THEN Reverse(levels) ELSE levels
Order(levels, mostSpecificWins) == IF mostSpecificWins THEN levels ELSE Reverse(levels)

\* levels: the route configuration's, the virtual host's and the route's.
ApplyMutations(header, levels, mostSpecificWins) ==
    IF ~HasMutations(levels) THEN header ELSE FoldLeft(ApplyPair, header, Order(levels, mostSpecificWins))

MutateHeaders ==
    /\ eval.what = "idle"
    /\ \E header \in {<<>>, <<"sent">>}, wins \in BOOLEAN,
          rc \in LevelMutations("rc"), vh \in LevelMutations("vh"), route \in LevelMutations("route") :
          Evaluate("mutate", [header |-> header, levels |-> <<rc, vh, route>>, wins |-> wins],
                   ApplyMutations(header, <<rc, vh, route>>, wins))

ForgetDecision == eval.what # "idle" /\ eval' = Idle

RoutingNext == SelectVirtualHost \/ MatchRoute \/ MatchHeader \/ ApplyXff \/ ToRedirect \/ MutateHeaders \/ ForgetDecision
RoutingSpec == RoutingInit /\ [][RoutingNext]_eval

-----------------------------------------------------------------------------
\* VirtualHostTable::select finds a domain no other domain of the configuration
\* scores above (MatchHost::eval_lpm, asked for each domain), with or without the
\* port of the host, and none only when no domain matches.
VhostIsBest ==
    eval.what = "host" =>
        LET domains == eval.in.domains
            Score(i) == EvalLpm(domains[i], eval.in.host)
        IN IF eval.out = NoMatch THEN \A i \in DOMAIN domains : Score(i) = NoMatch
           ELSE /\ Score(eval.out.vh) # NoMatch
                /\ \A i \in DOMAIN domains : ~Beats(Score(i), Score(eval.out.vh))

\* A prefix rewrite changes only what was matched: the segments of the path after
\* the matched prefix follow the new prefix, the path keeps its leading slash and
\* the rewrite itself joins prefix and remainder with no second slash and without
\* losing one that separated them.
RewriteKeepsRemainder ==
    eval.what = "path" /\ eval.out.match.matched =>
        LET in == eval.in
            rest == SubSeq(in.path, eval.out.match.range + 1, Len(in.path))
            cut == eval.out.match.range
            separated == (cut > 0 /\ in.path[cut] = "/") \/ (rest # <<>> /\ rest[1] = "/")
            bare == IF Last(in.prefix) = "/" THEN Front(in.prefix) ELSE in.prefix
        IN /\ IsSuffix(rest, eval.out.path) /\ eval.out.path[1] = "/"
           /\ separated => eval.out.path = bare \o <<"/">> \o
                               (IF cut > 0 /\ in.path[cut] = "/" THEN rest ELSE Tail(rest))

\* The address trusted as the client's and sent on as x-envoy-external-address is
\* never one the client could have put in the header itself: it is the peer's, or
\* the entry that the outermost of the trusted proxies appended.
TrustedIsNotForged ==
    eval.what = "xff" =>
        LET v == Valid(eval.in.xff)
            hops == IF eval.in.cfg.useRemote THEN eval.in.cfg.hops - 1 ELSE eval.in.cfg.hops
        IN /\ eval.out.trusted = eval.in.peer \/ (hops >= 0 /\ Len(v) > hops /\ eval.out.trusted = v[Len(v) - hops])
           /\ eval.out.external = "forged" => IsInternal(eval.in.peer)

\* A redirect leads to the port it is meant to: the one the action names, the
\* default one of a scheme that it changes, and otherwise the one the request came
\* to, whichever of these ports are written out.
RedirectKeepsPort ==
    eval.what = "redirect" /\ ~eval.out.error /\ eval.out.scheme # "" =>
        LET a == eval.in.action
            Effective(port, scheme) == IF port = 0 THEN DefaultPort(scheme) ELSE port
            from == IF eval.in.req.uriAuthority # NoAuthority THEN eval.in.req.uriAuthority ELSE eval.in.req.hostHeader
            fromScheme == IF eval.in.req.uriScheme # "" THEN eval.in.req.uriScheme ELSE eval.in.req.listenerScheme
        IN Effective(eval.out.auth.port, eval.out.scheme) =
               IF a.redirect \in {"Port", "Authority"} THEN Effective(a.port, eval.out.scheme)
               ELSE IF a.scheme # "" THEN DefaultPort(a.scheme)
               ELSE Effective(from.port, fromScheme)

\* The level meant to win does: what the levels before it did, and the header the request came
\* with, leave no trace once it removes the header or sets it, and no level after it is lost.
WinnerDecides ==
    eval.what = "mutate" =>
        LET levels == eval.in.levels
            winner == IF eval.in.wins THEN levels[3] ELSE levels[1]
            Sets(level) == level.add # <<>> /\ level.add[1].action = "OverwriteIfExistsOrAdd"
        IN /\ Sets(winner) => eval.out = ApplyOption(<<>>, winner.add[1])
           /\ winner.remove /\ winner.add = <<>> => eval.out = <<>>
           /\ winner.add = <<>> /\ ~winner.remove /\ Sets(levels[2]) => eval.out = ApplyOption(<<>>, levels[2].add[1])

\* The routing decisions are right.
RoutingKept ==
    VhostIsBest /\ RewriteKeepsRemainder /\ TrustedIsNotForged /\ RedirectKeepsPort /\ WinnerDecides
=============================================================================
