------------------------------ MODULE Tracing -------------------------------
(***************************************************************************)
(* What a request carries to the upstream about the trace it belongs to    *)
(* (arion-tracing) and its request id.  The trace context of the client is *)
(* read in one of four formats, a new trace is begun when there is none    *)
(* and the sampling says so, the server span becomes the child that the    *)
(* request forwarded announces, and spans of the calls made for the        *)
(* request are recorded beneath it.  Ids are numbers: a request's own are  *)
(* fixed, the generated ones are counted up.                               *)
(***************************************************************************)
EXTENDS Integers, Sequences, SequencesExt

CONSTANTS Formats     \* formats of the trace contexts a client sends

VARIABLE tr           \* the request in hand

Providers == {"w3c", "uber", "b3", "b3multi"}

ASSUME TracingAssumption == Formats \subseteq Providers

-----------------------------------------------------------------------------
(* Headers: absent, malformed, a single b3 flag, or a context.             *)

Absent == [k |-> "absent"]
Bad == [k |-> "bad"]

TraceIdOf == [w3c |-> 1, uber |-> 2, b3 |-> 3, b3multi |-> 4, client |-> 5, request |-> 6]
InboundSpan == 1
InboundParent == 2
FirstGenerated == 10

\* sampled is "1", "0" or, where the format lets the receiver decide, "none";
\* parent is 0 when the header names none.
Context(f, sampled, parent) ==
    [k |-> "ctx", trace |-> TraceIdOf[f], span |-> InboundSpan, parent |-> parent, sampled |-> sampled]

SampledOf(f) == IF f \in {"b3", "b3multi"} THEN {"1", "0", "none"} ELSE {"1", "0"}
ParentsOf(f) == CASE f = "w3c"  -> {0}
                  [] f = "uber" -> {InboundParent}
                  [] OTHER      -> {0, InboundParent}

\* What a client may send in a format.  The b3 header alone can be a flag;
\* of the b3multi headers one can be missing.
Values(f) ==
    {Absent, Bad}
    \cup (IF f = "b3" THEN {[k |-> "flag", sampled |-> s] : s \in {"0", "1"}} ELSE {})
    \cup (IF f = "b3multi" THEN {[k |-> "half"]} ELSE {})
    \cup {Context(f, s, p) : s \in SampledOf(f), p \in ParentsOf(f)}

-----------------------------------------------------------------------------
(* TraceInfo.                                                              *)

NoInfo == [k |-> "none"]
TraceInfo(trace, span, parent, provider, sampled) ==
    [k |-> "info", trace |-> trace, span |-> span, parent |-> parent,
     provider |-> provider, sampled |-> sampled]

\* x-envoy-force-trace shadows x-b3-flags: only when the first is absent is
\* the second looked at.
HasDebug(h) == IF h.force # "absent" THEN h.force = "1" ELSE h.flags

\* A sampling state the client left open is taken as sampled, and so is a
\* b3multi context in debug.
SampledFlag(f, v, h) == v.sampled # "0" \/ (f = "b3multi" /\ HasDebug(h))

Parsed(f, h) ==
    LET v == h[f]
    IN CASE v.k = "ctx"  -> TraceInfo(v.trace, v.span, v.parent, f, SampledFlag(f, v, h))
         [] v.k = "flag" -> NoInfo
         [] OTHER        -> [k |-> "err"]

\* Mutant: a malformed context is passed over for the next format.
ExtractFromLenient(h) ==
    LET order == SelectSeq(<<"w3c", "uber", "b3", "b3multi">>, LAMBDA f : h[f].k = "ctx")
    IN IF order = <<>> THEN NoInfo ELSE Parsed(order[1], h)

\* extract_from: the first format that is present decides, be it malformed.
ExtractFrom(h) ==
    LET order == SelectSeq(<<"w3c", "uber", "b3", "b3multi">>, LAMBDA f : h[f].k # "absent")
    IN IF order = <<>> THEN NoInfo ELSE Parsed(order[1], h)

\* into_child: a new span beneath this one.
IntoChild(i, span) == [i EXCEPT !.span = span, !.parent = i.span]

\* Mutant: the span ids of the b3multi headers stay the client's.
UpdateHeadersKeeping(h, i) ==
    IF i.provider = "b3multi" THEN h
    ELSE [h EXCEPT ![i.provider] =
            [ k |-> "ctx", trace |-> i.trace, span |-> i.span,
              parent |-> IF i.provider = "w3c" THEN 0 ELSE i.parent,
              sampled |-> IF i.sampled THEN "1" ELSE "0" ]]

\* update_headers: only the headers of the context's own format.  The b3multi
\* parent header is written when the context has a parent, and otherwise
\* stays; uber writes 0 for no parent, w3c has no field for it.
UpdateHeaders(h, i) ==
    [h EXCEPT ![i.provider] =
        [ k |-> "ctx", trace |-> i.trace, span |-> i.span,
          parent |-> CASE i.provider = "w3c" -> 0
                       [] i.provider = "b3multi" /\ i.parent = 0 /\ @.k = "ctx" -> @.parent
                       [] OTHER -> i.parent,
          sampled |-> IF i.sampled THEN "1" ELSE "0" ]]

-----------------------------------------------------------------------------
(* Request ids (request_id.rs).                                            *)

\* apply_policy: who decides the id, whether it goes upstream, and what is
\* left in the header.  c.tracing is the build with tracing, which always
\* has an id.
ApplyPolicy(c, incoming) ==
    LET keeps == incoming # 0 /\ (c.internal \/ c.preserve)
        generates == ~keeps /\ (c.generate \/ c.tracing)
        id == IF keeps THEN incoming
              ELSE IF generates \/ c.accessLog THEN FirstGenerated ELSE 0
        propagates == keeps \/ c.generate
    IN [ id |-> id, propagates |-> propagates,
         header |-> IF propagates THEN (IF generates THEN id ELSE incoming) ELSE 0 ]

-----------------------------------------------------------------------------
(* The trace context of a request.                                         *)

NoContext == [k |-> "none"]

\* new, with_parent, with_child, with_should_sample.  `root` is the trace id a
\* trace begun here takes, 0 for a generated one.
TraceContext(parent, root, sample) ==
    [k |-> "context", parent |-> parent, root |-> root, sample |-> sample, child |-> NoInfo]

\* try_build_trace_context.  `dice` is the outcome of the sampling.
TryBuildTraceContext(h, requestId, dice) ==
    LET parent == ExtractFrom(h)
        root == IF h.clientTrace = "id" THEN TraceIdOf.client
                ELSE IF requestId.uuid THEN requestId.id ELSE 0
        forced == h.force # "absent"
    IN IF parent.k = "info" THEN TraceContext(parent, 0, parent.sampled)
       ELSE IF root # 0 /\ (forced \/ dice) THEN TraceContext(NoInfo, root, TRUE)
       ELSE IF root # 0 THEN TraceContext(NoInfo, 0, FALSE)
       ELSE TraceContext(NoInfo, 0, forced)

\* spawn_child: beneath the parent, or the first span of a W3C trace.
SpawnChild(ctx, next) ==
    [ctx EXCEPT !.child =
        IF ctx.parent.k = "info" THEN IntoChild(ctx.parent, next)
        ELSE TraceInfo(IF ctx.root # 0 THEN ctx.root ELSE next, next, 0, "w3c", TRUE)]

\* Mutant: the server's span is not the child before it is recorded.
ServerChildSampled(ctx) == ctx.sample

\* A context with a parent propagates even when it is not sampled.
ServerChild(ctx) == ctx.sample \/ ctx.parent.k = "info"

\* The span recorded for the child: its parent is the client's span.
Recorded(kind, ctx) ==
    [ kind |-> kind, trace |-> ctx.child.trace, span |-> ctx.child.span,
      parent |-> IF ctx.parent.k = "info" THEN ctx.parent.span ELSE 0 ]

-----------------------------------------------------------------------------
(* The request.                                                            *)

NoRequest == [pc |-> "idle"]

TracingInit == tr = NoRequest

RequestIds == {[id |-> 0, uuid |-> FALSE], [id |-> TraceIdOf.request, uuid |-> TRUE],
               [id |-> TraceIdOf.request, uuid |-> FALSE]}

\* The configuration and the build.  The choices about the request id are
\* combined with requests that carry no context: the two do not interact.
TraceConfigs(plain) ==
    {c \in [ internal : BOOLEAN, preserve : BOOLEAN, generate : BOOLEAN, tracing : BOOLEAN,
             accessLog : BOOLEAN, upstreamSpans : BOOLEAN, tracer : BOOLEAN ] :
        /\ c.tracing => ~c.accessLog
        /\ ~c.tracing => plain /\ ~c.upstreamSpans /\ ~c.tracer
        /\ ~plain => c.generate /\ ~c.preserve /\ ~c.internal}

\* A request with contexts in at most two formats.
Arrives ==
    /\ tr.pc = "idle"
    /\ \E f1 \in Formats, f2 \in Formats :
       \E v1 \in Values(f1), v2 \in Values(f2), force \in {"absent", "1", "other"},
          flags \in BOOLEAN, client \in {"bad", "id"}, rid \in RequestIds :
       \E c \in TraceConfigs(v1 = Absent /\ v2 = Absent) :
          /\ f1 = f2 => v1 = v2
          /\ flags => "b3multi" \in {f1, f2}
          /\ tr' = [ pc |-> "id", conf |-> c, rid |-> rid,
                     h |-> [ p \in Providers \cup {"force", "flags", "clientTrace"} |->
                        CASE p = f1 -> v1 [] p = f2 -> v2 [] p = "force" -> force
                          [] p = "flags" -> flags [] p = "clientTrace" -> client
                          [] OTHER -> Absent ] ]

\* The request id policy comes first; the trace is built from the incoming id
\* where there is one, and from the policy's otherwise.
Identify ==
    /\ tr.pc = "id"
    /\ LET policy == ApplyPolicy(tr.conf, tr.rid.id)
           rid == IF tr.rid.id # 0 THEN tr.rid
                  ELSE [id |-> policy.id, uuid |-> policy.id # 0]
       IN \E dice \in BOOLEAN :
            tr' = [ pc |-> "server", conf |-> tr.conf, rid |-> tr.rid, h |-> tr.h, policy |-> policy,
                    ctx |-> IF tr.conf.tracing THEN TryBuildTraceContext(tr.h, rid, dice) ELSE NoContext,
                    spans |-> <<>> ]

\* try_create_span(Server) and update_tracing_headers.
ServerSpan ==
    /\ tr.pc = "server"
    /\ IF tr.ctx.k = "none" THEN tr' = [tr EXCEPT !.pc = "forward"]
       ELSE LET ctx == IF ServerChild(tr.ctx) THEN SpawnChild(tr.ctx, FirstGenerated + 1) ELSE tr.ctx
            IN tr' = [tr EXCEPT
                 !.pc = "forward", !.ctx = ctx,
                 !.spans = IF ctx.sample /\ tr.conf.tracer THEN <<Recorded("server", ctx)>> ELSE @,
                 !.h = IF ctx.child.k = "info" THEN UpdateHeaders(@, ctx.child) ELSE @]

\* begin_scoped_client_span: a call of the MCP gateway announces a span of its
\* own beneath the server's when spans are recorded, and the server's when
\* they are not; the child slot is left alone.
ScopedClientSpan ==
    /\ tr.pc = "forward" /\ Len(tr.spans) < 2
    /\ tr.ctx.k = "context" /\ tr.ctx.child.k = "info"
    /\ tr.ctx.sample /\ tr.conf.upstreamSpans /\ tr.conf.tracer
    /\ tr' = [tr EXCEPT !.pc = "called",
                        !.spans = Append(@, [Recorded("scoped", tr.ctx) EXCEPT
                                    !.span = FirstGenerated + 2, !.parent = tr.ctx.child.span])]

\* Forwarding (route.rs): try_create_span(Client), which takes the child slot
\* for the client's span; the headers are not written again.
ClientSpan ==
    /\ tr.pc = "forward"
    /\ IF tr.ctx.k = "context" /\ tr.ctx.sample /\ tr.conf.upstreamSpans
       THEN LET ctx == SpawnChild(tr.ctx, FirstGenerated + 3)
            IN tr' = [tr EXCEPT !.pc = "sent", !.ctx = ctx,
                 !.spans = IF tr.conf.tracer THEN Append(@, Recorded("client", ctx)) ELSE @]
       ELSE tr' = [tr EXCEPT !.pc = "sent"]

Done ==
    /\ tr.pc \in {"sent", "called"}
    /\ tr' = NoRequest

TracingNext == Arrives \/ Identify \/ ServerSpan \/ ScopedClientSpan \/ ClientSpan \/ Done

TracingSpec == TracingInit /\ [][TracingNext]_tr

-----------------------------------------------------------------------------
Sent == tr.pc \in {"sent", "called"}

\* The context the upstream reads from the request is, in the client's own
\* format, the client's trace with the client's sampling, one span further:
\* this also when nothing is recorded here.
TraceContinues ==
    Sent /\ tr.ctx.k = "context" /\ tr.ctx.parent.k = "info" =>
        LET seen == ExtractFrom(tr.h)
        IN /\ seen.k = "info"
           /\ seen.provider = tr.ctx.parent.provider
           /\ seen.trace = tr.ctx.parent.trace
           /\ seen.sampled = tr.ctx.parent.sampled
           /\ seen.span # tr.ctx.parent.span
           /\ seen.provider # "w3c" => seen.parent = tr.ctx.parent.span

\* A client's context is never replaced by a trace begun here because a
\* lower-ranked context was read in its place: what is continued is the
\* context of the first format present.
FirstFormatDecides ==
    Sent /\ tr.ctx.k = "context" /\ tr.ctx.parent.k = "info" =>
        \A f \in Providers : tr.h[f].k = "bad" =>
            LET order == <<"w3c", "uber", "b3", "b3multi">>
            IN \E i, j \in 1..4 : order[i] = tr.ctx.parent.provider /\ order[j] = f /\ i < j

\* The spans recorded for a request are of one trace, the trace the upstream
\* is told of.  (A trace begun without any id, which takes the force header
\* and a request id that is no UUID, is the exception: there spawn_child
\* generates a trace id for each span.)
SpansOfOneTrace ==
    Sent /\ tr.spans # <<>> =>
        /\ tr.ctx.parent.k = "info" \/ tr.ctx.root # 0
                => \A i \in DOMAIN tr.spans : tr.spans[i].trace = tr.spans[1].trace
        /\ ExtractFrom(tr.h).k = "info" => ExtractFrom(tr.h).trace = tr.spans[1].trace

\* The request id the upstream sees is the one the request is known by here,
\* and an id that is not to be propagated does not leave.
RequestIdKept ==
    Sent => IF tr.policy.propagates THEN tr.policy.header = tr.policy.id ELSE tr.policy.header = 0

\* What is sent about the trace and the request can be believed.
TraceKept == TraceContinues /\ FirstFormatDecides /\ SpansOfOneTrace /\ RequestIdKept
=============================================================================
