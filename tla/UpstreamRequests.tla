-------------------------- MODULE UpstreamRequests --------------------------
(***************************************************************************)
(* One HTTP request on its way to the upstream: the acquisition of the     *)
(* channels (clusters/http_upstream.rs), failover over them and the retry  *)
(* loop of one channel (transport/http_channel.rs), the retry policy       *)
(* (clusters/retry_policy.rs) and the answer that is made of the outcome.  *)
(*                                                                         *)
(* Time advances in units while an attempt, the collection of the body or  *)
(* a back-off is under way. What the upstream answers is chosen freely.    *)
(* The iterator of back-offs is a library's: it is taken to yield one item *)
(* for every retry and one more, as the loop itself does when it moves the *)
(* request's head into the attempt with the index max_retries.             *)
(***************************************************************************)
EXTENDS Sequences, SequencesExt, FiniteSets, Integers

CONSTANTS
    MaxRetries,     \* num_retries of a policy
    MaxChannels,    \* the channels of a failover cluster
    RouteTimeout,   \* the route's timeout, in units of time
    PerTryTimeout,  \* per_try_timeout of a policy
    RetryOns        \* the retry_on lists of the policies

ASSUME RequestAssumption ==
    /\ MaxRetries \in Nat /\ MaxChannels \in Nat \ {0}
    /\ RouteTimeout \in Nat \ {0} /\ PerTryTimeout \in Nat \ {0}

\* What the upstream can answer: a response, by the parts a policy looks at, or an error.
Response(code, limited, header) == [code |-> code, limited |-> limited, header |-> header]
Responses == {Response(200, FALSE, FALSE), Response(404, FALSE, TRUE), Response(409, FALSE, FALSE),
              Response(429, TRUE, FALSE), Response(500, FALSE, FALSE), Response(503, FALSE, TRUE)}
UpstreamErrors == {"Connect", "ConnectFatal", "Io", "RefusedStream", "PerTryTimeout", "RouteTimeout",
                   "Reset", "Http3PostConnectFailure", "Protocol", "Other"}
Failure(err) == [code |-> 0, err |-> err]
Outcomes == Responses \cup {Failure(e) : e \in UpstreamErrors \ {"PerTryTimeout", "RouteTimeout"}}
                      \cup {Failure("NotUpstream")}
IsError(r) == r.code = 0

RetryOn == {"Err5xx", "GatewayError", "EnvoyRateLimited", "Retriable4xx", "RetriableStatusCodes",
            "RetriableHeaders", "Reset", "ConnectFailure", "RefusedStream", "Http3PostConnectFailure"}
RetriableStatusCodes == {409, 503}

\* One condition of a policy: it holds, it does not, or (two of them, for any
\* response) it decides and the ones after it are not looked at.
Holds(on, r) ==
    CASE on = "Err5xx"                  -> r.code \in 500..599
      [] on = "GatewayError"            -> r.code \in 502..504
      [] on = "EnvoyRateLimited"        -> ~IsError(r) /\ r.limited
      [] on = "Retriable4xx"            -> r.code = 409
      [] on = "RetriableStatusCodes"    -> r.code \in RetriableStatusCodes
      [] on = "RetriableHeaders"        -> ~IsError(r) /\ r.header
      [] on = "Reset"                   -> IsError(r) /\ r.err = "Reset"
      [] on = "ConnectFailure"          -> IsError(r) /\ r.err \in {"Connect", "Io"}
      [] on = "RefusedStream"           -> IsError(r) /\ r.err = "RefusedStream"
      [] on = "Http3PostConnectFailure" -> IsError(r) /\ r.err = "Http3PostConnectFailure"
Decides(on, r) == on \in {"RetriableStatusCodes", "RetriableHeaders"} /\ ~IsError(r)

HasCondition(r) == IF IsError(r) THEN r.err \in UpstreamErrors ELSE r.code >= 300

ShouldRetry(retryOn, r) ==
    \/ IsError(r) /\ r.err = "PerTryTimeout"
    \/ \E i \in DOMAIN retryOn :
          /\ Holds(retryOn[i], r)
          /\ \A j \in 1..(i - 1) : ~Decides(retryOn[j], r)

\* The retry policy of a route, if it has one and the request has its headers.
NoPolicy == [retryOn |-> <<>>, retries |-> 0, perTry |-> FALSE, on |-> FALSE]
Policies == {NoPolicy} \cup
    [retryOn : RetryOns, retries : {MaxRetries}, perTry : BOOLEAN, on : {TRUE}]

VARIABLES
    call,       \* the request under way
    clock,      \* time since the current channel was first tried
    tries       \* the outcomes of the attempts on the current channel, in order

rqVars == <<call, clock, tries>>

NoCall == [at |-> "idle", policy |-> NoPolicy, channels |-> 0, channel |-> 0, timed |-> FALSE,
           permit |-> FALSE, started |-> 0, requests |-> 0, timeouts |-> 0, result |-> Failure("none"),
           bodyTimeout |-> 0, slot |-> FALSE]

RqInit == call = NoCall /\ clock = 0 /\ tries = <<>>

\* Acquiring the channels: resolution, the request breaker, the routing context
\* and the connection, any of which may refuse.
AcquireHttpUpstream(policy, channels, timed, refused) ==
    /\ call.at = "idle"
    /\ call' = CASE refused = "none" -> [NoCall EXCEPT !.at = "prepare", !.policy = policy,
                                             !.channels = channels, !.channel = 1, !.timed = timed, !.slot = TRUE]
                 [] refused \in {"ClusterNotFound", "CircuitBreakerOverflow"} ->
                        [NoCall EXCEPT !.at = "done", !.result = Failure(refused)]
                 [] OTHER -> [NoCall EXCEPT !.at = "release", !.result = Failure(refused), !.slot = TRUE]
    /\ UNCHANGED <<clock, tries>>
RefusalKinds == {"none", "ClusterNotFound", "CircuitBreakerOverflow", "RoutingContext", "Connection"}

\* The permit of an acquisition that failed, or whose answer was given, is dropped.
DropPermit ==
    /\ call.at \in {"release", "answered"}
    /\ call' = [call EXCEPT !.at = "done", !.slot = FALSE]
    /\ UNCHANGED <<clock, tries>>

\* Failover collects the body once and gives up the policy; an error of the
\* downstream ends the request.
HasFailover == call.channels > 1
PrepareFailover(fails) ==
    /\ call.at = "prepare" /\ HasFailover
    /\ call' = IF fails THEN [call EXCEPT !.at = "answered", !.result = Failure("NotUpstream")]
                        ELSE [call EXCEPT !.at = "send", !.policy = NoPolicy]
    /\ UNCHANGED <<clock, tries>>

PrepareSingle ==
    /\ call.at = "prepare" /\ ~HasFailover
    /\ call' = [call EXCEPT !.at = "send"]
    /\ UNCHANGED <<clock, tries>>

\* HttpChannel::to_response begins: its clock and its counters start. The request
\* line may not fit the protocol of the channel.
SendRequest(malformed) ==
    /\ call.at = "send"
    /\ clock' = 0 /\ tries' = <<>>
    /\ call' = [call EXCEPT !.requests = 0, !.timeouts = 0,
                    !.at = IF malformed THEN "map" ELSE IF call.policy.on THEN "collect" ELSE "try",
                    !.result = IF malformed THEN Failure("NotUpstream") ELSE @]

Underway == call.at \in {"collect", "try", "backoff"}
Timed == call.timed
TryFor == clock - call.started

\* Mutant: the route timeout bounds each attempt.
TickPerTry ==
    /\ Underway /\ (Timed => TryFor < RouteTimeout) /\ clock < 2 * RouteTimeout
    /\ call.policy.perTry /\ call.at = "try" => TryFor < PerTryTimeout
    /\ clock' = clock + 1 /\ UNCHANGED <<call, tries>>

Tick ==
    /\ Underway /\ clock < RouteTimeout
    /\ call.policy.perTry /\ call.at = "try" => TryFor < PerTryTimeout
    /\ clock' = clock + 1 /\ UNCHANGED <<call, tries>>

RouteTimeoutFires ==
    /\ Underway /\ Timed /\ clock >= RouteTimeout
    /\ call' = [call EXCEPT !.at = "map", !.result = Failure("RouteTimeout"), !.permit = FALSE]
    /\ UNCHANGED <<clock, tries>>

\* The retry loop collects the body inside the timeout.
CollectBody(fails) ==
    /\ call.at = "collect"
    /\ call' = IF fails THEN [call EXCEPT !.at = "map", !.result = Failure("NotUpstream")]
                        ELSE [call EXCEPT !.at = "try", !.started = clock]
    /\ UNCHANGED <<clock, tries>>

\* An attempt ends with r. Without a policy that is the result.
Finished(r) == [call EXCEPT !.at = "map", !.result = r, !.permit = FALSE]

\* Mutant: the attempts are counted from one.
EndOfTryOneMore(r, admitted) ==
    /\ tries' = Append(tries, r)
    /\ call' = IF call.policy.on /\ HasCondition(r) /\ ShouldRetry(call.policy.retryOn, r)
                  /\ Len(tries) <= call.policy.retries /\ (call.permit \/ admitted)
               THEN [call EXCEPT !.at = "backoff", !.permit = TRUE, !.requests = @ + 1, !.result = r]
               ELSE Finished(r)
    /\ UNCHANGED clock

\* Mutant: a permit is asked for every retry, and timeouts are not counted.
EndOfTryAsks(r, admitted) ==
    LET n == Len(tries) + 1 IN
    /\ tries' = Append(tries, r)
    /\ call' =
         IF ~call.policy.on \/ ~HasCondition(r) \/ ~ShouldRetry(call.policy.retryOn, r) THEN Finished(r)
         ELSE IF n > call.policy.retries THEN [Finished(r) EXCEPT !.requests = @ + 1]
         ELSE IF ~admitted THEN [Finished(r) EXCEPT !.requests = @ + 1]
         ELSE [call EXCEPT !.at = "backoff", !.permit = TRUE, !.requests = @ + 1, !.result = r]
    /\ UNCHANGED clock

EndOfTry(r, admitted) ==
    LET n == Len(tries) + 1
        late == IF IsError(r) /\ r.err = "PerTryTimeout" THEN 1 ELSE 0
        counted == [call EXCEPT !.timeouts = @ + late]
        over == [counted EXCEPT !.at = "map", !.result = r, !.permit = FALSE]
    IN
    /\ tries' = Append(tries, r)
    /\ call' =
         IF ~call.policy.on \/ ~HasCondition(r) THEN Finished(r)
         ELSE IF ~ShouldRetry(call.policy.retryOn, r) THEN over
         ELSE IF n <= call.policy.retries /\ (call.permit \/ admitted)
              THEN [counted EXCEPT !.at = "backoff", !.permit = TRUE, !.requests = @ + 1, !.result = r]
         ELSE [over EXCEPT !.requests = @ + 1]
    /\ UNCHANGED clock

Answers(r, admitted) == call.at = "try" /\ EndOfTry(r, admitted)
PerTryTimeoutFires(admitted) ==
    /\ call.at = "try" /\ call.policy.on /\ call.policy.perTry /\ TryFor >= PerTryTimeout
    /\ EndOfTry(Failure("PerTryTimeout"), admitted)

BackedOff ==
    /\ call.at = "backoff"
    /\ call' = [call EXCEPT !.at = "try", !.started = clock]
    /\ UNCHANGED <<clock, tries>>

\* map_upstream_result: an upstream error becomes a response of its own.
SyntheticCode(err) ==
    CASE err \in {"Connect", "ConnectFatal", "RefusedStream", "Io"} -> 503
      [] err \in {"PerTryTimeout", "RouteTimeout"} -> 504
      [] err \in {"Reset", "Http3PostConnectFailure", "Protocol"} -> 502
      [] err = "Other" -> 500

\* Mutant: the whole route timeout is left for the body.
RemainingWhole == RouteTimeout
Remaining == IF clock >= RouteTimeout THEN 0 ELSE RouteTimeout - clock

Mapped(r) ==
    IF IsError(r) /\ r.err \in UpstreamErrors THEN Response(SyntheticCode(r.err), FALSE, FALSE) ELSE r

\* The answer of a channel is the answer of the request, unless it is a server
\* error or an error and there is a channel left.
\* Mutant: any answer of the first channel is the answer of the request.
MapUpstreamResultFirst ==
    /\ call.at = "map"
    /\ call' = [call EXCEPT !.at = "answered", !.result = Mapped(@)]
    /\ UNCHANGED <<clock, tries>>

MapUpstreamResult ==
    /\ call.at = "map"
    /\ LET r == Mapped(call.result)
           mapped == [call EXCEPT !.result = r, !.bodyTimeout =
                          IF Timed /\ ~IsError(call.result) THEN Remaining ELSE 0]
       IN call' = IF HasFailover /\ call.channel < call.channels /\ (IsError(r) \/ r.code >= 500)
                  THEN [mapped EXCEPT !.at = "send", !.channel = @ + 1]
                  ELSE [mapped EXCEPT !.at = "answered"]
    /\ UNCHANGED <<clock, tries>>

Again == call.at = "done" /\ call' = NoCall /\ clock' = 0 /\ tries' = <<>>

RqNext ==
    \/ /\ call.at = "idle"
       /\ \E p \in Policies, n \in 1..MaxChannels, t \in BOOLEAN, f \in RefusalKinds :
              AcquireHttpUpstream(p, n, t, f)
    \/ \E fails \in BOOLEAN : PrepareFailover(fails) \/ SendRequest(fails) \/ CollectBody(fails)
    \/ call.at = "try" /\ \E r \in Outcomes, a \in BOOLEAN : Answers(r, a)
    \/ \E a \in BOOLEAN : PerTryTimeoutFires(a)
    \/ PrepareSingle \/ Tick \/ RouteTimeoutFires \/ BackedOff \/ MapUpstreamResult \/ DropPermit \/ Again

RqSpec == RqInit /\ [][RqNext]_rqVars /\ WF_rqVars(RqNext)

-----------------------------------------------------------------------------
\* Retries are made only for what the policy names: between two attempts of a
\* channel lies an outcome that some condition of the policy covers (a per-try
\* timeout always counts), the attempts stay within num_retries, and a permit of
\* the retry breaker is held from the first retry until the loop ends.
RetriesJustified ==
    /\ Len(tries) <= call.policy.retries + 1
    /\ \A i \in 1..(Len(tries) - 1) :
          \/ IsError(tries[i]) /\ tries[i].err = "PerTryTimeout"
          \/ \E on \in Range(call.policy.retryOn) : Holds(on, tries[i])
    /\ (call.at = "backoff" \/ (call.at = "try" /\ tries # <<>>)) => call.permit
    /\ call.at \notin {"backoff", "try"} => ~call.permit

\* The counter UPSTREAM_RQ_RETRY is given the retries that were made, and one more
\* when the last outcome asked for a retry that num_retries or the breaker refused;
\* UPSTREAM_RQ_PER_TRY_TIMEOUT is given the attempts that timed out.
RetriesReported ==
    call.at = "map" =>
        LET made == IF tries = <<>> THEN 0 ELSE Len(tries) - 1 IN
        /\ call.requests \in {made, made + 1}
        /\ call.requests = made + 1 =>
              \/ call.result = Failure("RouteTimeout")
              \/ ShouldRetry(call.policy.retryOn, Last(tries))
        /\ call.timeouts = Cardinality({i \in DOMAIN tries : tries[i] = Failure("PerTryTimeout")})

\* What the client waits for one channel is bounded by the route timeout, the
\* body's deadline included: the time an answer took and the time its body is
\* given are exactly the timeout; and the answer is that of the last attempt
\* made, or the route timeout's.
DeadlineKept ==
    /\ Timed => clock <= RouteTimeout
    /\ call.at = "answered" /\ Timed /\ call.bodyTimeout > 0 => clock + call.bodyTimeout = RouteTimeout
    /\ call.at = "answered" /\ tries # <<>> =>
          call.result \in {Mapped(Last(tries)), Mapped(Failure("RouteTimeout"))}

\* Failover: a server error is given to the client only when every channel was tried.
FailoverExhausts ==
    call.at = "answered" /\ HasFailover /\ call.result.code >= 500 => call.channel = call.channels

\* Retries, their counters, the deadline and the failover are those the policy
\* and the route ask for.
RetriesKept == RetriesJustified /\ RetriesReported /\ DeadlineKept /\ FailoverExhausts

-----------------------------------------------------------------------------
(***************************************************************************)
(* How an error is classified (event_error.rs): what went wrong with the   *)
(* upstream decides on retries and what went wrong with the client on the  *)
(* access log.  An error is a chain of sources, each link of one of the    *)
(* kinds the code tells apart; it is classified by its type when that is   *)
(* known and otherwise by walking the chain.                               *)
(***************************************************************************)

CONSTANT MaxChain        \* longest chain of sources

ASSUME ErrorClassesAssumption == MaxChain \in Nat \ {0}

VARIABLE err             \* the error in hand, <<>> for none

IoLinks == {"io_timed_out", "io_reset", "io_refused"}
HyperLinks == {"hyper_timeout", "hyper_closed", "hyper_parse", "hyper_incomplete",
               "hyper_user", "hyper_write_aborted", "hyper_other"}
H2Links == {"h2_refused", "h2_cancel", "h2_no_reason", "h2_protocol", "h2_connect", "h2_other"}

\* Errors that were classified before: an upstream or a downstream error, or
\* the crate's error that holds one.
ClassifiedLinks == {"route_timeout", "downstream_reset"}

\* elapsed: tokio's Elapsed, or a body's TimedOut.
Links == IoLinks \cup HyperLinks \cup H2Links \cup ClassifiedLinks \cup {"elapsed", "connect", "other"}

-----------------------------------------------------------------------------
(* Walking the chain.                                                      *)

Walk == [done |-> "no", reset |-> FALSE, refused |-> FALSE, protocol |-> FALSE, io |-> FALSE]

\* Mutant: a closed connection ends the search too.
UpstreamEndEager(l) ==
    CASE l \in {"route_timeout", "connect"} -> l
      [] l \in {"io_timed_out", "hyper_timeout", "elapsed"} -> "timeout"
      [] l = "hyper_closed" -> "reset"
      [] OTHER -> "no"

\* The links that return from the loop.
UpstreamEnd(l) ==
    CASE l \in {"route_timeout", "connect"} -> l
      [] l \in {"io_timed_out", "hyper_timeout", "elapsed"} -> "timeout"
      [] OTHER -> "no"

\* One turn of the loop that looks for what went wrong with the upstream; once
\* a link has returned the later ones change nothing.
UpstreamLink(w, l) ==
    CASE w.done # "no" -> w
      [] w.done = "no" /\ UpstreamEnd(l) # "no" -> [w EXCEPT !.done = UpstreamEnd(l)]
      [] OTHER -> [w EXCEPT
            !.reset = @ \/ l \in {"io_reset", "hyper_closed", "h2_cancel", "h2_no_reason"},
            !.refused = @ \/ l = "h2_refused",
            !.protocol = @ \/ l \in {"hyper_parse", "h2_protocol"},
            !.io = @ \/ l \in {"io_reset", "io_refused", "h2_connect"}]

\* The order of importance once the chain has ended.
UpstreamFrom(chain) ==
    LET w == FoldLeft(UpstreamLink, Walk, chain)
    IN IF w.done # "no" THEN w.done
       ELSE IF w.refused THEN "refused_stream"
       ELSE IF w.reset THEN "reset"
       ELSE IF w.protocol THEN "protocol"
       ELSE IF w.io THEN "io" ELSE "other"

\* The same for what went wrong with the client: a refused stream is a reset,
\* an upstream's error means nothing, and neither does h2's CONNECT_ERROR.
DownstreamEnd(l) ==
    CASE l = "downstream_reset" -> "reset"
      [] l \in {"io_timed_out", "hyper_timeout", "elapsed"} -> "timeout"
      [] OTHER -> "no"

DownstreamLink(w, l) ==
    CASE w.done # "no" -> w
      [] w.done = "no" /\ DownstreamEnd(l) # "no" -> [w EXCEPT !.done = DownstreamEnd(l)]
      [] OTHER -> [w EXCEPT
            !.reset = @ \/ l \in {"io_reset", "hyper_closed", "h2_refused", "h2_cancel", "h2_no_reason"},
            !.protocol = @ \/ l \in {"hyper_parse", "h2_protocol"},
            !.io = @ \/ l \in {"io_reset", "io_refused"}]

DownstreamFrom(chain) ==
    LET w == FoldLeft(DownstreamLink, Walk, chain)
    IN IF w.done # "no" THEN w.done
       ELSE IF w.reset THEN "reset"
       ELSE IF w.protocol THEN "protocol"
       ELSE IF w.io THEN "io" ELSE "other"

-----------------------------------------------------------------------------
(* By type: io::Error, hyper::Error, h2::Error and the bodies' errors.     *)

\* A message cut short counts as a timeout of the try, a user's error as an
\* I/O error; the rest of hyper's errors are walked.
UpstreamTyped(chain) ==
    LET l == Head(chain)
    IN CASE l \in {"io_timed_out", "hyper_timeout", "hyper_incomplete", "elapsed"} -> "timeout"
         [] l \in {"io_reset", "hyper_closed", "hyper_write_aborted", "h2_cancel", "h2_no_reason"} -> "reset"
         [] l \in {"io_refused", "hyper_user", "h2_connect"} -> "io"
         [] l = "h2_refused" -> "refused_stream"
         [] l \in {"hyper_parse", "h2_protocol"} -> "protocol"
         [] l \in {"h2_other"} -> "other"
         [] OTHER -> UpstreamFrom(chain)

DownstreamTyped(chain) ==
    LET l == Head(chain)
    IN CASE l \in {"io_timed_out", "hyper_timeout", "elapsed"} -> "timeout"
         [] l \in {"io_reset", "hyper_incomplete", "hyper_closed", "hyper_write_aborted", "hyper_user",
                   "h2_refused", "h2_cancel", "h2_no_reason"} -> "reset"
         [] l \in {"io_refused", "h2_connect"} -> "io"
         [] l \in {"hyper_parse", "h2_protocol"} -> "protocol"
         [] l \in {"hyper_other", "h2_other"} -> "other"
         [] OTHER -> DownstreamFrom(chain)

\* EventKind: an error of a request's body is the client's, of a response's
\* the upstream's.
EventKindOf(body, chain) ==
    IF body = "request" THEN <<"downstream", DownstreamTyped(chain)>>
    ELSE <<"upstream", UpstreamTyped(chain)>>

\* ResponseFlags of a classified error.
UpstreamFlag(c) ==
    CASE c = "connect" -> "of the connection"
      [] c = "io" -> "UPSTREAM_CONNECTION_FAILURE"
      [] c = "timeout" -> "UPSTREAM_REQUEST_TIMEOUT"
      [] c = "route_timeout" -> "none"
      [] c \in {"reset", "refused_stream"} -> "UPSTREAM_REMOTE_RESET"
      [] c = "protocol" -> "UPSTREAM_PROTOCOL_ERROR"
      [] c = "other" -> "LOCAL_RESET"

DownstreamFlag(c) ==
    CASE c = "io" -> "DOWNSTREAM_CONNECTION_TERMINATION"
      [] c = "reset" -> "DOWNSTREAM_REMOTE_RESET"
      [] c = "protocol" -> "DOWNSTREAM_PROTOCOL_ERROR"
      [] c = "timeout" -> "STREAM_IDLE_TIMEOUT"
      [] c = "other" -> "LOCAL_RESET"

-----------------------------------------------------------------------------
ErrorsInit == err = <<>>

\* An error is met, wrapped by whoever passes it on, or dealt with.
Meet == err = <<>> /\ \E l \in Links : err' = <<l>>
Wrap == err # <<>> /\ Len(err) < MaxChain /\ \E l \in Links : err' = <<l>> \o err
Dealt == err # <<>> /\ err' = <<>>

ErrorsNext == Meet \/ Wrap \/ Dealt

ErrorsSpec == ErrorsInit /\ [][ErrorsNext]_err

-----------------------------------------------------------------------------
\* The two loops agree on an error that neither side has classified before: a
\* refused stream is the client's reset, a CONNECT_ERROR is an I/O error of
\* the upstream alone, all else has the same name.
DirectionsAgree ==
    LET plain == SelectSeq(err, LAMBDA l : l # "h2_connect")
        up == UpstreamFrom(plain)
    IN (\A i \in DOMAIN err : err[i] \notin ClassifiedLinks \cup {"connect"})
        => DownstreamFrom(plain) = IF up = "refused_stream" THEN "reset" ELSE up

\* What a chain says does not depend on who wrapped it in what order, unless
\* a link ends the search: a retry decision is not a matter of nesting.
NestingDoesNotMatter ==
    (\A i \in DOMAIN err : err[i] \notin {"route_timeout", "connect", "downstream_reset",
                                          "io_timed_out", "hyper_timeout", "elapsed"})
        => /\ UpstreamFrom(Reverse(err)) = UpstreamFrom(err)
           /\ DownstreamFrom(Reverse(err)) = DownstreamFrom(err)

\* Wrapping keeps a classification that ends the search, whatever unclassified
\* links are put around it: a failed connect is never retried as a reset, a
\* route's timeout never as a try's.
WrappingKeeps ==
    \A i \in DOMAIN err :
        /\ err[i] \in {"route_timeout", "connect"}
        /\ \A j \in 1..(i - 1) : err[j] \notin {"route_timeout", "connect", "io_timed_out",
                                                "hyper_timeout", "elapsed"}
        => UpstreamFrom(err) = err[i]

\* Known by its type or met in a chain of its own, an error is classified
\* alike, except for hyper's errors that only the types tell apart and h2's
\* CONNECT_ERROR of a client.
TypesAgree ==
    Len(err) = 1 =>
        /\ err[1] \notin {"hyper_incomplete", "hyper_user", "hyper_write_aborted"}
            => UpstreamTyped(err) = UpstreamFrom(err)
        /\ err[1] \notin {"hyper_incomplete", "hyper_user", "hyper_write_aborted", "h2_connect"}
            => DownstreamTyped(err) = DownstreamFrom(err)

\* No failure of a body is logged without a flag, and the flag names the side
\* that failed; only the route's timeout has none.
FlagsNameTheSide ==
    err # <<>> =>
        LET request == EventKindOf("request", err)[2]
            response == EventKindOf("response", err)[2]
        IN /\ DownstreamFlag(request) = "LOCAL_RESET" => request = "other"
           /\ UpstreamFlag(response) = "none" => "route_timeout" \in Range(err)
           /\ UpstreamFlag(response) = "UPSTREAM_REMOTE_RESET"
                => \E l \in Range(err) : l \in {"io_reset", "hyper_closed", "hyper_write_aborted", "h2_cancel",
                                                "h2_no_reason", "h2_refused"}

\* An error means one thing.
ErrorsClassified ==
    DirectionsAgree /\ NestingDoesNotMatter /\ WrappingKeeps /\ TypesAgree /\ FlagsNameTheSide
=============================================================================
