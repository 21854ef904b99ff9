---------------------------- MODULE MCRequests ----------------------------
(* The way of a request from its listener to the upstream: the listeners   *)
(* and the updates they get, the pipeline of filters, external processing, *)
(* routing, retries and failover, the errors met on the way and the trace  *)
(* it carries. They have no state in common, so a behaviour moves one of   *)
(* them, `part`, and leaves the others in their initial states.            *)
EXTENDS Listeners, HttpPipeline, ExternalProcessing, UpstreamRequests, Tracing

VARIABLE part

\* Listener configurations of all kinds, one that cannot be built among them.
MCConfigs == {[uses |-> TRUE, internal |-> FALSE, builds |-> TRUE],
              [uses |-> TRUE, internal |-> TRUE, builds |-> TRUE],
              [uses |-> FALSE, internal |-> FALSE, builds |-> TRUE],
              [uses |-> TRUE, internal |-> FALSE, builds |-> FALSE]}

\* Every condition alone, and two lists in which the order counts.
MCRetryOns == {<<on>> : on \in RetryOn}
              \cup {<<"Err5xx", "RetriableHeaders">>, <<"RetriableStatusCodes", "Err5xx">>}

RequestsInit ==
    /\ part \in {"listeners", "pipeline", "processing", "routing", "upstream", "errors", "tracing"}
    /\ ListenersInit /\ PipelineInit /\ ExtProcInit /\ RoutingInit /\ RqInit
    /\ ErrorsInit /\ TracingInit

RequestsNext ==
    /\ \/ /\ part = "listeners" /\ ListenersNext
          /\ UNCHANGED <<pipelineVars, ext, eval, rqVars, err, tr>>
       \/ /\ part = "pipeline" /\ PipelineNext
          /\ UNCHANGED <<listenerVars, ext, eval, rqVars, err, tr>>
       \/ /\ part = "processing" /\ ExtProcNext
          /\ UNCHANGED <<listenerVars, pipelineVars, eval, rqVars, err, tr>>
       \/ /\ part = "routing" /\ RoutingNext
          /\ UNCHANGED <<listenerVars, pipelineVars, ext, rqVars, err, tr>>
       \/ /\ part = "upstream" /\ RqNext
          /\ UNCHANGED <<listenerVars, pipelineVars, ext, eval, err, tr>>
       \/ /\ part = "errors" /\ ErrorsNext
          /\ UNCHANGED <<listenerVars, pipelineVars, ext, eval, rqVars, tr>>
       \/ /\ part = "tracing" /\ TracingNext
          /\ UNCHANGED <<listenerVars, pipelineVars, ext, eval, rqVars, err>>
    /\ UNCHANGED part

requestsVars == <<part, listenerVars, pipelineVars, ext, eval, rqVars, err, tr>>

RequestsSpec == RequestsInit /\ [][RequestsNext]_requestsVars

(* What is decided about a request is right: the virtual host, the route   *)
(* and the rewrite, the client's address, the class and the flags of every *)
(* error, and the trace the request continues.                             *)
DecisionsKept == RoutingKept /\ ErrorsClassified /\ TraceKept
=============================================================================
