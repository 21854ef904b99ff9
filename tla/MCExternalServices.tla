------------------------ MODULE MCExternalServices ------------------------
(* The parts of the proxy that work with another process, and how they are *)
(* started: the delta xDS client with its management server, the external  *)
(* processing filter with its processor, and the start of the runtimes.    *)
(* They have no state in common, so a behaviour moves one of them, `part`, *)
(* and leaves the others in their initial states.                          *)
EXTENDS XdsClient, ExternalProcessing, Startup

VARIABLE part

\* A secret, an EDS cluster and its load assignment, a cluster with TLS, a
\* route and an extension resource.
MCResources == {"secret", "c1", "c2", "e1", "route", "ext"}
MCTypeOf == [r \in MCResources |->
    CASE r = "secret" -> "Secret"
      [] r \in {"c1", "c2"} -> "Cluster"
      [] r = "e1" -> "ClusterLoadAssignment"
      [] r = "route" -> "RouteConfiguration"
      [] OTHER -> "Extension"]
MCEndpointsOf == [r \in MCResources |-> IF r = "c1" THEN {"e1"} ELSE {}]
MCSecretOf == [r \in MCResources |-> IF r = "c2" THEN {"secret"} ELSE {}]
MCUndecodable == {<<"c2", 2>>}
MCInvalid == {<<"route", 3>>}

ServicesInit ==
    /\ part \in {"xds", "processing", "startup"}
    /\ XdsInit /\ ExtProcInit /\ StartupInit
    /\ part # "startup" => settings = [exporters |-> FALSE, ads |-> FALSE]

ServicesNext ==
    /\ \/ part = "xds" /\ XdsNext /\ UNCHANGED <<ext, startupVars>>
       \/ part = "processing" /\ ExtProcNext /\ UNCHANGED <<xdsVars, startupVars>>
       \/ part = "startup" /\ StartupNext /\ UNCHANGED <<xdsVars, ext>>
    /\ UNCHANGED part

servicesVars == <<part, xdsVars, ext, startupVars>>

\* The fairness of each component, for the one that moves: the server sends
\* what it has, the worker serves its select! and reconnects, the
\* configurator runs; a ready processing task is polled, bodies end and
\* timers fire.
ServicesFairness ==
    /\ WF_xdsVars(part = "xds" /\ \E type \in TypeUrls : ServerSend(type))
    /\ WF_xdsVars(part = "xds" /\ Work)
    /\ WF_xdsVars(part = "xds" /\ Configure)
    /\ WF_ext(part = "processing" /\ ReadsBody)
    /\ WF_ext(part = "processing" /\ MessageTimeout)

ServicesSpec == ServicesInit /\ [][ServicesNext]_servicesVars /\ ServicesFairness
=============================================================================
