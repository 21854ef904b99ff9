------------------------------ MODULE Startup -------------------------------
(***************************************************************************)
(* How the proxy starts (arion-proxy/src/proxy.rs): the main thread starts *)
(* the services' runtime, waits for the metrics exporter when there is     *)
(* one, starts a runtime per proxy thread group and says it is live; a     *)
(* task of the services registers the initial clusters, connects to the    *)
(* control plane and only then gives the static listeners to every         *)
(* runtime through a bounded channel.  Ctrl-C ends each runtime by itself, *)
(* a failure of a runtime or of the services ends the process, and a       *)
(* failure of the services' tasks ends nothing.                            *)
(***************************************************************************)
EXTENDS Naturals, FiniteSets

CONSTANTS
    ProxyRuntimes,    \* the proxy runtimes
    StaticListeners,  \* number of static listeners
    ChannelLength     \* length of a configuration channel

ASSUME StartupAssumption ==
    /\ StaticListeners \in Nat
    /\ ChannelLength \in Nat \ {0}

VARIABLES
    settings,        \* what the bootstrap asks for
    main,        \* launch_runtimes
    services,    \* the services' thread
    task,        \* the configuration task: where it is, and the listener it is at
    given,       \* given[r]: listeners sent to the runtime r
    taken,       \* taken[r]: listeners the runtime r has received
    running,     \* the proxy runtimes that run
    setup,       \* SETUP_BARRIER
    interrupted, \* Ctrl-C was pressed
    process      \* "up", or how it ended

startupVars == <<settings, main, services, task, given, taken, running, setup, interrupted, process>>

StartupInit ==
    /\ settings \in [exporters : BOOLEAN, ads : BOOLEAN]
    /\ main = "begin"
    /\ services = "none"
    /\ task = [at |-> "none", sent |-> 0, clusters |-> FALSE, mcp |-> FALSE]
    /\ given = [r \in ProxyRuntimes |-> 0]
    /\ taken = [r \in ProxyRuntimes |-> 0]
    /\ running = {}
    /\ setup = FALSE
    /\ interrupted = FALSE
    /\ process = "up"

-----------------------------------------------------------------------------
(* launch_runtimes.                                                        *)

\* Secrets, clusters and listener factories are built first; a failure, or
\* nothing to do, ends the process before anything runs.
Launch ==
    /\ process = "up" /\ main = "begin"
    /\ \/ /\ StaticListeners > 0 \/ settings.ads
          /\ services' = "starting"
          /\ main' = IF settings.exporters THEN "barrier" ELSE "threads"
          /\ UNCHANGED process
       \/ process' = "failed" /\ UNCHANGED <<main, services>>
    /\ UNCHANGED <<settings, task, given, taken, running, setup, interrupted>>

\* wait_for_metrics_setup.
WaitForMetricsSetup ==
    /\ process = "up" /\ main = "barrier" /\ setup
    /\ main' = "threads"
    /\ UNCHANGED <<settings, services, task, given, taken, running, setup, interrupted, process>>

\* calculate_num_threads_per_runtime: the error returns from main, and with it
\* the process.
CalculateThreads ==
    /\ process = "up" /\ main = "threads"
    /\ \/ main' = "spawn" /\ UNCHANGED process
       \/ process' = "failed" /\ UNCHANGED main
    /\ UNCHANGED <<settings, services, task, given, taken, running, setup, interrupted>>

SpawnProxyRuntimes ==
    /\ process = "up" /\ main = "spawn"
    /\ running' = ProxyRuntimes
    /\ main' = "live"
    /\ UNCHANGED <<settings, services, task, given, taken, setup, interrupted, process>>

\* Every thread has been joined.
Joined ==
    /\ process = "up" /\ main = "live"
    /\ running = {} /\ services = "ended"
    /\ process' = "stopped"
    /\ UNCHANGED <<settings, main, services, task, given, taken, running, setup, interrupted>>

-----------------------------------------------------------------------------
(* spawn_services.                                                         *)

SpawnTasks ==
    /\ process = "up" /\ services = "starting"
    /\ services' = "timezone"
    /\ task' = [task EXCEPT !.at = "clusters"]
    /\ UNCHANGED <<settings, main, given, taken, running, setup, interrupted, process>>

\* Mutant: a failure of the services ends their thread only.
FailedQuietly == services' = "ended" /\ process' = process

\* An error of spawn_services ends the process.
Failed == process' = "failed" /\ services' = services

\* The time zone, the exporter (which signals its setup), the tracers: each
\* may fail.
NextService(s) == CASE s = "timezone" -> "exporter" [] s = "exporter" -> "tracers" [] s = "tracers" -> "join"

Serve ==
    /\ process = "up" /\ services \in {"timezone", "exporter", "tracers"}
    /\ \/ /\ services' = NextService(services)
          /\ setup' = (setup \/ (services = "exporter" /\ settings.exporters))
          /\ UNCHANGED process
       \/ Failed /\ UNCHANGED setup
    /\ UNCHANGED <<settings, main, task, given, taken, running, interrupted>>

\* join_all: the thread ends when its tasks have, whatever they returned.
ServicesJoined ==
    /\ process = "up" /\ services = "join" /\ task.at = "ended"
    /\ services' = "ended"
    /\ UNCHANGED <<settings, main, task, given, taken, running, setup, interrupted, process>>

-----------------------------------------------------------------------------
(* The configuration task, aborted with its thread.                        *)

TaskRuns(at) == process = "up" /\ services \notin {"none", "ended"} /\ task.at = at

\* Mutant: the control plane is connected to, and the listeners given, first.
AfterClustersLate == "listeners"

AfterClusters == "connect"

\* register_initial_clusters.
RegisterClusters ==
    /\ TaskRuns("clusters")
    /\ \/ task' = [task EXCEPT !.at = AfterClusters, !.clusters = TRUE]
       \/ task' = [task EXCEPT !.at = "ended"]
    /\ UNCHANGED <<settings, main, services, given, taken, running, setup, interrupted, process>>

\* XdsConfigurationHandler::connect and init_mcp_xds_handler.
ConnectXds ==
    /\ TaskRuns("connect")
    /\ \/ task' = [task EXCEPT !.at = "listeners", !.mcp = settings.ads]
       \/ settings.ads /\ task' = [task EXCEPT !.at = "ended"]
    /\ UNCHANGED <<settings, main, services, given, taken, running, setup, interrupted, process>>

\* push_initial_listeners: one listener to every runtime, waiting for those
\* whose channel is full, before the next.
SendListener(r) ==
    /\ TaskRuns("listeners") /\ task.sent < StaticListeners
    /\ given[r] = task.sent
    /\ given[r] - taken[r] < ChannelLength
    /\ given' = [given EXCEPT ![r] = @ + 1]
    /\ UNCHANGED <<settings, main, services, task, taken, running, setup, interrupted, process>>

\* A send fails when the runtime has gone; all sends were made.
NextListener ==
    /\ TaskRuns("listeners") /\ task.sent < StaticListeners
    /\ \/ /\ \A r \in ProxyRuntimes : given[r] = task.sent + 1
          /\ task' = [task EXCEPT !.sent = @ + 1]
       \/ /\ main = "live" /\ \E r \in ProxyRuntimes \ running : given[r] = task.sent
          /\ task' = [task EXCEPT !.at = "ended"]
    /\ UNCHANGED <<settings, main, services, given, taken, running, setup, interrupted, process>>

\* run_loop serves the control plane until its end; without one the task ends.
ListenersGiven ==
    /\ TaskRuns("listeners") /\ task.sent = StaticListeners
    /\ task' = [task EXCEPT !.at = IF settings.ads THEN "xds" ELSE "ended"]
    /\ UNCHANGED <<settings, main, services, given, taken, running, setup, interrupted, process>>

XdsEnds ==
    /\ TaskRuns("xds")
    /\ task' = [task EXCEPT !.at = "ended"]
    /\ UNCHANGED <<settings, main, services, given, taken, running, setup, interrupted, process>>

-----------------------------------------------------------------------------
(* The proxy runtimes.                                                     *)

\* A listener is taken over; one that cannot be built ends the process.
TakeListener(r) ==
    /\ process = "up" /\ r \in running
    /\ taken[r] < given[r]
    /\ \/ taken' = [taken EXCEPT ![r] = @ + 1] /\ UNCHANGED process
       \/ process' = "failed" /\ UNCHANGED taken
    /\ UNCHANGED <<settings, main, services, task, given, running, setup, interrupted>>

CtrlC ==
    /\ process = "up" /\ ~interrupted /\ services # "none"
    /\ interrupted' = TRUE
    /\ UNCHANGED <<settings, main, services, task, given, taken, running, setup, process>>

RuntimeStops(r) ==
    /\ process = "up" /\ interrupted /\ r \in running
    /\ running' = running \ {r}
    /\ UNCHANGED <<settings, main, services, task, given, taken, setup, interrupted, process>>

\* The tasks go with the services' thread.
ServicesStop ==
    /\ process = "up" /\ interrupted /\ services \notin {"none", "ended"}
    /\ services' = "ended"
    /\ task' = [task EXCEPT !.at = "ended"]
    /\ UNCHANGED <<settings, main, given, taken, running, setup, interrupted, process>>

StartupNext ==
    \/ Launch \/ WaitForMetricsSetup \/ CalculateThreads \/ SpawnProxyRuntimes \/ Joined
    \/ SpawnTasks \/ Serve \/ ServicesJoined
    \/ RegisterClusters \/ ConnectXds \/ NextListener \/ ListenersGiven \/ XdsEnds
    \/ \E r \in ProxyRuntimes : SendListener(r) \/ TakeListener(r) \/ RuntimeStops(r)
    \/ CtrlC \/ ServicesStop

StartupSpec == StartupInit /\ [][StartupNext]_startupVars

-----------------------------------------------------------------------------
\* A runtime that has a listener finds the initial clusters in the map and,
\* with a control plane, the MCP handler ready: requests do not meet a proxy
\* half configured.
ListenersComeLast ==
    (\E r \in ProxyRuntimes : taken[r] > 0) => task.clusters /\ (settings.ads => task.mcp)

\* The runtimes are given the same listeners: none is more than one ahead.
RuntimesAlike ==
    \A r, q \in ProxyRuntimes : given[r] <= given[q] + 1

\* The main thread never waits for an exporter that will not come, unless
\* Ctrl-C ended the services first.
BarrierOpens ==
    process = "up" /\ main = "barrier" /\ ~setup =>
        interrupted \/ services \in {"starting", "timezone", "exporter"}

\* Starting is orderly.
StartsInOrder == ListenersComeLast /\ RuntimesAlike /\ BarrierOpens
=============================================================================
