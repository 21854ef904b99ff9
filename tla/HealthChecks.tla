---------------------------- MODULE HealthChecks ----------------------------
(***************************************************************************)
(* The health checkers of one cluster: the counter of the results of one   *)
(* endpoint (clusters/health/counter.rs), the loop of each checker task    *)
(* (clusters/health/checkers/checker.rs), their start and stop             *)
(* (checkers/mod.rs, manager.rs), the channel of their reports, and the    *)
(* configurator task (arion-proxy/src/xds_configurator.rs) that both       *)
(* applies the reports and restarts the checkers.                          *)
(*                                                                         *)
(* A checker is stopped with Notify::notify_waiters, which reaches only    *)
(* the tasks that wait at that moment, and is then joined.                 *)
(***************************************************************************)
EXTENDS Integers, Sequences, SequencesExt

(* HealthStatusCounter (clusters/health/counter.rs): what one health check *)
(* result does to the status of an endpoint.  `checks` counts consecutive  *)
(* results of one kind, up for successes and down for failures, and stops  *)
(* at the thresholds.                                                      *)

CONSTANTS
    HealthyThreshold,     \* healthy_threshold
    UnhealthyThreshold    \* unhealthy_threshold

ASSUME ThresholdAssumption == HealthyThreshold \in Nat /\ UnhealthyThreshold \in Nat

Statuses == {"Unknown", "Healthy", "Unhealthy"}

\* How a check ends: as expected; with an error, a timeout or a retriable
\* status; or with a status that must not be retried.
Outcomes == {"success", "failure", "fatal"}

Counters == [status : Statuses, checks : (-UnhealthyThreshold)..HealthyThreshold]

NewCounter == [status |-> "Unknown", checks |-> 0]

\* Mutant: a success does not interrupt a run of failures.
CountUpFromBelow(checks) == IF checks < HealthyThreshold THEN checks + 1 ELSE checks

CountUp(checks) ==
    LET from == IF checks < 0 THEN 0 ELSE checks
    IN IF from < HealthyThreshold THEN from + 1 ELSE from

CountDown(checks) ==
    LET from == IF checks > 0 THEN 0 ELSE checks
    IN IF from > -UnhealthyThreshold THEN from - 1 ELSE from

\* add_success. The first result of all decides at once.
AddSuccess(c) ==
    LET n == CountUp(c.checks)
    IN [status |-> IF c.status = "Unknown" \/ n >= HealthyThreshold
                   THEN "Healthy" ELSE c.status,
        checks |-> n]

\* add_failure and add_failure_ignore_threshold.
AddFailure(c, ignoreThreshold) ==
    LET n == CountDown(c.checks)
    IN [status |-> IF c.status = "Unknown" \/ ignoreThreshold \/ n <= -UnhealthyThreshold
                   THEN "Unhealthy" ELSE c.status,
        checks |-> n]

\* process_response, and the arms of `run` for errors and timeouts.
AddOutcome(c, outcome) ==
    IF outcome = "success" THEN AddSuccess(c) ELSE AddFailure(c, outcome = "fatal")

\* Both functions return the status, as a change, when it is set, and nothing
\* when it already was the one the result speaks for.
Changed(c, outcome) ==
    c.status = "Unknown" \/ AddOutcome(c, outcome).status # c.status

-----------------------------------------------------------------------------
(* A reference for the counter: the status of an endpoint as a function    *)
(* of the whole sequence of its results, without a counter.                *)

CONSTANT MaxResults   \* bound: results in a history

ASSUME HistoryAssumption == MaxResults \in Nat

Histories == BoundedSeq(Outcomes, MaxResults)

\* The counter before, along and after all the results of a history.
CountersAlong(history) ==
    LET after[i \in 0 .. Len(history)] ==
            IF i = 0 THEN NewCounter ELSE AddOutcome(after[i - 1], history[i])
    IN after

CounterAfter(history) == CountersAlong(history)[Len(history)]

\* The last n results up to the i-th exist and all are of one kind.
Run(history, n, i, kind) == n <= i /\ \A j \in (i - n + 1)..i : history[j] \in kind

\* The i-th result settles the status: the first one does, and later the one
\* that completes a run of the threshold's length, or a fatal one.
SettlesHealthy(history, i) ==
    history[i] = "success" /\ (i = 1 \/ Run(history, HealthyThreshold, i, {"success"}))

SettlesUnhealthy(history, i) ==
    \/ history[i] = "fatal"
    \/ /\ history[i] = "failure"
       /\ i = 1 \/ Run(history, UnhealthyThreshold, i, {"failure", "fatal"})

\* The status is what the last settling result said.
ReferenceStatus(history) ==
    LET settling == {i \in DOMAIN history :
                        SettlesHealthy(history, i) \/ SettlesUnhealthy(history, i)}
    IN IF settling = {} THEN "Unknown"
       ELSE IF SettlesHealthy(history, Max(settling)) THEN "Healthy" ELSE "Unhealthy"

\* The counters that some history leads to with another status than it asks for.
Disagreeing ==
    {CounterAfter(history) :
        history \in {h \in Histories : CounterAfter(h).status # ReferenceStatus(h)}}
-----------------------------------------------------------------------------
(* The checkers of a cluster.                                              *)

CONSTANTS
    Endpoints,     \* the endpoints of the cluster
    ChannelSize,   \* capacity of the report channel
    MaxRestarts,   \* bound: updates and removals of the cluster
    NoEndpoint

ASSUME ChecksAssumption ==
    /\ ChannelSize \in Nat \ {0}
    /\ MaxRestarts \in Nat
    /\ NoEndpoint \notin Endpoints

VARIABLES
    task,          \* task[e]: where the checker task of e is
    notified,      \* the tasks whose wait has received the stop signal
    counter,       \* counter[e]: the HealthStatusCounter of the task
    report,        \* report[e]: what the task is about to send
    channel,       \* the reports on their way, oldest first
    health,        \* health[e]: the status in the clusters map
    present,       \* the cluster is in the map
    config,        \* the configurator: [pc, endpoint it joins, checkers left]
    restarts       \* replacements and removals so far

checkVars == <<task, notified, counter, report, channel, health, present, config, restarts>>

Reports == [endpoint : Endpoints, health : {"Healthy", "Unhealthy"}, changed : BOOLEAN]

Serving == [pc |-> "serving", joining |-> NoEndpoint, left |-> {}]

ChecksTypeOK ==
    /\ task \in [Endpoints -> {"none", "spawned", "running", "checking", "reporting",
                               "reported", "waiting", "done"}]
    /\ notified \subseteq Endpoints
    /\ counter \in [Endpoints -> Counters]
    /\ \A e \in Endpoints : task[e] = "reporting" => report[e] \in Reports
    /\ Len(channel) <= ChannelSize
    /\ \A i \in DOMAIN channel : channel[i] \in Reports
    /\ health \in [Endpoints -> {"Healthy", "Unhealthy"}]
    /\ present \in BOOLEAN
    /\ config \in [pc : {"serving", "stopping", "joining"},
                   joining : Endpoints \cup {NoEndpoint}, left : SUBSET Endpoints]
    /\ restarts \in 0..MaxRestarts

----------------------------------------------------------------------------

\* run_loop has started the checkers of the bootstrap cluster.
ChecksInit ==
    /\ task = [e \in Endpoints |-> "spawned"]
    /\ notified = {}
    /\ counter = [e \in Endpoints |-> NewCounter]
    /\ report = [e \in Endpoints |-> NoEndpoint]
    /\ channel = <<>>
    /\ health = [e \in Endpoints |-> "Healthy"]
    /\ present = TRUE
    /\ config = Serving
    /\ restarts = 0

\* Task e goes from one of the states to another.
Go(e, from, to) == task[e] \in from /\ task' = [task EXCEPT ![e] = to]

----------------------------------------------------------------------------
(* A checker task. While it is "checking" or "waiting" it has a Notified   *)
(* future; in all other states nobody listens to the stop signal.          *)

Listening(e) == task[e] \in {"checking", "waiting"}

\* The first poll of the task waits for the initial jitter, where configured.
InitialJitter(e) ==
    /\ Go(e, {"spawned"}, "waiting")
    /\ UNCHANGED <<notified, counter, report, channel, health, present, config, restarts>>

\* The top of the loop: the check is sent.
BeginCheck(e) ==
    /\ Go(e, {"spawned", "running"}, "checking")
    /\ UNCHANGED <<notified, counter, report, channel, health, present, config, restarts>>

ReportOf(e, outcome) ==
    [endpoint |-> e, health |-> AddOutcome(counter[e], outcome).status,
     changed |-> Changed(counter[e], outcome)]

\* select! takes the result of the check, or its timeout. When the stop
\* signal is there too, select! may still take the result.
CheckDone(e, outcome) ==
    /\ Go(e, {"checking"}, "reporting")
    /\ notified' = notified \ {e}
    /\ counter' = [counter EXCEPT ![e] = AddOutcome(@, outcome)]
    /\ report' = [report EXCEPT ![e] = ReportOf(e, outcome)]
    /\ UNCHANGED <<channel, health, present, config, restarts>>

\* Mutant: try_send, a report is dropped when the channel is full.
SendReportOrDrop(e) ==
    /\ Go(e, {"reporting"}, "reported")
    /\ channel' = IF Len(channel) < ChannelSize THEN Append(channel, report[e]) ELSE channel
    /\ report' = [report EXCEPT ![e] = NoEndpoint]
    /\ UNCHANGED <<notified, counter, health, present, config, restarts>>

\* Mutant: the channel has no bound.
SendReportUnbounded(e) ==
    /\ Go(e, {"reporting"}, "reported")
    /\ channel' = Append(channel, report[e])
    /\ report' = [report EXCEPT ![e] = NoEndpoint]
    /\ UNCHANGED <<notified, counter, health, present, config, restarts>>

\* The report is sent; the task waits here while the channel is full.
SendReport(e) ==
    /\ Len(channel) < ChannelSize
    /\ Go(e, {"reporting"}, "reported")
    /\ channel' = Append(channel, report[e])
    /\ report' = [report EXCEPT ![e] = NoEndpoint]
    /\ UNCHANGED <<notified, counter, health, present, config, restarts>>

BeginWait(e) ==
    /\ Go(e, {"reported"}, "waiting")
    /\ UNCHANGED <<notified, counter, report, channel, health, present, config, restarts>>

\* The timeout polls the stop signal first: the interval ends only without it.
WaitOver(e) ==
    /\ e \notin notified
    /\ Go(e, {"waiting"}, "running")
    /\ UNCHANGED <<notified, counter, report, channel, health, present, config, restarts>>

\* The stop signal ends the task.
Cancelled(e) ==
    /\ e \in notified
    /\ Go(e, {"checking", "waiting"}, "done")
    /\ notified' = notified \ {e}
    /\ UNCHANGED <<counter, report, channel, health, present, config, restarts>>

----------------------------------------------------------------------------
(* The configurator task. *)

NextReport == Head(channel)

\* process_health_event and update_endpoint_health.
ProcessReport ==
    /\ config.pc = "serving"
    /\ channel # <<>>
    /\ channel' = Tail(channel)
    /\ health' = IF NextReport.changed /\ present
                 THEN [health EXCEPT ![NextReport.endpoint] = NextReport.health]
                 ELSE health
    /\ UNCHANGED <<task, notified, counter, report, present, config, restarts>>

\* The checkers that exist are stopped one after the other.
StopCluster == config' = [pc |-> "stopping", joining |-> NoEndpoint,
                          left |-> {e \in Endpoints : task[e] # "none"}]

\* A new configuration or load assignment: the map has the cluster with its
\* configured statuses, then restart_cluster.
ReplaceCluster ==
    /\ config.pc = "serving"
    /\ restarts < MaxRestarts
    /\ restarts' = restarts + 1
    /\ present' = TRUE
    /\ health' = [e \in Endpoints |-> "Healthy"]
    /\ StopCluster
    /\ UNCHANGED <<task, notified, counter, report, channel>>

\* A new secret of the cluster: its channels are rebuilt with the statuses
\* they have, then restart_cluster.
RotateSecret ==
    /\ config.pc = "serving"
    /\ present
    /\ restarts < MaxRestarts
    /\ restarts' = restarts + 1
    /\ StopCluster
    /\ UNCHANGED <<task, notified, counter, report, channel, health, present>>

\* remove_cluster or remove_cluster_load_assignment, then stop_cluster.
RemoveCluster ==
    /\ config.pc = "serving"
    /\ present
    /\ restarts < MaxRestarts
    /\ restarts' = restarts + 1
    /\ present' = FALSE
    /\ StopCluster
    /\ UNCHANGED <<task, notified, counter, report, channel, health>>

\* EndpointHealthChecker::stop: notify_waiters.
NotifyWaiters(e) ==
    /\ config.pc = "stopping"
    /\ e \in config.left
    /\ config' = [pc |-> "joining", joining |-> e, left |-> config.left \ {e}]
    /\ notified' = IF Listening(e) THEN notified \cup {e} ELSE notified
    /\ UNCHANGED <<task, counter, report, channel, health, present, restarts>>

\* EndpointHealthChecker::stop: the task has ended.
Joined ==
    /\ config.pc = "joining"
    /\ task[config.joining] = "done"
    /\ task' = [task EXCEPT ![config.joining] = "none"]
    /\ config' = [config EXCEPT !.pc = "stopping", !.joining = NoEndpoint]
    /\ UNCHANGED <<notified, counter, report, channel, health, present, restarts>>

\* Mutant: the new tasks take over the counters of the old ones.
StartCheckersKeepingCounters ==
    /\ config.pc = "stopping"
    /\ config.left = {}
    /\ config' = Serving
    /\ task' = [e \in Endpoints |-> IF present THEN "spawned" ELSE "none"]
    /\ UNCHANGED <<notified, counter, report, channel, health, present, restarts>>

\* All are stopped: restart_cluster spawns the new ones, stop_cluster none.
StartCheckers ==
    /\ config.pc = "stopping"
    /\ config.left = {}
    /\ config' = Serving
    /\ task' = [e \in Endpoints |-> IF present THEN "spawned" ELSE "none"]
    /\ counter' = [e \in Endpoints |-> NewCounter]
    /\ UNCHANGED <<notified, report, channel, health, present, restarts>>

----------------------------------------------------------------------------

CheckerStep(e) ==
    \/ InitialJitter(e) \/ BeginCheck(e)
    \/ \E outcome \in Outcomes : CheckDone(e, outcome)
    \/ SendReport(e) \/ BeginWait(e) \/ WaitOver(e) \/ Cancelled(e)

ConfiguratorStep ==
    \/ ProcessReport
    \/ \E e \in Endpoints : NotifyWaiters(e)
    \/ Joined
    \/ StartCheckers

ChecksNext ==
    \/ \E e \in Endpoints : CheckerStep(e)
    \/ ConfiguratorStep
    \/ ReplaceCluster
    \/ RotateSecret
    \/ RemoveCluster

\* Every task that can run is run, checks and intervals end (both are under
\* a timeout), and select! serves both channels of the configurator. The
\* permits of a full tokio channel are handed out in the order of the
\* requests, so a waiting report is not overtaken for ever.
ChecksFairness ==
    /\ \A e \in Endpoints : WF_checkVars(CheckerStep(e)) /\ SF_checkVars(SendReport(e))
    /\ WF_checkVars(ProcessReport)
    /\ WF_checkVars(ConfiguratorStep)

ChecksSpec == ChecksInit /\ [][ChecksNext]_checkVars /\ ChecksFairness

----------------------------------------------------------------------------

Pending(e) ==
    \/ task[e] = "reporting" /\ report[e].changed
    \/ \E i \in DOMAIN channel : channel[i].endpoint = e /\ channel[i].changed

(* process_health_event drops the reports that are not `changed`, so the   *)
(* map has the right status only if no change is ever lost or applied out  *)
(* of order, across restarts that reset the map while reports of the old   *)
(* checkers are still on their way. Whenever no change is on its way, the  *)
(* map agrees with the checker.                                            *)
MapAgreesWithChecker ==
    \A e \in Endpoints :
        /\ config.pc = "serving" /\ present
        /\ counter[e].status # "Unknown"
        /\ ~Pending(e)
        => health[e] = counter[e].status

(* A change that a checker reports reaches the map, through a channel that *)
(* may be full and behind the reports of other checkers, unless the        *)
(* configurator turns to stopping checkers.                                *)
ChangeReachesMap ==
    \A e \in Endpoints : \A h \in {"Healthy", "Unhealthy"} :
        task[e] = "reporting" /\ report[e].changed /\ report[e].health = h
            ~> health[e] = h \/ config.pc # "serving"

(* checker.rs: "Wait for the response or cancellation"; a stop ends every  *)
(* checker, and the configurator goes back to its updates.                 *)
StopCompletes == config.pc # "serving" ~> config.pc = "serving"

(* The status that add_success and add_failure keep is the one the whole   *)
(* history of results asks for: an endpoint changes sides only on its      *)
(* first result, on a full run of consecutive results of the other kind,   *)
(* or on a fatal one, and the two runs never mix. No checker comes to a    *)
(* counter that disagrees with a history that leads to it.                 *)
StatusMatchesHistory == \A e \in Endpoints : counter[e] \notin Disagreeing
=============================================================================
