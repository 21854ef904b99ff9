------------------------- MODULE MCPoolsAndHealth -------------------------
(* What runs behind the requests to upstreams: the cached copies of the    *)
(* clusters map, the pools of HTTP/1 and HTTP/2 connections with their     *)
(* cleanup tasks, the end of the transactions, and the health checkers     *)
(* with the reports they send to the configurator. They have no state in   *)
(* common, so a behaviour moves one of them, `part`, and leaves the others *)
(* in their initial states.                                                *)
EXTENDS CachedWatch, Http1Pool, Http2Pool, HealthChecks, Transactions

VARIABLE part

TasksInit ==
    /\ part \in {"watch", "http1", "http2", "checks", "transactions"}
    /\ WatchInit /\ Http1Init /\ PoolInit /\ ChecksInit /\ TxInit

TasksNext ==
    /\ \/ part = "watch" /\ WatchNext /\ UNCHANGED <<http1Vars, poolVars, checkVars, txVars>>
       \/ part = "http1" /\ Http1Next /\ UNCHANGED <<watchVars, poolVars, checkVars, txVars>>
       \/ part = "http2" /\ PoolNext /\ UNCHANGED <<watchVars, http1Vars, checkVars, txVars>>
       \/ part = "checks" /\ ChecksNext /\ UNCHANGED <<watchVars, http1Vars, poolVars, txVars>>
       \/ /\ part = "transactions" /\ TxNext
          /\ UNCHANGED <<watchVars, http1Vars, poolVars, checkVars>>
    /\ UNCHANGED part

tasksVars == <<part, watchVars, http1Vars, poolVars, checkVars, txVars>>

\* The fairness of each component, for the one that moves: writers and
\* readers of the map finish, the cleanup tasks run, time passes for an idle
\* connection, checkers and the configurator go on, and a sender that waits
\* for a place in the channel gets one (SF: the channel may fill again), and
\* bodies are dropped in the end and a connection with a flush pending polled.
TasksFairness ==
    /\ WF_watchVars(part = "watch" /\ BumpVersion)
    /\ WF_watchVars(part = "watch" /\ ReleaseWriteLock)
    /\ \A t \in Threads : WF_watchVars(part = "watch" /\ Read(t))
    /\ WF_http1Vars(part = "http1" /\ H1CleanupExpired)
    /\ \A k \in H1Conns : WF_http1Vars(part = "http1" /\ H1Expire(k))
    /\ WF_poolVars(part = "http2" /\ CleanupExpired)
    /\ \A k \in Conns : WF_poolVars(part = "http2" /\ Expire(k))
    /\ \A e \in Endpoints : /\ WF_checkVars(part = "checks" /\ CheckerStep(e))
                            /\ SF_checkVars(part = "checks" /\ SendReport(e))
    /\ WF_checkVars(part = "checks" /\ ProcessReport)
    /\ WF_checkVars(part = "checks" /\ ConfiguratorStep)
    /\ \A r \in TxRequests : /\ WF_txVars(part = "transactions" /\ DropResponse(r))
                             /\ WF_txVars(part = "transactions" /\ TxAnswered(r))
                             /\ WF_txVars(part = "transactions" /\ DropsCopy(r))
    /\ WF_txVars(part = "transactions" /\ SeePending)
    /\ WF_txVars(part = "transactions" /\ Drain)

TasksSpec == TasksInit /\ [][TasksNext]_tasksVars /\ TasksFairness
=============================================================================
