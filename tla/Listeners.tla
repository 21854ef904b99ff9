------------------------------ MODULE Listeners ------------------------------
(***************************************************************************)
(* One listener and its configuration path: the configurator task          *)
(* (arion-proxy/src/xds_configurator.rs) sends listener, secret and route  *)
(* changes to the ListenersManager of every runtime                        *)
(* (listeners/listeners_manager.rs), which starts, replaces and stops the  *)
(* listener's task (listeners/listener.rs) and broadcasts routes and       *)
(* secrets to it.                                                          *)
(*                                                                         *)
(* Listener changes and route changes travel in two channels that select!  *)
(* serves in any order; routes and secrets reach the tasks through two     *)
(* broadcast channels, whose slow receivers lag. Every Added starts a new  *)
(* generation of the listener, with a route table of its own. The listener *)
(* has one dynamic route table and one TLS secret.                         *)
(***************************************************************************)
EXTENDS Naturals, Sequences, SequencesExt

CONSTANTS
    Runtimes,       \* the proxy runtimes, each with a ListenersManager
    Configs,        \* listener configurations: [uses: it refers to the route,
                    \*   internal: it has no socket, builds: into_listener
                    \*   succeeds]
    BroadcastSize,  \* capacity of the broadcast channels (16 in the code)
    MaxGenerations, \* bound: Added changes of the listener
    MaxRemovals,    \* bound: Removed changes of the listener
    MaxRoutes,      \* bound: route changes
    MaxSecrets      \* bound: secret changes

ASSUME ListenersAssumption ==
    /\ Configs \subseteq [uses : BOOLEAN, internal : BOOLEAN, builds : BOOLEAN]
    /\ BroadcastSize \in Nat \ {0}
    /\ {MaxGenerations, MaxRemovals, MaxRoutes, MaxSecrets} \subseteq Nat

\* The configurations of an instance without internal or unbuildable listeners.
RoutedConfigs == {[uses |-> TRUE, internal |-> FALSE, builds |-> TRUE]}

VARIABLES
    conf,         \* conf[r]: listener and secret changes on their way to r
    routeConf,    \* routeConf[r]: route changes on their way to r
    up,           \* the runtimes whose manager runs
    handle,       \* handle[r]: [gen, from]: the generation in listener_handles
                  \*   (0: none) and the route changes broadcast before it
    task,         \* task[r][g]: the task of generation g
    routeLog,     \* routeLog[r]: all route changes broadcast in r
    secretLog,    \* secretLog[r]: all secrets broadcast in r
    registry,     \* registry[r]: the generation in the internal registry (0: none)
    waiting,      \* the route change the configurator waits for (0: none)
    notified,     \* the route changes whose Notify has its permit
    sent,         \* [generations, removals, routes, secrets] sent so far
    accepted,     \* the route changes the configurator has accepted
    answered      \* the route changes some task applied, or some runtime
                  \*   dropped because it had no listener

listenerVars == <<conf, routeConf, up, handle, task, routeLog, secretLog, registry,
                  waiting, notified, sent, accepted, answered>>

Generations == 1..MaxGenerations
RouteChanges == [n : 1..MaxRoutes, added : BOOLEAN]

\* A task that does not exist (yet).
NoTask == [pc |-> "none", aborted |-> FALSE, uses |-> FALSE, internal |-> FALSE,
           routeAt |-> 0, secretAt |-> 0, route |-> 0, tls |-> 0]

Tasks == [pc : {"none", "spawned", "running", "gone"}, aborted : BOOLEAN,
          uses : BOOLEAN, internal : BOOLEAN,
          routeAt : 0..MaxRoutes, secretAt : 0..MaxSecrets,
          route : 0..MaxRoutes, tls : 0..MaxSecrets]

(* The state has its types; a task is never ahead of the broadcasts.       *)
ListenersTypeOK ==
    /\ up \subseteq Runtimes
    /\ handle \in [Runtimes -> [gen : 0..MaxGenerations, from : 0..MaxRoutes]]
    /\ task \in [Runtimes -> [Generations -> Tasks]]
    /\ registry \in [Runtimes -> 0..MaxGenerations]
    /\ waiting \in 0..MaxRoutes
    /\ \A s \in {notified, accepted, answered} : s \subseteq 1..MaxRoutes
    /\ \A r \in Runtimes :
        /\ \A i \in DOMAIN routeLog[r] : routeLog[r][i] \in RouteChanges
        /\ \A i \in DOMAIN secretLog[r] : secretLog[r][i] \in 1..MaxSecrets
        /\ \A g \in Generations :
            /\ task[r][g].routeAt <= Len(routeLog[r])
            /\ task[r][g].secretAt <= Len(secretLog[r])

ListenersInit ==
    /\ conf = [r \in Runtimes |-> <<>>]
    /\ routeConf = [r \in Runtimes |-> <<>>]
    /\ up = Runtimes
    /\ handle = [r \in Runtimes |-> [gen |-> 0, from |-> 0]]
    /\ task = [r \in Runtimes |-> [g \in Generations |-> NoTask]]
    /\ routeLog = [r \in Runtimes |-> <<>>]
    /\ secretLog = [r \in Runtimes |-> <<>>]
    /\ registry = [r \in Runtimes |-> 0]
    /\ waiting = 0
    /\ notified = {}
    /\ sent = [generations |-> 0, removals |-> 0, routes |-> 0, secrets |-> 0]
    /\ accepted = {}
    /\ answered = {}

----------------------------------------------------------------------------
(* The configurator: one update at a time, a route change ends with its    *)
(* acceptance or with the timeout. send_change_to_runtimes ignores a       *)
(* runtime whose manager is gone.                                          *)

SendTo(queue, change) ==
    [r \in Runtimes |-> IF r \in up THEN Append(queue[r], change) ELSE queue[r]]

\* A valid listener: the factory has the secret of the moment.
PushListener(config) ==
    /\ waiting = 0
    /\ sent.generations < MaxGenerations
    /\ sent' = [sent EXCEPT !.generations = @ + 1]
    /\ conf' = SendTo(conf, [kind |-> "Added", gen |-> sent.generations + 1,
                             config |-> config, tls |-> sent.secrets])
    /\ UNCHANGED <<routeConf, up, handle, task, routeLog, secretLog, registry,
                   waiting, notified, accepted, answered>>

PushRemoval ==
    /\ waiting = 0
    /\ sent.removals < MaxRemovals
    /\ sent' = [sent EXCEPT !.removals = @ + 1]
    /\ conf' = SendTo(conf, [kind |-> "Removed"])
    /\ UNCHANGED <<routeConf, up, handle, task, routeLog, secretLog, registry,
                   waiting, notified, accepted, answered>>

PushSecret ==
    /\ waiting = 0
    /\ sent.secrets < MaxSecrets
    /\ sent' = [sent EXCEPT !.secrets = @ + 1]
    /\ conf' = SendTo(conf, [kind |-> "TlsContextChanged", tls |-> sent.secrets + 1])
    /\ UNCHANGED <<routeConf, up, handle, task, routeLog, secretLog, registry,
                   waiting, notified, accepted, answered>>

\* Added or Removed, with a Notify of its own.
PushRoute(added) ==
    /\ waiting = 0
    /\ sent.routes < MaxRoutes
    /\ sent' = [sent EXCEPT !.routes = @ + 1]
    /\ routeConf' = SendTo(routeConf, [n |-> sent.routes + 1, added |-> added])
    /\ waiting' = sent.routes + 1
    /\ UNCHANGED <<conf, up, handle, task, routeLog, secretLog, registry,
                   notified, accepted, answered>>

\* Mutant: all changes share one Notify.
HasPermitShared(n) == notified # {}

HasPermit(n) == n \in notified

RouteAccepted ==
    /\ waiting # 0
    /\ HasPermit(waiting)
    /\ accepted' = accepted \cup {waiting}
    /\ waiting' = 0
    /\ UNCHANGED <<conf, routeConf, up, handle, task, routeLog, secretLog, registry,
                   notified, sent, answered>>

\* ROUTE_UPDATE_TIMEOUT: the change is rejected, but stays on its way.
RouteTimedOut ==
    /\ waiting # 0
    /\ ~HasPermit(waiting)
    /\ waiting' = 0
    /\ UNCHANGED <<conf, routeConf, up, handle, task, routeLog, secretLog, registry,
                   notified, sent, accepted, answered>>

----------------------------------------------------------------------------
(* ListenersManager::start in runtime r.                                   *)

\* The handle of generation g is dropped: abort.
Abort(tasks, g) ==
    [h \in Generations |-> IF h = g THEN [tasks[h] EXCEPT !.aborted = TRUE] ELSE tasks[h]]

\* Mutant: the subscription begins after the next change.
SpawnedAhead(r, change) ==
    [pc |-> "spawned", aborted |-> FALSE,
     uses |-> change.config.uses, internal |-> change.config.internal,
     routeAt |-> Len(routeLog[r]) + 1, secretAt |-> Len(secretLog[r]) + 1,
     route |-> 0, tls |-> change.tls]

\* The new task has subscribed to both broadcast channels.
Spawned(r, change) ==
    [pc |-> "spawned", aborted |-> FALSE,
     uses |-> change.config.uses, internal |-> change.config.internal,
     routeAt |-> Len(routeLog[r]), secretAt |-> Len(secretLog[r]),
     route |-> 0, tls |-> change.tls]

\* The next change for r is of this kind.
Taking(r, kind) ==
    /\ r \in up
    /\ conf[r] # <<>>
    /\ Head(conf[r]).kind = kind
    /\ conf' = [conf EXCEPT ![r] = Tail(@)]

\* Mutant: the handle is detached, not aborted.
StartListenerDetached(r, change) ==
    /\ task' = [task EXCEPT ![r][change.gen] = Spawned(r, change)]
    /\ handle' = [handle EXCEPT ![r] = [gen |-> change.gen, from |-> Len(routeLog[r])]]

\* start_listener: the task is spawned, then the old handle is overwritten.
StartListener(r, change) ==
    /\ task' = [task EXCEPT ![r] = [Abort(@, handle[r].gen) EXCEPT ![change.gen] = Spawned(r, change)]]
    /\ handle' = [handle EXCEPT ![r] = [gen |-> change.gen, from |-> Len(routeLog[r])]]

TakeAdded(r) ==
    /\ Taking(r, "Added")
    /\ Head(conf[r]).config.builds
    /\ StartListener(r, Head(conf[r]))
    /\ UNCHANGED <<routeConf, up, routeLog, secretLog, registry,
                   waiting, notified, sent, accepted, answered>>

\* into_listener fails, and `?` ends the manager and its listeners.
TakeUnbuildable(r) ==
    /\ Taking(r, "Added")
    /\ ~Head(conf[r]).config.builds
    /\ up' = up \ {r}
    /\ task' = [task EXCEPT ![r] = Abort(@, handle[r].gen)]
    /\ handle' = [handle EXCEPT ![r] = [gen |-> 0, from |-> 0]]
    /\ UNCHANGED <<routeConf, routeLog, secretLog, registry,
                   waiting, notified, sent, accepted, answered>>

\* stop_listener.
TakeRemoved(r) ==
    /\ Taking(r, "Removed")
    /\ task' = [task EXCEPT ![r] = Abort(@, handle[r].gen)]
    /\ handle' = [handle EXCEPT ![r] = [gen |-> 0, from |-> 0]]
    /\ UNCHANGED <<routeConf, up, routeLog, secretLog, registry,
                   waiting, notified, sent, accepted, answered>>

\* Tasks that have a receiver of the broadcast channels.
Subscribed(r) == {g \in Generations : task[r][g].pc \in {"spawned", "running"}}

\* Without a receiver the send fails and the secret is dropped.
TakeSecret(r) ==
    /\ Taking(r, "TlsContextChanged")
    /\ secretLog' = IF Subscribed(r) = {} THEN secretLog
                    ELSE [secretLog EXCEPT ![r] = Append(@, Head(conf[r]).tls)]
    /\ UNCHANGED <<routeConf, up, handle, task, routeLog, registry,
                   waiting, notified, sent, accepted, answered>>

\* Without a receiver the change is dropped, and its Notify is notified.
TakeRoute(r) ==
    /\ r \in up
    /\ routeConf[r] # <<>>
    /\ routeConf' = [routeConf EXCEPT ![r] = Tail(@)]
    /\ LET change == Head(routeConf[r]) IN
       IF Subscribed(r) = {}
       THEN /\ notified' = notified \cup {change.n}
            /\ answered' = answered \cup {change.n}
            /\ UNCHANGED routeLog
       ELSE /\ routeLog' = [routeLog EXCEPT ![r] = Append(@, change)]
            /\ UNCHANGED <<notified, answered>>
    /\ UNCHANGED <<conf, up, handle, task, secretLog, registry, waiting, sent, accepted>>

----------------------------------------------------------------------------
(* The task of generation g in runtime r. A task that is aborted while it  *)
(* runs on another thread may still apply updates until it yields.         *)

\* Mutant: the broadcast channels are subscribed to by the task itself.
StartedLate(r, g) ==
    [task[r][g] EXCEPT !.pc = "running", !.routeAt = Len(routeLog[r]),
                       !.secretAt = Len(secretLog[r])]

Started(r, g) == [task[r][g] EXCEPT !.pc = "running"]

\* The socket is bound, or the internal listener registered by name.
Start(r, g) ==
    /\ task[r][g].pc = "spawned"
    /\ ~task[r][g].aborted
    /\ task' = [task EXCEPT ![r][g] = Started(r, g)]
    /\ registry' = IF task[r][g].internal THEN [registry EXCEPT ![r] = g] ELSE registry
    /\ UNCHANGED <<conf, routeConf, up, handle, routeLog, secretLog,
                   waiting, notified, sent, accepted, answered>>

\* Mutant: no guard unregisters the listener.
EndStaysRegistered(r, g) ==
    /\ task' = [task EXCEPT ![r][g] = [NoTask EXCEPT !.pc = "gone"]]
    /\ UNCHANGED registry

\* The task ends. If it has started, the guard unregisters the name,
\* whoever is registered under it.
End(r, g) ==
    /\ task' = [task EXCEPT ![r][g] = [NoTask EXCEPT !.pc = "gone"]]
    /\ registry' = IF task[r][g].internal /\ task[r][g].pc = "running"
                   THEN [registry EXCEPT ![r] = 0] ELSE registry

\* configure_and_start_tcp_listener fails.
BindFails(r, g) ==
    /\ ~task[r][g].internal
    /\ task[r][g].pc = "spawned"
    /\ End(r, g)
    /\ UNCHANGED <<conf, routeConf, up, handle, routeLog, secretLog,
                   waiting, notified, sent, accepted, answered>>

RoutesLag(r, g) == Len(routeLog[r]) - task[r][g].routeAt > BroadcastSize
SecretsLag(r, g) == Len(secretLog[r]) - task[r][g].secretAt > BroadcastSize

NextRoute(r, g) == routeLog[r][task[r][g].routeAt + 1]

\* process_route_update.
ApplyRoute(r, g) ==
    /\ task[r][g].pc = "running"
    /\ task[r][g].routeAt < Len(routeLog[r])
    /\ ~RoutesLag(r, g)
    /\ LET change == NextRoute(r, g)
           old == task[r][g] IN
       IF old.uses
       THEN /\ task' = [task EXCEPT ![r][g] =
                          [old EXCEPT !.routeAt = old.routeAt + 1,
                                      !.route = IF change.added THEN change.n ELSE 0]]
            /\ notified' = notified \cup {change.n}
            /\ answered' = answered \cup {change.n}
       ELSE /\ task' = [task EXCEPT ![r][g] = [old EXCEPT !.routeAt = old.routeAt + 1]]
            /\ UNCHANGED <<notified, answered>>
    /\ UNCHANGED <<conf, routeConf, up, handle, routeLog, secretLog, registry,
                   waiting, sent, accepted>>

\* process_secret_update. The select! is biased: routes are taken first.
ApplySecret(r, g) ==
    /\ task[r][g].pc = "running"
    /\ task[r][g].routeAt = Len(routeLog[r])
    /\ task[r][g].secretAt < Len(secretLog[r])
    /\ ~SecretsLag(r, g)
    /\ LET old == task[r][g] IN
       task' = [task EXCEPT ![r][g] = [old EXCEPT !.tls = secretLog[r][old.secretAt + 1],
                                                  !.secretAt = old.secretAt + 1]]
    /\ UNCHANGED <<conf, routeConf, up, handle, routeLog, secretLog, registry,
                   waiting, notified, sent, accepted, answered>>

\* recv returns Lagged, and the task returns.
Lagged(r, g) ==
    /\ task[r][g].pc = "running"
    /\ \/ RoutesLag(r, g)
       \/ task[r][g].routeAt = Len(routeLog[r]) /\ SecretsLag(r, g)
    /\ End(r, g)
    /\ UNCHANGED <<conf, routeConf, up, handle, routeLog, secretLog,
                   waiting, notified, sent, accepted, answered>>

\* The registry held the sender of the internal listener's channel: once it
\* is replaced or removed (and no thread has it cached), recv returns None.
ChannelClosed(r, g) ==
    /\ task[r][g].internal
    /\ task[r][g].pc = "running"
    /\ registry[r] # g
    /\ End(r, g)
    /\ UNCHANGED <<conf, routeConf, up, handle, routeLog, secretLog,
                   waiting, notified, sent, accepted, answered>>

\* The runtime drops the aborted task.
Dropped(r, g) ==
    /\ task[r][g].pc \in {"spawned", "running"}
    /\ task[r][g].aborted
    /\ End(r, g)
    /\ UNCHANGED <<conf, routeConf, up, handle, routeLog, secretLog,
                   waiting, notified, sent, accepted, answered>>

----------------------------------------------------------------------------

ManagerStep(r) ==
    \/ TakeAdded(r) \/ TakeUnbuildable(r) \/ TakeRemoved(r)
    \/ TakeSecret(r) \/ TakeRoute(r)

TaskStep(r, g) ==
    \/ Start(r, g) \/ ApplyRoute(r, g) \/ ApplySecret(r, g)
    \/ Lagged(r, g) \/ Dropped(r, g)

ListenersNext ==
    \/ \E config \in Configs : PushListener(config)
    \/ PushRemoval
    \/ PushSecret
    \/ \E added \in BOOLEAN : PushRoute(added)
    \/ RouteAccepted
    \/ RouteTimedOut
    \/ \E r \in Runtimes :
        \/ ManagerStep(r)
        \/ \E g \in Generations : TaskStep(r, g) \/ BindFails(r, g) \/ ChannelClosed(r, g)

ListenersSpec == ListenersInit /\ [][ListenersNext]_listenerVars

\* Tasks that can run are run, and select! serves both channels.
FairListenersSpec ==
    /\ ListenersSpec
    /\ WF_listenerVars(RouteAccepted)
    /\ \A r \in Runtimes :
        /\ WF_listenerVars(ManagerStep(r))
        /\ SF_listenerVars(TakeRoute(r))
        /\ \A g \in Generations : WF_listenerVars(TaskStep(r, g))

----------------------------------------------------------------------------

Serves(r, g) == task[r][g].pc = "running" /\ ~task[r][g].aborted

(* Replacing, stopping or losing a listener leaves no task of it behind:   *)
(* every task that is not being aborted is the one in listener_handles,    *)
(* whatever the order of changes and of the tasks' first polls.            *)
NoOrphans ==
    \A r \in Runtimes, g \in Generations :
        task[r][g].pc \in {"spawned", "running"} /\ ~task[r][g].aborted
            => handle[r].gen = g

(* No route change that a manager broadcasts after it has started the      *)
(* listener is missed or applied out of order, even if the task has not    *)
(* been polled yet: a serving task that has taken all updates has exactly  *)
(* the last change since its start.                                        *)
RoutesAreComplete ==
    \A r \in Runtimes, g \in Generations :
        /\ Serves(r, g) /\ task[r][g].uses
        /\ task[r][g].routeAt = Len(routeLog[r])
        => task[r][g].route = IF Len(routeLog[r]) > handle[r].from /\ Last(routeLog[r]).added
                              THEN Last(routeLog[r]).n ELSE 0

(* A listener never serves an outdated secret for good: once the changes   *)
(* on their way to a runtime and to the task are taken, the task has the   *)
(* secret manager's secret, whether it was in the factory or came later.   *)
SecretIsCurrent ==
    \A r \in Runtimes, g \in Generations :
        /\ Serves(r, g) /\ r \in up /\ conf[r] = <<>>
        /\ task[r][g].secretAt = Len(secretLog[r])
        => task[r][g].tls = sent.secrets

(* A route change is accepted only because of itself: some task applied    *)
(* it, or some runtime had no listener for it. The late notification of a  *)
(* change that timed out never accepts a later one.                        *)
AcceptedForItself == accepted \subseteq answered

(* The internal registry never has the channel of a listener that ended.   *)
NoDeadRegistration ==
    \A r \in Runtimes : registry[r] # 0 => task[r][registry[r]].pc = "running"

(* xds_configurator.rs: "update timedout waiting to be applied by          *)
(* runtime(s)": a route that is added after the listener that refers to it *)
(* was sent is applied by its task, or is reported as timed out, unless    *)
(* the task ends or another change follows.                                *)
AcceptedIsApplied ==
    \A n \in 1..MaxRoutes, r \in Runtimes, g \in Generations :
        waiting = n /\ g = sent.generations /\ Contains(routeConf[r], [n |-> n, added |-> TRUE])
            ~> \/ waiting # n /\ n \notin accepted
               \/ sent.routes # n \/ sent.generations # g
               \/ task[r][g].pc = "gone"
               \/ task[r][g].route = n

(* Listeners and their updates are in step: no task without its manager,   *)
(* updates answered for the listener they were applied to, and routes and  *)
(* secrets as they were pushed.                                            *)
ListenersKept ==
    /\ NoOrphans /\ AcceptedForItself /\ NoDeadRegistration
    /\ RoutesAreComplete /\ SecretIsCurrent
=============================================================================
