--------------------------- MODULE ConnectionLimit ---------------------------
(***************************************************************************)
(* The connection_limit network filter                                     *)
(* (listeners/rate_limiter/connection_limit.rs) as process_connection      *)
(* (listeners/listener.rs) uses it.                                        *)
(*                                                                         *)
(* One counter per filter chain, found by (listener, filter chain id) in   *)
(* a global map and shared by all runtimes and by all configurations the   *)
(* chain ever has.  `check` loads the counter, compares, and adds one in   *)
(* two separate atomic operations; other threads may run in between.       *)
(***************************************************************************)
EXTENDS Naturals, FiniteSets

CONSTANTS
    LimitThreads,      \* worker threads
    Conns,        \* downstream connections of the filter chain
    MaxLimit,     \* the largest max_connections that is ever configured
    LimitValues,       \* the values of max_connections
    NoThread

ASSUME LimitAssumption ==
    /\ IsFiniteSet(LimitThreads) /\ LimitThreads # {}
    /\ IsFiniteSet(Conns)
    /\ MaxLimit \in Nat
    /\ LimitValues \subseteq 0..MaxLimit /\ LimitValues # {}
    /\ NoThread \notin LimitThreads

VARIABLES
    limit,        \* max_connections of the current configuration
    active,       \* the shared counter
    conn          \* conn[c]: where connection c is in process_connection

limitVars == <<limit, active, conn>>

ConnStates ==
    [pc : {"absent", "arrived", "passed", "rejected", "guarded"},
     max : LimitValues,                       \* of the limiter it was accepted with
     thread : LimitThreads \cup {NoThread}]   \* the thread that is inside `check`

Absent == [pc |-> "absent", max |-> CHOOSE l \in LimitValues : TRUE, thread |-> NoThread]

LimitTypeOK ==
    /\ limit \in LimitValues
    /\ active \in Nat
    /\ conn \in [Conns -> ConnStates]

BusyConns(t) == \E c \in Conns : conn[c].thread = t

Guarded == {c \in Conns : conn[c].pc = "guarded"}
Passed == {c \in Conns : conn[c].pc = "passed"}

----------------------------------------------------------------------------

LimitInit ==
    /\ limit \in LimitValues
    /\ active = 0
    /\ conn = [c \in Conns |-> Absent]

\* A new configuration of the chain: the map hands out the same counter.
Reconfigure(l) ==
    /\ l # limit
    /\ limit' = l
    /\ UNCHANGED <<active, conn>>

\* The listener accepts a connection and gives it the chains of that moment.
Accept(c) ==
    /\ conn[c].pc = "absent"
    /\ conn' = [conn EXCEPT ![c] = [pc |-> "arrived", max |-> limit, thread |-> NoThread]]
    /\ UNCHANGED <<limit, active>>

\* Mutant: the comparison is off by one.
HasRoomOffByOne(current, max) == current <= max

HasRoom(current, max) == current < max

\* `check`: load and compare.
LoadActive(c, t) ==
    /\ conn[c].pc = "arrived"
    /\ ~BusyConns(t)
    /\ conn' = [conn EXCEPT ![c] =
                  IF HasRoom(active, conn[c].max)
                  THEN [pc |-> "passed", max |-> conn[c].max, thread |-> t]
                  ELSE [pc |-> "rejected", max |-> conn[c].max, thread |-> NoThread]]
    /\ UNCHANGED <<limit, active>>

\* `check`: the increment, and the guard.
FetchAddActive(c) ==
    /\ conn[c].pc = "passed"
    /\ active' = active + 1
    /\ conn' = [conn EXCEPT ![c] =
                  [pc |-> "guarded", max |-> conn[c].max, thread |-> NoThread]]
    /\ UNCHANGED limit

\* Mutant: a rejected connection gives back a slot it never had.
RejectedGivesBack(c) ==
    /\ conn[c].pc = "rejected"
    /\ active' = active - 1
    /\ conn' = [conn EXCEPT ![c] = Absent]
    /\ UNCHANGED limit

\* A rejected connection is closed, after the delay if there is one. It
\* holds no guard.
CloseRejected(c) ==
    /\ conn[c].pc = "rejected"
    /\ conn' = [conn EXCEPT ![c] = Absent]
    /\ UNCHANGED <<limit, active>>

\* Mutant: the guard does nothing when it is dropped.
ForgottenDrop(c) ==
    /\ conn[c].pc = "guarded"
    /\ conn' = [conn EXCEPT ![c] = Absent]
    /\ UNCHANGED <<limit, active>>

\* The guard goes out of scope: the network rate limit or RBAC refused the
\* connection, or the filter chain finished serving it.
DropGuard(c) ==
    /\ conn[c].pc = "guarded"
    /\ active' = active - 1
    /\ conn' = [conn EXCEPT ![c] = Absent]
    /\ UNCHANGED limit

LimitNext ==
    \/ \E l \in LimitValues : Reconfigure(l)
    \/ \E c \in Conns : \/ Accept(c)
                        \/ \E t \in LimitThreads : LoadActive(c, t)
                        \/ FetchAddActive(c)
                        \/ CloseRejected(c)
                        \/ DropGuard(c)

LimitSpec == LimitInit /\ [][LimitNext]_limitVars

----------------------------------------------------------------------------

(* connection_limit.rs, concurrent_accepts: no increment leaks and none is *)
(* given back twice, whatever overshoot there is. The counter is the       *)
(* number of connections that hold a guard, across reconfigurations.       *)
ActiveIsExact == active = Cardinality(Guarded)

(* How far the load-then-add of `check` can overshoot: every other thread  *)
(* may have passed the comparison on the last free slot.                   *)
OvershootBounded ==
    Cardinality(Guarded) + Cardinality(Passed) < MaxLimit + Cardinality(LimitThreads)
=============================================================================
