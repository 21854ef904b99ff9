------------------------------ MODULE Http2Pool ------------------------------
(***************************************************************************)
(* The pool of HTTP/2 connections to one endpoint                          *)
(* (arion-lib/src/transport/http2_pool.rs) and the body hook that gives a  *)
(* stream back (arion-lib/src/body/on_end_body.rs).                        *)
(*                                                                         *)
(* The vector of connections is behind a mutex; the number of streams of a *)
(* connection is an atomic that is increased under the mutex and decreased *)
(* without it.  Requests are futures: a route timeout or a client that     *)
(* goes away drops one at whatever await it is suspended in.               *)
(***************************************************************************)
EXTENDS Naturals, Sequences, FiniteSets, Functions

CONSTANTS
    Requests,     \* requests to the endpoint
    Conns,        \* connections; one that is gone may be dialled again
    MaxStreams,   \* max_concurrent_streams
    MaxAbandoned, \* bound: abandoned streams explored, per connection
    NoConn

ASSUME PoolAssumption ==
    /\ MaxStreams \in Nat
    /\ MaxAbandoned \in Nat
    /\ IsFiniteSet(Requests)
    /\ NoConn \notin Conns

VARIABLES
    conns,        \* Http2PoolInner.conns, oldest first
    open,         \* the connections whose sender is not closed
    stale,        \* the connections last used more than idle_timeout ago
    inFlight,     \* H2Conn.in_flight of each connection
    req,          \* req[r]: what request r is doing, and on which connection
    abandoned     \* history: streams whose future was dropped before the
                  \* response, per connection

poolVars == <<conns, open, stale, inFlight, req, abandoned>>

Idle == [pc |-> "idle", conn |-> NoConn]

Pooled == {conns[i] : i \in DOMAIN conns}

Streams(k) == {r \in Requests : req[r].conn = k}

PoolTypeOK ==
    /\ Pooled \subseteq Conns
    /\ \A i, j \in DOMAIN conns : conns[i] = conns[j] => i = j
    /\ open \subseteq Conns
    /\ stale \subseteq Conns
    /\ inFlight \in [Conns -> Nat]
    /\ req \in [Requests -> [pc : {"idle", "connecting", "sending", "body"},
                             conn : Conns \cup {NoConn}]]
    /\ abandoned \in [Conns -> Nat]

----------------------------------------------------------------------------

PoolInit ==
    /\ conns = <<>>
    /\ open = {}
    /\ stale = {}
    /\ inFlight = [k \in Conns |-> 0]
    /\ req = [r \in Requests |-> Idle]
    /\ abandoned = [k \in Conns |-> 0]

\* Mutant: off by one.
HasCapacityOffByOne(k) == inFlight[k] <= MaxStreams

HasCapacity(k) == inFlight[k] < MaxStreams

\* `checkout` of the inner pool: the first connection that is open and has
\* room.
Usable == {i \in DOMAIN conns : conns[i] \in open /\ HasCapacity(conns[i])}

\* `send`, when a pooled connection is usable.
CheckoutPooled(r) ==
    /\ req[r] = Idle
    /\ \E i \in Usable :
          /\ \A j \in Usable : i <= j
          /\ inFlight' = [inFlight EXCEPT ![conns[i]] = @ + 1]
          /\ stale' = stale \ {conns[i]}
          /\ req' = [req EXCEPT ![r] = [pc |-> "sending", conn |-> conns[i]]]
    /\ UNCHANGED <<conns, open, abandoned>>

\* `send`, when none is: dial.
StartConnect(r) ==
    /\ req[r] = Idle
    /\ Usable = {}
    /\ req' = [req EXCEPT ![r] = [pc |-> "connecting", conn |-> NoConn]]
    /\ UNCHANGED <<conns, open, stale, inFlight, abandoned>>

\* connect_one and handshake succeed: `insert` with one stream in flight.
Connected(r, k) ==
    /\ req[r].pc = "connecting"
    /\ k \notin Pooled /\ Streams(k) = {}
    /\ conns' = Append(conns, k)
    /\ open' = open \cup {k}
    /\ stale' = stale \ {k}
    /\ inFlight' = [inFlight EXCEPT ![k] = 1]
    /\ req' = [req EXCEPT ![r] = [pc |-> "sending", conn |-> k]]
    /\ abandoned' = [abandoned EXCEPT ![k] = 0]

\* connect_one or handshake fails, or the request is dropped meanwhile.
NotConnected(r) ==
    /\ req[r].pc = "connecting"
    /\ req' = [req EXCEPT ![r] = Idle]
    /\ UNCHANGED <<conns, open, stale, inFlight, abandoned>>

\* Mutant: the stream is given back at the head and again at the end.
HeadGivesBack(r) ==
    /\ req[r].pc = "sending"
    /\ inFlight' = [inFlight EXCEPT ![req[r].conn] = @ - 1]
    /\ req' = [req EXCEPT ![r].pc = "body"]
    /\ UNCHANGED <<conns, open, stale, abandoned>>

\* attach_stream_permit: the body has frames to come.
ResponseHead(r) ==
    /\ req[r].pc = "sending"
    /\ req' = [req EXCEPT ![r].pc = "body"]
    /\ UNCHANGED <<conns, open, stale, inFlight, abandoned>>

\* One stream of the connection of r is given back and r is over.
GiveBack(r) ==
    /\ inFlight' = [inFlight EXCEPT ![req[r].conn] = @ - 1]
    /\ req' = [req EXCEPT ![r] = Idle]
    /\ UNCHANGED <<conns, open, stale, abandoned>>

\* send_request fails, or answers with a body that is already at its end.
EndedAtOnce(r) == req[r].pc = "sending" /\ GiveBack(r)

\* Mutant: an error in the body does not run the hook.
BodyErrorForgotten(r) ==
    /\ req[r].pc = "body"
    /\ req' = [req EXCEPT ![r] = Idle]
    /\ UNCHANGED <<conns, open, stale, inFlight, abandoned>>

\* The body ends, fails, or is dropped: the hook runs once.
BodyEnd(r) == req[r].pc = "body" /\ GiveBack(r)

\* The future of `send` is dropped while it waits for the response. Neither
\* arm of its match runs.
DropSend(r) ==
    /\ req[r].pc = "sending"
    /\ abandoned[req[r].conn] < MaxAbandoned
    /\ req' = [req EXCEPT ![r] = Idle]
    /\ abandoned' = [abandoned EXCEPT ![req[r].conn] = @ + 1]
    /\ UNCHANGED <<conns, open, stale, inFlight>>

\* The connection is closed by the peer, by an error or by keep-alive.
Close(k) ==
    /\ k \in open
    /\ open' = open \ {k}
    /\ UNCHANGED <<conns, stale, inFlight, req, abandoned>>

\* idle_timeout passes after the last checkout of the connection.
Expire(k) ==
    /\ k \in Pooled \ stale
    /\ stale' = stale \cup {k}
    /\ UNCHANGED <<conns, open, inFlight, req, abandoned>>

\* Mutant: the test for streams in flight is gone.
KeepsIdleOnly(k) == k \in open /\ k \notin stale

Keeps(k) == k \in open /\ (inFlight[k] > 0 \/ k \notin stale)

\* cleanup_expired: `retain`, once per second. What it keeps stays in order.
CleanupExpired ==
    /\ LET kept == {i \in DOMAIN conns : Keeps(conns[i])} IN
          \E at \in Bijection(1..Cardinality(kept), kept) :
             /\ \A i, j \in DOMAIN at : i < j => at[i] < at[j]
             /\ conns' = [i \in DOMAIN at |-> conns[at[i]]]
    /\ UNCHANGED <<open, stale, inFlight, req, abandoned>>

PoolNext ==
    \/ \E r \in Requests :
          \/ CheckoutPooled(r) \/ StartConnect(r) \/ NotConnected(r)
          \/ \E k \in Conns : Connected(r, k)
          \/ ResponseHead(r) \/ EndedAtOnce(r) \/ BodyEnd(r) \/ DropSend(r)
    \/ \E k \in Conns : Close(k) \/ Expire(k)
    \/ CleanupExpired

PoolSpec == PoolInit /\ [][PoolNext]_poolVars

\* Time passes, and the cleanup task runs once per second for as long as the
\* pool exists. Requests and connections owe nothing.
PoolFairness ==
    /\ WF_poolVars(CleanupExpired)
    /\ \A k \in Conns : WF_poolVars(Expire(k))

FairPoolSpec == PoolSpec /\ PoolFairness

----------------------------------------------------------------------------

(* The counter of every connection that is pooled or in use is the number  *)
(* of streams that requests hold on it, plus those whose `send` was        *)
(* dropped before its response: there is no other way to lose one, and no  *)
(* way to give one back twice, across errors, ended bodies, dropped bodies *)
(* and connections that close under their streams.                         *)
StreamsAccounted ==
    \A k \in Conns : (k \in Pooled \/ Streams(k) # {}) =>
        inFlight[k] = Cardinality(Streams(k)) + abandoned[k]

(* max_concurrent_streams holds on every connection, whatever requests     *)
(* race for its last stream. (Configured as zero, it makes every request   *)
(* dial a connection for itself.)                                          *)
StreamLimit ==
    \A k \in Conns : Cardinality(Streams(k)) <= (IF MaxStreams = 0 THEN 1 ELSE MaxStreams)

(* The streams of the pool are counted exactly and stay in their limit,    *)
(* through errors, dropped bodies and futures, closes and races for the    *)
(* last stream of a connection.                                            *)
StreamsKept == StreamsAccounted /\ StreamLimit

(* cleanup_expired never takes an open connection out of the pool while a  *)
(* request has a stream on it.                                             *)
BusyConnectionsStay ==
    [][\A k \in Conns : /\ k \in Pooled /\ k \notin Pooled'
                        => k \notin open \/ Streams(k) = {}]_poolVars

(* A pooled connection without streams leaves the pool or is used again,   *)
(* if no `send` on it was dropped before the response.                     *)
IdleReaped ==
    \A k \in Conns :
        (k \in Pooled /\ Streams(k) = {} /\ abandoned[k] = 0)
            ~> (k \notin Pooled \/ Streams(k) # {})
=============================================================================
