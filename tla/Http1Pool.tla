------------------------------ MODULE Http1Pool ------------------------------
(***************************************************************************)
(* The pool of HTTP/1 connections to one endpoint                          *)
(* (arion-lib/src/transport/http1_pool.rs) and the body hook that returns  *)
(* a connection to it (arion-lib/src/body/on_end_body.rs).                 *)
(*                                                                         *)
(* A connection carries one exchange at a time.  hyper's dispatcher, a     *)
(* task of its own, says when the exchange is over on the wire: `wire`     *)
(* names the request it still works for.  Only then is the sender ready.   *)
(* Dropping the sender closes the connection.                              *)
(***************************************************************************)
EXTENDS Naturals, Sequences, SequencesExt

CONSTANTS
    H1Requests,     \* requests to the endpoint
    H1Conns,        \* connections; one that is gone may be dialled again
    H1NoConn,
    Quiet         \* no exchange on the wire

ASSUME Http1Assumption == H1NoConn \notin H1Conns /\ Quiet \notin H1Requests

VARIABLES
    idle,         \* Http1PoolInner.idle, most recently released last
    h1Open,         \* the connections whose sender is not closed
    h1Stale,        \* the idle connections released over idle_timeout ago
    wire,         \* wire[k]: the request whose exchange is not over, or Quiet
    h1Req           \* req[r]: what request r is doing, and on which connection

http1Vars == <<idle, h1Open, h1Stale, wire, h1Req>>

Start == [pc |-> "start", conn |-> H1NoConn]

IdleConns == ToSet(idle)

Http1TypeOK ==
    /\ IdleConns \subseteq H1Conns
    /\ h1Open \subseteq H1Conns
    /\ h1Stale \subseteq H1Conns
    /\ wire \in [H1Conns -> H1Requests \cup {Quiet}]
    /\ h1Req \in [H1Requests -> [pc : {"start", "checkout", "waiting", "connecting", "sending", "body"},
                                    conn : H1Conns \cup {H1NoConn}]]

----------------------------------------------------------------------------

Http1Init ==
    /\ idle = <<>>
    /\ h1Open = {}
    /\ h1Stale = {}
    /\ wire = [k \in H1Conns |-> Quiet]
    /\ h1Req = [r \in H1Requests |-> Start]

IsReady(k) == k \in h1Open /\ wire[k] = Quiet

\* send_request: the exchange of r starts on k, or is queued behind another.
SendOn(r, k) ==
    /\ wire' = [wire EXCEPT ![k] = IF wire[k] = Quiet THEN r ELSE @]
    /\ h1Req' = [h1Req EXCEPT ![r] = [pc |-> "sending", conn |-> k]]

\* The future of r is over and its sender is dropped, if it has one.
DropSender(r) ==
    /\ h1Req' = [h1Req EXCEPT ![r] = Start]
    /\ h1Open' = h1Open \ {h1Req[r].conn}
    /\ UNCHANGED <<idle, h1Stale, wire>>

\* A request enters `send`.
Send(r) ==
    /\ h1Req[r].pc = "start"
    /\ h1Req' = [h1Req EXCEPT ![r].pc = "checkout"]
    /\ UNCHANGED <<idle, h1Open, h1Stale, wire>>

\* Mutant: any popped sender is used at once.
PopUnready(r) ==
    /\ h1Req[r].pc = "checkout"
    /\ idle # <<>>
    /\ LET k == Last(idle) IN
          /\ idle' = Front(idle)
          /\ h1Stale' = h1Stale \ {k}
          /\ IF k \notin h1Open THEN UNCHANGED <<wire, h1Req>> ELSE SendOn(r, k)
    /\ UNCHANGED h1Open

\* `checkout`: the most recently released sender; one that is closed is
\* thrown away and the loop goes on, one that is not ready is waited for.
PopIdle(r) ==
    /\ h1Req[r].pc = "checkout"
    /\ idle # <<>>
    /\ LET k == Last(idle) IN
          /\ idle' = Front(idle)
          /\ h1Stale' = h1Stale \ {k}
          /\ CASE k \notin h1Open -> UNCHANGED <<wire, h1Req>>
               [] IsReady(k) -> SendOn(r, k)
               [] OTHER -> /\ h1Req' = [h1Req EXCEPT ![r] = [pc |-> "waiting", conn |-> k]]
                           /\ UNCHANGED wire
    /\ UNCHANGED h1Open

\* `ready().await` answers.
SenderReady(r) ==
    /\ h1Req[r].pc = "waiting"
    /\ LET k == h1Req[r].conn IN
          \/ IsReady(k) /\ SendOn(r, k)
          \/ /\ k \notin h1Open
             /\ h1Req' = [h1Req EXCEPT ![r] = [pc |-> "checkout", conn |-> H1NoConn]]
             /\ UNCHANGED wire
    /\ UNCHANGED <<idle, h1Open, h1Stale>>

\* No idle sender: connect_one.
H1StartConnect(r) ==
    /\ h1Req[r].pc = "checkout"
    /\ idle = <<>>
    /\ h1Req' = [h1Req EXCEPT ![r].pc = "connecting"]
    /\ UNCHANGED <<idle, h1Open, h1Stale, wire>>

H1Connected(r, k) ==
    /\ h1Req[r].pc = "connecting"
    /\ k \notin h1Open \cup IdleConns
    /\ \A q \in H1Requests : h1Req[q].conn # k
    /\ h1Open' = h1Open \cup {k}
    /\ wire' = [wire EXCEPT ![k] = r]
    /\ h1Req' = [h1Req EXCEPT ![r] = [pc |-> "sending", conn |-> k]]
    /\ UNCHANGED <<idle, h1Stale>>

\* Mutant: attach_permit and the body hook both return the connection.
ReleaseTwice(k) == idle' = idle \o <<k, k>> /\ h1Stale' = h1Stale \ {k}

\* `release` of the inner pool.
Release(k) ==
    IF k \in h1Open
    THEN idle' = Append(idle, k) /\ h1Stale' = h1Stale \ {k}
    ELSE UNCHANGED <<idle, h1Stale>>

\* attach_permit for a body that is at its end: the sender is released at once.
EmptyResponse(r) ==
    /\ h1Req[r].pc = "sending" /\ h1Req[r].conn \in h1Open
    /\ Release(h1Req[r].conn)
    /\ h1Req' = [h1Req EXCEPT ![r] = Start]
    /\ UNCHANGED <<h1Open, wire>>

\* attach_permit for a body with frames to come.
H1ResponseHead(r) ==
    /\ h1Req[r].pc = "sending" /\ h1Req[r].conn \in h1Open
    /\ h1Req' = [h1Req EXCEPT ![r].pc = "body"]
    /\ UNCHANGED <<idle, h1Open, h1Stale, wire>>

\* Mutant: the failure path returns a sender it may not have.
AbandonReleases(r) ==
    /\ h1Req[r].pc \in {"checkout", "waiting", "connecting", "sending"}
    /\ idle' = Append(idle, h1Req[r].conn)
    /\ h1Req' = [h1Req EXCEPT ![r] = Start]
    /\ UNCHANGED <<h1Open, h1Stale, wire>>

\* The sender is dropped without a body hook: connecting or send_request
\* failed, the response is an upgrade (101), or the request was cancelled.
Abandon(r) ==
    /\ h1Req[r].pc \in {"checkout", "waiting", "connecting", "sending"}
    /\ DropSender(r)

\* on_body_end(true): the last frame was delivered.
BodyComplete(r) ==
    /\ h1Req[r].pc = "body"
    /\ Release(h1Req[r].conn)
    /\ h1Req' = [h1Req EXCEPT ![r] = Start]
    /\ UNCHANGED <<h1Open, wire>>

\* on_body_end(false): the body failed or was dropped. The connection is
\* kept only when the dispatcher is done with the exchange.
BodyAbort(r) ==
    /\ h1Req[r].pc = "body"
    /\ IF IsReady(h1Req[r].conn)
       THEN /\ Release(h1Req[r].conn)
            /\ h1Req' = [h1Req EXCEPT ![r] = Start]
            /\ UNCHANGED <<h1Open, wire>>
       ELSE DropSender(r)

\* hyper: the exchange is over on the wire.
ExchangeOver(k) ==
    /\ k \in h1Open
    /\ wire[k] # Quiet
    /\ wire' = [wire EXCEPT ![k] = Quiet]
    /\ UNCHANGED <<idle, h1Open, h1Stale, h1Req>>

\* The connection is closed by the peer or by an error.
H1Close(k) ==
    /\ k \in h1Open
    /\ h1Open' = h1Open \ {k}
    /\ UNCHANGED <<idle, h1Stale, wire, h1Req>>

\* idle_timeout passes after the release.
H1Expire(k) ==
    /\ k \in IdleConns \ h1Stale
    /\ h1Stale' = h1Stale \cup {k}
    /\ UNCHANGED <<idle, h1Open, wire, h1Req>>

\* Mutant: a timed out connection is kept as long as it is open.
KeepsOpen(k) == k \in h1Open

H1Keeps(k) == k \in h1Open /\ k \notin h1Stale

\* cleanup_expired: `retain`, once per second. The senders it keeps stay in
\* their order; those it drops close.
H1CleanupExpired ==
    /\ LET kept == {i \in DOMAIN idle : H1Keeps(idle[i])} IN
          \E at \in Bijection(1..Cardinality(kept), kept) :
             /\ \A i, j \in DOMAIN at : i < j => at[i] < at[j]
             /\ idle' = [i \in DOMAIN at |-> idle[at[i]]]
    /\ h1Open' = h1Open \ {k \in IdleConns : ~H1Keeps(k)}
    /\ h1Stale' = h1Stale \ {k \in IdleConns : ~H1Keeps(k)}
    /\ UNCHANGED <<wire, h1Req>>

Http1Next ==
    \/ \E r \in H1Requests :
          \/ Send(r) \/ PopIdle(r) \/ SenderReady(r) \/ H1StartConnect(r)
          \/ \E k \in H1Conns : H1Connected(r, k)
          \/ EmptyResponse(r) \/ H1ResponseHead(r) \/ Abandon(r)
          \/ BodyComplete(r) \/ BodyAbort(r)
    \/ \E k \in H1Conns : ExchangeOver(k) \/ H1Close(k) \/ H1Expire(k)
    \/ H1CleanupExpired

\* Time passes and the cleanup task runs; requests and peers owe nothing.
Http1Fairness ==
    /\ WF_http1Vars(H1CleanupExpired)
    /\ \A k \in H1Conns : WF_http1Vars(H1Expire(k))

Http1Spec == Http1Init /\ [][Http1Next]_http1Vars /\ Http1Fairness

----------------------------------------------------------------------------

Holders(k) == {r \in H1Requests : h1Req[r].conn = k}

(* "A sender is checked out for a request and returned only after": a      *)
(* connection has one owner, the idle list or one request, never two, and  *)
(* is in the list at most once, however requests are cancelled, bodies     *)
(* dropped, and closed connections skipped.                                *)
OneOwner ==
    /\ IsInjective(idle)
    /\ \A k \in IdleConns : Holders(k) = {}
    /\ \A k \in H1Conns : \A q, r \in Holders(k) : q = r

(* The exchange on the wire of a connection is never that of one request   *)
(* while another sends or reads on it: no request can read what is left of *)
(* the answer to an earlier one.                                           *)
NoMixedExchanges ==
    \A r \in H1Requests : h1Req[r].pc \in {"sending", "body"} =>
        wire[h1Req[r].conn] \in {r, Quiet}

(* A connection has one owner at a time, and its owner never meets what is *)
(* left of an earlier exchange on the wire.                                *)
ExchangesKept == OneOwner /\ NoMixedExchanges

(* An idle connection is popped, or leaves the pool after idle_timeout.    *)
IdleLeaves == \A k \in H1Conns : (k \in IdleConns) ~> (k \notin IdleConns)
=============================================================================
