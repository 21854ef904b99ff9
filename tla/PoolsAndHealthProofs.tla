------------------------ MODULE PoolsAndHealthProofs ------------------------
(***************************************************************************)
(* Proofs about the connection pools (Http1Pool, Http2Pool), for every     *)
(* number of requests and connections and every stream limit, and about    *)
(* the active health checks (HealthChecks), for every number of endpoints  *)
(* and restarts, every capacity of the report channel and every pair of    *)
(* thresholds.                                                             *)
(***************************************************************************)
EXTENDS Http1Pool, Http2Pool, HealthChecks, Induction, FiniteSetTheorems,
        SequenceTheorems, TLAPS

-----------------------------------------------------------------------------
(* Http1Pool and Http2Pool.                                                *)

(* A request of the HTTP/1 pool has a connection exactly while it waits    *)
(* for one, sends on it or reads its body.                                 *)
HoldsConn ==
    \A r \in H1Requests :
        h1Req[r].conn \in H1Conns <=> h1Req[r].pc \in {"waiting", "sending", "body"}

H1Pcs == {"start", "checkout", "waiting", "connecting", "sending", "body"}

H1ReqStates == [pc : H1Pcs, conn : H1Conns \cup {H1NoConn}]

\* Request r goes to state p with connection k.
MovesTo(r, p, k) == h1Req' = [h1Req EXCEPT ![r] = [pc |-> p, conn |-> k]]

(* No request has a connection that is in the idle list. *)
IdleUnheld == \A r \in H1Requests : h1Req[r].conn \notin IdleConns

(* No two requests have the same connection. *)
OneHolder ==
    \A q, r \in H1Requests :
        h1Req[q].conn \in H1Conns /\ h1Req[q].conn = h1Req[r].conn => q = r

\* ... and all that this leaves true.
Moved(r, p, k) ==
    /\ h1Req' \in [H1Requests -> H1ReqStates]
    /\ HoldsConn'
    /\ OneHolder'
    /\ \A q \in H1Requests \ {r} : h1Req'[q] = h1Req[q]
    /\ h1Req'[r].pc = p /\ h1Req'[r].conn = k

(* The inductive invariant of the HTTP/1 pool: a connection moves between  *)
(* the idle list and one request, and a request that sends or reads on its *)
(* connection has found it quiet.                                          *)
Http1Inv ==
    /\ Http1TypeOK
    /\ idle \in Seq(H1Conns) /\ IsInjective(idle)
    /\ HoldsConn
    /\ IdleUnheld
    /\ OneHolder
    /\ NoMixedExchanges

(* A request of the HTTP/2 pool has a connection exactly while it has a    *)
(* stream on it.                                                           *)
HasStream ==
    \A r \in Requests : req[r].conn \in Conns <=> req[r].pc \in {"sending", "body"}

(* The inductive invariant of the HTTP/2 pool: the counter is at least the *)
(* streams, so room in the counter is room on the connection.              *)
PoolInv ==
    /\ PoolTypeOK
    /\ conns \in Seq(Conns)
    /\ HasStream
    /\ StreamsAccounted
    /\ StreamLimit

----------------------------------------------------------------------------

(* What popping the last, appending one and retaining some does to a       *)
(* sequence without repetitions.                                           *)
LEMMA PopLast ==
  ASSUME NEW S, NEW s \in Seq(S), s # <<>>, IsInjective(s)
  PROVE  /\ Front(s) \in Seq(S)
         /\ IsInjective(Front(s))
         /\ Last(s) \in S
         /\ ToSet(Front(s)) = ToSet(s) \ {Last(s)}
         /\ Last(s) \in ToSet(s)
<1>1. /\ Len(s) \in Nat /\ Len(s) > 0
      /\ DOMAIN s = 1..Len(s)
      /\ \A i \in 1..Len(s) : s[i] \in S
  OBVIOUS
<1>2. /\ Front(s) \in Seq(S)
      /\ Len(Front(s)) = Len(s) - 1
      /\ \A i \in 1..(Len(s) - 1) : Front(s)[i] = s[i]
  BY <1>1 DEF Front
<1>3. DOMAIN Front(s) = 1..(Len(s) - 1)
  BY <1>2
<1>4. IsInjective(Front(s))
  BY <1>1, <1>2, <1>3 DEF IsInjective
<1>5. ToSet(Front(s)) = ToSet(s) \ {Last(s)}
  <2>1. Last(s) = s[Len(s)] /\ Len(s) \in DOMAIN s
    BY <1>1 DEF Last
  <2>2. \A i \in 1..Len(s) : s[i] = Last(s) <=> i = Len(s)
    BY <1>1, <2>1 DEF IsInjective
  <2>3. ASSUME NEW x PROVE x \in ToSet(Front(s)) <=> x \in ToSet(s) /\ x # Last(s)
    <3>1. x \in ToSet(s) <=> \E i \in 1..Len(s) : x = s[i]
      BY <1>1 DEF ToSet
    <3>2. x \in ToSet(Front(s)) <=> \E i \in 1..(Len(s) - 1) : x = s[i]
      BY <1>2, <1>3 DEF ToSet
    <3>3. \A i : i \in 1..(Len(s) - 1) <=> i \in 1..Len(s) /\ i # Len(s)
      BY <1>1
    <3> QED BY <2>2, <3>1, <3>2, <3>3, Zenon
  <2> QED BY <2>3
<1>6. Last(s) \in S /\ Last(s) \in ToSet(s)
  BY <1>1 DEF Last, ToSet
<1> QED BY <1>2, <1>4, <1>5, <1>6

(* Appending one that is not in it. *)
LEMMA AppendOne ==
  ASSUME NEW S, NEW s \in Seq(S), NEW e \in S, IsInjective(s), e \notin ToSet(s)
  PROVE  /\ Append(s, e) \in Seq(S)
         /\ IsInjective(Append(s, e))
         /\ ToSet(Append(s, e)) = ToSet(s) \cup {e}
<1>1. /\ Len(s) \in Nat
      /\ DOMAIN s = 1..Len(s)
      /\ Append(s, e) \in Seq(S)
      /\ DOMAIN Append(s, e) = 1..(Len(s) + 1)
      /\ \A i \in 1..Len(s) : Append(s, e)[i] = s[i]
      /\ Append(s, e)[Len(s) + 1] = e
  OBVIOUS
<1>2. IsInjective(Append(s, e))
  BY <1>1 DEF IsInjective, ToSet
<1>3. ToSet(Append(s, e)) = ToSet(s) \cup {e}
  BY <1>1 DEF ToSet
<1> QED BY <1>1, <1>2, <1>3

(* Retaining those of a set, in their order. *)
LEMMA RetainSome ==
  ASSUME NEW S, NEW s \in Seq(S), IsInjective(s),
         NEW K \in SUBSET DOMAIN s, NEW at \in Bijection(1..Cardinality(K), K)
  PROVE  LET t == [i \in DOMAIN at |-> s[at[i]]] IN
         /\ t \in Seq(S)
         /\ IsInjective(t)
         /\ ToSet(t) = {s[i] : i \in K}
<1> DEFINE n == Cardinality(K)
           t == [i \in DOMAIN at |-> s[at[i]]]
<1>1. /\ Len(s) \in Nat
      /\ DOMAIN s = 1..Len(s)
      /\ \A i \in 1..Len(s) : s[i] \in S
  OBVIOUS
<1>2. IsFiniteSet(1..Len(s))
  BY <1>1, FS_Interval
<1>3. n \in Nat
  BY <1>1, <1>2, FS_Subset, FS_CardinalityType
<1>4. /\ at \in [1..n -> K]
      /\ \A i, j \in 1..n : at[i] = at[j] => i = j
      /\ \A k \in K : \E i \in 1..n : at[i] = k
  BY DEF Bijection, Injection, Surjection, IsInjective
<1> HIDE DEF n
<1>5. t \in [1..n -> S]
  BY <1>1, <1>4
<1>6. t \in Seq(S)
  BY <1>3, <1>5, IsASeq
<1>7. IsInjective(t)
  BY <1>1, <1>4 DEF IsInjective
<1>8. ToSet(t) = {s[i] : i \in K}
  BY <1>4 DEF ToSet
<1> QED BY <1>6, <1>7, <1>8

----------------------------------------------------------------------------

(* The specification starts in the invariant. *)
LEMMA Http1InitInv == Http1Init => Http1Inv
<1> SUFFICES ASSUME Http1Init PROVE Http1Inv
  OBVIOUS
<1> USE DEF Http1Init
<1>1. idle \in Seq(H1Conns) /\ IsInjective(idle) /\ IdleConns = {}
  BY DEF IsInjective, IdleConns, ToSet
<1>2. \A r \in H1Requests : h1Req[r].pc = "start" /\ h1Req[r].conn = H1NoConn
  BY DEF Start
<1>3. Http1TypeOK
  BY <1>1 DEF Http1TypeOK, Start
<1>4. HoldsConn /\ IdleUnheld /\ OneHolder /\ NoMixedExchanges
  BY <1>1, <1>2, Http1Assumption DEF HoldsConn, IdleUnheld, OneHolder, NoMixedExchanges
<1> QED BY <1>1, <1>3, <1>4 DEF Http1Inv

(* A step that leaves the idle list alone and gives request r a connection *)
(* that nobody has, or takes its connection away, keeps the ownership.     *)
LEMMA MoveRequest ==
  ASSUME Http1Inv, NEW r \in H1Requests, NEW p \in H1Pcs, NEW k \in H1Conns \cup {H1NoConn},
         MovesTo(r, p, k),
         k \in H1Conns <=> p \in {"waiting", "sending", "body"},
         \A q \in H1Requests \ {r} : k \in H1Conns => h1Req[q].conn # k
  PROVE  Moved(r, p, k)
<1>1. h1Req \in [H1Requests -> H1ReqStates]
  BY DEF Http1Inv, Http1TypeOK, H1ReqStates, H1Pcs
<1>2. [pc |-> p, conn |-> k] \in H1ReqStates
  BY DEF H1ReqStates
<1>3. /\ h1Req' \in [H1Requests -> H1ReqStates]
      /\ h1Req'[r] = [pc |-> p, conn |-> k]
      /\ \A q \in H1Requests \ {r} : h1Req'[q] = h1Req[q]
  BY <1>1, <1>2 DEF MovesTo
<1>4. h1Req'[r].pc = p /\ h1Req'[r].conn = k
  BY <1>3
<1>5. HoldsConn'
  BY <1>3, <1>4 DEF Http1Inv, HoldsConn
<1>6. OneHolder'
  BY <1>3, <1>4 DEF Http1Inv, OneHolder
<1> QED BY <1>3, <1>4, <1>5, <1>6 DEF Moved

(* A step that only changes what the request is doing. *)
LEMMA MovePc ==
  ASSUME Http1Inv, NEW r \in H1Requests, NEW p \in H1Pcs,
         h1Req' = [h1Req EXCEPT ![r].pc = p]
  PROVE  MovesTo(r, p, h1Req[r].conn)
<1>1. h1Req[r] \in H1ReqStates
  BY DEF Http1Inv, Http1TypeOK, H1ReqStates, H1Pcs
<1>2. [h1Req[r] EXCEPT !.pc = p] = [pc |-> p, conn |-> h1Req[r].conn]
  BY <1>1 DEF H1ReqStates
<1> QED BY <1>2 DEF MovesTo

(* `release` by the request that has the connection.                       *)
LEMMA ReleaseKeeps ==
  ASSUME Http1Inv, NEW r \in H1Requests, h1Req[r].conn \in H1Conns,
         Release(h1Req[r].conn), h1Req' = [h1Req EXCEPT ![r] = Start],
         UNCHANGED <<h1Open, wire>>
  PROVE  Http1Inv'
<1> DEFINE k == h1Req[r].conn
<1>1. Moved(r, "start", H1NoConn)
  <2>1. MovesTo(r, "start", H1NoConn)
    BY DEF MovesTo, Start
  <2> QED BY <2>1, Http1Assumption, MoveRequest DEF H1Pcs
<1>2. k \notin ToSet(idle)
  BY DEF Http1Inv, IdleUnheld, IdleConns
<1>3. /\ idle \in Seq(H1Conns) /\ IsInjective(idle)
      /\ h1Stale \subseteq H1Conns /\ ToSet(idle) \subseteq H1Conns
  BY DEF Http1Inv, Http1TypeOK, IdleConns
<1>4. /\ idle' \in Seq(H1Conns) /\ IsInjective(idle')
      /\ ToSet(idle') \subseteq ToSet(idle) \cup {k}
      /\ h1Stale' \subseteq H1Conns
  <2>1. CASE k \in h1Open
    <3>1. idle' = Append(idle, k) /\ h1Stale' = h1Stale \ {k}
      BY <2>1 DEF Release
    <3>2. /\ Append(idle, k) \in Seq(H1Conns) /\ IsInjective(Append(idle, k))
          /\ ToSet(Append(idle, k)) = ToSet(idle) \cup {k}
      BY <1>2, <1>3, AppendOne
    <3> QED BY <1>3, <3>1, <3>2
  <2>2. CASE k \notin h1Open
    BY <1>3, <2>2 DEF Release
  <2> QED BY <2>1, <2>2
<1>5. IdleUnheld'
  <2>1. \A q \in H1Requests \ {r} : h1Req[q].conn # k /\ h1Req[q].conn \notin ToSet(idle)
    BY DEF Http1Inv, IdleUnheld, IdleConns, OneHolder
  <2>2. \A q \in H1Requests \ {r} : h1Req'[q].conn \notin ToSet(idle')
    BY <1>1, <1>4, <2>1 DEF Moved
  <2>3. h1Req'[r].conn \notin ToSet(idle')
    BY <1>1, <1>3, <1>4, Http1Assumption DEF Moved
  <2> QED BY <2>2, <2>3 DEF IdleUnheld, IdleConns
<1>6. NoMixedExchanges'
  BY <1>1 DEF Http1Inv, NoMixedExchanges, Moved
<1> QED BY <1>1, <1>3, <1>4, <1>5, <1>6
    DEF Moved, H1ReqStates, H1Pcs, Http1Inv, Http1TypeOK, IdleConns

(* Dropping the sender of a request. *)
LEMMA DropSenderKeeps ==
  ASSUME Http1Inv, NEW r \in H1Requests, DropSender(r)
  PROVE  Http1Inv'
<1>1. Moved(r, "start", H1NoConn)
  <2>1. MovesTo(r, "start", H1NoConn)
    BY DEF DropSender, MovesTo, Start
  <2> QED BY <2>1, Http1Assumption, MoveRequest DEF H1Pcs
<1> QED BY <1>1, Http1Assumption
    DEF Moved, H1ReqStates, H1Pcs, DropSender, Http1Inv, Http1TypeOK, IdleUnheld, IdleConns,
        NoMixedExchanges

(* Every step keeps the invariant. *)
LEMMA Http1Step == Http1Inv /\ [Http1Next]_http1Vars => Http1Inv'
<1> SUFFICES ASSUME Http1Inv, [Http1Next]_http1Vars PROVE Http1Inv'
  OBVIOUS
<1>0. /\ \A r \in H1Requests : h1Req[r].conn \in H1Conns \cup {H1NoConn}
      /\ wire \in [H1Conns -> H1Requests \cup {Quiet}]
  BY DEF Http1Inv, Http1TypeOK
<1>a. Http1TypeOK' <=>
        /\ IdleConns' \subseteq H1Conns /\ h1Open' \subseteq H1Conns /\ h1Stale' \subseteq H1Conns
        /\ wire' \in [H1Conns -> H1Requests \cup {Quiet}]
        /\ h1Req' \in [H1Requests -> H1ReqStates]
  BY DEF Http1TypeOK, H1ReqStates, H1Pcs
<1>1. ASSUME NEW r \in H1Requests, Send(r) PROVE Http1Inv'
  <2>1. MovesTo(r, "checkout", h1Req[r].conn)
    BY <1>1, MovePc DEF Send, H1Pcs
  <2>2. h1Req[r].conn \notin H1Conns
    BY <1>1 DEF Send, Http1Inv, HoldsConn
  <2>3. Moved(r, "checkout", h1Req[r].conn)
    BY <1>0, <2>1, <2>2, MoveRequest DEF H1Pcs
  <2> QED BY <1>1, <1>a, <2>3
      DEF Moved, Send, Http1Inv, Http1TypeOK, IdleUnheld, IdleConns, NoMixedExchanges
<1>2. ASSUME NEW r \in H1Requests, PopIdle(r) PROVE Http1Inv'
  <2> DEFINE k == Last(idle)
  <2>1. /\ idle' \in Seq(H1Conns) /\ IsInjective(idle')
        /\ ToSet(idle') = ToSet(idle) \ {k}
        /\ k \in ToSet(idle) /\ k \in H1Conns
    BY <1>2, PopLast DEF PopIdle, Http1Inv
  <2>2. \A q \in H1Requests : h1Req[q].conn # k
    BY <2>1 DEF Http1Inv, IdleUnheld, IdleConns
  <2>3. ToSet(idle') \subseteq H1Conns /\ h1Stale' \subseteq H1Conns /\ h1Open' = h1Open
    BY <1>2, <2>1 DEF PopIdle, Http1Inv, Http1TypeOK, IdleConns
  <2>a. /\ k \notin h1Open => UNCHANGED <<wire, h1Req>>
        /\ IsReady(k) => SendOn(r, k)
        /\ k \in h1Open /\ ~IsReady(k) =>
              h1Req' = [h1Req EXCEPT ![r] = [pc |-> "waiting", conn |-> k]] /\ UNCHANGED wire
    BY <1>2 DEF PopIdle, IsReady
  <2> HIDE DEF k
  <2>4. CASE k \notin h1Open
    <3>1. UNCHANGED <<wire, h1Req>>
      BY <2>a, <2>4
    <3> QED BY <2>1, <2>3, <3>1
        DEF Http1Inv, Http1TypeOK, HoldsConn, IdleUnheld, IdleConns, OneHolder, NoMixedExchanges
  <2>5. CASE k \in h1Open
    <3>1. PICK p \in {"sending", "waiting"} :
             /\ MovesTo(r, p, k)
             /\ wire' = wire \/ wire' = [wire EXCEPT ![k] = r]
             /\ p = "sending" => wire' = [wire EXCEPT ![k] = r]
      BY <2>a, <2>5 DEF IsReady, SendOn, MovesTo
    <3>2. Moved(r, p, k)
      BY <2>1, <2>2, <3>1, MoveRequest DEF H1Pcs
    <3>3. IdleUnheld'
      BY <2>1, <3>2 DEF Http1Inv, IdleUnheld, IdleConns, Moved
    <3>4. NoMixedExchanges'
      BY <1>0, <2>1, <2>2, <3>1, <3>2 DEF Http1Inv, NoMixedExchanges, HoldsConn, Moved
    <3>5. wire' \in [H1Conns -> H1Requests \cup {Quiet}]
      BY <1>0, <3>1
    <3> QED BY <1>a, <2>1, <2>3, <3>2, <3>3, <3>4, <3>5
        DEF Http1Inv, Http1TypeOK, IdleConns, Moved
  <2> QED BY <2>4, <2>5
<1>3. ASSUME NEW r \in H1Requests, SenderReady(r) PROVE Http1Inv'
  <2> DEFINE k == h1Req[r].conn
  <2>1. /\ k \in H1Conns
        /\ \A q \in H1Requests \ {r} : h1Req[q].conn # k
        /\ idle' = idle /\ h1Open' = h1Open /\ h1Stale' = h1Stale
    BY <1>3 DEF SenderReady, Http1Inv, HoldsConn, OneHolder
  <2>2. CASE IsReady(k) /\ SendOn(r, k)
    <3>1. MovesTo(r, "sending", k) /\ wire' = [wire EXCEPT ![k] = r]
      BY <2>2 DEF SendOn, IsReady, MovesTo
    <3>2. Moved(r, "sending", k)
      BY <2>1, <3>1, MoveRequest DEF H1Pcs
    <3>3. NoMixedExchanges'
      BY <1>0, <2>1, <3>1, <3>2 DEF Http1Inv, NoMixedExchanges, HoldsConn, Moved
    <3> QED BY <1>0, <1>a, <2>1, <3>1, <3>2, <3>3
        DEF Http1Inv, Http1TypeOK, IdleUnheld, IdleConns, Moved
  <2>3. CASE h1Req' = [h1Req EXCEPT ![r] = [pc |-> "checkout", conn |-> H1NoConn]] /\ wire' = wire
    <3>1. MovesTo(r, "checkout", H1NoConn)
      BY <2>3 DEF MovesTo
    <3>2. Moved(r, "checkout", H1NoConn)
      BY <3>1, Http1Assumption, MoveRequest DEF H1Pcs
    <3> QED BY <1>a, <2>1, <2>3, <3>2, Http1Assumption
        DEF Http1Inv, Http1TypeOK, IdleUnheld, IdleConns, NoMixedExchanges, Moved
  <2> QED BY <1>3, <2>2, <2>3 DEF SenderReady
<1>4. ASSUME NEW r \in H1Requests, H1StartConnect(r) PROVE Http1Inv'
  <2>1. MovesTo(r, "connecting", h1Req[r].conn)
    BY <1>4, MovePc DEF H1StartConnect, H1Pcs
  <2>2. h1Req[r].conn \notin H1Conns
    BY <1>4 DEF H1StartConnect, Http1Inv, HoldsConn
  <2>3. Moved(r, "connecting", h1Req[r].conn)
    BY <1>0, <2>1, <2>2, MoveRequest DEF H1Pcs
  <2> QED BY <1>4, <1>a, <2>3
      DEF Moved, H1StartConnect, Http1Inv, Http1TypeOK, IdleUnheld, IdleConns, NoMixedExchanges
<1>5. ASSUME NEW r \in H1Requests, NEW k \in H1Conns, H1Connected(r, k) PROVE Http1Inv'
  <2>1. MovesTo(r, "sending", k)
    BY <1>5 DEF H1Connected, MovesTo
  <2>2. Moved(r, "sending", k)
    BY <1>5, <2>1, MoveRequest DEF H1Connected, H1Pcs
  <2>3. NoMixedExchanges'
    BY <1>0, <1>5, <2>2 DEF H1Connected, Http1Inv, NoMixedExchanges, HoldsConn, Moved
  <2> QED BY <1>0, <1>5, <1>a, <2>2, <2>3
      DEF H1Connected, Http1Inv, Http1TypeOK, IdleUnheld, IdleConns, Moved
<1>6. ASSUME NEW r \in H1Requests, EmptyResponse(r) PROVE Http1Inv'
  BY <1>6, ReleaseKeeps DEF EmptyResponse, Http1Inv, HoldsConn
<1>7. ASSUME NEW r \in H1Requests, H1ResponseHead(r) PROVE Http1Inv'
  <2>1. MovesTo(r, "body", h1Req[r].conn)
    BY <1>7, MovePc DEF H1ResponseHead, H1Pcs
  <2>2. h1Req[r].conn \in H1Conns /\ \A q \in H1Requests \ {r} : h1Req[q].conn # h1Req[r].conn
    BY <1>7 DEF H1ResponseHead, Http1Inv, HoldsConn, OneHolder
  <2>3. Moved(r, "body", h1Req[r].conn)
    BY <2>1, <2>2, MoveRequest DEF H1Pcs
  <2> QED BY <1>7, <1>a, <2>3
      DEF Moved, H1ResponseHead, Http1Inv, Http1TypeOK, IdleUnheld, IdleConns, NoMixedExchanges
<1>8. ASSUME NEW r \in H1Requests, Abandon(r) PROVE Http1Inv'
  BY <1>8, DropSenderKeeps DEF Abandon
<1>9. ASSUME NEW r \in H1Requests, BodyComplete(r) PROVE Http1Inv'
  BY <1>9, ReleaseKeeps DEF BodyComplete, Http1Inv, HoldsConn
<1>10. ASSUME NEW r \in H1Requests, BodyAbort(r) PROVE Http1Inv'
  BY <1>10, ReleaseKeeps, DropSenderKeeps DEF BodyAbort, Http1Inv, HoldsConn
<1>11. ASSUME NEW k \in H1Conns, ExchangeOver(k) PROVE Http1Inv'
  BY <1>0, <1>11 DEF ExchangeOver, Http1Inv, Http1TypeOK, HoldsConn, IdleUnheld, IdleConns,
     OneHolder, NoMixedExchanges
<1>12. ASSUME NEW k \in H1Conns, H1Close(k) \/ H1Expire(k) PROVE Http1Inv'
  BY <1>12 DEF H1Close, H1Expire, Http1Inv, Http1TypeOK, HoldsConn, IdleUnheld, IdleConns,
     OneHolder, NoMixedExchanges
<1>13. CASE H1CleanupExpired
  <2> DEFINE kept == {i \in DOMAIN idle : H1Keeps(idle[i])}
  <2>1. PICK at \in Bijection(1..Cardinality(kept), kept) :
           idle' = [i \in DOMAIN at |-> idle[at[i]]]
    BY <1>13 DEF H1CleanupExpired
  <2>2. kept \in SUBSET DOMAIN idle
    OBVIOUS
  <2> HIDE DEF kept
  <2>3. /\ idle' \in Seq(H1Conns) /\ IsInjective(idle')
        /\ ToSet(idle') = {idle[i] : i \in kept}
    BY <2>1, <2>2, RetainSome DEF Http1Inv
  <2>4. ToSet(idle') \subseteq ToSet(idle)
    BY <2>2, <2>3 DEF ToSet
  <2> QED BY <1>13, <2>3, <2>4
      DEF H1CleanupExpired, Http1Inv, Http1TypeOK, HoldsConn, IdleUnheld, IdleConns,
          OneHolder, NoMixedExchanges
<1>14. CASE UNCHANGED http1Vars
  BY <1>14 DEF http1Vars, Http1Inv, Http1TypeOK, HoldsConn, IdleUnheld, IdleConns,
     OneHolder, NoMixedExchanges
<1> QED
  BY <1>1, <1>2, <1>3, <1>4, <1>5, <1>6, <1>7, <1>8, <1>9, <1>10, <1>11, <1>12, <1>13, <1>14
  DEF Http1Next

(* Every behaviour satisfies the inductive invariant. *)
LEMMA Http1Invariance == Http1Spec => []Http1Inv
<1> QED BY Http1InitInv, Http1Step, PTL DEF Http1Spec

(* The HTTP/1 pool keeps its types. *)
THEOREM Http1TypeCorrect == Http1Spec => []Http1TypeOK
<1>1. Http1Inv => Http1TypeOK
  BY DEF Http1Inv
<1> QED BY <1>1, Http1Invariance, PTL

(* A sender of the HTTP/1 pool belongs to the idle list or to one request, *)
(* never to two, and a request never sends or reads on a connection whose  *)
(* exchange is another's, however futures and bodies are dropped.          *)
THEOREM Http1ExchangesKept == Http1Spec => []ExchangesKept
<1>1. Http1Inv => ExchangesKept
  BY DEF Http1Inv, ExchangesKept, OneOwner, Holders, IdleUnheld, OneHolder
<1> QED BY <1>1, Http1Invariance, PTL

----------------------------------------------------------------------------

(* The streams of a connection are finite, before and after a step. *)
LEMMA StreamsFinite ==
  ASSUME NEW k
  PROVE  /\ IsFiniteSet(Streams(k)) /\ Cardinality(Streams(k)) \in Nat
         /\ IsFiniteSet(Streams(k)') /\ Cardinality(Streams(k)') \in Nat
<1>1. Streams(k) \subseteq Requests /\ Streams(k)' \subseteq Requests
  BY DEF Streams
<1> QED BY <1>1, PoolAssumption, FS_Subset, FS_CardinalityType

(* A request without a stream gets one. *)
LEMMA OpenStream ==
  ASSUME PoolInv, NEW r \in Requests, req[r].conn \notin Conns, NEW k \in Conns,
         req' = [req EXCEPT ![r] = [pc |-> "sending", conn |-> k]]
  PROVE  /\ req' \in [Requests -> [pc : {"idle", "connecting", "sending", "body"},
                                   conn : Conns \cup {NoConn}]]
         /\ HasStream'
         /\ Streams(k)' # {}
         /\ Cardinality(Streams(k)') = Cardinality(Streams(k)) + 1
         /\ \A l \in Conns \ {k} : Streams(l)' = Streams(l)
<1>1. req \in [Requests -> [pc : {"idle", "connecting", "sending", "body"},
                            conn : Conns \cup {NoConn}]]
  BY DEF PoolInv, PoolTypeOK
<1>2. \A q \in Requests : req'[q] = IF q = r THEN [pc |-> "sending", conn |-> k] ELSE req[q]
  BY <1>1
<1>3. req' \in [Requests -> [pc : {"idle", "connecting", "sending", "body"},
                             conn : Conns \cup {NoConn}]]
  BY <1>1
<1>4. HasStream'
  BY <1>2 DEF PoolInv, HasStream
<1>5. /\ Streams(k)' = Streams(k) \cup {r} /\ r \notin Streams(k)
      /\ \A l \in Conns \ {k} : Streams(l)' = Streams(l)
  BY <1>2 DEF Streams
<1> QED BY <1>3, <1>4, <1>5, StreamsFinite, FS_AddElement

(* A request gives its stream back or leaves it behind. *)
LEMMA EndStream ==
  ASSUME PoolInv, NEW r \in Requests, NEW k \in Conns, req[r].conn = k,
         req' = [req EXCEPT ![r] = Idle]
  PROVE  /\ req' \in [Requests -> [pc : {"idle", "connecting", "sending", "body"},
                                   conn : Conns \cup {NoConn}]]
         /\ HasStream'
         /\ r \in Streams(k)
         /\ Cardinality(Streams(k)') = Cardinality(Streams(k)) - 1
         /\ \A l \in Conns \ {k} : Streams(l)' = Streams(l)
<1>1. req \in [Requests -> [pc : {"idle", "connecting", "sending", "body"},
                            conn : Conns \cup {NoConn}]]
  BY DEF PoolInv, PoolTypeOK
<1>2. \A q \in Requests : req'[q] = IF q = r THEN Idle ELSE req[q]
  BY <1>1
<1>3. req' \in [Requests -> [pc : {"idle", "connecting", "sending", "body"},
                             conn : Conns \cup {NoConn}]]
  BY <1>1 DEF Idle
<1>4. HasStream'
  BY <1>2, PoolAssumption DEF PoolInv, HasStream, Idle
<1>5. r \in Streams(k)
  BY DEF Streams
<1>6. /\ Streams(k)' = Streams(k) \ {r}
      /\ \A l \in Conns \ {k} : Streams(l)' = Streams(l)
  BY <1>2, <1>5, PoolAssumption DEF Streams, Idle
<1>7. Cardinality(Streams(k)') = Cardinality(Streams(k)) - 1
  BY <1>5, <1>6, StreamsFinite, FS_RemoveElement
<1> QED BY <1>3, <1>4, <1>5, <1>6, <1>7

(* A step between two states of a request that keep its connection, or     *)
(* that have none.                                                         *)
LEMMA SameStreams ==
  ASSUME PoolInv, NEW r \in Requests, NEW p \in {"idle", "connecting", "sending", "body"},
         req' = [req EXCEPT ![r] = [pc |-> p, conn |-> req[r].conn]],
         req[r].conn \in Conns <=> p \in {"sending", "body"}
  PROVE  /\ req' \in [Requests -> [pc : {"idle", "connecting", "sending", "body"},
                                   conn : Conns \cup {NoConn}]]
         /\ HasStream'
         /\ \A l \in Conns : Streams(l)' = Streams(l)
<1>1. req \in [Requests -> [pc : {"idle", "connecting", "sending", "body"},
                            conn : Conns \cup {NoConn}]]
  BY DEF PoolInv, PoolTypeOK
<1>2. \A q \in Requests : req'[q] = IF q = r THEN [pc |-> p, conn |-> req[r].conn] ELSE req[q]
  BY <1>1
<1>3. req' \in [Requests -> [pc : {"idle", "connecting", "sending", "body"},
                             conn : Conns \cup {NoConn}]]
  BY <1>1
<1>4. HasStream'
  BY <1>2 DEF PoolInv, HasStream
<1>5. \A l \in Conns : Streams(l)' = Streams(l)
  BY <1>2 DEF Streams
<1> QED BY <1>3, <1>4, <1>5

(* The specification starts in the invariant. *)
LEMMA PoolInitInv == PoolInit => PoolInv
<1> SUFFICES ASSUME PoolInit PROVE PoolInv
  OBVIOUS
<1> USE DEF PoolInit
<1>1. conns \in Seq(Conns) /\ Pooled = {} /\ DOMAIN conns = {}
  BY DEF Pooled
<1>2. PoolTypeOK
  BY <1>1 DEF PoolTypeOK, Idle
<1>3. HasStream /\ \A k \in Conns : Streams(k) = {}
  BY PoolAssumption DEF HasStream, Streams, Idle
<1>4. StreamsAccounted /\ StreamLimit
  <2>1. \A k \in Conns : k \notin Pooled /\ Streams(k) = {} /\ Cardinality(Streams(k)) = 0
    BY <1>1, <1>3, FS_EmptySet
  <2> QED BY <2>1, PoolAssumption DEF StreamsAccounted, StreamLimit
<1> QED BY <1>1, <1>2, <1>3, <1>4 DEF PoolInv

(* Every step keeps the invariant. *)
LEMMA PoolStep == PoolInv /\ [PoolNext]_poolVars => PoolInv'
<1> SUFFICES ASSUME PoolInv, [PoolNext]_poolVars PROVE PoolInv'
  OBVIOUS
<1>0. /\ req \in [Requests -> [pc : {"idle", "connecting", "sending", "body"},
                               conn : Conns \cup {NoConn}]]
      /\ inFlight \in [Conns -> Nat] /\ abandoned \in [Conns -> Nat]
      /\ conns \in Seq(Conns)
      /\ \A k \in Conns : Cardinality(Streams(k)) \in Nat
      /\ \A i \in DOMAIN conns : conns[i] \in Conns /\ conns[i] \in Pooled
  BY StreamsFinite DEF PoolInv, PoolTypeOK, Pooled
<1> DEFINE limit == IF MaxStreams = 0 THEN 1 ELSE MaxStreams
<1>a. limit \in Nat /\ limit >= 1 /\ \A n \in Nat : n < MaxStreams => n + 1 <= limit
  BY PoolAssumption
<1>b. /\ \A k \in Conns : Cardinality(Streams(k)) <= limit
      /\ (\A k \in Conns : Cardinality(Streams(k)') <= limit) => StreamLimit'
  BY DEF PoolInv, StreamLimit
<1> HIDE DEF limit
<1>1. ASSUME NEW r \in Requests, CheckoutPooled(r) PROVE PoolInv'
  <2>1. PICK i \in Usable :
           /\ inFlight' = [inFlight EXCEPT ![conns[i]] = @ + 1]
           /\ stale' = stale \ {conns[i]}
           /\ req' = [req EXCEPT ![r] = [pc |-> "sending", conn |-> conns[i]]]
    BY <1>1 DEF CheckoutPooled
  <2>2. PICK k \in Conns : k = conns[i] /\ k \in Pooled /\ inFlight[k] < MaxStreams
    BY <1>0 DEF Usable, HasCapacity
  <2>3. req[r].conn \notin Conns
    BY <1>1, PoolAssumption DEF CheckoutPooled, Idle
  <2>4. /\ req' \in [Requests -> [pc : {"idle", "connecting", "sending", "body"},
                                  conn : Conns \cup {NoConn}]]
        /\ HasStream'
        /\ Cardinality(Streams(k)') = Cardinality(Streams(k)) + 1
        /\ \A l \in Conns \ {k} : Streams(l)' = Streams(l)
    BY <2>1, <2>2, <2>3, OpenStream
  <2>5. conns' = conns /\ open' = open /\ abandoned' = abandoned /\ Pooled' = Pooled
    BY <1>1 DEF CheckoutPooled, Pooled
  <2>6. inFlight' \in [Conns -> Nat] /\ inFlight' = [inFlight EXCEPT ![k] = @ + 1]
    BY <1>0, <2>1, <2>2
  <2>a. stale' \subseteq Conns
    BY <2>1 DEF PoolInv, PoolTypeOK
  <2>b. PoolTypeOK' /\ conns' \in Seq(Conns)
    BY <1>0, <2>4, <2>5, <2>6, <2>a DEF PoolInv, PoolTypeOK
  <2>7. inFlight[k] = Cardinality(Streams(k)) + abandoned[k]
    BY <2>2 DEF PoolInv, StreamsAccounted
  <2>8. StreamsAccounted'
    BY <1>0, <2>4, <2>5, <2>6, <2>7 DEF PoolInv, StreamsAccounted
  <2>9. StreamLimit'
    <3>1. Cardinality(Streams(k)) < MaxStreams
      BY <1>0, <2>2, <2>7, PoolAssumption
    <3> QED BY <1>0, <1>a, <1>b, <2>4, <3>1
  <2> QED BY <2>4, <2>8, <2>9, <2>b DEF PoolInv
<1>2. ASSUME NEW r \in Requests, StartConnect(r) PROVE PoolInv'
  <2>1. /\ req' = [req EXCEPT ![r] = [pc |-> "connecting", conn |-> req[r].conn]]
        /\ req[r].conn \notin Conns
    BY <1>2, PoolAssumption DEF StartConnect, Idle
  <2>2. /\ req' \in [Requests -> [pc : {"idle", "connecting", "sending", "body"},
                                  conn : Conns \cup {NoConn}]]
        /\ HasStream' /\ \A l \in Conns : Streams(l)' = Streams(l)
    BY <2>1, SameStreams
  <2>3. Pooled' = Pooled
    BY <1>2 DEF StartConnect, Pooled
  <2> QED BY <1>2, <2>2, <2>3
      DEF StartConnect, PoolInv, PoolTypeOK, StreamsAccounted, StreamLimit
<1>3. ASSUME NEW r \in Requests, NotConnected(r) PROVE PoolInv'
  <2>1. req[r].conn \notin Conns
    BY <1>3 DEF NotConnected, PoolInv, HasStream
  <2>2. req[r].conn = NoConn
    BY <1>0, <2>1
  <2>3. req' = [req EXCEPT ![r] = [pc |-> "idle", conn |-> req[r].conn]]
    BY <1>3, <2>2 DEF NotConnected, Idle
  <2>4. /\ req' \in [Requests -> [pc : {"idle", "connecting", "sending", "body"},
                                  conn : Conns \cup {NoConn}]]
        /\ HasStream' /\ \A l \in Conns : Streams(l)' = Streams(l)
    BY <2>1, <2>3, SameStreams
  <2>5. Pooled' = Pooled
    BY <1>3 DEF NotConnected, Pooled
  <2> QED BY <1>3, <2>4, <2>5
      DEF NotConnected, PoolInv, PoolTypeOK, StreamsAccounted, StreamLimit
<1>4. ASSUME NEW r \in Requests, NEW k \in Conns, Connected(r, k) PROVE PoolInv'
  <2>1. req[r].conn \notin Conns
    BY <1>4 DEF Connected, PoolInv, HasStream
  <2>2. /\ req' \in [Requests -> [pc : {"idle", "connecting", "sending", "body"},
                                  conn : Conns \cup {NoConn}]]
        /\ HasStream'
        /\ Cardinality(Streams(k)') = Cardinality(Streams(k)) + 1
        /\ \A l \in Conns \ {k} : Streams(l)' = Streams(l)
    BY <1>4, <2>1, OpenStream DEF Connected
  <2>3. Cardinality(Streams(k)') = 1
    BY <1>4, <2>2, FS_EmptySet DEF Connected
  <2>4. /\ Len(conns) \in Nat /\ DOMAIN conns = 1..Len(conns)
        /\ conns' \in Seq(Conns) /\ DOMAIN conns' = 1..(Len(conns) + 1)
        /\ \A i \in 1..Len(conns) : conns'[i] = conns[i]
        /\ conns'[Len(conns) + 1] = k
    BY <1>0, <1>4 DEF Connected
  <2>5. \A l \in Conns : l \in Pooled' <=> l \in Pooled \/ l = k
    BY <2>4 DEF Pooled
  <2>6. Pooled' \subseteq Conns
    BY <2>4 DEF Pooled
  <2>7. \A i, j \in DOMAIN conns' : conns'[i] = conns'[j] => i = j
    BY <1>4, <2>4 DEF PoolInv, PoolTypeOK, Connected, Pooled
  <2>8. PoolTypeOK'
    BY <1>0, <1>4, <2>2, <2>6, <2>7 DEF Connected, PoolInv, PoolTypeOK
  <2>9. StreamsAccounted'
    BY <1>0, <1>4, <2>2, <2>3, <2>5 DEF Connected, PoolInv, StreamsAccounted
  <2>10. StreamLimit'
    BY <1>a, <1>b, <2>2, <2>3
  <2> QED BY <2>2, <2>4, <2>8, <2>9, <2>10 DEF PoolInv
<1>5. ASSUME NEW r \in Requests, ResponseHead(r) PROVE PoolInv'
  <2>1. [req[r] EXCEPT !.pc = "body"] = [pc |-> "body", conn |-> req[r].conn]
    BY <1>0
  <2>2. req' = [req EXCEPT ![r] = [pc |-> "body", conn |-> req[r].conn]]
    BY <1>5, <2>1 DEF ResponseHead
  <2>3. req[r].conn \in Conns
    BY <1>5 DEF ResponseHead, PoolInv, HasStream
  <2>4. /\ req' \in [Requests -> [pc : {"idle", "connecting", "sending", "body"},
                                  conn : Conns \cup {NoConn}]]
        /\ HasStream' /\ \A l \in Conns : Streams(l)' = Streams(l)
    BY <2>2, <2>3, SameStreams
  <2>5. Pooled' = Pooled
    BY <1>5 DEF ResponseHead, Pooled
  <2> QED BY <1>5, <2>4, <2>5
      DEF ResponseHead, PoolInv, PoolTypeOK, StreamsAccounted, StreamLimit
<1>6. ASSUME NEW r \in Requests, EndedAtOnce(r) \/ BodyEnd(r) PROVE PoolInv'
  <2>1. PICK k \in Conns : k = req[r].conn
    BY <1>6 DEF EndedAtOnce, BodyEnd, PoolInv, HasStream
  <2>2. /\ inFlight' = [inFlight EXCEPT ![k] = @ - 1]
        /\ req' = [req EXCEPT ![r] = Idle]
        /\ conns' = conns /\ open' = open /\ stale' = stale /\ abandoned' = abandoned
        /\ Pooled' = Pooled
    BY <1>6, <2>1 DEF EndedAtOnce, BodyEnd, GiveBack, Pooled
  <2>3. /\ req' \in [Requests -> [pc : {"idle", "connecting", "sending", "body"},
                                  conn : Conns \cup {NoConn}]]
        /\ HasStream'
        /\ r \in Streams(k)
        /\ Cardinality(Streams(k)') = Cardinality(Streams(k)) - 1
        /\ \A l \in Conns \ {k} : Streams(l)' = Streams(l)
    BY <2>1, <2>2, EndStream
  <2>4. Cardinality(Streams(k)') \in Nat
    BY StreamsFinite
  <2>5. inFlight[k] = Cardinality(Streams(k)) + abandoned[k]
    BY <2>3 DEF PoolInv, StreamsAccounted
  <2>6. inFlight' \in [Conns -> Nat]
    BY <1>0, <2>2, <2>3, <2>4, <2>5
  <2>7. StreamsAccounted'
    BY <1>0, <2>2, <2>3, <2>5 DEF PoolInv, StreamsAccounted
  <2>8. StreamLimit'
    <3>1. ASSUME NEW l \in Conns PROVE Cardinality(Streams(l)') <= limit
      <4>1. Cardinality(Streams(l)') <= Cardinality(Streams(l))
        <5>1. CASE l = k
          BY <1>0, <2>3, <5>1
        <5>2. CASE l # k
          <6>1. Streams(l)' = Streams(l)
            BY <2>3, <5>2
          <6> QED BY <6>1, StreamsFinite
        <5> QED BY <5>1, <5>2
      <4> QED BY <1>0, <1>a, <1>b, <4>1, StreamsFinite
    <3> QED BY <1>b, <3>1
  <2> QED BY <2>2, <2>3, <2>6, <2>7, <2>8 DEF PoolInv, PoolTypeOK
<1>7. ASSUME NEW r \in Requests, DropSend(r) PROVE PoolInv'
  <2>1. PICK k \in Conns : k = req[r].conn
    BY <1>7 DEF DropSend, PoolInv, HasStream
  <2>2. /\ abandoned' = [abandoned EXCEPT ![k] = @ + 1]
        /\ req' = [req EXCEPT ![r] = Idle]
        /\ conns' = conns /\ open' = open /\ stale' = stale /\ inFlight' = inFlight
        /\ Pooled' = Pooled
    BY <1>7, <2>1 DEF DropSend, Pooled
  <2>3. /\ req' \in [Requests -> [pc : {"idle", "connecting", "sending", "body"},
                                  conn : Conns \cup {NoConn}]]
        /\ HasStream'
        /\ r \in Streams(k)
        /\ Cardinality(Streams(k)') = Cardinality(Streams(k)) - 1
        /\ \A l \in Conns \ {k} : Streams(l)' = Streams(l)
    BY <2>1, <2>2, EndStream
  <2>4. inFlight[k] = Cardinality(Streams(k)) + abandoned[k]
    BY <2>3 DEF PoolInv, StreamsAccounted
  <2>5. abandoned' \in [Conns -> Nat]
    BY <1>0, <2>2
  <2>6. StreamsAccounted'
    BY <1>0, <2>2, <2>3, <2>4 DEF PoolInv, StreamsAccounted
  <2>7. StreamLimit'
    <3>1. ASSUME NEW l \in Conns PROVE Cardinality(Streams(l)') <= limit
      <4>1. Cardinality(Streams(l)') <= Cardinality(Streams(l))
        <5>1. CASE l = k
          BY <1>0, <2>3, <5>1
        <5>2. CASE l # k
          <6>1. Streams(l)' = Streams(l)
            BY <2>3, <5>2
          <6> QED BY <6>1, StreamsFinite
        <5> QED BY <5>1, <5>2
      <4> QED BY <1>0, <1>a, <1>b, <4>1, StreamsFinite
    <3> QED BY <1>b, <3>1
  <2> QED BY <2>2, <2>3, <2>5, <2>6, <2>7 DEF PoolInv, PoolTypeOK
<1>8. ASSUME NEW k \in Conns, Close(k) \/ Expire(k) PROVE PoolInv'
  <2>1. Pooled' = Pooled /\ HasStream' /\ \A l \in Conns : Streams(l)' = Streams(l)
    BY <1>8 DEF Close, Expire, Pooled, Streams, HasStream, PoolInv
  <2> QED BY <1>8, <2>1
      DEF Close, Expire, PoolInv, PoolTypeOK, StreamsAccounted, StreamLimit
<1>9. CASE CleanupExpired
  <2> DEFINE kept == {i \in DOMAIN conns : Keeps(conns[i])}
  <2>1. PICK at \in Bijection(1..Cardinality(kept), kept) :
           conns' = [i \in DOMAIN at |-> conns[at[i]]]
    BY <1>9 DEF CleanupExpired
  <2>2. kept \in SUBSET DOMAIN conns /\ IsInjective(conns)
    BY DEF IsInjective, PoolInv, PoolTypeOK
  <2> HIDE DEF kept
  <2>3. /\ conns' \in Seq(Conns) /\ IsInjective(conns')
        /\ ToSet(conns') = {conns[i] : i \in kept}
    BY <2>1, <2>2, RetainSome DEF PoolInv
  <2>4. Pooled' \subseteq Pooled
    BY <2>2, <2>3 DEF ToSet, Pooled
  <2>5. HasStream' /\ \A l \in Conns : Streams(l)' = Streams(l)
    BY <1>9 DEF CleanupExpired, HasStream, Streams, PoolInv
  <2> QED BY <1>9, <2>3, <2>4, <2>5
      DEF CleanupExpired, PoolInv, PoolTypeOK, IsInjective, StreamsAccounted, StreamLimit
<1>10. CASE UNCHANGED poolVars
  <2>1. Pooled' = Pooled /\ HasStream' /\ \A l \in Conns : Streams(l)' = Streams(l)
    BY <1>10 DEF poolVars, Pooled, Streams, HasStream, PoolInv
  <2> QED BY <1>10, <2>1
      DEF poolVars, PoolInv, PoolTypeOK, StreamsAccounted, StreamLimit
<1> QED
  BY <1>1, <1>2, <1>3, <1>4, <1>5, <1>6, <1>7, <1>8, <1>9, <1>10 DEF PoolNext

(* Every behaviour satisfies the inductive invariant. *)
LEMMA PoolInvariance == PoolSpec => []PoolInv
<1> QED BY PoolInitInv, PoolStep, PTL DEF PoolSpec

(* The HTTP/2 pool keeps its types; in particular no counter of streams    *)
(* goes below zero and no connection is pooled twice.                      *)
THEOREM PoolTypeCorrect == PoolSpec => []PoolTypeOK
<1>1. PoolInv => PoolTypeOK
  BY DEF PoolInv
<1> QED BY <1>1, PoolInvariance, PTL

(* in_flight counts the streams that requests hold and those whose `send`  *)
(* was dropped, and max_concurrent_streams holds on every connection.      *)
THEOREM PoolStreamsKept == PoolSpec => []StreamsKept
<1>1. PoolInv => StreamsKept
  BY DEF PoolInv, StreamsKept
<1> QED BY <1>1, PoolInvariance, PTL

(* cleanup_expired takes no open connection out of the pool while a        *)
(* request has a stream on it: `retain` tests in_flight, and in_flight     *)
(* counts every stream.                                                    *)
THEOREM PoolBusyConnectionsStay == PoolSpec => BusyConnectionsStay
<1> DEFINE Stays == \A k \in Conns : /\ k \in Pooled /\ k \notin Pooled'
                                     => k \notin open \/ Streams(k) = {}
<1>1. ASSUME PoolInv, [PoolNext]_poolVars PROVE [Stays]_poolVars
  <2>1. CASE CleanupExpired
    <3> DEFINE kept == {i \in DOMAIN conns : Keeps(conns[i])}
    <3>1. PICK at \in Bijection(1..Cardinality(kept), kept) :
             conns' = [i \in DOMAIN at |-> conns[at[i]]]
      BY <2>1 DEF CleanupExpired
    <3>2. kept \in SUBSET DOMAIN conns /\ IsInjective(conns) /\ conns \in Seq(Conns)
      BY <1>1 DEF IsInjective, PoolInv, PoolTypeOK
    <3>3. ToSet(conns') = {conns[i] : i \in kept}
      <4> HIDE DEF kept
      <4> QED BY <3>1, <3>2, RetainSome
    <3>4. ASSUME NEW k \in Conns, k \in Pooled, k \in open, Streams(k) # {}
          PROVE  k \in Pooled'
      <4>1. Keeps(k)
        <5>1. inFlight[k] = Cardinality(Streams(k)) + abandoned[k] /\ abandoned[k] \in Nat
          BY <1>1, <3>4 DEF PoolInv, PoolTypeOK, StreamsAccounted
        <5>2. Cardinality(Streams(k)) \in Nat \ {0}
          BY <3>4, StreamsFinite, FS_EmptySet
        <5> QED BY <3>4, <5>1, <5>2 DEF Keeps
      <4>2. PICK i \in DOMAIN conns : conns[i] = k
        BY <3>4 DEF Pooled
      <4>3. k \in ToSet(conns')
        BY <3>3, <4>1, <4>2
      <4> QED BY <4>3 DEF ToSet, Pooled
    <3> QED BY <3>4
  <2>2. CASE \E r \in Requests, k \in Conns : Connected(r, k)
    <3>1. PICK k : conns' = Append(conns, k) /\ k \in Conns
      BY <2>2 DEF Connected
    <3>2. /\ Len(conns) \in Nat /\ DOMAIN conns = 1..Len(conns)
          /\ DOMAIN conns' = 1..(Len(conns) + 1)
          /\ \A i \in 1..Len(conns) : conns'[i] = conns[i]
      BY <1>1, <3>1 DEF PoolInv
    <3>3. Pooled \subseteq Pooled'
      BY <3>2 DEF Pooled
    <3> QED BY <3>3
  <2>3. CASE conns' = conns
    <3>1. Pooled' = Pooled
      BY <2>3 DEF Pooled
    <3> QED BY <3>1
  <2> QED BY <1>1, <2>1, <2>2, <2>3
      DEF PoolNext, CheckoutPooled, StartConnect, NotConnected, ResponseHead, EndedAtOnce,
          BodyEnd, GiveBack, DropSend, Close, Expire, poolVars
<1> QED BY <1>1, PoolInvariance, PTL DEF PoolSpec, BusyConnectionsStay


-----------------------------------------------------------------------------
(* HealthChecks.                                                           *)

(* The reports of e in a channel that change the status in the map. *)
ChangesIn(ch, e) == {i \in DOMAIN ch : ch[i].endpoint = e /\ ch[i].changed}

(* Task e is about to send a change. *)
AboutToChange(e) == task[e] = "reporting" /\ report[e].changed

(* The last change of e in a channel says what the counter says; when there *)
(* is none, the map says it already.                                        *)
LastSays(ch, e, inMap, status) ==
    /\ \A i \in ChangesIn(ch, e) :
          (\A j \in ChangesIn(ch, e) : j <= i) => ch[i].health = status
    /\ ChangesIn(ch, e) = {} => inMap = status

ChecksShape ==
    /\ ChecksTypeOK
    /\ channel \in Seq(Reports)
    /\ report \in [Endpoints -> Reports \cup {NoEndpoint}]

(* What a task is about to send is its own and of the moment. *)
ReportIsCurrent ==
    \A e \in Endpoints : task[e] = "reporting" =>
        /\ report[e] \in Reports
        /\ report[e].endpoint = e
        /\ report[e].health = counter[e].status

(* A cluster that was removed has no checkers. *)
NoCheckersWhenRemoved ==
    config.pc = "serving" /\ ~present =>
        \A e \in Endpoints : task[e] = "none" /\ counter[e].status = "Unknown"

(* While checkers are stopped nothing is claimed of the map: it may be reset *)
(* before they are gone. They are all gone, and their counters with them,    *)
(* before the configurator takes the next report.                            *)
ChangesInOrder ==
    config.pc = "serving" =>
        \A e \in Endpoints :
            counter[e].status # "Unknown" /\ ~AboutToChange(e)
                => LastSays(channel, e, health[e], counter[e].status)

(* The inductive invariant. *)
ChecksInv == ChecksShape /\ ReportIsCurrent /\ NoCheckersWhenRemoved /\ ChangesInOrder

-----------------------------------------------------------------------------
(* One result.                                                             *)

(* A result leaves a known status, and reports a change exactly when the    *)
(* status it leaves is a new one.                                           *)
LEMMA OutcomeOfCheck ==
  ASSUME NEW c \in Counters, NEW outcome \in Outcomes
  PROVE  /\ AddOutcome(c, outcome) \in Counters
         /\ AddOutcome(c, outcome).status \in {"Healthy", "Unhealthy"}
         /\ Changed(c, outcome) \in BOOLEAN
         /\ ~Changed(c, outcome) =>
               c.status # "Unknown" /\ AddOutcome(c, outcome).status = c.status
<1>1. c.checks \in (-UnhealthyThreshold)..HealthyThreshold /\ c.status \in Statuses
  BY DEF Counters
<1>2. CountUp(c.checks) \in (-UnhealthyThreshold)..HealthyThreshold
  BY <1>1, ThresholdAssumption DEF CountUp
<1>3. CountDown(c.checks) \in (-UnhealthyThreshold)..HealthyThreshold
  BY <1>1, ThresholdAssumption DEF CountDown
<1>4. /\ AddSuccess(c) \in Counters
      /\ AddSuccess(c).status \in {"Healthy", "Unhealthy"}
  BY <1>1, <1>2 DEF AddSuccess, Counters, Statuses
<1>5. ASSUME NEW b \in BOOLEAN
      PROVE  /\ AddFailure(c, b) \in Counters
             /\ AddFailure(c, b).status \in {"Healthy", "Unhealthy"}
  BY <1>1, <1>3 DEF AddFailure, Counters, Statuses
<1>6. /\ AddOutcome(c, outcome) \in Counters
      /\ AddOutcome(c, outcome).status \in {"Healthy", "Unhealthy"}
  <2>1. CASE outcome = "success"
    BY <2>1, <1>4 DEF AddOutcome
  <2>2. CASE outcome # "success"
    BY <2>2, <1>5 DEF AddOutcome
  <2> QED BY <2>1, <2>2
<1> QED BY <1>6 DEF Changed

-----------------------------------------------------------------------------
(* The channel.                                                            *)

(* A report that is no change of e leaves the changes of e alone; one that  *)
(* is becomes the last of them.                                             *)
LEMMA SentReport ==
  ASSUME NEW ch \in Seq(Reports), NEW x \in Reports, NEW e, NEW inMap, NEW status
  PROVE  /\ LastSays(ch, e, inMap, status) /\ ~(x.endpoint = e /\ x.changed)
               => LastSays(Append(ch, x), e, inMap, status)
         /\ x.endpoint = e /\ x.changed /\ x.health = status
               => LastSays(Append(ch, x), e, inMap, status)
<1> DEFINE long == Append(ch, x)
           n == Len(ch)
<1>1. /\ long \in Seq(Reports) /\ n \in Nat /\ Len(long) = n + 1
      /\ long[n + 1] = x
      /\ \A i \in 1..n : long[i] = ch[i]
      /\ DOMAIN long = 1..(n + 1) /\ DOMAIN ch = 1..n
  OBVIOUS
<1> HIDE DEF long, n
<1>2. ASSUME ~(x.endpoint = e /\ x.changed) PROVE ChangesIn(long, e) = ChangesIn(ch, e)
  <2>1. ASSUME NEW i \in ChangesIn(long, e) PROVE i \in ChangesIn(ch, e)
    BY <1>1, <1>2, <2>1 DEF ChangesIn
  <2>2. ASSUME NEW i \in ChangesIn(ch, e) PROVE i \in ChangesIn(long, e)
    BY <1>1, <2>2 DEF ChangesIn
  <2> QED BY <2>1, <2>2
<1>3. \A i \in ChangesIn(ch, e) : long[i] = ch[i]
  BY <1>1 DEF ChangesIn
<1>4. ASSUME LastSays(ch, e, inMap, status), ~(x.endpoint = e /\ x.changed)
      PROVE  LastSays(long, e, inMap, status)
  BY <1>2, <1>3, <1>4 DEF LastSays
<1>5. ASSUME x.endpoint = e, x.changed, x.health = status
      PROVE  LastSays(long, e, inMap, status)
  <2>1. n + 1 \in ChangesIn(long, e)
    BY <1>1, <1>5 DEF ChangesIn
  <2>2. ASSUME NEW i \in ChangesIn(long, e), \A j \in ChangesIn(long, e) : j <= i
        PROVE  long[i].health = status
    <3>1. i \in 1..(n + 1) /\ n + 1 <= i
      BY <2>1, <2>2, <1>1 DEF ChangesIn
    <3>2. i = n + 1
      BY <3>1, <1>1
    <3> QED BY <3>2, <1>1, <1>5
  <2> QED BY <2>1, <2>2 DEF LastSays
<1> QED BY <1>4, <1>5 DEF long

(* Taking the first report: a change of e is applied to e, any other leaves *)
(* what is known of e.                                                      *)
LEMMA TakenReport ==
  ASSUME NEW ch \in Seq(Reports), ch # <<>>, NEW e, NEW inMap, NEW status,
         LastSays(ch, e, inMap, status)
  PROVE  LastSays(Tail(ch), e,
                  IF Head(ch).endpoint = e /\ Head(ch).changed THEN Head(ch).health ELSE inMap,
                  status)
<1> DEFINE rest == Tail(ch)
           n == Len(ch)
           now == IF Head(ch).endpoint = e /\ Head(ch).changed THEN Head(ch).health ELSE inMap
<1>1. /\ rest \in Seq(Reports) /\ n \in Nat /\ n > 0 /\ Len(rest) = n - 1
      /\ \A i \in 1..(n - 1) : rest[i] = ch[i + 1]
      /\ DOMAIN rest = 1..(n - 1) /\ DOMAIN ch = 1..n
      /\ Head(ch) = ch[1]
  OBVIOUS
<1> HIDE DEF rest, n
<1>2. ASSUME NEW i \in ChangesIn(rest, e)
      PROVE  i \in 1..(n - 1) /\ i + 1 \in ChangesIn(ch, e) /\ rest[i] = ch[i + 1]
  BY <1>1, <1>2 DEF ChangesIn
<1>3. ASSUME NEW i \in ChangesIn(ch, e), i # 1
      PROVE  i \in 2..n /\ i - 1 \in ChangesIn(rest, e)
  <2>1. i \in 2..n
    BY <1>1, <1>3 DEF ChangesIn
  <2>2. i - 1 \in 1..(n - 1) /\ rest[i - 1] = ch[i]
    BY <2>1, <1>1
  <2> QED BY <2>1, <2>2, <1>1, <1>3 DEF ChangesIn
<1>4. ASSUME NEW i \in ChangesIn(rest, e), \A j \in ChangesIn(rest, e) : j <= i
      PROVE  rest[i].health = status
  <2>1. ASSUME NEW j \in ChangesIn(ch, e) PROVE j <= i + 1
    <3>1. CASE j = 1
      BY <3>1, <1>2, <1>1
    <3>2. CASE j # 1
      BY <3>2, <2>1, <1>2, <1>3, <1>4, <1>1
    <3> QED BY <3>1, <3>2
  <2>2. i + 1 \in ChangesIn(ch, e) /\ rest[i] = ch[i + 1]
    BY <1>2
  <2> QED BY <2>1, <2>2 DEF LastSays
<1>5. ASSUME ChangesIn(rest, e) = {} PROVE now = status
  <2>1. \A i \in ChangesIn(ch, e) : i = 1
    BY <1>3, <1>5
  <2>2. CASE Head(ch).endpoint = e /\ Head(ch).changed
    <3>1. 1 \in ChangesIn(ch, e)
      BY <2>2, <1>1 DEF ChangesIn
    <3>2. \A j \in ChangesIn(ch, e) : j <= 1
      BY <2>1
    <3> QED BY <3>1, <3>2, <2>2, <1>1 DEF LastSays
  <2>3. CASE ~(Head(ch).endpoint = e /\ Head(ch).changed)
    <3>1. 1 \notin ChangesIn(ch, e)
      BY <2>3, <1>1 DEF ChangesIn
    <3>2. ChangesIn(ch, e) = {}
      BY <3>1, <2>1
    <3> QED BY <3>2, <2>3 DEF LastSays
  <2> QED BY <2>2, <2>3
<1> HIDE DEF now
<1>6. LastSays(rest, e, now, status)
  BY <1>4, <1>5 DEF LastSays
<1> QED BY <1>6 DEF rest, now

-----------------------------------------------------------------------------
(* The steps.                                                              *)

(* A step of a task that neither checks nor sends keeps what is known of it, *)
(* as the task reports neither before nor after it.                          *)
LEMMA QuietStep ==
  ASSUME ChecksInv, NEW e \in Endpoints, NEW to,
         to \in {"running", "checking", "waiting", "done"},
         task[e] \notin {"none", "reporting"}, task' = [task EXCEPT ![e] = to],
         notified' \in SUBSET Endpoints,
         UNCHANGED <<counter, report, channel, health, present, config, restarts>>
  PROVE  ChecksInv'
<1>1. ChecksShape'
  BY DEF ChecksInv, ChecksShape, ChecksTypeOK
<1>2. ReportIsCurrent'
  BY DEF ChecksInv, ChecksShape, ChecksTypeOK, ReportIsCurrent
<1>3. NoCheckersWhenRemoved'
  BY DEF ChecksInv, ChecksShape, ChecksTypeOK, NoCheckersWhenRemoved
<1>4. ChangesInOrder'
  <2>1. \A f \in Endpoints : AboutToChange(f)' <=> AboutToChange(f)
    BY DEF ChecksInv, ChecksShape, ChecksTypeOK, AboutToChange
  <2> QED BY <2>1 DEF ChecksInv, ChangesInOrder
<1> QED BY <1>1, <1>2, <1>3, <1>4 DEF ChecksInv

(* A check that ends: its result is reported, and unless it is a change the *)
(* status is the one before.                                                *)
LEMMA CheckDoneStep ==
  ASSUME ChecksInv, NEW e \in Endpoints, NEW outcome \in Outcomes, CheckDone(e, outcome)
  PROVE  ChecksInv'
<1> USE DEF ChecksInv
<1>0. /\ task \in [Endpoints -> {"none", "spawned", "running", "checking", "reporting",
                                  "reported", "waiting", "done"}]
      /\ counter \in [Endpoints -> Counters]
      /\ report \in [Endpoints -> Reports \cup {NoEndpoint}]
      /\ task[e] = "checking"
      /\ task' = [task EXCEPT ![e] = "reporting"]
      /\ counter' = [counter EXCEPT ![e] = AddOutcome(counter[e], outcome)]
      /\ report' = [report EXCEPT ![e] = ReportOf(e, outcome)]
      /\ notified' = notified \ {e}
      /\ UNCHANGED <<channel, health, present, config, restarts>>
  BY DEF CheckDone, Go, ChecksShape, ChecksTypeOK
<1>1. /\ AddOutcome(counter[e], outcome) \in Counters
      /\ AddOutcome(counter[e], outcome).status \in {"Healthy", "Unhealthy"}
      /\ Changed(counter[e], outcome) \in BOOLEAN
      /\ ~Changed(counter[e], outcome) =>
            /\ counter[e].status # "Unknown"
            /\ AddOutcome(counter[e], outcome).status = counter[e].status
  BY <1>0, OutcomeOfCheck
<1>2. /\ ReportOf(e, outcome) \in Reports
      /\ ReportOf(e, outcome).endpoint = e
      /\ ReportOf(e, outcome).health = AddOutcome(counter[e], outcome).status
      /\ ReportOf(e, outcome).changed = Changed(counter[e], outcome)
  BY <1>1 DEF ReportOf, Reports
<1>3. ChecksShape'
  <2>1. /\ counter' \in [Endpoints -> Counters]
        /\ report' \in [Endpoints -> Reports \cup {NoEndpoint}]
        /\ task' \in [Endpoints -> {"none", "spawned", "running", "checking", "reporting",
                                     "reported", "waiting", "done"}]
        /\ notified' \subseteq Endpoints
    BY <1>0, <1>1, <1>2 DEF ChecksShape, ChecksTypeOK
  <2>2. \A f \in Endpoints : task'[f] = "reporting" => report'[f] \in Reports
    BY <1>0, <1>2 DEF ChecksShape, ChecksTypeOK
  <2> QED BY <2>1, <2>2, <1>0 DEF ChecksShape, ChecksTypeOK
<1>4. ReportIsCurrent'
  BY <1>0, <1>2 DEF ReportIsCurrent
<1>5. NoCheckersWhenRemoved'
  BY <1>0 DEF NoCheckersWhenRemoved
<1>6. ChangesInOrder'
  <2> SUFFICES ASSUME config.pc = "serving", NEW f \in Endpoints,
                      counter'[f].status # "Unknown", ~AboutToChange(f)'
               PROVE  LastSays(channel, f, health[f], counter'[f].status)
    BY <1>0 DEF ChangesInOrder
  <2>1. CASE f = e
    <3>1. ~Changed(counter[e], outcome)
      BY <2>1, <1>0, <1>2 DEF AboutToChange
    <3>2. counter'[e].status = counter[e].status /\ counter[e].status # "Unknown"
      BY <3>1, <1>0, <1>1
    <3>3. ~AboutToChange(e)
      BY <1>0 DEF AboutToChange
    <3> QED BY <2>1, <3>2, <3>3 DEF ChangesInOrder
  <2>2. CASE f # e
    BY <2>2, <1>0 DEF ChangesInOrder, AboutToChange
  <2> QED BY <2>1, <2>2
<1> QED BY <1>3, <1>4, <1>5, <1>6

(* A report that is sent is the last one of its endpoint, and of the moment. *)
LEMMA SendReportStep ==
  ASSUME ChecksInv, NEW e \in Endpoints, SendReport(e)
  PROVE  ChecksInv'
<1> USE DEF ChecksInv
<1>0. /\ task \in [Endpoints -> {"none", "spawned", "running", "checking", "reporting",
                                  "reported", "waiting", "done"}]
      /\ report \in [Endpoints -> Reports \cup {NoEndpoint}]
      /\ channel \in Seq(Reports)
      /\ Len(channel) < ChannelSize
      /\ task[e] = "reporting"
      /\ task' = [task EXCEPT ![e] = "reported"]
      /\ channel' = Append(channel, report[e])
      /\ report' = [report EXCEPT ![e] = NoEndpoint]
      /\ UNCHANGED <<notified, counter, health, present, config, restarts>>
  BY DEF SendReport, Go, ChecksShape, ChecksTypeOK
<1>1. report[e] \in Reports /\ report[e].endpoint = e /\ report[e].health = counter[e].status
  BY <1>0 DEF ReportIsCurrent
<1>2. ChecksShape'
  <2>1. /\ channel' \in Seq(Reports)
        /\ Len(channel') <= ChannelSize
        /\ \A i \in DOMAIN channel' : channel'[i] \in Reports
    BY <1>0, <1>1, ChecksAssumption
  <2>2. /\ task' \in [Endpoints -> {"none", "spawned", "running", "checking", "reporting",
                                     "reported", "waiting", "done"}]
        /\ report' \in [Endpoints -> Reports \cup {NoEndpoint}]
        /\ \A f \in Endpoints : task'[f] = "reporting" => report'[f] \in Reports
    BY <1>0 DEF ChecksShape, ChecksTypeOK
  <2> QED BY <2>1, <2>2, <1>0 DEF ChecksShape, ChecksTypeOK
<1>3. ReportIsCurrent'
  BY <1>0 DEF ReportIsCurrent
<1>4. NoCheckersWhenRemoved'
  BY <1>0 DEF NoCheckersWhenRemoved
<1>5. ChangesInOrder'
  <2> SUFFICES ASSUME config.pc = "serving", NEW f \in Endpoints,
                      counter[f].status # "Unknown", ~AboutToChange(f)'
               PROVE  LastSays(Append(channel, report[e]), f, health[f], counter[f].status)
    BY <1>0 DEF ChangesInOrder
  <2>1. CASE f = e /\ report[e].changed
    BY <2>1, <1>0, <1>1, SentReport
  <2>2. CASE ~(f = e /\ report[e].changed)
    <3>1. ~AboutToChange(f)
      BY <2>2, <1>0 DEF AboutToChange
    <3>2. LastSays(channel, f, health[f], counter[f].status)
      BY <3>1 DEF ChangesInOrder
    <3>3. ~(report[e].endpoint = f /\ report[e].changed)
      BY <2>2, <1>1
    <3> QED BY <3>2, <3>3, <1>0, <1>1, SentReport
  <2> QED BY <2>1, <2>2
<1> QED BY <1>2, <1>3, <1>4, <1>5

(* A report that the configurator takes is applied if it is a change, while *)
(* the cluster is there; once it is removed no counter knows a status.      *)
LEMMA ProcessReportStep ==
  ASSUME ChecksInv, ProcessReport
  PROVE  ChecksInv'
<1> USE DEF ChecksInv
<1>0. /\ channel \in Seq(Reports) /\ channel # <<>>
      /\ Len(channel) <= ChannelSize
      /\ health \in [Endpoints -> {"Healthy", "Unhealthy"}]
      /\ config.pc = "serving"
      /\ channel' = Tail(channel)
      /\ health' = IF Head(channel).changed /\ present
                   THEN [health EXCEPT ![Head(channel).endpoint] = Head(channel).health]
                   ELSE health
      /\ UNCHANGED <<task, notified, counter, report, present, config, restarts>>
  BY DEF ProcessReport, NextReport, ChecksShape, ChecksTypeOK
<1>1. Head(channel) \in Reports
  BY <1>0
<1>2. /\ Head(channel).endpoint \in Endpoints
      /\ Head(channel).health \in {"Healthy", "Unhealthy"}
      /\ Head(channel).changed \in BOOLEAN
  BY <1>1 DEF Reports
<1>3. ChecksShape'
  <2>1. /\ channel' \in Seq(Reports)
        /\ Len(channel') <= ChannelSize
        /\ \A i \in DOMAIN channel' : channel'[i] \in Reports
    BY <1>0, ChecksAssumption
  <2>2. health' \in [Endpoints -> {"Healthy", "Unhealthy"}]
    BY <1>0, <1>2
  <2> QED BY <2>1, <2>2, <1>0 DEF ChecksShape, ChecksTypeOK
<1>4. ReportIsCurrent'
  BY <1>0 DEF ReportIsCurrent
<1>5. NoCheckersWhenRemoved'
  BY <1>0 DEF NoCheckersWhenRemoved
<1>6. ChangesInOrder'
  <2> SUFFICES ASSUME NEW e \in Endpoints,
                      counter[e].status # "Unknown", ~AboutToChange(e)
               PROVE  LastSays(Tail(channel), e, health'[e], counter[e].status)
    BY <1>0 DEF ChangesInOrder, AboutToChange
  <2>1. present
    BY <1>0 DEF NoCheckersWhenRemoved
  <2>2. LastSays(channel, e, health[e], counter[e].status)
    BY <1>0 DEF ChangesInOrder
  <2>3. health'[e] = IF Head(channel).endpoint = e /\ Head(channel).changed
                     THEN Head(channel).health ELSE health[e]
    BY <2>1, <1>0, <1>2
  <2> QED BY <2>2, <2>3, <1>0, TakenReport
<1> QED BY <1>3, <1>4, <1>5, <1>6

(* A step of the configurator that is no longer serving after it: nothing   *)
(* is claimed of the map until new checkers start.                          *)
LEMMA StoppingStep ==
  ASSUME ChecksInv,
         config' \in [pc : {"stopping", "joining"}, joining : Endpoints \cup {NoEndpoint},
                      left : SUBSET Endpoints],
         task' \in [Endpoints -> {"none", "spawned", "running", "checking", "reporting",
                                  "reported", "waiting", "done"}],
         \A e \in Endpoints : task'[e] # "none" => task'[e] = task[e],
         notified' \in SUBSET Endpoints,
         health' \in [Endpoints -> {"Healthy", "Unhealthy"}],
         present' \in BOOLEAN, restarts' \in 0..MaxRestarts,
         UNCHANGED <<counter, report, channel>>
  PROVE  ChecksInv'
<1>0. config'.pc # "serving"
  OBVIOUS
<1>1. ChecksShape'
  <2>1. config' \in [pc : {"serving", "stopping", "joining"},
                     joining : Endpoints \cup {NoEndpoint}, left : SUBSET Endpoints]
    OBVIOUS
  <2>2. \A e \in Endpoints : task'[e] = "reporting" => task[e] = "reporting"
    OBVIOUS
  <2> QED BY <2>1, <2>2 DEF ChecksInv, ChecksShape, ChecksTypeOK
<1>2. ReportIsCurrent'
  BY DEF ChecksInv, ReportIsCurrent
<1>3. NoCheckersWhenRemoved' /\ ChangesInOrder'
  BY <1>0 DEF NoCheckersWhenRemoved, ChangesInOrder
<1> QED BY <1>1, <1>2, <1>3 DEF ChecksInv

(* New checkers know no status, and there are none for a removed cluster. *)
LEMMA StartCheckersStep ==
  ASSUME ChecksInv, StartCheckers
  PROVE  ChecksInv'
<1>1. /\ counter' = [e \in Endpoints |-> NewCounter]
      /\ task' = [e \in Endpoints |-> IF present THEN "spawned" ELSE "none"]
      /\ config' = Serving
      /\ UNCHANGED <<notified, report, channel, health, present, restarts>>
  BY DEF StartCheckers
<1>2. NewCounter \in Counters /\ NewCounter.status = "Unknown"
  BY ThresholdAssumption DEF NewCounter, Counters, Statuses
<1>3. ChecksShape'
  <2>1. /\ counter' \in [Endpoints -> Counters]
        /\ task' \in [Endpoints -> {"none", "spawned"}]
    BY <1>1, <1>2
  <2>2. config' \in [pc : {"serving", "stopping", "joining"},
                     joining : Endpoints \cup {NoEndpoint}, left : SUBSET Endpoints]
    BY <1>1 DEF Serving
  <2> QED BY <2>1, <2>2, <1>1 DEF ChecksInv, ChecksShape, ChecksTypeOK
<1>4. ReportIsCurrent'
  BY <1>1 DEF ReportIsCurrent
<1>5. NoCheckersWhenRemoved'
  BY <1>1, <1>2 DEF NoCheckersWhenRemoved
<1>6. ChangesInOrder'
  BY <1>1, <1>2 DEF ChangesInOrder
<1> QED BY <1>3, <1>4, <1>5, <1>6 DEF ChecksInv

(* The invariant of the checkers is inductive. *)
LEMMA ChecksInvariant == ChecksSpec => []ChecksInv
<1>1. ChecksInit => ChecksInv
  <2> SUFFICES ASSUME ChecksInit PROVE ChecksInv
    OBVIOUS
  <2>1. NewCounter \in Counters /\ NewCounter.status = "Unknown"
    BY ThresholdAssumption DEF NewCounter, Counters, Statuses
  <2>2. ChecksShape
    BY <2>1, ChecksAssumption DEF ChecksInit, ChecksShape, ChecksTypeOK, Serving
  <2>3. ReportIsCurrent /\ NoCheckersWhenRemoved /\ ChangesInOrder
    BY <2>1 DEF ChecksInit, ReportIsCurrent, NoCheckersWhenRemoved, ChangesInOrder
  <2> QED BY <2>2, <2>3 DEF ChecksInv
<1>2. ChecksInv /\ [ChecksNext]_checkVars => ChecksInv'
  <2> SUFFICES ASSUME ChecksInv, [ChecksNext]_checkVars PROVE ChecksInv'
    OBVIOUS
  <2>0. /\ task \in [Endpoints -> {"none", "spawned", "running", "checking", "reporting",
                                    "reported", "waiting", "done"}]
        /\ notified \subseteq Endpoints
        /\ health \in [Endpoints -> {"Healthy", "Unhealthy"}]
        /\ present \in BOOLEAN
        /\ config \in [pc : {"serving", "stopping", "joining"},
                        joining : Endpoints \cup {NoEndpoint}, left : SUBSET Endpoints]
        /\ restarts \in 0..MaxRestarts
    BY DEF ChecksInv, ChecksShape, ChecksTypeOK
  <2>1. ASSUME NEW e \in Endpoints, CheckerStep(e) PROVE ChecksInv'
    <3>1. CASE InitialJitter(e)
      BY <3>1, <2>0, QuietStep DEF InitialJitter, Go
    <3>2. CASE BeginCheck(e)
      BY <3>2, <2>0, QuietStep DEF BeginCheck, Go
    <3>3. ASSUME NEW outcome \in Outcomes, CheckDone(e, outcome) PROVE ChecksInv'
      BY <3>3, CheckDoneStep
    <3>4. CASE SendReport(e)
      BY <3>4, SendReportStep
    <3>5. CASE BeginWait(e)
      BY <3>5, <2>0, QuietStep DEF BeginWait, Go
    <3>6. CASE WaitOver(e)
      BY <3>6, <2>0, QuietStep DEF WaitOver, Go
    <3>7. CASE Cancelled(e)
      BY <3>7, <2>0, QuietStep DEF Cancelled, Go
    <3> QED BY <2>1, <3>1, <3>2, <3>3, <3>4, <3>5, <3>6, <3>7 DEF CheckerStep
  <2>2. CASE ProcessReport
    BY <2>2, ProcessReportStep
  <2>3. ASSUME NEW e \in Endpoints, NotifyWaiters(e) PROVE ChecksInv'
    <3>1. /\ config' \in [pc : {"stopping", "joining"}, joining : Endpoints \cup {NoEndpoint},
                           left : SUBSET Endpoints]
          /\ notified' \in SUBSET Endpoints
          /\ UNCHANGED <<task, counter, report, channel, health, present, restarts>>
      BY <2>0, <2>3 DEF NotifyWaiters
    <3> QED BY <3>1, <2>0, StoppingStep
  <2>4. CASE Joined
    <3>1. /\ config' \in [pc : {"stopping", "joining"}, joining : Endpoints \cup {NoEndpoint},
                           left : SUBSET Endpoints]
          /\ task' \in [Endpoints -> {"none", "spawned", "running", "checking", "reporting",
                                       "reported", "waiting", "done"}]
          /\ \A e \in Endpoints : task'[e] # "none" => task'[e] = task[e]
          /\ UNCHANGED <<notified, counter, report, channel, health, present, restarts>>
      BY <2>0, <2>4 DEF Joined
    <3> QED BY <3>1, <2>0, StoppingStep
  <2>5. CASE StartCheckers
    BY <2>5, StartCheckersStep
  <2>6. ASSUME ReplaceCluster \/ RotateSecret \/ RemoveCluster PROVE ChecksInv'
    <3>1. /\ config' \in [pc : {"stopping", "joining"}, joining : Endpoints \cup {NoEndpoint},
                           left : SUBSET Endpoints]
          /\ restarts' \in 0..MaxRestarts
      BY <2>0, <2>6, ChecksAssumption DEF ReplaceCluster, RotateSecret, RemoveCluster, StopCluster
    <3>2. /\ health' \in [Endpoints -> {"Healthy", "Unhealthy"}]
          /\ present' \in BOOLEAN
          /\ UNCHANGED <<task, notified, counter, report, channel>>
      BY <2>0, <2>6 DEF ReplaceCluster, RotateSecret, RemoveCluster
    <3> QED BY <3>1, <3>2, <2>0, StoppingStep
  <2>7. CASE UNCHANGED checkVars
    BY <2>7 DEF checkVars, ChecksInv, ChecksShape, ChecksTypeOK, ReportIsCurrent,
                NoCheckersWhenRemoved, ChangesInOrder, AboutToChange
  <2> QED
    BY <2>1, <2>2, <2>3, <2>4, <2>5, <2>6, <2>7 DEF ChecksNext, ConfiguratorStep
<1> QED BY <1>1, <1>2, PTL DEF ChecksSpec

(* The state of the checkers, of their channel and of the configurator has  *)
(* its types: the channel never outgrows its capacity, and a counter stays  *)
(* between its thresholds.                                                  *)
THEOREM ChecksTypeCorrect == ChecksSpec => []ChecksTypeOK
<1>1. ChecksInv => ChecksTypeOK
  BY DEF ChecksInv, ChecksShape
<1> QED BY <1>1, ChecksInvariant, PTL

(* The statuses in the clusters map: process_health_event drops the reports  *)
(* that are no change, and the map still agrees with every checker whenever  *)
(* no change of it is on its way, across full channels, restarts that reset  *)
(* the map, and stale reports of checkers that were stopped.                 *)
THEOREM ChecksMapAgrees == ChecksSpec => []MapAgreesWithChecker
<1>1. ChecksInv => MapAgreesWithChecker
  <2> SUFFICES ASSUME ChecksInv, NEW e \in Endpoints, config.pc = "serving",
                      counter[e].status # "Unknown", ~Pending(e)
               PROVE  health[e] = counter[e].status
    BY DEF MapAgreesWithChecker
  <2>1. ~AboutToChange(e)
    BY DEF Pending, AboutToChange
  <2>2. ChangesIn(channel, e) = {}
    BY DEF Pending, ChangesIn
  <2> QED BY <2>1, <2>2 DEF ChecksInv, ChangesInOrder, LastSays
<1> QED BY <1>1, ChecksInvariant, PTL

-----------------------------------------------------------------------------
(* The counter and the whole history of results.                           *)
LEMMA AddOutcomeInCounters ==
  ASSUME NEW c \in Counters, NEW o \in Outcomes
  PROVE  AddOutcome(c, o) \in Counters
BY ThresholdAssumption DEF AddOutcome, AddSuccess, AddFailure, CountUp, CountDown, Counters, Statuses

LEMMA CountersAlongDef ==
  ASSUME NEW h \in Seq(Outcomes)
  PROVE  /\ CountersAlong(h) \in [0 .. Len(h) -> Counters]
         /\ CountersAlong(h)[0] = NewCounter
         /\ \A i \in 1 .. Len(h) : CountersAlong(h)[i] = AddOutcome(CountersAlong(h)[i - 1], h[i])
<1> DEFINE n == Len(h)
           F == [i \in 1 .. n |-> [c \in Counters |-> AddOutcome(c, h[i])]]
           Def(g) == g = [i \in 0 .. n |-> IF i = 0 THEN NewCounter ELSE AddOutcome(g[i - 1], h[i])]
<1>1. n \in Nat /\ NewCounter \in Counters /\ \A i \in 1 .. n : h[i] \in Outcomes
  BY ThresholdAssumption DEF NewCounter, Counters, Statuses
<1>2. F \in [1 .. n -> [Counters -> Counters]]
  BY <1>1, AddOutcomeInCounters
<1>3. PICK g : Follows(g, Counters, NewCounter, n, F)
  <2> HIDE DEF F, n
  <2> QED BY <1>1, <1>2, RecursionUpTo
<1>4. Def(g)
  <2>1. ASSUME NEW i \in 0 .. n PROVE g[i] = IF i = 0 THEN NewCounter ELSE AddOutcome(g[i - 1], h[i])
    <3>1. CASE i = 0
      BY <1>3, <3>1 DEF Follows
    <3>2. CASE i # 0
      <4>1. i \in 1 .. n /\ i - 1 \in 0 .. n
        BY <1>1, <3>2
      <4>2. g[i - 1] \in Counters /\ g[i] = F[i][g[i - 1]]
        BY <1>3, <4>1 DEF Follows
      <4>3. F[i] = [c \in Counters |-> AddOutcome(c, h[i])]
        BY <4>1
      <4> QED BY <3>2, <4>2, <4>3
    <3> QED BY <3>1, <3>2
  <2> QED BY <1>3, <2>1 DEF Follows
<1>5. CountersAlong(h) = CHOOSE f : Def(f)
  BY DEF CountersAlong
<1>6. Def(CountersAlong(h))
  <2> HIDE DEF Def
  <2> QED BY <1>4, <1>5
<1> DEFINE a == CountersAlong(h)
<1>7. /\ DOMAIN a = 0 .. n /\ a[0] = NewCounter
      /\ \A i \in 1 .. n : a[i] = AddOutcome(a[i - 1], h[i])
  <2> HIDE DEF a
  <2>1. a = [i \in 0 .. n |-> IF i = 0 THEN NewCounter ELSE AddOutcome(a[i - 1], h[i])]
    BY <1>6 DEF a
  <2> QED BY <1>1, <2>1
<1> HIDE DEF a
<1> DEFINE P == {i \in Nat : i <= n => a[i] \in Counters}
<1>8. 0 \in P
  BY <1>1, <1>7
<1>9. ASSUME NEW i \in Nat, i \in P PROVE i + 1 \in P
  <2> SUFFICES ASSUME i + 1 <= n PROVE a[i + 1] \in Counters
    OBVIOUS
  <2>1. a[i] \in Counters /\ i + 1 \in 1 .. n /\ (i + 1) - 1 = i
    BY <1>1, <1>9
  <2>2. a[i + 1] = AddOutcome(a[i], h[i + 1])
    BY <1>7, <2>1
  <2> QED BY <1>1, <2>1, <2>2, AddOutcomeInCounters
<1>10. \A i \in Nat : i \in P
  <2> HIDE DEF P
  <2> QED BY <1>8, <1>9, NatSetInduction
<1>11. \A i \in 0 .. n : a[i] \in Counters
  BY <1>1, <1>10
<1> QED BY <1>6, <1>7, <1>11 DEF a

(* `checks` is the length of the run of results that ends at i, as far as  *)
(* the thresholds care.                                                    *)
Bad == {"failure", "fatal"}
CountsRun(h, c, i) ==
    /\ \A m \in 0 .. HealthyThreshold :
         Run(h, m, i, {"success"}) <=> m <= (IF c.checks > 0 THEN c.checks ELSE 0)
    /\ \A m \in 0 .. UnhealthyThreshold :
         Run(h, m, i, Bad) <=> m <= (IF c.checks < 0 THEN -c.checks ELSE 0)

Settles(h, i) == SettlesHealthy(h, i) \/ SettlesUnhealthy(h, i)

(* The last result that settles the status, up to i.                       *)
StatusUpTo(h, st, i) ==
    IF i = 0 THEN st = "Unknown"
    ELSE \E j \in 1 .. i : /\ Settles(h, j) /\ \A k \in j + 1 .. i : ~Settles(h, k)
                           /\ st = IF SettlesHealthy(h, j) THEN "Healthy" ELSE "Unhealthy"

LEMMA RunStep ==
  ASSUME NEW h \in Seq(Outcomes), NEW i \in Nat, i + 1 <= Len(h), NEW kind, NEW m \in Nat
  PROVE  /\ Run(h, 0, i + 1, kind)
         /\ Run(h, m + 1, i + 1, kind) <=> Run(h, m, i, kind) /\ h[i + 1] \in kind
<1>1. Run(h, 0, i + 1, kind)
  BY DEF Run
<1>2. ASSUME Run(h, m + 1, i + 1, kind) PROVE Run(h, m, i, kind) /\ h[i + 1] \in kind
  <2>1. m <= i /\ \A j \in (i + 1) - (m + 1) + 1 .. i + 1 : h[j] \in kind
    BY <1>2 DEF Run
  <2>2. i + 1 \in (i + 1) - (m + 1) + 1 .. i + 1 /\ i - m + 1 .. i \subseteq (i + 1) - (m + 1) + 1 .. i + 1
    BY <2>1
  <2> QED BY <2>1, <2>2 DEF Run
<1>3. ASSUME Run(h, m, i, kind), h[i + 1] \in kind PROVE Run(h, m + 1, i + 1, kind)
  <2>1. m <= i /\ \A j \in i - m + 1 .. i : h[j] \in kind
    BY <1>3 DEF Run
  <2>2. \A j \in (i + 1) - (m + 1) + 1 .. i + 1 : j = i + 1 \/ j \in i - m + 1 .. i
    BY <2>1
  <2>3. m + 1 <= i + 1
    BY <2>1
  <2> QED BY <1>3, <2>1, <2>2, <2>3 DEF Run
<1> QED BY <1>1, <1>2, <1>3

LEMMA CountsRunStep ==
  ASSUME NEW h \in Seq(Outcomes), NEW i \in Nat, i + 1 <= Len(h), NEW c \in Counters, CountsRun(h, c, i)
  PROVE  CountsRun(h, AddOutcome(c, h[i + 1]), i + 1)
<1> DEFINE o == h[i + 1]
           d == AddOutcome(c, o)
<1>0. /\ o \in Outcomes /\ c.checks \in -UnhealthyThreshold .. HealthyThreshold
      /\ HealthyThreshold \in Nat /\ UnhealthyThreshold \in Nat
  BY ThresholdAssumption DEF Counters
<1>1. d.checks = IF o = "success" THEN CountUp(c.checks) ELSE CountDown(c.checks)
  BY DEF AddOutcome, AddSuccess, AddFailure
<1>2. ASSUME NEW m \in 0 .. HealthyThreshold
      PROVE  Run(h, m, i + 1, {"success"}) <=> m <= (IF d.checks > 0 THEN d.checks ELSE 0)
  <2>1. CASE m = 0
    <3>1. d.checks \in Int
      BY <1>0, <1>1 DEF CountUp, CountDown
    <3>2. Run(h, 0, i + 1, {"success"})
      BY RunStep
    <3> HIDE DEF d
    <3> QED BY <2>1, <3>1, <3>2
  <2>2. CASE m # 0
    <3>1. m - 1 \in Nat /\ m - 1 \in 0 .. HealthyThreshold /\ (m - 1) + 1 = m
      BY <1>0, <2>2
    <3>2. Run(h, (m - 1) + 1, i + 1, {"success"}) <=> Run(h, m - 1, i, {"success"}) /\ o \in {"success"}
      BY <3>1, RunStep
    <3>3. Run(h, m - 1, i, {"success"}) <=> m - 1 <= (IF c.checks > 0 THEN c.checks ELSE 0)
      BY <3>1 DEF CountsRun
    <3>4. o \in {"success"} <=> o = "success"
      OBVIOUS
    <3> HIDE DEF d, o
    <3> QED BY <1>0, <1>1, <2>2, <3>1, <3>2, <3>3, <3>4 DEF CountUp, CountDown
  <2> QED BY <2>1, <2>2
<1>3. ASSUME NEW m \in 0 .. UnhealthyThreshold
      PROVE  Run(h, m, i + 1, Bad) <=> m <= (IF d.checks < 0 THEN -d.checks ELSE 0)
  <2>1. CASE m = 0
    <3>1. d.checks \in Int
      BY <1>0, <1>1 DEF CountUp, CountDown
    <3>2. Run(h, 0, i + 1, Bad)
      BY RunStep
    <3> HIDE DEF d
    <3> QED BY <2>1, <3>1, <3>2
  <2>2. CASE m # 0
    <3>1. m - 1 \in Nat /\ m - 1 \in 0 .. UnhealthyThreshold /\ (m - 1) + 1 = m
      BY <1>0, <2>2
    <3>2. Run(h, (m - 1) + 1, i + 1, Bad) <=> Run(h, m - 1, i, Bad) /\ o \in Bad
      BY <3>1, RunStep
    <3>3. Run(h, m - 1, i, Bad) <=> m - 1 <= (IF c.checks < 0 THEN -c.checks ELSE 0)
      BY <3>1 DEF CountsRun
    <3>4. o \in Bad <=> o # "success"
      BY <1>0 DEF Bad, Outcomes
    <3> HIDE DEF d, o
    <3> QED BY <1>0, <1>1, <2>2, <3>1, <3>2, <3>3, <3>4 DEF CountUp, CountDown
  <2> QED BY <2>1, <2>2
<1> QED BY <1>2, <1>3 DEF CountsRun

(* The counter's status is the one the last settling result gave.          *)
LEMMA StatusStep ==
  ASSUME NEW h \in Seq(Outcomes), NEW i \in Nat, i + 1 <= Len(h), NEW c \in Counters,
         CountsRun(h, AddOutcome(c, h[i + 1]), i + 1), StatusUpTo(h, c.status, i)
  PROVE  StatusUpTo(h, AddOutcome(c, h[i + 1]).status, i + 1)
<1> DEFINE o == h[i + 1]
           d == AddOutcome(c, o)
<1>0. /\ o \in Outcomes /\ c.checks \in -UnhealthyThreshold .. HealthyThreshold
      /\ HealthyThreshold \in Nat /\ UnhealthyThreshold \in Nat /\ c.status \in Statuses
  BY ThresholdAssumption DEF Counters
<1>1. c.status = "Unknown" <=> i = 0
  BY DEF StatusUpTo
<1>2. /\ Run(h, HealthyThreshold, i + 1, {"success"}) <=> HealthyThreshold <= (IF d.checks > 0 THEN d.checks ELSE 0)
      /\ Run(h, UnhealthyThreshold, i + 1, Bad) <=> UnhealthyThreshold <= (IF d.checks < 0 THEN -d.checks ELSE 0)
  BY <1>0 DEF CountsRun
<1>3. d.checks = IF o = "success" THEN CountUp(c.checks) ELSE CountDown(c.checks)
  BY DEF AddOutcome, AddSuccess, AddFailure
<1>4. SettlesHealthy(h, i + 1) <=> o = "success" /\ (i = 0 \/ d.checks >= HealthyThreshold)
  BY <1>0, <1>2, <1>3 DEF SettlesHealthy, CountUp
<1>5. SettlesUnhealthy(h, i + 1) <=> o = "fatal" \/ (o = "failure" /\ (i = 0 \/ d.checks <= -UnhealthyThreshold))
  BY <1>0, <1>2, <1>3 DEF SettlesUnhealthy, CountDown, Bad
<1>6. d.status = IF o = "success"
                 THEN IF i = 0 \/ d.checks >= HealthyThreshold THEN "Healthy" ELSE c.status
                 ELSE IF i = 0 \/ o = "fatal" \/ d.checks <= -UnhealthyThreshold THEN "Unhealthy" ELSE c.status
  BY <1>1 DEF AddOutcome, AddSuccess, AddFailure
<1>7. o \in {"success", "failure", "fatal"}
  BY <1>0 DEF Outcomes
<1> HIDE DEF o, d
<1>8. CASE Settles(h, i + 1)
  <2>1. d.status = IF SettlesHealthy(h, i + 1) THEN "Healthy" ELSE "Unhealthy"
    BY <1>4, <1>5, <1>6, <1>7, <1>8 DEF Settles
  <2>2. i + 1 \in 1 .. i + 1 /\ \A k \in (i + 1) + 1 .. i + 1 : ~Settles(h, k)
    OBVIOUS
  <2> QED BY <1>8, <2>1, <2>2 DEF StatusUpTo, d, o
<1>9. CASE ~Settles(h, i + 1)
  <2>1. d.status = c.status /\ i # 0
    BY <1>4, <1>5, <1>6, <1>7, <1>9 DEF Settles
  <2>2. PICK j \in 1 .. i : /\ Settles(h, j) /\ \A k \in j + 1 .. i : ~Settles(h, k)
                            /\ c.status = IF SettlesHealthy(h, j) THEN "Healthy" ELSE "Unhealthy"
    BY <2>1 DEF StatusUpTo
  <2>3. j \in 1 .. i + 1 /\ \A k \in j + 1 .. i + 1 : ~Settles(h, k)
    BY <1>9, <2>2
  <2> QED BY <2>1, <2>2, <2>3 DEF StatusUpTo, d, o
<1> QED BY <1>8, <1>9

LEMMA HistoryAgrees ==
  ASSUME NEW h \in Seq(Outcomes)
  PROVE  CounterAfter(h).status = ReferenceStatus(h)
<1> DEFINE a == CountersAlong(h)
           n == Len(h)
           P == {i \in Nat : i <= n => CountsRun(h, a[i], i) /\ StatusUpTo(h, a[i].status, i)}
<1>0. n \in Nat
  OBVIOUS
<1>1. /\ \A i \in 0 .. n : a[i] \in Counters /\ a[0] = NewCounter
      /\ \A i \in 1 .. n : a[i] = AddOutcome(a[i - 1], h[i])
  BY CountersAlongDef
<1> HIDE DEF a
<1>2. 0 \in P
  <2>1. a[0] = NewCounter
    BY <1>0, <1>1
  <2>2. CountsRun(h, NewCounter, 0)
    BY ThresholdAssumption DEF CountsRun, Run, NewCounter
  <2>3. StatusUpTo(h, NewCounter.status, 0)
    BY DEF StatusUpTo, NewCounter
  <2> QED BY <2>1, <2>2, <2>3
<1>3. ASSUME NEW i \in Nat, i \in P PROVE i + 1 \in P
  <2> SUFFICES ASSUME i + 1 <= n PROVE CountsRun(h, a[i + 1], i + 1) /\ StatusUpTo(h, a[i + 1].status, i + 1)
    OBVIOUS
  <2>1. i + 1 \in 1 .. n /\ (i + 1) - 1 = i /\ i \in 0 .. n
    BY <1>0
  <2>2. a[i + 1] = AddOutcome(a[i], h[i + 1]) /\ a[i] \in Counters
    BY <1>1, <2>1
  <2>3. CountsRun(h, a[i], i) /\ StatusUpTo(h, a[i].status, i)
    BY <1>3, <2>1
  <2>4. CountsRun(h, AddOutcome(a[i], h[i + 1]), i + 1)
    BY <2>2, <2>3, CountsRunStep
  <2>5. StatusUpTo(h, AddOutcome(a[i], h[i + 1]).status, i + 1)
    BY <2>2, <2>3, <2>4, StatusStep
  <2> QED BY <2>2, <2>4, <2>5
<1>4. n \in P
  <2> HIDE DEF P
  <2> QED BY <1>0, <1>2, <1>3, NatSetInduction
<1>5. StatusUpTo(h, CounterAfter(h).status, n)
  BY <1>0, <1>4 DEF CounterAfter, a
<1> DEFINE S == {i \in DOMAIN h : SettlesHealthy(h, i) \/ SettlesUnhealthy(h, i)}
<1>6. DOMAIN h = 1 .. n
  OBVIOUS
<1>7. CASE n = 0
  <2>1. S = {} /\ CounterAfter(h).status = "Unknown"
    BY <1>5, <1>6, <1>7 DEF StatusUpTo
  <2> QED BY <2>1 DEF ReferenceStatus
<1>8. CASE n # 0
  <2>1. PICK j \in 1 .. n : /\ Settles(h, j) /\ \A k \in j + 1 .. n : ~Settles(h, k)
                            /\ CounterAfter(h).status = IF SettlesHealthy(h, j) THEN "Healthy" ELSE "Unhealthy"
    BY <1>5, <1>8 DEF StatusUpTo
  <2>2. j \in S /\ \A k \in S : j >= k
    BY <1>6, <2>1 DEF Settles
  <2>3. Max(S) = j
    <3>1. \A x, y \in S : x \in Int /\ y \in Int
      BY <1>6
    <3> HIDE DEF S
    <3>2. \A x \in S : (\A y \in S : x >= y) => x = j
      BY <2>2, <3>1
    <3>3. Max(S) \in S /\ \A y \in S : Max(S) >= y
      BY <2>2 DEF Max
    <3> QED BY <3>2, <3>3
  <2> QED BY <2>1, <2>2, <2>3 DEF ReferenceStatus
<1> QED BY <1>7, <1>8

(* counter.rs: for all thresholds, 0 included, and histories of any        *)
(* length, the status is what the history asks for.                        *)
THEOREM StatusIsHistorys == ChecksSpec => []StatusMatchesHistory
<1>1. Disagreeing = {}
  <2>1. ASSUME NEW h \in Histories PROVE h \in Seq(Outcomes)
    <3>1. PICK m \in 0 .. MaxResults : h \in [1 .. m -> Outcomes]
      BY DEF Histories, BoundedSeq, SeqOf
    <3>2. m \in Nat
      BY HistoryAssumption
    <3> QED BY <3>1, <3>2, SeqDef
  <2> QED BY <2>1, HistoryAgrees DEF Disagreeing
<1>2. StatusMatchesHistory
  BY <1>1 DEF StatusMatchesHistory
<1> QED BY <1>2, PTL
=============================================================================
