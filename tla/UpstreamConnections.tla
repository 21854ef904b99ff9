------------------------- MODULE UpstreamConnections -------------------------
(***************************************************************************)
(* The connection slots of a cluster's circuit breaker while connections   *)
(* are dialled, secured, used and closed: TcpChannelConnector::connect     *)
(* (transport/tcp_channel.rs), which TCP proxies and TCP health checks     *)
(* use, and UnifiedConnector::call (transport/connector.rs), which the     *)
(* HTTP pools use.                                                         *)
(*                                                                         *)
(* A slot is taken before the dial.  Once the socket exists, a function    *)
(* that runs when the stream is dropped gives it back; before that, the    *)
(* error path of the dial does.  Both kinds of future are dropped at an    *)
(* await when a timeout fires (route timeouts, per-try timeouts and health *)
(* check timeouts).  The cluster is not replaced here: CircuitBreakers     *)
(* covers that.                                                            *)
(***************************************************************************)
EXTENDS Naturals, FiniteSets

CONSTANTS
    TcpDials,       \* dials through TcpChannelConnector
    HttpDials,      \* dials through UnifiedConnector
    MaxConnections, \* the threshold of the breaker
    ConnectionWord,           \* the counter wraps at Word
    MaxFaults       \* bound: slots lost, and slots given back twice

Dials == TcpDials \cup HttpDials

ASSUME DialAssumption ==
    /\ IsFiniteSet(Dials)
    /\ TcpDials \cap HttpDials = {}
    /\ MaxConnections \in Nat
    /\ MaxFaults \in Nat
    /\ ConnectionWord \in Nat /\ ConnectionWord > Cardinality(Dials) + MaxFaults

VARIABLES
    connections,    \* active_connections of the breaker
    dial,           \* dial[d]: how far dial d got
    lost,           \* history: dials dropped while they held only the slot
    returnedTwice   \* history: slots given back by the stream and by the
                    \* error path

dialVars == <<connections, dial, lost, returnedTwice>>

DialTypeOK ==
    /\ connections \in 0..(ConnectionWord - 1)
    /\ dial \in [Dials -> {"idle", "denied", "dialing", "securing", "up", "failed"}]
    /\ lost \in 0..MaxFaults
    /\ returnedTwice \in 0..MaxFaults

IncConnections(n) == IF n = ConnectionWord - 1 THEN 0 ELSE n + 1
DecConnections(n) == IF n = 0 THEN ConnectionWord - 1 ELSE n - 1

----------------------------------------------------------------------------

DialInit ==
    /\ connections = 0
    /\ dial = [d \in Dials |-> "idle"]
    /\ lost = 0
    /\ returnedTwice = 0

\* Dial d goes from state s to state t.
Go(d, s, t) == dial[d] = s /\ dial' = [dial EXCEPT ![d] = t]

\* Mutant: off by one.
AdmitsOneConnectionMore(prev) == prev <= MaxConnections

AdmitsConnection(prev) == prev < MaxConnections

\* try_increment_connections, first half.
TakeSlot(d) ==
    /\ Go(d, "idle", IF AdmitsConnection(connections) THEN "dialing" ELSE "denied")
    /\ connections' = IncConnections(connections)
    /\ UNCHANGED <<lost, returnedTwice>>

\* try_increment_connections, second half of a denial.
DenyDial(d) ==
    /\ Go(d, "denied", "idle")
    /\ connections' = DecConnections(connections)
    /\ UNCHANGED <<lost, returnedTwice>>

\* The socket is connected and gets its drop function.
Established(d) ==
    /\ Go(d, "dialing", "securing")
    /\ UNCHANGED <<connections, lost, returnedTwice>>

\* Refused, unreachable or connect timeout: the error path gives back.
DialFails(d) ==
    /\ Go(d, "dialing", "idle")
    /\ connections' = DecConnections(connections)
    /\ UNCHANGED <<lost, returnedTwice>>

\* The proxy header is written and the TLS session set up, where configured.
Secured(d) ==
    /\ Go(d, "securing", "up")
    /\ UNCHANGED <<connections, lost, returnedTwice>>

\* Mutant: the stream has no drop function yet while it is being secured.
SecuringFailsSilently(d) ==
    /\ Go(d, "securing", "idle")
    /\ UNCHANGED <<connections, lost, returnedTwice>>

\* Writing the header or the handshake fails and the stream is dropped. For
\* TcpChannelConnector the error path of `connect` is still to come.
SecuringFails(d) ==
    /\ Go(d, "securing", IF d \in TcpDials THEN "failed" ELSE "idle")
    /\ connections' = DecConnections(connections)
    /\ UNCHANGED <<lost, returnedTwice>>

\* TcpChannelConnector::connect: res.is_err() and the slot had been taken.
ErrorPath(d) ==
    /\ Go(d, "failed", "idle")
    /\ returnedTwice < MaxFaults
    /\ connections' = DecConnections(connections)
    /\ returnedTwice' = returnedTwice + 1
    /\ UNCHANGED lost

\* The future is dropped while it waits for the socket: nothing owns the slot.
DropDial(d) ==
    /\ Go(d, "dialing", "idle")
    /\ lost < MaxFaults
    /\ lost' = lost + 1
    /\ UNCHANGED <<connections, returnedTwice>>

\* Mutant: two clones of the stream each run the drop function.
DropStreamTwice(d) ==
    /\ \/ Go(d, "securing", "idle")
       \/ Go(d, "up", "idle")
    /\ connections' = IF connections = 0 THEN 0 ELSE connections - 2
    /\ UNCHANGED <<lost, returnedTwice>>

\* The future is dropped while the stream is secured, or the connection ends.
DropStream(d) ==
    /\ \/ Go(d, "securing", "idle")
       \/ Go(d, "up", "idle")
    /\ connections' = DecConnections(connections)
    /\ UNCHANGED <<lost, returnedTwice>>

DialNext ==
    \E d \in Dials :
        \/ TakeSlot(d) \/ DenyDial(d)
        \/ Established(d) \/ DialFails(d) \/ DropDial(d)
        \/ Secured(d) \/ SecuringFails(d) \/ ErrorPath(d)
        \/ DropStream(d)

DialSpec == DialInit /\ [][DialNext]_dialVars

----------------------------------------------------------------------------

\* The dials that have a slot of the breaker.
Slots == {d \in Dials : dial[d] \in {"denied", "dialing", "securing", "up"}}

Live == {d \in Dials : dial[d] \in {"dialing", "securing", "up"}}

(* Every slot that is taken is held by one dial, was lost when its future  *)
(* was dropped before the socket existed, or is owed by a TcpChannel that  *)
(* returned it twice. Nothing else can make the breaker miscount.          *)
SlotsAccounted ==
    connections = (Cardinality(Slots) + lost + ConnectionWord - returnedTwice) % ConnectionWord

(* Connections that are dialled, secured or up never exceed the threshold, *)
(* as long as no slot was returned twice; lost slots only make the breaker *)
(* stricter.                                                               *)
LiveWithinLimit == returnedTwice = 0 => Cardinality(Live) <= MaxConnections

(* The slots of an upstream: every one that is taken is held by one dial,  *)
(* lost with a dropped future or owed by a channel that returned it twice, *)
(* and while none was returned twice the connections stay in the limit.    *)
DialsAccounted == SlotsAccounted /\ LiveWithinLimit
=============================================================================
