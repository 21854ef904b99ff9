----------------------------- MODULE Connections -----------------------------
(***************************************************************************)
(* A downstream connection from accept to its end: Listener::start and     *)
(* process_connection (listener.rs), the network filters, TLS and the      *)
(* choice of the codec (filterchain.rs), the TCP proxy (tcp_proxy.rs) with *)
(* its connection to the upstream (connector.rs), and the stream that      *)
(* counts bytes and runs a function when it goes (instrumented_stream.rs). *)
(* What a scope guard (defer!) undoes is undone whichever way the task     *)
(* ends.  How the PROXY header is read and which chain is chosen are the   *)
(* later parts of this module; what HTTP requests do is in HttpPipeline.   *)
(* An internal listener differs in that it has no rate limit and no log.   *)
(***************************************************************************)
EXTENDS Integers, Sequences, FiniteSets, FiniteSetsExt, SequencesExt, Functions

CONSTANTS
    Conns,          \* connections
    MaxLimited,     \* max_connections of the connection limit filter
    MaxBytes,       \* bytes read on a connection (bound)
    MaxReplay       \* units of stream head to replay after the inspection

ASSUME ConnectionsAssumption ==
    /\ IsFiniteSet(Conns)
    /\ {MaxLimited, MaxBytes, MaxReplay} \subseteq Nat

Gauges == {"cx", "ssl", "http", "tcp"}
Codecs == {"Http1", "Http2", "Auto"}

(* FilterchainType: the handler, whether it has TLS, a codec and a         *)
(* connection limit.                                                       *)
Chains == [handler : {"http"}, tls : BOOLEAN, codec : Codecs, limited : BOOLEAN]
            \union [handler : {"tcp"}, tls : BOOLEAN, codec : {"none"}, limited : BOOLEAN]

NoChainYet == [handler |-> "none", tls |-> FALSE, codec |-> "none", limited |-> FALSE]

VARIABLES
    gauge,          \* the active gauges of the listener
    guards,         \* the counter of the connection limit
    cs              \* the connections

connectionVars == <<gauge, guards, cs>>

NewConn == [ pc |-> "idle", chain |-> NoChainYet, ssl |-> FALSE, guard |-> FALSE, replay |-> 0,
             told |-> "none", codec |-> "none", offered |-> {},
             read |-> 0, txnStart |-> 0, txnBytes |-> 0,
             connLogs |-> 0, chainLogs |-> 0, flags |-> {} ]

ConnectionsInit ==
    /\ gauge = [g \in Gauges |-> 0]
    /\ guards = 0
    /\ cs = [c \in Conns |-> NewConn]

-----------------------------------------------------------------------------
Up(g) == gauge' = [gauge EXCEPT ![g] = @ + 1]
At(c, pc) == cs[c].pc = pc
Step(c, pc) == cs' = [cs EXCEPT ![c].pc = pc]

(* Mutant: the ssl gauge goes down for every connection.                   *)
CountedEveryTls(c, g) ==
    CASE g = "cx" -> TRUE
      [] g = "ssl" -> TRUE
      [] OTHER -> cs[c].chain.handler = g /\ cs[c].pc \in {"hello", "serve", "proxy", "copy"}

(* The gauges the guards of a connection undo: DOWNSTREAM_CX_ACTIVE        *)
(* always, the one of SSL by its flag, the handler's once it has started.  *)
Counted(c, g) ==
    CASE g = "cx" -> TRUE
      [] g = "ssl" -> cs[c].ssl
      [] OTHER -> cs[c].chain.handler = g /\ cs[c].pc \in {"hello", "serve", "proxy", "copy"}

(* What is left of a connection whose stream is gone: the drop function    *)
(* has written the access log of the listener.                             *)
Gone(s) == [s EXCEPT !.pc = "done", !.guard = FALSE, !.connLogs = @ + 1]

(* The task ends: its guards run, then the stream goes.  `with` says what  *)
(* the handler did last.                                                   *)
Ends(c, with) ==
    /\ gauge' = [g \in Gauges |-> gauge[g] - (IF Counted(c, g) THEN 1 ELSE 0)]
    /\ guards' = guards - (IF cs[c].guard THEN 1 ELSE 0)
    /\ cs' = [cs EXCEPT ![c] = Gone(with)]

-----------------------------------------------------------------------------
(* Listener::start: a connection over the local rate limit is dropped      *)
(* before it is counted; any other has its task.                           *)
AcceptRateLimited(c) ==
    /\ At(c, "idle")
    /\ Step(c, "refused")
    /\ UNCHANGED <<gauge, guards>>

AcceptConnection(c) ==
    /\ At(c, "idle")
    /\ Step(c, "header") /\ Up("cx")
    /\ UNCHANGED guards

(* The PROXY header is read, if the listener reads one.                    *)
ReadProxyHeader(c) ==
    /\ At(c, "header")
    /\ \/ Step(c, "inspect") /\ UNCHANGED <<gauge, guards>>
       \/ Ends(c, cs[c])

(* inspect_client_hello: what was read is replayed, TLS or not.            *)
InspectClientHello(c) ==
    /\ At(c, "inspect")
    /\ \/ Step(c, "select") /\ UNCHANGED gauge
       \/ \E n \in 1 .. MaxReplay : \E ssl \in BOOLEAN :
            /\ cs' = [cs EXCEPT ![c].pc = "select", ![c].replay = n, ![c].ssl = ssl]
            /\ IF ssl THEN Up("ssl") ELSE UNCHANGED gauge
    /\ UNCHANGED guards

(* select_filterchain: a chain, none, or an error.                         *)
SelectChain(c) ==
    /\ At(c, "select")
    /\ \/ \E ch \in Chains :
            cs' = [cs EXCEPT ![c].pc = "limit", ![c].chain = ch] /\ UNCHANGED <<gauge, guards>>
       \/ Ends(c, cs[c])

(* apply_connection_limit: `check` loads the counter and compares; a       *)
(* connection over the limit is refused (after the delay, if there is      *)
(* one) ...                                                                *)
ApplyConnectionLimit(c) ==
    /\ At(c, "limit")
    /\ CASE ~cs[c].chain.limited -> Step(c, "filters") /\ UNCHANGED <<gauge, guards>>
         [] cs[c].chain.limited /\ guards < MaxLimited -> Step(c, "admit") /\ UNCHANGED <<gauge, guards>>
         [] OTHER -> Ends(c, cs[c])

(* ... any other adds itself, in an operation of its own: others may have  *)
(* passed the comparison, and have added themselves, in between.           *)
TakeConnectionGuard(c) ==
    /\ At(c, "admit")
    /\ cs' = [cs EXCEPT ![c].pc = "filters", ![c].guard = TRUE]
    /\ guards' = guards + 1
    /\ UNCHANGED gauge

(* apply_network_rate_limit and apply_rbac, in this order.                 *)
ApplyNetworkFilters(c) ==
    /\ At(c, "filters")
    /\ \/ Step(c, "start") /\ UNCHANGED <<gauge, guards>>
       \/ Ends(c, cs[c])

(* start_filterchain: the handler counts the connection.                   *)
Handling(ch) == IF ch.handler = "http" THEN "serve" ELSE "proxy"

StartFilterchain(c) ==
    /\ At(c, "start")
    /\ Up(cs[c].chain.handler)
    /\ LET ch == cs[c].chain
       IN cs' = [cs EXCEPT ![c].pc = IF ch.tls THEN "hello" ELSE Handling(ch), ![c].codec = ch.codec]
    /\ UNCHANGED guards

-----------------------------------------------------------------------------
(* AlpnCodecs::from_codec, in order of preference.                         *)
FromCodec(codec) ==
    CASE codec = "Auto" -> <<"Http2", "Http1">>
      [] codec = "none" -> <<>>
      [] OTHER -> <<codec>>

(* negotiate_codec_type: the first of ours that the client offers.         *)
NegotiateCodecType(codec, offered) ==
    LET ours == FromCodec(codec)
        common == {i \in DOMAIN ours : ours[i] \in offered}
    IN IF common = {} THEN "none" ELSE ours[Min(common)]

(* Mutant: the configured codec is used whatever was negotiated.           *)
SelectedCodecConfigured(codec, negotiated) == codec

(* A negotiated protocol takes the place of the configured codec.          *)
SelectedCodec(codec, negotiated) == IF negotiated = "none" THEN codec ELSE negotiated

(* start_tls: with an offer that has nothing of ours, rustls is given all  *)
(* that we have and refuses the client; the TCP proxy answers no offer.    *)
StartTls(c) ==
    /\ At(c, "hello")
    /\ \/ \E offered \in SUBSET {"Http1", "Http2"} :
            LET ch == cs[c].chain  told == NegotiateCodecType(ch.codec, offered)
            IN /\ offered # {} /\ ch.handler = "http" => told # "none"
               /\ cs' = [cs EXCEPT ![c].pc = Handling(ch), ![c].offered = offered, ![c].told = told,
                                   ![c].codec = SelectedCodec(ch.codec, told), ![c].replay = 0]
               /\ UNCHANGED <<gauge, guards>>
       \/ Ends(c, cs[c])

-----------------------------------------------------------------------------
(* StreamMetrics of an HTTP connection: bytes are counted as they come,    *)
(* and a transaction that ends takes those since the one before.           *)
ReadBytes(c) ==
    /\ At(c, "serve") /\ cs[c].read < MaxBytes
    /\ cs' = [cs EXCEPT ![c].read = @ + 1]
    /\ UNCHANGED <<gauge, guards>>

(* Mutant: the bytes are taken and counted again by the next transaction.  *)
TxnTakeMetricsAgain(s) == [s EXCEPT !.txnBytes = @ + (s.read - s.txnStart)]

(* txn_take_metrics and reset_txn.                                         *)
TxnTakeMetrics(s) == [s EXCEPT !.txnBytes = @ + (s.read - s.txnStart), !.txnStart = s.read]

EndTransaction(c) ==
    /\ At(c, "serve") /\ cs[c].read > cs[c].txnStart
    /\ cs' = [cs EXCEPT ![c] = TxnTakeMetrics(cs[c])]
    /\ UNCHANGED <<gauge, guards>>

(* The callbacks still waiting run before the drop function.               *)
CloseHttp(c) == At(c, "serve") /\ Ends(c, TxnTakeMetrics(cs[c]))

-----------------------------------------------------------------------------
(* The response flags of a ConnectError by its kind.                       *)
ConnectFlags(kind) ==
    CASE kind = "Dns" -> {"DNS_RESOLUTION_FAILED"}
      [] kind = "Socket" -> {"NO_HEALTHY_UPSTREAM", "UPSTREAM_CONNECTION_FAILURE"}
      [] OTHER -> {"UPSTREAM_CONNECTION_FAILURE"}

ConnectErrorKinds == {"MissingPort", "Dns", "Socket", "BindDevice", "Timeout", "Io", "InternalListener"}

Logged(s, flags) == [s EXCEPT !.chainLogs = @ + 1, !.flags = flags]

(* serve_connection: a cluster that cannot be resolved ends it without a   *)
(* line in the log of the chain; a cluster without a connector and a       *)
(* connection that fails are logged.                                       *)
ResolveFails(c) == At(c, "proxy") /\ Ends(c, cs[c])

NoConnector(c) == At(c, "proxy") /\ Ends(c, Logged(cs[c], {"NO_ROUTE_FOUND"}))

ConnectUpstream(c) ==
    /\ At(c, "proxy")
    /\ \/ Step(c, "copy") /\ UNCHANGED <<gauge, guards>>
       \/ \E kind \in ConnectErrorKinds : Ends(c, Logged(cs[c], ConnectFlags(kind)))

(* copy_bidirectional: upwards first the head that is replayed ...         *)
CopyUp(c) ==
    /\ At(c, "copy") /\ cs[c].replay > 0
    /\ cs' = [cs EXCEPT ![c].replay = @ - 1]
    /\ UNCHANGED <<gauge, guards>>

(* ... downwards an error while some of it is left (poll_write).           *)
CopyDown(c) ==
    /\ At(c, "copy")
    /\ IF cs[c].replay > 0 THEN Ends(c, Logged(cs[c], {"UPSTREAM_CONNECTION_FAILURE"}))
       ELSE UNCHANGED connectionVars

CloseTcp(c) ==
    /\ At(c, "copy")
    /\ \/ Ends(c, Logged(cs[c], {}))
       \/ Ends(c, Logged(cs[c], {"UPSTREAM_CONNECTION_FAILURE"}))

ConnectionStep(c) ==
    \/ AcceptRateLimited(c) \/ AcceptConnection(c) \/ ReadProxyHeader(c) \/ InspectClientHello(c)
    \/ SelectChain(c) \/ ApplyConnectionLimit(c) \/ TakeConnectionGuard(c) \/ ApplyNetworkFilters(c)
    \/ StartFilterchain(c) \/ StartTls(c) \/ ReadBytes(c) \/ EndTransaction(c) \/ CloseHttp(c)
    \/ ResolveFails(c) \/ NoConnector(c) \/ ConnectUpstream(c) \/ CopyUp(c) \/ CopyDown(c) \/ CloseTcp(c)

ConnectionsNext == \E c \in Conns : ConnectionStep(c)

ConnectionsSpec == ConnectionsInit /\ [][ConnectionsNext]_connectionVars

-----------------------------------------------------------------------------
(* The gauges, and the counter of the connection limit, are the numbers of *)
(* connections in the part of their life they stand for, whichever of the  *)
(* dozen exits of process_connection the others took.  (By how much the    *)
(* counter can pass the limit is the matter of ConnectionLimit.)           *)
Alive == {c \in Conns : cs[c].pc \notin {"idle", "refused", "done"}}
GaugesAreConnections ==
    /\ gauge["cx"] = Cardinality(Alive)
    /\ gauge["ssl"] = Cardinality({c \in Alive : cs[c].ssl})
    /\ \A h \in {"http", "tcp"} :
         gauge[h] = Cardinality({c \in Alive : /\ cs[c].chain.handler = h
                                               /\ cs[c].pc \notin {"limit", "admit", "filters", "start"}})
    /\ guards = Cardinality({c \in Alive : cs[c].guard})

(* A client that was told a protocol in the handshake offered it and gets  *)
(* it, and one that offered any is never left to guess.                    *)
ToldIsSpoken ==
    \A c \in Conns : cs[c].pc = "serve" =>
      /\ cs[c].told # "none" => cs[c].told \in cs[c].offered /\ cs[c].codec = cs[c].told
      /\ cs[c].offered # {} => cs[c].told # "none"

(* A connection that is gone has one line in the log of its listener, and  *)
(* its transactions account for each byte of it once.                      *)
LoggedOnce ==
    \A c \in Conns : cs[c].pc = "done" =>
      /\ cs[c].connLogs = 1 /\ cs[c].chainLogs <= 1
      /\ cs[c].txnBytes = cs[c].read

(* The three above.                                                        *)
ConnectionsAccounted == GaugesAreConnections /\ ToldIsSpoken /\ LoggedOnce

-----------------------------------------------------------------------------
(***************************************************************************)
(* Which filter chain takes a connection (filterchain_matcher.rs).  The    *)
(* match rules of a listener are compiled into a tree of five levels:      *)
(* destination port, destination prefix, server name, source prefix and    *)
(* source port.  A lookup goes down the tree and never back up.  The       *)
(* scores of FilterChainMatch (config/listener.rs), a scan over all the    *)
(* rules, are the reference it must agree with.  A host name is its        *)
(* sequence of labels, an address a family and Width bits.                 *)
(***************************************************************************)

CONSTANTS
    Width,       \* bits of an address
    DestRanges,  \* the destination_prefix_ranges a rule may have
    SourceRanges,\* the source_prefix_ranges a rule may have
    ServerNames, \* the server_names a rule may have
    Ports,       \* the destination ports a rule or a connection may have
    Addresses    \* the addresses of connections

NoPort == 0      \* destination_port is None

ASSUME FilterChainsAssumption == Width \in Nat \ {0} /\ NoPort \notin Ports /\ Ports \subseteq Nat

VARIABLE fcm     \* the rules of a listener, a connection and the chain it got

(* The server names of connections; no SNI is the empty name.              *)
HostNames == {<<"">>, <<"a", "b">>, <<"c", "a", "b">>}

(* FilterChainMatch.                                                       *)
Rules == [ dport : Ports \union {NoPort}, dest : DestRanges, names : ServerNames,
           src : SourceRanges, sports : {<<>>, <<1, 1>>} ]

Connections == [dport : Ports, dip : Addresses, name : HostNames, sip : Addresses, sport : {1, 2}]

-----------------------------------------------------------------------------
(* IpNet::trunc and the masks: the bits of the network alone.              *)
Masked(bits, len) == bits - (bits % 2^(Width - len))
Trunc(net) == [net EXCEPT !.bits = Masked(@, net.len)]

(* What a rule is filed under at each level.                               *)
DestPortKeys(r) == IF r.dport = NoPort THEN <<>> ELSE <<r.dport>>
RangeKeys(ranges) == [i \in DOMAIN ranges |-> Trunc(ranges[i])]

(* What a connection is looked up by, the most specific first.             *)
IpProbes(ip) ==
    [i \in 1 .. Width + 1 |->
       [fam |-> ip.fam, bits |-> Masked(ip.bits, Width + 1 - i), len |-> Width + 1 - i]]

ServerNameProbes(name) ==
    <<[name |-> name, sub |-> FALSE]>>
      \o [i \in 1 .. Len(name) - 1 |-> [name |-> SubSeq(name, i + 1, Len(name)), sub |-> TRUE]]

-----------------------------------------------------------------------------
(* Mutant: a rule with the same range twice is two candidates.             *)
PushEvery(group, c) == Append(group, c)

(* push_unique_candidate.                                                  *)
PushUniqueCandidate(group, c) ==
    IF group # <<>> /\ Last(group) = c THEN group ELSE Append(group, c)

(* The candidates filed under a key, in the order of the rules.            *)
Group(cands, keys, key) ==
    FoldLeft(LAMBDA g, c : FoldLeft(LAMBDA h, k : IF k = key THEN PushUniqueCandidate(h, c) ELSE h,
                                    g, keys[c]),
             <<>>, cands)

(* A level: build and select_next of DestPortMatcher, IpMatcher,           *)
(* ServerNameMatcher and SourcePortMatcher.  The first probe that has a    *)
(* group decides; without one, the rules that ask for nothing.             *)
SelectNext(cands, keys, probes) ==
    LET hits == {i \in DOMAIN probes : Group(cands, keys, probes[i]) # <<>>}
    IN IF hits # {} THEN Group(cands, keys, probes[Min(hits)])
       ELSE SelectSeq(cands, LAMBDA c : keys[c] = <<>>)

NoChain == 0
Multiple == -1

(* MatchLeaf::from_candidates and FilterChains::select.                    *)
Leaf(cands) == CASE Len(cands) = 0 -> NoChain
                 [] Len(cands) = 1 -> Head(cands)
                 [] OTHER -> Multiple

(* FilterChainMatcher::select.                                             *)
Select(rules, c) ==
    LET all == [i \in DOMAIN rules |-> i]
        l2 == SelectNext(all, [i \in DOMAIN rules |-> DestPortKeys(rules[i])], <<c.dport>>)
        l3 == SelectNext(l2, [i \in DOMAIN rules |-> RangeKeys(rules[i].dest)], IpProbes(c.dip))
        l4 == SelectNext(l3, [i \in DOMAIN rules |-> rules[i].names], ServerNameProbes(c.name))
        l5 == SelectNext(l4, [i \in DOMAIN rules |-> RangeKeys(rules[i].src)], IpProbes(c.sip))
    IN Leaf(SelectNext(l5, [i \in DOMAIN rules |-> rules[i].sports], <<c.sport>>))

(* PartialListener: the rules are distinct (they are the keys of a map),   *)
(* and server names need the TLS inspector.                                *)
Accepted(rules, inspector) ==
    /\ \A i, j \in DOMAIN rules : rules[i] = rules[j] => i = j
    /\ (\E i \in DOMAIN rules : rules[i].names # <<>>) => inspector

-----------------------------------------------------------------------------
(* The reference: MatchResult, a smaller score being more specific.        *)
NoRule == 100
Failed == 101

BestScore(scores) == IF scores = {} THEN NoRule ELSE Min(scores)

ScorePort(wanted, p) == CASE wanted = {} -> NoRule [] p \in wanted -> 0 [] OTHER -> Failed

ScoreIp(ranges, ip) ==
    BestScore({ IF n.fam = ip.fam /\ Masked(ip.bits, n.len) = Masked(n.bits, n.len)
                THEN Width - n.len ELSE Failed : n \in Range(ranges) })

ScoreServerName(names, name) ==
    BestScore({ CASE ~n.sub /\ n.name = name -> 0
                  [] n.sub /\ Len(n.name) < Len(name) /\ IsSuffix(n.name, name) -> Len(name) - Len(n.name)
                  [] OTHER -> Failed : n \in Range(names) })

(* reference_select: of the rules left, the best at each level.            *)
BestOf(left, score) == {i \in left : score[i] # Failed /\ \A j \in left : score[i] <= score[j]}

ReferenceSelect(rules, c) ==
    LET D == DOMAIN rules
        p == BestOf(D, [i \in D |-> ScorePort(Range(DestPortKeys(rules[i])), c.dport)])
        d == BestOf(p, [i \in D |-> ScoreIp(rules[i].dest, c.dip)])
        n == BestOf(d, [i \in D |-> ScoreServerName(rules[i].names, c.name)])
        s == BestOf(n, [i \in D |-> ScoreIp(rules[i].src, c.sip)])
        q == BestOf(s, [i \in D |-> ScorePort(Range(rules[i].sports), c.sport)])
    IN CASE q = {} -> NoChain [] Cardinality(q) = 1 -> CHOOSE i \in q : TRUE [] OTHER -> Multiple

-----------------------------------------------------------------------------
FilterChainsInit == fcm = [at |-> "none"]

(* A listener with two filter chains is built ...                          *)
BuildListener ==
    /\ fcm.at = "none"
    /\ \E a, b \in Rules : /\ Accepted(<<a, b>>, TRUE)
                           /\ fcm' = [at |-> "built", rules |-> <<a, b>>]

(* ... and a connection arrives.                                           *)
SelectFilterchain ==
    /\ fcm.at = "built"
    /\ \E c \in Connections :
         fcm' = [at |-> "selected", rules |-> fcm.rules, conn |-> c, chain |-> Select(fcm.rules, c)]

FilterChainsNext == BuildListener \/ SelectFilterchain

FilterChainsSpec == FilterChainsInit /\ [][FilterChainsNext]_fcm

-----------------------------------------------------------------------------
(* The tree gives every connection the chain that the scores of            *)
(* FilterChainMatch give it (the oracle of the tests of                    *)
(* filterchain_matcher.rs), whatever ranges, names and ports the rules     *)
(* repeat or nest; it finds two only where two chains tie.                 *)
TreeAgreesWithScan ==
    fcm.at = "selected" => fcm.chain = ReferenceSelect(fcm.rules, fcm.conn)

-----------------------------------------------------------------------------
(***************************************************************************)
(* The PROXY protocol (transport/proxy_protocol.rs) over a stream that can *)
(* be rewound (utils/rewindable_stream.rs): the header before a downstream *)
(* connection is detected, judged by the policy of the listener and read;  *)
(* a header with the same addresses is written before the connection to    *)
(* the upstream, which here is a second Arion.  A wire is a sequence of    *)
(* units: P1 is the prefix of version 1 and T its terminator, S1 and S2    *)
(* are the first V2MinimumLen bytes of version 2; d is the payload.        *)
(***************************************************************************)

CONSTANTS
    TlvTypes,        \* the TLV types on the wire
    V1MaxLength,     \* V1_MAX_LENGTH, in units
    PayloadLength    \* units of payload

ASSUME ProxyProtocolAssumption ==
    /\ V1MaxLength \in 2 .. 10 /\ PayloadLength \in Nat

VARIABLE pp          \* a connection whose header is read

Hops == {"client", "edge", "first", "second"}
NoTlvs == [t \in {} |-> "x"]
Payload == [i \in 1 .. PayloadLength |-> "d"]

FromSocket(peer, local) == [from |-> "socket", peer |-> peer, local |-> local, tlvs |-> NoTlvs]
ProxiedConnection(hdr, tlvs) == [from |-> "proxy", peer |-> hdr.src, local |-> hdr.dst, tlvs |-> tlvs]

(* The headers a peer may send, and what they carry.                       *)
Family == {"ip", "unix", "unspecified"}
Headers(src, dst) ==
    [version : {"v1"}, family : {"ip", "unspecified"}, src : {src}, dst : {dst}, tlvs : {<<>>}]
      \union [version : {"v2"}, family : Family, src : {src}, dst : {dst},
              tlvs : {<<>>} \union {<<[type |-> t, value |-> "client"]>> : t \in TlvTypes}]
      \union {[version |-> v] : v \in {"none", "long"}}

(* The units of a header: a v1 line without end is "long".                 *)
Units(hdr) ==
    CASE hdr.version = "v1" -> <<"P1", "x", "T">>
      [] hdr.version = "long" -> <<"P1">> \o [i \in 1 .. V1MaxLength |-> "x"]
      [] hdr.version = "v2" -> <<"S1", "S2", "addr">> \o [i \in DOMAIN hdr.tlvs |-> "tlv"]
      [] OTHER -> <<>>

(* DownstreamProxyProtocolConfig and UpstreamProxyProtocolConfig; what     *)
(* passes is "none", or the types that match (IncludeAll is all of them).  *)
Passes == {{}} \union {TlvTypes}
ReaderConfigs == [disallowed : SUBSET {"v1", "v2"}, allowWithout : BOOLEAN, pass : Passes]
WriterConfigs == [version : {"v1", "v2"}, pass : Passes,
                  added : {<<>>} \union {<<[type |-> t, value |-> "added"]>> : t \in TlvTypes}]

ProxyProtocolInit == pp = [at |-> "none"]

Opened(hop, cfg, hdr, peer, local) ==
    [ at |-> "prefix", hop |-> hop, cfg |-> cfg, hdr |-> hdr, peer |-> peer, local |-> local,
      wire |-> Units(hdr) \o Payload, head |-> <<>>, meta |-> FromSocket(peer, local), sent |-> <<>> ]

(* A connection to a listener with the proxy protocol filter.              *)
AcceptProxied ==
    /\ pp.at = "none"
    /\ \E cfg \in ReaderConfigs : \E hdr \in Headers("client", "edge") :
         pp' = Opened(1, cfg, hdr, "balancer", "first")

-----------------------------------------------------------------------------
(* read_exact: units move from the wire to the head kept for a rewind      *)
(* (RewindableHeadAsyncStream::poll_read), or the read waits.              *)
CanRead(n) == Len(pp.wire) >= n
Taken(n) == [pp EXCEPT !.wire = SubSeq(@, n + 1, Len(@)), !.head = @ \o SubSeq(pp.wire, 1, n)]

(* read_header_bytes: the first five bytes tell a version 1 header.        *)
ReadPrefix ==
    /\ pp.at = "prefix" /\ CanRead(1)
    /\ pp' = [Taken(1) EXCEPT !.at = IF Head(pp.wire) = "P1" THEN "line" ELSE "minimum"]

(* Version 1 goes to its terminator, byte by byte, or is too long.         *)
ReadLine ==
    /\ pp.at = "line"
    /\ \/ /\ Len(pp.head) < V1MaxLength /\ CanRead(1)
          /\ pp' = [Taken(1) EXCEPT !.at = IF Head(pp.wire) = "T" THEN "v1" ELSE "line"]
       \/ /\ Len(pp.head) >= V1MaxLength
          /\ pp' = [pp EXCEPT !.at = "failed"]

(* Anything else is first read to the minimal length of version 2.         *)
ReadMinimum ==
    /\ pp.at = "minimum" /\ CanRead(1)
    /\ pp' = [Taken(1) EXCEPT !.at = IF Taken(1).head = <<"S1", "S2">> THEN "tail" ELSE "absent"]

(* The length field says how much of version 2 is left, in the fixed       *)
(* buffer or in one as long as the header.                                 *)
ReadTail ==
    /\ pp.at = "tail"
    /\ LET n == Len(Units(pp.hdr)) - 2 IN CanRead(n) /\ pp' = [Taken(n) EXCEPT !.at = "v2"]

(* The client closes before all that was asked for came.                   *)
CloseEarly ==
    /\ pp.at \in {"prefix", "line", "minimum", "tail"}
    /\ pp' = [pp EXCEPT !.at = "failed"]

-----------------------------------------------------------------------------
(* apply_policy.                                                           *)
Policy(cfg, detected) ==
    CASE detected = "absent" -> IF cfg.allowWithout THEN "passthrough" ELSE "reject"
      [] detected \in cfg.disallowed -> IF cfg.allowWithout THEN "passthrough" ELSE "reject"
      [] OTHER -> "proceed"

(* The TLVs of a header that pass, in a map: a later one of a type wins.   *)
TlvData(tlvs, pass) ==
    [t \in {tlvs[i].type : i \in DOMAIN tlvs} \intersect pass |->
       Last(SelectSeq(tlvs, LAMBDA v : v.type = t)).value]

(* extract_metadata; a Unix address is refused.                            *)
ExtractMetadata(hdr, cfg, peer, local) ==
    IF hdr.family = "unspecified" THEN FromSocket(peer, local)
    ELSE ProxiedConnection(hdr, IF hdr.version = "v2" THEN TlvData(hdr.tlvs, cfg.pass) ELSE NoTlvs)

(* Mutant: a connection that passes through does not get its head back.    *)
PassThroughAsRead(c) == [c EXCEPT !.at = "ready", !.head = <<>>]

(* into_rewound_stream: the head is replayed before the rest.              *)
PassThrough(c) == [c EXCEPT !.at = "ready", !.wire = c.head \o @, !.head = <<>>]

(* into_stream: the head was the header.                                   *)
Proceed(c) ==
    IF c.hdr.family = "unix" THEN [c EXCEPT !.at = "failed"]
    ELSE [c EXCEPT !.at = "ready", !.head = <<>>,
                   !.meta = ExtractMetadata(c.hdr, c.cfg, c.peer, c.local)]

Judge ==
    /\ pp.at \in {"v1", "v2", "absent"}
    /\ pp' = CASE Policy(pp.cfg, pp.at) = "reject" -> [pp EXCEPT !.at = "failed"]
               [] Policy(pp.cfg, pp.at) = "passthrough" -> PassThrough(pp)
               [] OTHER -> Proceed(pp)

-----------------------------------------------------------------------------
(* build_v2_header: the configured TLVs, then those that pass through.     *)
PassedTlvs(meta, pass) ==
    LET types == SetToSeq(DOMAIN meta.tlvs \intersect pass)
    IN [i \in DOMAIN types |-> [type |-> types[i], value |-> meta.tlvs[types[i]]]]

(* Mutant: the addresses of the connection, not those of the client.       *)
BuildHeaderOfSocket(w, meta) ==
    [ version |-> w.version, family |-> "ip", src |-> "balancer", dst |-> "first",
      tlvs |-> IF w.version = "v1" THEN <<>> ELSE w.added \o PassedTlvs(meta, w.pass) ]

(* build_proxy_header.                                                     *)
BuildProxyHeader(w, meta) ==
    [ version |-> w.version, family |-> "ip", src |-> meta.peer, dst |-> meta.local,
      tlvs |-> IF w.version = "v1" THEN <<>> ELSE w.added \o PassedTlvs(meta, w.pass) ]

(* The first Arion opens its connection to the second, which takes any     *)
(* version and keeps every TLV, and writes the header before the payload.  *)
WriteProxyHeader ==
    /\ pp.at = "ready" /\ pp.hop = 1
    /\ \E w \in WriterConfigs :
         pp' = [Opened(2, [disallowed |-> {}, allowWithout |-> FALSE, pass |-> TlvTypes],
                       BuildProxyHeader(w, pp.meta), "first", "second")
                  EXCEPT !.wire = Units(BuildProxyHeader(w, pp.meta)) \o pp.wire,
                         !.sent = <<[meta |-> pp.meta, writer |-> w]>>]

ProxyProtocolNext ==
    \/ AcceptProxied \/ ReadPrefix \/ ReadLine \/ ReadMinimum \/ ReadTail \/ CloseEarly
    \/ Judge \/ WriteProxyHeader

ProxyProtocolSpec == ProxyProtocolInit /\ [][ProxyProtocolNext]_pp

-----------------------------------------------------------------------------
(* Whatever is read to find a header out, the filter chain gets the stream *)
(* whole: without the header when the header was understood, and with      *)
(* every byte the client sent when the connection passes through.          *)
StreamIsWhole ==
    pp.at = "ready" /\ pp.hop = 1 =>
      pp.wire = IF Policy(pp.cfg, IF pp.hdr.version = "none" THEN "absent" ELSE pp.hdr.version) = "proceed"
                THEN Payload ELSE Units(pp.hdr) \o Payload

(* The second Arion sees the addresses the first one saw, in either        *)
(* version, and with version 2 the TLVs that were added and those that     *)
(* pass, and no other.                                                     *)
AddressesSurvive ==
    pp.at = "ready" /\ pp.hop = 2 =>
      LET was == pp.sent[1].meta  w == pp.sent[1].writer
          passed == DOMAIN was.tlvs \intersect w.pass
      IN /\ pp.meta.peer = was.peer /\ pp.meta.local = was.local
         /\ DOMAIN pp.meta.tlvs = IF w.version = "v1" THEN {}
                                  ELSE passed \union {w.added[i].type : i \in DOMAIN w.added}
         /\ \A t \in DOMAIN pp.meta.tlvs : t \in passed => pp.meta.tlvs[t] = was.tlvs[t]

(* Both of the above.                                                      *)
ProxyProtocolKept == StreamIsWhole /\ AddressesSurvive
=============================================================================
