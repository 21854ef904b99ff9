-------------------------- MODULE MCTrafficPath ---------------------------
(* The parts of the path from a client to an endpoint that the control     *)
(* plane configures: the conversion of the configuration itself, the       *)
(* accepted connections, their PROXY protocol headers, filter chains and   *)
(* TLS contexts, and the clusters with their load balancers. They have no  *)
(* state in common, so a behaviour moves one of them, `part`, and leaves   *)
(* the others in their initial states.                                     *)
EXTENDS ConfigConversion, Connections, TlsSecrets, Clusters

VARIABLE part

\* Ranges, names and addresses of the filter chains, two bits wide.
Net(family, bits, len) == [fam |-> family, bits |-> bits, len |-> len]
NameOf(name, sub) == [name |-> name, sub |-> sub]
MCDestRanges == {<<>>, <<Net("v4", 3, 1), Net("v4", 2, 1)>>, <<Net("v4", 3, 2)>>}
MCSourceRanges == {<<>>, <<Net("v4", 0, 0), Net("v6", 3, 2)>>}
MCServerNames == {<<>>, <<NameOf(<<"a", "b">>, TRUE)>>,
                  <<NameOf(<<"b">>, TRUE), NameOf(<<"a", "b">>, FALSE)>>}
MCAddresses == {[fam |-> "v4", bits |-> 3], [fam |-> "v4", bits |-> 2], [fam |-> "v6", bits |-> 3]}

\* Names of certificates, label by label, and the names clients ask for.
MCSanNames == {<<"*", "a", "b">>, <<"a", "b">>, <<"*", "b">>, <<"*", "x", "a", "b">>, <<"x", "a", "b">>}
MCSniNames == {<<"b">>, <<"a", "b">>, <<"x", "a", "b">>, <<"y", "a", "b">>, <<"y", "x", "a", "b">>}

MCClusterNames == <<"c1">>

PathInit ==
    /\ part \in {"config", "connections", "proxy", "chains", "secrets", "clusters", "balancers"}
    /\ ConversionInit /\ ConnectionsInit /\ ProxyProtocolInit /\ FilterChainsInit
    /\ SecretsInit /\ ClustersInit /\ BalancersInit

PathNext ==
    /\ \/ /\ part = "config" /\ ConversionNext
          /\ UNCHANGED <<connectionVars, pp, fcm, secretVars, clusterVars, bal>>
       \/ /\ part = "connections" /\ ConnectionsNext
          /\ UNCHANGED <<conversionVars, pp, fcm, secretVars, clusterVars, bal>>
       \/ /\ part = "proxy" /\ ProxyProtocolNext
          /\ UNCHANGED <<conversionVars, connectionVars, fcm, secretVars, clusterVars, bal>>
       \/ /\ part = "chains" /\ FilterChainsNext
          /\ UNCHANGED <<conversionVars, connectionVars, pp, secretVars, clusterVars, bal>>
       \/ /\ part = "secrets" /\ SecretsNext
          /\ UNCHANGED <<conversionVars, connectionVars, pp, fcm, clusterVars, bal>>
       \/ /\ part = "clusters" /\ ClustersNext
          /\ UNCHANGED <<conversionVars, connectionVars, pp, fcm, secretVars, bal>>
       \/ /\ part = "balancers" /\ BalancersNext
          /\ UNCHANGED <<conversionVars, connectionVars, pp, fcm, secretVars, clusterVars>>
    /\ UNCHANGED part

pathVars == <<part, conversionVars, connectionVars, pp, fcm, secretVars, clusterVars, bal>>

PathSpec == PathInit /\ [][PathNext]_pathVars

\* Connections, authorities and runtimes are the same interchangeable values.
Symmetry == Permutations(Conns)

(* What is done to a connection before its protocol starts keeps it whole: *)
(* a PROXY header is taken off and passed on without touching the stream   *)
(* or the addresses, the filter chain is the one the scores choose, and    *)
(* every exit is counted and logged once.                                  *)
ConnectionsKept == ProxyProtocolKept /\ TreeAgreesWithScan /\ ConnectionsAccounted
=============================================================================
