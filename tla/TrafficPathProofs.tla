------------------------- MODULE TrafficPathProofs -------------------------
(***************************************************************************)
(* Proofs about what the control plane configures for connections: the     *)
(* contexts that are built from secrets (TlsSecrets), for every number of  *)
(* secrets, runtimes and versions and all names of certificates; the       *)
(* connections themselves (Connections), for every number of connections   *)
(* and every limit; and the health of endpoints in the map of clusters     *)
(* (Clusters), for every number of clusters, addresses and updates.        *)
(***************************************************************************)
EXTENDS TlsSecrets, Connections, Clusters, Induction, FiniteSetTheorems, SequenceTheorems, TLAPS

-----------------------------------------------------------------------------
(* TlsSecrets.                                                             *)

(* A context of a listener: its certificates and roots have been pushed,   *)
(* and an only certificate has its own key.                                *)
ServerContext(ctx, ver, unusable) ==
    /\ DOMAIN ctx = {"built", "certs", "ca", "ticketer"}
    /\ ctx.built = TRUE /\ ctx.ticketer = 1
    /\ DOMAIN ctx.certs \subseteq SecretIds /\ ctx.certs = [id \in DOMAIN ctx.certs |-> ctx.certs[id]]
    /\ \A id \in DOMAIN ctx.certs : ctx.certs[id] \in 1 .. ver
    /\ Cardinality(DOMAIN ctx.certs) = 1 => \A id \in DOMAIN ctx.certs : ctx.certs[id] \notin unusable
    /\ ctx.ca \in {NoRoots} \cup (1 .. ver)

(* The changes of the certificate id, or of the roots, after position i.   *)
CertChange(m, id) == m.what = "secret" /\ m.id = id
CertChanges(q, id, i) == {j \in DOMAIN q : j > i /\ CertChange(q[j], id)}
RootChange(m) == m.what = "ca"
RootChanges(q, i) == {j \in DOMAIN q : j > i /\ RootChange(q[j])}

(* A holder that has one version and is to hear of the changes at the      *)
(* positions S of q ends up with the version wanted.                       *)
LastOf(S, j) == j \in S /\ \A k \in S : k <= j
Reaches(has, S, q, wanted) ==
    /\ \A j \in DOMAIN q : LastOf(S, j) => q[j].version = wanted
    /\ S = {} => has = wanted

(* A secret that the manager has and that is good is reached.              *)
CertsFollow(ctx, q, i, secrets, unusable) ==
    \A id \in DOMAIN ctx.certs : secrets[id] \notin {Missing} \cup unusable =>
        Reaches(ctx.certs[id], CertChanges(q, id, i), q, secrets[id])

RootsFollow(ctx, q, i, roots) ==
    (ctx.ca # NoRoots /\ roots # Missing) => Reaches(ctx.ca, RootChanges(q, i), q, roots)

(* The context ctx, which is to read the changes in q after position i.    *)
FollowsAt(ctx, q, i, secrets, roots, unusable, ver) ==
    /\ ServerContext(ctx, ver, unusable)
    /\ CertsFollow(ctx, q, i, secrets, unusable)
    /\ RootsFollow(ctx, q, i, roots)

FollowsNow(ctx, q, i) == FollowsAt(ctx, q, i, manager, cas, bad, version)

Change(m, ver) ==
    /\ m.what \in {"listener", "ca", "secret"}
    /\ m.what = "ca" => m.version \in 1 .. ver
    /\ m.what = "secret" => m.version \in 1 .. ver /\ m.id \in SecretIds

(* A runtime has the listener, or is about to start it, once. What comes   *)
(* before it does not matter.                                              *)
ListenerAt(q, k) == q[k].what = "listener"
RuntimeFollows(r) ==
    /\ (\E S : inbox[r] \in Seq(S)) /\ \A i \in DOMAIN inbox[r] : Change(inbox[r][i], version)
    /\ servers[r] = NoContext \/ FollowsNow(servers[r], inbox[r], 0)
    /\ \A k \in DOMAIN inbox[r] : ListenerAt(inbox[r], k) =>
         /\ FollowsNow(inbox[r][k].ctx, inbox[r], k)
         /\ servers[r] = NoContext
         /\ \A l \in DOMAIN inbox[r] : ListenerAt(inbox[r], l) => l = k
    /\ ticketers # 0 =>
         servers[r] # NoContext \/ \E k \in DOMAIN inbox[r] : ListenerAt(inbox[r], k)

ClientFollows ==
    \/ client = NoContext
    \/ /\ DOMAIN client = {"built", "asked", "ca", "cert", "certId"} /\ client.built = TRUE
       /\ client.certId \in SecretIds \cup {"forgotten"}
       /\ client.certId # "forgotten" =>
            /\ client.cert \notin bad /\ client.cert \in 0 .. version
            /\ manager[client.certId] \notin {Missing} \cup bad => client.cert = manager[client.certId]
       /\ cas # Missing => client.ca = cas

(* A handshake got the certificate that the resolver finds for its name.   *)
HelloResolved ==
    hello = <<>> \/ \E n \in 1 .. 2, sni \in SniNames : \E certs \in [1 .. n -> SUBSET SanNames] :
                      hello = [certs |-> certs, sni |-> sni, chosen |-> ResolveCert(certs, sni)]

SecretsShape ==
    /\ manager \in [SecretIds -> 0 .. version] /\ cas \in 0 .. version
    /\ version \in Nat /\ ticketers \in Nat /\ bad \subseteq 1 .. version
    /\ servers = [r \in Runtimes |-> servers[r]] /\ inbox = [r \in Runtimes |-> inbox[r]]

SecretsInv ==
    /\ SecretsShape
    /\ \A r \in Runtimes : RuntimeFollows(r)
    /\ ClientFollows
    /\ HelloResolved

LEMMA SecretsInitInv == SecretsInit => SecretsInv
<1> SUFFICES ASSUME SecretsInit PROVE SecretsInv
  OBVIOUS
<1>1. SecretsShape /\ ClientFollows /\ HelloResolved
  BY DEF SecretsInit, SecretsShape, ClientFollows, HelloResolved, Missing
<1>2. ASSUME NEW r \in Runtimes PROVE RuntimeFollows(r)
  BY DEF SecretsInit, RuntimeFollows
<1> QED BY <1>1, <1>2 DEF SecretsInv

-----------------------------------------------------------------------------
(* What a name is covered by, and the certificate that is found for it.    *)

(* A name is covered by itself and by the wildcard of its first label.     *)
LEMMA CoveredBy ==
  ASSUME NEW names \in SUBSET SanNames, NEW sni \in SniNames
  PROVE  Covers(names, sni) <=>
           sni \in Registered(names) \/ \E n \in Registered(names) : ByWildcard(n, sni)
<1>0. /\ sni \in Seq(STRING) /\ sni # <<>>
      /\ \A n \in Registered(names) : n \in Seq(STRING) /\ n # <<>> /\ (Head(n) = "*" => Len(n) > 2)
  BY TlsSecretsAssumption DEF Registered
<1>1. ASSUME NEW n \in Registered(names), Len(n) = Len(sni),
             \A i \in DOMAIN n : n[i] = sni[i] \/ (i = 1 /\ n[i] = "*")
      PROVE  n = sni \/ ByWildcard(n, sni)
  <2>1. CASE n[1] = sni[1]
    <3>1. \A i \in 1 .. Len(n) : n[i] = sni[i]
      BY <1>0, <1>1, <2>1
    <3> QED BY <1>0, <1>1, <3>1, SeqEqual
  <2>2. CASE n[1] # sni[1]
    <3>1. 1 \in DOMAIN n /\ Head(n) = "*" /\ Len(n) > 2
      BY <1>0, <1>1, <2>2
    <3>2. /\ Tail(n) \in Seq(STRING) /\ Tail(sni) \in Seq(STRING) /\ Len(Tail(n)) = Len(Tail(sni))
          /\ \A i \in 1 .. Len(Tail(n)) : Tail(n)[i] = n[i + 1] /\ Tail(sni)[i] = sni[i + 1]
      BY <1>0, <1>1, <3>1
    <3>3. \A i \in 1 .. Len(Tail(n)) : Tail(n)[i] = Tail(sni)[i]
      BY <1>0, <1>1, <3>1, <3>2
    <3>4. Tail(n) = Tail(sni)
      BY <3>2, <3>3, SeqEqual
    <3> QED BY <1>1, <3>1, <3>4 DEF ByWildcard
  <2> QED BY <2>1, <2>2
<1>2. ASSUME sni \in Registered(names) PROVE Covers(names, sni)
  BY <1>2 DEF Covers
<1>3. ASSUME NEW n \in Registered(names), ByWildcard(n, sni) PROVE Covers(names, sni)
  <2>1. Head(n) = "*" /\ Tail(n) = Tail(sni) /\ Len(sni) > 1
    BY <1>3 DEF ByWildcard
  <2>2. Len(n) = Len(sni)
    BY <1>0, <2>1
  <2>3. \A i \in 1 .. Len(n) : i > 1 => n[i] = Tail(n)[i - 1] /\ sni[i] = Tail(sni)[i - 1]
    BY <1>0, <2>2
  <2>4. \A i \in DOMAIN n : n[i] = sni[i] \/ (i = 1 /\ n[i] = "*")
    <3> SUFFICES ASSUME NEW i \in 1 .. Len(n) PROVE n[i] = sni[i] \/ (i = 1 /\ n[i] = "*")
      BY <1>0
    <3>1. CASE i = 1
      BY <1>0, <2>1, <3>1
    <3>2. CASE i > 1
      BY <2>1, <2>3, <3>2
    <3> QED BY <3>1, <3>2
  <2> QED BY <2>2, <2>4 DEF Covers
<1> QED BY <1>1, <1>2, <1>3 DEF Covers

(* The largest of the positions of two certificates is one of them.        *)
LEMMA LargestOfTwo ==
  ASSUME NEW T \in SUBSET {1, 2}, T # {}
  PROVE  Max(T) \in T
<1>1. \E x \in T : \A y \in T : x >= y
  <2>1. CASE 2 \in T
    BY <2>1
  <2>2. CASE 2 \notin T
    <3>1. 1 \in T /\ \A y \in T : y = 1
      BY <2>2
    <3> QED BY <3>1
  <2> QED BY <2>1, <2>2
<1> QED BY <1>1 DEF Max

(* The certificate found for a name covers it if any does, but an only one *)
(* is given to everybody.                                                  *)
LEMMA ResolvedCovers ==
  ASSUME NEW n \in 1 .. 2, NEW sni \in SniNames, NEW certs \in [1 .. n -> SUBSET SanNames],
         NEW j \in DOMAIN certs, Covers(certs[j], sni)
  PROVE  Covers(certs[ResolveCert(certs, sni)], sni) \/ Len(certs) = 1
<1>1. Len(certs) = n /\ DOMAIN certs = 1 .. n /\ \A i \in 1 .. n : certs[i] \in SUBSET SanNames
  OBVIOUS
<1>2. SUFFICES ASSUME n = 2 PROVE Covers(certs[ResolveCert(certs, sni)], sni)
  BY <1>1
<1> DEFINE exact == {i \in DOMAIN certs : sni \in Registered(certs[i])}
           wild == {i \in DOMAIN certs : \E m \in Registered(certs[i]) : ByWildcard(m, sni)}
<1>3. exact \in SUBSET {1, 2} /\ wild \in SUBSET {1, 2}
  BY <1>1, <1>2
<1>4. exact # {} \/ wild # {}
  BY <1>1, CoveredBy
<1>5. ResolveCert(certs, sni) = IF exact # {} THEN Max(exact) ELSE Max(wild)
  <2>1. Len(certs) # 1
    BY <1>1, <1>2
  <2>2. CASE exact # {}
    BY <2>1, <2>2 DEF ResolveCert
  <2>3. CASE exact = {}
    BY <1>4, <2>1, <2>3 DEF ResolveCert
  <2> QED BY <2>2, <2>3
<1>6. ResolveCert(certs, sni) \in exact \cup wild
  <2>1. CASE exact # {}
    BY <1>3, <1>5, <2>1, LargestOfTwo
  <2>2. CASE exact = {}
    BY <1>3, <1>4, <1>5, <2>2, LargestOfTwo
  <2> QED BY <2>1, <2>2
<1> QED BY <1>1, <1>6, CoveredBy

-----------------------------------------------------------------------------
(* The invariant is enough.                                                *)

LEMMA SecretsInvImplies == SecretsInv => SecretsServed
<1> SUFFICES ASSUME SecretsInv PROVE SecretsServed
  OBVIOUS
<1>1. ASSUME NEW r \in Runtimes, servers[r].built PROVE FollowsNow(servers[r], inbox[r], 0)
  BY <1>1 DEF SecretsInv, RuntimeFollows, NoContext
<1>2. TicketsSurvive
  BY <1>1 DEF TicketsSurvive, FollowsNow, FollowsAt, ServerContext
<1>3. ASSUME NEW r \in Runtimes, servers[r].built, inbox[r] = <<>>
      PROVE  /\ \A id \in DOMAIN servers[r].certs :
                  /\ manager[id] \in {Missing} \union bad \/ servers[r].certs[id] = manager[id]
                  /\ Cardinality(DOMAIN servers[r].certs) = 1 => servers[r].certs[id] \notin bad
             /\ servers[r].ca = NoRoots \/ cas = Missing \/ servers[r].ca = cas
  <2>1. (\A id : CertChanges(inbox[r], id, 0) = {}) /\ RootChanges(inbox[r], 0) = {}
    BY <1>3 DEF CertChanges, RootChanges
  <2> QED BY <1>1, <1>3, <2>1 DEF FollowsNow, FollowsAt, ServerContext, CertsFollow, RootsFollow, Reaches
<1>4. ContextsFollowSecrets
  BY <1>3 DEF ContextsFollowSecrets, SecretsInv, ClientFollows, NoContext
<1>5. CertCoversSni
  <2> SUFFICES ASSUME hello # <<>>, NEW j \in DOMAIN hello.certs, Covers(hello.certs[j], hello.sni)
               PROVE  Covers(hello.certs[hello.chosen], hello.sni) \/ Len(hello.certs) = 1
    BY DEF CertCoversSni
  <2>1. PICK n \in 1 .. 2, sni \in SniNames : \E certs \in [1 .. n -> SUBSET SanNames] :
              hello = [certs |-> certs, sni |-> sni, chosen |-> ResolveCert(certs, sni)]
    BY DEF SecretsInv, HelloResolved
  <2>2. PICK certs \in [1 .. n -> SUBSET SanNames] :
              hello = [certs |-> certs, sni |-> sni, chosen |-> ResolveCert(certs, sni)]
    BY <2>1
  <2>3. hello.certs = certs /\ hello.sni = sni /\ hello.chosen = ResolveCert(certs, sni)
    BY <2>2
  <2> QED BY <2>3, ResolvedCovers
<1> QED BY <1>2, <1>4, <1>5 DEF SecretsServed
-----------------------------------------------------------------------------
(* What is reached when a change is appended, or the first one is read.    *)

(* Appending what is not one of the changes alters nothing. *)
LEMMA ReachesAppendOther ==
  ASSUME NEW has, NEW wanted, NEW T, NEW q \in Seq(T), NEW m, NEW S, S \subseteq DOMAIN q,
         Reaches(has, S, q, wanted)
  PROVE  Reaches(has, S, Append(q, m), wanted)
<1>1. \A j \in DOMAIN q : j \in DOMAIN Append(q, m) /\ Append(q, m)[j] = q[j]
  OBVIOUS
<1> QED BY <1>1 DEF Reaches, LastOf

(* Appending the version wanted makes it the one reached. *)
LEMMA ReachesAppended ==
  ASSUME NEW has, NEW T, NEW q \in Seq(T), NEW m, NEW S, S \subseteq DOMAIN q
  PROVE  Reaches(has, S \cup {Len(q) + 1}, Append(q, m), m.version)
<1>1. /\ \A j \in DOMAIN q : j \in Nat /\ j <= Len(q)
      /\ Len(q) \in Nat /\ Append(q, m)[Len(q) + 1] = m
  OBVIOUS
<1>2. ASSUME NEW j, LastOf(S \cup {Len(q) + 1}, j) PROVE j = Len(q) + 1
  BY <1>1, <1>2 DEF LastOf
<1> QED BY <1>1, <1>2 DEF Reaches

(* The changes after i of a queue to which one is appended. *)
LEMMA ChangesAppended ==
  ASSUME NEW T, NEW q \in Seq(T), NEW m, NEW i \in 0 .. Len(q)
  PROVE  /\ RootChanges(Append(q, m), i) =
                IF RootChange(m) THEN RootChanges(q, i) \cup {Len(q) + 1} ELSE RootChanges(q, i)
         /\ \A id : CertChanges(Append(q, m), id, i) =
                IF CertChange(m, id) THEN CertChanges(q, id, i) \cup {Len(q) + 1} ELSE CertChanges(q, id, i)
<1>1. /\ DOMAIN q = 1 .. Len(q) /\ Len(q) \in Nat /\ DOMAIN Append(q, m) = 1 .. Len(q) + 1
      /\ \A j \in 1 .. Len(q) : Append(q, m)[j] = q[j]
      /\ Append(q, m)[Len(q) + 1] = m
  OBVIOUS
<1>2. DOMAIN Append(q, m) = DOMAIN q \cup {Len(q) + 1} /\ Len(q) + 1 > i /\ Len(q) + 1 \notin DOMAIN q
  BY <1>1
<1>3. \A j \in DOMAIN q : Append(q, m)[j] = q[j]
  BY <1>1
<1> HIDE DEF RootChange, CertChange
<1>4. RootChanges(Append(q, m), i) =
                IF RootChange(m) THEN RootChanges(q, i) \cup {Len(q) + 1} ELSE RootChanges(q, i)
  BY <1>1, <1>2, <1>3 DEF RootChanges
<1>5. ASSUME NEW id
      PROVE  CertChanges(Append(q, m), id, i) =
                IF CertChange(m, id) THEN CertChanges(q, id, i) \cup {Len(q) + 1} ELSE CertChanges(q, id, i)
  BY <1>1, <1>2, <1>3 DEF CertChanges
<1> QED BY <1>4, <1>5

(* Positions of a queue and of its tail. *)
Before(S) == {j - 1 : j \in S}

LEMMA ChangesOfTail ==
  ASSUME NEW T, NEW q \in Seq(T), q # <<>>, NEW k \in 1 .. Len(q)
  PROVE  /\ RootChanges(Tail(q), k - 1) = Before(RootChanges(q, k))
         /\ \A id : CertChanges(Tail(q), id, k - 1) = Before(CertChanges(q, id, k))
<1>1. /\ DOMAIN q = 1 .. Len(q) /\ Len(q) \in Nat /\ DOMAIN Tail(q) = 1 .. Len(q) - 1
      /\ \A j \in 1 .. Len(q) - 1 : Tail(q)[j] = q[j + 1]
  OBVIOUS
<1>2. RootChanges(Tail(q), k - 1) = Before(RootChanges(q, k))
  <2>1. ASSUME NEW j \in RootChanges(Tail(q), k - 1) PROVE j \in Before(RootChanges(q, k))
    <3>1. j + 1 \in RootChanges(q, k) /\ j = (j + 1) - 1
      BY <1>1, <2>1 DEF RootChanges
    <3> QED BY <3>1 DEF Before
  <2>2. ASSUME NEW j \in RootChanges(q, k) PROVE j - 1 \in RootChanges(Tail(q), k - 1)
    BY <1>1, <2>2 DEF RootChanges
  <2> QED BY <2>1, <2>2 DEF Before
<1>3. ASSUME NEW id PROVE CertChanges(Tail(q), id, k - 1) = Before(CertChanges(q, id, k))
  <2>1. ASSUME NEW j \in CertChanges(Tail(q), id, k - 1) PROVE j \in Before(CertChanges(q, id, k))
    <3>1. j + 1 \in CertChanges(q, id, k) /\ j = (j + 1) - 1
      BY <1>1, <2>1 DEF CertChanges
    <3> QED BY <3>1 DEF Before
  <2>2. ASSUME NEW j \in CertChanges(q, id, k) PROVE j - 1 \in CertChanges(Tail(q), id, k - 1)
    BY <1>1, <2>2 DEF CertChanges
  <2> QED BY <2>1, <2>2 DEF Before
<1> QED BY <1>2, <1>3

(* What is reached when the first message is no change, or is passed over. *)
LEMMA ReachesTail ==
  ASSUME NEW has, NEW wanted, NEW T, NEW q \in Seq(T), q # <<>>,
         NEW S \in SUBSET (2 .. Len(q)), Reaches(has, S, q, wanted)
  PROVE  Reaches(has, Before(S), Tail(q), wanted)
<1>1. /\ DOMAIN q = 1 .. Len(q) /\ Len(q) \in Nat /\ DOMAIN Tail(q) = 1 .. Len(q) - 1
      /\ \A j \in 1 .. Len(q) - 1 : Tail(q)[j] = q[j + 1]
  OBVIOUS
<1>2. ASSUME NEW j \in DOMAIN Tail(q), LastOf(Before(S), j) PROVE LastOf(S, j + 1)
  <2>1. j + 1 \in S
    BY <1>1, <1>2 DEF LastOf, Before
  <2>2. ASSUME NEW l \in S PROVE l <= j + 1
    <3>1. l - 1 <= j
      BY <1>2 DEF LastOf, Before
    <3> QED BY <1>1, <3>1
  <2> QED BY <2>1, <2>2 DEF LastOf
<1>3. ASSUME NEW j \in DOMAIN Tail(q), LastOf(Before(S), j) PROVE Tail(q)[j].version = wanted
  BY <1>1, <1>2, <1>3 DEF Reaches
<1>4. Before(S) = {} => S = {}
  BY DEF Before
<1> QED BY <1>3, <1>4 DEF Reaches

(* Reading the first change: who takes its version reaches what is wanted. *)
LEMMA ReachesRead ==
  ASSUME NEW has, NEW next, NEW wanted, NEW T, NEW q \in Seq(T), q # <<>>,
         NEW S \in SUBSET (1 .. Len(q)), 1 \in S, Reaches(has, S, q, wanted),
         Head(q).version = wanted => next = wanted
  PROVE  Reaches(next, Before(S \ {1}), Tail(q), wanted)
<1>0. /\ DOMAIN q = 1 .. Len(q) /\ Len(q) \in Nat /\ Head(q) = q[1]
      /\ DOMAIN Tail(q) = 1 .. Len(q) - 1 /\ \A j \in 1 .. Len(q) - 1 : Tail(q)[j] = q[j + 1]
  OBVIOUS
<1>1. CASE S \ {1} = {}
  <2>1. LastOf(S, 1)
    BY <1>1 DEF LastOf
  <2>2. next = wanted
    BY <1>0, <2>1 DEF Reaches
  <2>3. Before(S \ {1}) = {}
    BY <1>1 DEF Before
  <2> QED BY <2>2, <2>3 DEF Reaches, LastOf
<1>2. CASE S \ {1} # {}
  <2>1. ASSUME NEW j \in DOMAIN q, LastOf(S \ {1}, j) PROVE LastOf(S, j)
    BY <1>0, <2>1 DEF LastOf
  <2>2. Reaches(next, S \ {1}, q, wanted)
    BY <1>2, <2>1 DEF Reaches
  <2>3. S \ {1} \in SUBSET (2 .. Len(q))
    BY <1>0
  <2> QED BY <2>2, <2>3, ReachesTail
<1> QED BY <1>1, <1>2
(* A context goes on following when secrets change: either nothing is sent *)
(* and what changed is not good, or what is sent is what changed.          *)
LEMMA FollowsWhileChanging ==
  ASSUME NEW ctx, NEW T, NEW q \in Seq(T), NEW i \in 0 .. Len(q),
         NEW secrets, NEW roots, NEW unusable, NEW ver \in Nat,
         NEW secrets2, NEW roots2, NEW unusable2, NEW ver2 \in Nat,
         FollowsAt(ctx, q, i, secrets, roots, unusable, ver), ver <= ver2,
         unusable \subseteq unusable2, \A v \in unusable2 : v \in unusable \/ v \notin 1 .. ver
  PROVE  /\ ServerContext(ctx, ver2, unusable2)
         /\ ( /\ \A id \in SecretIds : secrets2[id] \notin {Missing} \cup unusable2 => secrets2[id] = secrets[id]
              /\ roots2 \in {Missing, roots} )
            => FollowsAt(ctx, q, i, secrets2, roots2, unusable2, ver2)
         /\ \A m :
              ( /\ \A id \in SecretIds : secrets2[id] \notin {Missing} \cup unusable2 =>
                     IF CertChange(m, id) THEN m.version = secrets2[id] ELSE secrets2[id] = secrets[id]
                /\ roots2 # Missing => IF RootChange(m) THEN m.version = roots2 ELSE roots2 = roots )
              => FollowsAt(ctx, Append(q, m), i, secrets2, roots2, unusable2, ver2)
<1>0. DOMAIN ctx.certs \subseteq SecretIds /\ DOMAIN q = 1 .. Len(q)
  BY DEF FollowsAt, ServerContext
<1>1. ServerContext(ctx, ver2, unusable2)
  BY DEF FollowsAt, ServerContext
<1>2. ASSUME \A id \in SecretIds : secrets2[id] \notin {Missing} \cup unusable2 => secrets2[id] = secrets[id],
             roots2 \in {Missing, roots}
      PROVE  FollowsAt(ctx, q, i, secrets2, roots2, unusable2, ver2)
  BY <1>0, <1>1, <1>2 DEF FollowsAt, CertsFollow, RootsFollow
<1>3. ASSUME NEW m,
             \A id \in SecretIds : secrets2[id] \notin {Missing} \cup unusable2 =>
                 IF CertChange(m, id) THEN m.version = secrets2[id] ELSE secrets2[id] = secrets[id],
             roots2 # Missing => IF RootChange(m) THEN m.version = roots2 ELSE roots2 = roots
      PROVE  FollowsAt(ctx, Append(q, m), i, secrets2, roots2, unusable2, ver2)
  <2>1. ASSUME NEW id \in DOMAIN ctx.certs, secrets2[id] \notin {Missing} \cup unusable2
        PROVE  Reaches(ctx.certs[id], CertChanges(Append(q, m), id, i), Append(q, m), secrets2[id])
    <3>0. CertChanges(q, id, i) \subseteq DOMAIN q
      BY DEF CertChanges
    <3>1. CASE CertChange(m, id)
      <4>1. m.version = secrets2[id]
        BY <1>0, <1>3, <2>1, <3>1
      <4>2. CertChanges(Append(q, m), id, i) = CertChanges(q, id, i) \cup {Len(q) + 1}
        BY <3>1, ChangesAppended
      <4>3. Reaches(ctx.certs[id], CertChanges(q, id, i) \cup {Len(q) + 1}, Append(q, m), m.version)
        BY <3>0, ReachesAppended
      <4> QED BY <4>1, <4>2, <4>3
    <3>2. CASE ~CertChange(m, id)
      <4>1. secrets2[id] = secrets[id] /\ secrets[id] \notin {Missing} \cup unusable
        BY <1>0, <1>3, <2>1, <3>2
      <4>2. Reaches(ctx.certs[id], CertChanges(q, id, i), q, secrets[id])
        BY <4>1 DEF FollowsAt, CertsFollow
      <4> QED BY <3>0, <3>2, <4>1, <4>2, ReachesAppendOther, ChangesAppended
    <3> QED BY <3>1, <3>2
  <2>2. ASSUME ctx.ca # NoRoots, roots2 # Missing
        PROVE  Reaches(ctx.ca, RootChanges(Append(q, m), i), Append(q, m), roots2)
    <3>0. RootChanges(q, i) \subseteq DOMAIN q
      BY DEF RootChanges
    <3>1. CASE RootChange(m)
      <4>1. RootChanges(Append(q, m), i) = RootChanges(q, i) \cup {Len(q) + 1}
        BY <3>1, ChangesAppended
      <4>2. Reaches(ctx.ca, RootChanges(q, i) \cup {Len(q) + 1}, Append(q, m), m.version)
        BY <3>0, ReachesAppended
      <4> QED BY <1>3, <2>2, <3>1, <4>1, <4>2
    <3>2. CASE ~RootChange(m)
      <4>1. roots2 = roots /\ Reaches(ctx.ca, RootChanges(q, i), q, roots)
        BY <1>3, <2>2, <3>2 DEF FollowsAt, RootsFollow
      <4> QED BY <3>0, <3>2, <4>1, ReachesAppendOther, ChangesAppended
    <3> QED BY <3>1, <3>2
  <2> QED BY <1>1, <2>1, <2>2 DEF FollowsAt, CertsFollow, RootsFollow
<1> QED BY <1>1, <1>2, <1>3

(* A context that is still behind the first message.                       *)
LEMMA FollowsTail ==
  ASSUME NEW ctx, NEW T, NEW q \in Seq(T), q # <<>>, NEW k \in 1 .. Len(q), FollowsNow(ctx, q, k)
  PROVE  FollowsNow(ctx, Tail(q), k - 1)
<1>1. ASSUME NEW id \in DOMAIN ctx.certs, manager[id] \notin {Missing} \cup bad
      PROVE  Reaches(ctx.certs[id], CertChanges(Tail(q), id, k - 1), Tail(q), manager[id])
  <2>1. Reaches(ctx.certs[id], CertChanges(q, id, k), q, manager[id])
    BY <1>1 DEF FollowsNow, FollowsAt, CertsFollow
  <2>2. CertChanges(q, id, k) \in SUBSET (2 .. Len(q))
    BY DEF CertChanges
  <2> QED BY <2>1, <2>2, ReachesTail, ChangesOfTail
<1>2. ASSUME ctx.ca # NoRoots, cas # Missing
      PROVE  Reaches(ctx.ca, RootChanges(Tail(q), k - 1), Tail(q), cas)
  <2>1. Reaches(ctx.ca, RootChanges(q, k), q, cas)
    BY <1>2 DEF FollowsNow, FollowsAt, RootsFollow
  <2>2. RootChanges(q, k) \in SUBSET (2 .. Len(q))
    BY DEF RootChanges
  <2> QED BY <2>1, <2>2, ReachesTail, ChangesOfTail
<1> QED BY <1>1, <1>2 DEF FollowsNow, FollowsAt, CertsFollow, RootsFollow

(* A context that reads the first change.                                  *)
LEMMA FollowsRead ==
  ASSUME NEW ctx, NEW T, NEW q \in Seq(T), q # <<>>, FollowsNow(ctx, q, 0), version \in Nat,
         Change(Head(q), version), Head(q).what # "listener"
  PROVE  FollowsNow(AfterChange(ctx, Head(q)), Tail(q), 0)
<1> DEFINE m == Head(q)
           after == AfterChange(ctx, m)
<1>0. /\ m = q[1] /\ Len(q) \in Nat /\ Len(q) >= 1 /\ DOMAIN q = 1 .. Len(q)
      /\ ServerContext(ctx, version, bad) /\ m.version \in 1 .. version
  BY DEF FollowsNow, FollowsAt, Change
<1>1. /\ RootChanges(Tail(q), 0) = Before(RootChanges(q, 0) \ {1})
      /\ \A id : CertChanges(Tail(q), id, 0) = Before(CertChanges(q, id, 0) \ {1})
  <2>1. RootChanges(q, 1) = RootChanges(q, 0) \ {1}
    BY <1>0 DEF RootChanges
  <2>2. \A id : CertChanges(q, id, 1) = CertChanges(q, id, 0) \ {1}
    BY <1>0 DEF CertChanges
  <2>3. 1 \in 1 .. Len(q) /\ 1 - 1 = 0
    BY <1>0
  <2>4. /\ RootChanges(Tail(q), 1 - 1) = Before(RootChanges(q, 1))
        /\ \A id : CertChanges(Tail(q), id, 1 - 1) = Before(CertChanges(q, id, 1))
    BY ONLY q \in Seq(T), q # <<>>, <2>3, ChangesOfTail
  <2> QED BY <2>1, <2>2, <2>3, <2>4
<1>2. /\ RootChanges(q, 0) \in SUBSET (1 .. Len(q)) /\ (1 \in RootChanges(q, 0) <=> RootChange(m))
      /\ \A id : /\ CertChanges(q, id, 0) \in SUBSET (1 .. Len(q))
                  /\ (1 \in CertChanges(q, id, 0) <=> CertChange(m, id))
  BY <1>0 DEF RootChanges, CertChanges
(* What the change does to the context. *)
<1>3. /\ ServerContext(after, version, bad) /\ DOMAIN after.certs = DOMAIN ctx.certs
      /\ after.ca = NoRoots <=> ctx.ca = NoRoots
      /\ RootChange(m) /\ ctx.ca # NoRoots => after.ca = m.version
      /\ ~RootChange(m) => after.ca = ctx.ca
      /\ \A id \in DOMAIN ctx.certs :
           /\ CertChange(m, id) /\ m.version \notin bad => after.certs[id] = m.version
           /\ ~CertChange(m, id) => after.certs[id] = ctx.certs[id]
  <2>1. CASE m.what = "ca"
    <3>1. after = UpdateServerRoots(ctx, m.version)
      BY <2>1 DEF AfterChange
    <3> QED BY <1>0, <2>1, <3>1 DEF UpdateServerRoots, ServerContext, RootChange, CertChange, NoRoots
  <2>2. CASE m.what = "secret"
    <3>1. after = UpdateServer(ctx, m.id, m.version)
      BY <2>2 DEF AfterChange
    <3>2. CASE m.id \notin DOMAIN ctx.certs
      BY <1>0, <2>2, <3>1, <3>2 DEF UpdateServer, RootChange, CertChange
    <3>3. CASE m.id \in DOMAIN ctx.certs
      <4> DEFINE new == Rebuilt(ctx, m.id, m.version)
      <4>1. /\ DOMAIN new = DOMAIN ctx /\ new.built = ctx.built /\ new.ca = ctx.ca
            /\ new.ticketer = ctx.ticketer
            /\ new.certs = [id \in DOMAIN ctx.certs |-> IF id = m.id THEN m.version ELSE ctx.certs[id]]
        BY <1>0, <3>3 DEF Rebuilt, ServerContext
      <4> HIDE DEF new
      <4>2. after = IF Builds(new.certs, ctx.ca) THEN new ELSE ctx
        BY <1>0, <3>1, <3>3 DEF UpdateServer, ServerContext, new
      <4>3. ctx.ca # Missing
        BY <1>0 DEF ServerContext, Missing, NoRoots
      <4>4. m.version \notin bad => Builds(new.certs, ctx.ca)
        BY <1>0, <4>1, <4>3 DEF ServerContext, Builds
      <4>5. Builds(new.certs, ctx.ca) => ServerContext(new, version, bad)
        BY <1>0, <4>1 DEF ServerContext, Builds
      <4> HIDE DEF m, after
      <4> QED BY <1>0, <2>2, <3>3, <4>1, <4>2, <4>4, <4>5 DEF RootChange, CertChange
    <3> QED BY <3>2, <3>3
  <2> QED BY <2>1, <2>2 DEF Change
<1> HIDE DEF after
<1>4. ASSUME NEW id \in DOMAIN after.certs, manager[id] \notin {Missing} \cup bad
      PROVE  Reaches(after.certs[id], CertChanges(Tail(q), id, 0), Tail(q), manager[id])
  <2>1. Reaches(ctx.certs[id], CertChanges(q, id, 0), q, manager[id])
    BY <1>3, <1>4 DEF FollowsNow, FollowsAt, CertsFollow
  <2>2. CASE CertChange(m, id)
    <3>1. m.version = manager[id] => after.certs[id] = manager[id]
      BY <1>3, <1>4, <2>2
    <3>2. Reaches(after.certs[id], Before(CertChanges(q, id, 0) \ {1}), Tail(q), manager[id])
      BY <1>2, <2>1, <2>2, <3>1, ReachesRead
    <3> QED BY <1>1, <3>2
  <2>3. CASE ~CertChange(m, id)
    <3>1. after.certs[id] = ctx.certs[id]
      BY <1>3, <2>3
    <3>2. CertChanges(q, id, 0) \in SUBSET (2 .. Len(q)) /\ CertChanges(q, id, 0) \ {1} = CertChanges(q, id, 0)
      BY <1>0, <1>2, <2>3
    <3>3. Reaches(ctx.certs[id], Before(CertChanges(q, id, 0)), Tail(q), manager[id])
      BY <2>1, <3>2, ReachesTail
    <3> QED BY <1>1, <3>1, <3>2, <3>3
  <2> QED BY <2>2, <2>3
<1>5. ASSUME after.ca # NoRoots, cas # Missing
      PROVE  Reaches(after.ca, RootChanges(Tail(q), 0), Tail(q), cas)
  <2>1. ctx.ca # NoRoots /\ Reaches(ctx.ca, RootChanges(q, 0), q, cas)
    BY <1>3, <1>5 DEF FollowsNow, FollowsAt, RootsFollow
  <2>2. CASE RootChange(m)
    <3>1. m.version = cas => after.ca = cas
      BY <1>3, <2>1, <2>2
    <3> QED BY <1>1, <1>2, <2>1, <2>2, <3>1, ReachesRead
  <2>3. CASE ~RootChange(m)
    <3>1. after.ca = ctx.ca
      BY <1>3, <2>3
    <3>2. RootChanges(q, 0) \in SUBSET (2 .. Len(q)) /\ RootChanges(q, 0) \ {1} = RootChanges(q, 0)
      BY <1>0, <1>2, <2>3
    <3>3. Reaches(ctx.ca, Before(RootChanges(q, 0)), Tail(q), cas)
      BY <2>1, <3>2, ReachesTail
    <3> QED BY <1>1, <3>1, <3>2, <3>3
  <2> QED BY <2>2, <2>3
<1> QED BY <1>3, <1>4, <1>5 DEF FollowsNow, FollowsAt, CertsFollow, RootsFollow, after
-----------------------------------------------------------------------------
(* The steps of TlsSecrets.                                                *)

(* Secrets grow only, and what has become unusable is new.                 *)
Grows ==
    /\ version \in Nat /\ version' \in Nat /\ version <= version' /\ bad \subseteq bad'
    /\ \A v \in bad' : v \in bad \/ v \notin 1 .. version

(* A runtime to which nothing is sent because nothing usable has changed.  *)
LEMMA RuntimeUntouched ==
  ASSUME NEW r \in Runtimes, RuntimeFollows(r), Grows,
         servers'[r] = servers[r], inbox'[r] = inbox[r], ticketers' = ticketers,
         \A id \in SecretIds : manager'[id] \notin {Missing} \cup bad' => manager'[id] = manager[id],
         cas' \in {Missing, cas}
  PROVE  RuntimeFollows(r)'
<1>1. PICK T : inbox[r] \in Seq(T)
  BY DEF RuntimeFollows
<1>2. \A i \in DOMAIN inbox'[r] : Change(inbox'[r][i], version')
  BY DEF RuntimeFollows, Change, Grows
<1>3. ASSUME NEW ctx, NEW i \in 0 .. Len(inbox[r]), FollowsAt(ctx, inbox[r], i, manager, cas, bad, version)
      PROVE  FollowsAt(ctx, inbox[r], i, manager', cas', bad', version')
  BY <1>1, <1>3, FollowsWhileChanging DEF Grows
<1>4. servers'[r] = NoContext \/ FollowsAt(servers'[r], inbox'[r], 0, manager', cas', bad', version')
  BY <1>1, <1>3 DEF RuntimeFollows, FollowsNow
<1>5. ASSUME NEW k \in DOMAIN inbox'[r], ListenerAt(inbox'[r], k)
      PROVE  /\ FollowsAt(inbox'[r][k].ctx, inbox'[r], k, manager', cas', bad', version')
             /\ servers'[r] = NoContext
             /\ \A l \in DOMAIN inbox'[r] : ListenerAt(inbox'[r], l) => l = k
  <2>1. k \in 0 .. Len(inbox[r])
    BY <1>1, <1>5
  <2> QED BY <1>3, <1>5, <2>1 DEF RuntimeFollows, FollowsNow
<1>6. ticketers' # 0 => servers'[r] # NoContext \/ \E k \in DOMAIN inbox'[r] : ListenerAt(inbox'[r], k)
  BY DEF RuntimeFollows
<1> QED BY <1>1, <1>2, <1>4, <1>5, <1>6 DEF RuntimeFollows, FollowsNow, ListenerAt

(* A runtime that is sent a change of a secret.                            *)
LEMMA RuntimeSent ==
  ASSUME NEW r \in Runtimes, RuntimeFollows(r), Grows, NEW m, Change(m, version'), m.what # "listener",
         servers'[r] = servers[r], inbox'[r] = Append(inbox[r], m), ticketers' = ticketers,
         \A id \in SecretIds : manager'[id] \notin {Missing} \cup bad' =>
            IF CertChange(m, id) THEN m.version = manager'[id] ELSE manager'[id] = manager[id],
         cas' # Missing => IF RootChange(m) THEN m.version = cas' ELSE cas' = cas
  PROVE  RuntimeFollows(r)'
<1>1. PICK T : inbox[r] \in Seq(T)
  BY DEF RuntimeFollows
<1> DEFINE q == inbox[r]
           p == Append(q, m)
<1>2. /\ Len(q) \in Nat /\ DOMAIN q = 1 .. Len(q) /\ DOMAIN p = 1 .. Len(q) + 1 /\ p \in Seq(T \cup {m})
      /\ (\A i \in DOMAIN q : i \in DOMAIN p /\ p[i] = q[i]) /\ p[Len(q) + 1] = m
      /\ \A i \in DOMAIN p : i \in DOMAIN q \/ i = Len(q) + 1
  <2>1. q \in Seq(T \cup {m}) /\ m \in T \cup {m}
    BY <1>1
  <2> QED BY <1>1, <2>1
<1>3. ASSUME NEW ctx, NEW i \in 0 .. Len(q), FollowsAt(ctx, q, i, manager, cas, bad, version)
      PROVE  FollowsAt(ctx, p, i, manager', cas', bad', version')
  BY <1>1, <1>3, FollowsWhileChanging DEF Grows
<1> HIDE DEF p
<1>4. inbox'[r] = p
  BY DEF p
<1>5. \A i \in DOMAIN p : Change(p[i], version')
  BY <1>2 DEF RuntimeFollows, Change, Grows
<1>6. servers'[r] = NoContext \/ FollowsAt(servers'[r], p, 0, manager', cas', bad', version')
  BY <1>2, <1>3 DEF RuntimeFollows, FollowsNow
<1>7. ASSUME NEW k \in DOMAIN p, p[k].what = "listener"
      PROVE  /\ FollowsAt(p[k].ctx, p, k, manager', cas', bad', version')
             /\ servers'[r] = NoContext
             /\ \A l \in DOMAIN p : p[l].what = "listener" => l = k
  <2>1. k \in 0 .. Len(q) /\ k \in DOMAIN q /\ p[k] = q[k]
    BY <1>2, <1>7
  <2>2. /\ FollowsAt(q[k].ctx, q, k, manager, cas, bad, version) /\ servers[r] = NoContext
        /\ \A l \in DOMAIN q : q[l].what = "listener" => l = k
    BY <1>7, <2>1 DEF RuntimeFollows, FollowsNow, ListenerAt
  <2>3. FollowsAt(p[k].ctx, p, k, manager', cas', bad', version')
    BY <1>3, <2>1, <2>2
  <2>4. ASSUME NEW l \in DOMAIN p, p[l].what = "listener" PROVE l = k
    BY <1>2, <2>2, <2>4
  <2> QED BY <2>2, <2>3, <2>4
<1>8. ticketers' # 0 => servers'[r] # NoContext \/ \E k \in DOMAIN p : p[k].what = "listener"
  BY <1>2 DEF RuntimeFollows, ListenerAt
<1> QED BY <1>2, <1>4, <1>5, <1>6, <1>7, <1>8 DEF RuntimeFollows, FollowsNow, ListenerAt

LEMMA StepBuildServerContext ==
  ASSUME SecretsInv, NEW auth \in BOOLEAN, BuildServerContext(auth)
  PROVE  SecretsInv'
<1>1. SecretsShape' /\ ClientFollows' /\ HelloResolved'
  <2>1. SecretsShape'
    BY DEF SecretsInv, SecretsShape, BuildServerContext
  <2>2. ClientFollows'
    BY DEF SecretsInv, ClientFollows, BuildServerContext
  <2>3. HelloResolved'
    BY DEF HelloResolved, BuildServerContext
  <2> QED BY <2>1, <2>2, <2>3
<1>2. ASSUME NEW r \in Runtimes PROVE RuntimeFollows(r)'
  <2> DEFINE certs == [i \in {j \in SecretIds : manager[j] # Missing} |-> manager[i]]
             ctx == [built |-> TRUE, certs |-> certs, ca |-> CertificateStore(auth), ticketer |-> ticketers + 1]
             m == [what |-> "listener", ctx |-> ctx]
             q == inbox[r]
             p == Append(q, m)
  <2>0. /\ servers[r] = NoContext /\ \A i \in DOMAIN q : q[i].what # "listener"
        /\ ticketers = 0 /\ Builds(certs, ctx.ca) /\ inbox'[r] = p
    <3>1. ~servers[r].built /\ \A i \in DOMAIN q : q[i].what # "listener"
      BY <1>2 DEF BuildServerContext
    <3>2. servers[r] = NoContext
      BY <1>2, <3>1 DEF SecretsInv, RuntimeFollows, FollowsNow, FollowsAt, ServerContext
    <3>3. ticketers = 0
      BY <1>2, <3>1, <3>2 DEF SecretsInv, RuntimeFollows, ListenerAt
    <3>4. Builds(certs, ctx.ca) /\ inbox'[r] = p
      BY <1>2 DEF BuildServerContext
    <3> QED BY <3>1, <3>2, <3>3, <3>4
  <2>1. PICK T : q \in Seq(T)
    BY <1>2 DEF SecretsInv, RuntimeFollows
  <2>2. /\ DOMAIN ctx = {"built", "certs", "ca", "ticketer"} /\ ctx.built = TRUE /\ ctx.ticketer = 1
        /\ ctx.certs = certs /\ ctx.ca = CertificateStore(auth) /\ m.what = "listener" /\ m.ctx = ctx
    BY <2>0
  <2>3. /\ DOMAIN certs = {j \in SecretIds : manager[j] # Missing}
        /\ \A j \in DOMAIN certs : certs[j] = manager[j] /\ certs[j] \in 1 .. version
    BY DEF SecretsInv, SecretsShape, Missing
  <2>4. ctx.ca # NoRoots => ctx.ca = cas
    BY <2>2 DEF CertificateStore
  <2>5. ctx.ca \in {NoRoots} \cup (1 .. version)
    BY <2>0, <2>2 DEF CertificateStore, Builds, SecretsInv, SecretsShape, Missing
  <2>6. /\ Len(q) \in Nat /\ DOMAIN q = 1 .. Len(q) /\ DOMAIN p = 1 .. Len(q) + 1 /\ p \in Seq(T \cup {m})
        /\ (\A i \in DOMAIN q : i \in DOMAIN p /\ p[i] = q[i]) /\ p[Len(q) + 1] = m
        /\ \A i \in DOMAIN p : i \in DOMAIN q \/ i = Len(q) + 1
    <3> HIDE DEF m
    <3>1. q \in Seq(T \cup {m}) /\ m \in T \cup {m}
      BY <2>1
    <3> QED BY <2>1, <3>1
  <2>7. certs = [id \in DOMAIN certs |-> certs[id]] /\ ctx.certs = [id \in DOMAIN ctx.certs |-> ctx.certs[id]]
    OBVIOUS
  <2> HIDE DEF certs, ctx, m, p
  <2>8. ServerContext(ctx, version, bad)
    BY <2>0, <2>2, <2>3, <2>5, <2>7 DEF ServerContext, Builds
  <2>9. (\A id : CertChanges(p, id, Len(q) + 1) = {}) /\ RootChanges(p, Len(q) + 1) = {}
    BY <2>6 DEF CertChanges, RootChanges
  <2>10. FollowsAt(ctx, p, Len(q) + 1, manager, cas, bad, version)
    BY <2>2, <2>3, <2>4, <2>8, <2>9 DEF FollowsAt, CertsFollow, RootsFollow, Reaches, LastOf
  <2>11. \A i \in DOMAIN p : Change(p[i], version)
    BY <1>2, <2>2, <2>6 DEF SecretsInv, RuntimeFollows, Change
  <2>12. \A k \in DOMAIN p : p[k].what = "listener" => k = Len(q) + 1
    BY <2>0, <2>6
  <2>13. servers'[r] = NoContext /\ UNCHANGED <<manager, cas, bad, version>>
    BY <2>0 DEF BuildServerContext
  <2> QED BY <2>0, <2>2, <2>6, <2>10, <2>11, <2>12, <2>13 DEF RuntimeFollows, FollowsNow, ListenerAt
<1> QED BY <1>1, <1>2 DEF SecretsInv

LEMMA StepBuildClientContext == SecretsInv /\ BuildClientContext => SecretsInv'
<1> SUFFICES ASSUME SecretsInv, BuildClientContext PROVE SecretsInv'
  OBVIOUS
<1>1. SecretsShape' /\ HelloResolved'
  BY DEF SecretsInv, SecretsShape, BuildClientContext, HelloResolved
<1>2. ASSUME NEW r \in Runtimes PROVE RuntimeFollows(r)'
  BY <1>2, RuntimeUntouched DEF SecretsInv, SecretsShape, BuildClientContext, Grows
<1>3. ClientFollows'
  BY TlsSecretsAssumption DEF SecretsInv, SecretsShape, BuildClientContext, ClientFollows, CertificateStore, Missing
<1> QED BY <1>1, <1>2, <1>3 DEF SecretsInv

LEMMA StepPushCertificate ==
  ASSUME SecretsInv, NEW id \in SecretIds, NEW isBad \in BOOLEAN, PushCertificate(id, isBad)
  PROVE  SecretsInv'
<1>0. /\ Grows /\ version' = version + 1 /\ manager' = [manager EXCEPT ![id] = version + 1]
      /\ bad' = (IF isBad THEN bad \union {version + 1} ELSE bad)
      /\ UNCHANGED <<cas, ticketers, servers, hello>>
  BY DEF SecretsInv, SecretsShape, PushCertificate, Grows
<1>1. SecretsShape'
  <2>1. manager' \in [SecretIds -> 0 .. version'] /\ bad' \subseteq 1 .. version' /\ cas' \in 0 .. version'
    BY <1>0 DEF SecretsInv, SecretsShape
  <2>2. inbox' = [r \in Runtimes |-> inbox'[r]]
    BY DEF SecretsInv, SecretsShape, PushCertificate
  <2> QED BY <1>0, <2>1, <2>2 DEF SecretsInv, SecretsShape
<1>2. HelloResolved'
  BY <1>0 DEF HelloResolved, SecretsInv
<1>3. ASSUME NEW r \in Runtimes PROVE RuntimeFollows(r)'
  <2>1. CASE ClientUses(client, id) /\ isBad
    <3>1. inbox' = inbox /\ \A x \in SecretIds : manager'[x] \notin {Missing} \cup bad' => manager'[x] = manager[x]
      BY <1>0, <2>1 DEF PushCertificate, SecretsInv, SecretsShape
    <3> QED BY <1>0, <1>3, <3>1, RuntimeUntouched DEF SecretsInv
  <2>2. CASE ~(ClientUses(client, id) /\ isBad)
    <3> DEFINE m == [what |-> "secret", id |-> id, version |-> version + 1]
    <3>1. inbox'[r] = Append(inbox[r], m)
      BY <1>3, <2>2 DEF PushCertificate
    <3>2. m.what = "secret" /\ m.id = id /\ m.version = version + 1
      OBVIOUS
    <3> HIDE DEF m
    <3>3. Change(m, version') /\ ~RootChange(m) /\ \A x : CertChange(m, x) <=> x = id
      BY <1>0, <3>2 DEF Change, RootChange, CertChange, SecretsInv, SecretsShape
    <3>4. \A x \in SecretIds : manager'[x] \notin {Missing} \cup bad' =>
            IF CertChange(m, x) THEN m.version = manager'[x] ELSE manager'[x] = manager[x]
      BY <1>0, <3>2, <3>3 DEF SecretsInv, SecretsShape
    <3> QED BY <1>0, <1>3, <3>1, <3>2, <3>3, <3>4, RuntimeSent DEF SecretsInv
  <2> QED BY <2>1, <2>2
<1>4. ClientFollows'
  <2>0. version + 1 \notin bad /\ version \in Nat /\ bad \subseteq 1 .. version /\ manager \in [SecretIds -> 0 .. version]
    BY DEF SecretsInv, SecretsShape
  <2>1. CASE client = NoContext
    BY <2>1 DEF PushCertificate, ClientFollows, ClientUses, NoContext
  <2>2. CASE client # NoContext /\ client.certId # id
    <3>1. client' = client /\ ~ClientUses(client, id)
      BY <2>2 DEF PushCertificate, ClientUses
    <3> QED BY <1>0, <2>0, <2>2, <3>1 DEF SecretsInv, ClientFollows
  <2>3. CASE client # NoContext /\ client.certId = id /\ isBad
    <3>1. client' = client
      BY <2>3 DEF PushCertificate, ClientUses, SecretsInv, ClientFollows
    <3> QED BY <1>0, <2>0, <2>3, <3>1 DEF SecretsInv, ClientFollows
  <2>4. CASE client # NoContext /\ client.certId = id /\ ~isBad
    <3>1. client' = [client EXCEPT !.cert = version + 1]
      BY <2>4 DEF PushCertificate, ClientUses, SecretsInv, ClientFollows
    <3>2. /\ DOMAIN client' = {"built", "asked", "ca", "cert", "certId"} /\ client'.built = TRUE
          /\ client'.certId = id /\ client'.ca = client.ca /\ client'.cert = version + 1
      BY <2>4, <3>1 DEF SecretsInv, ClientFollows
    <3> QED BY <1>0, <2>0, <2>4, <3>2 DEF SecretsInv, ClientFollows
  <2> QED BY <2>1, <2>2, <2>3, <2>4
<1> QED BY <1>1, <1>2, <1>3, <1>4 DEF SecretsInv

LEMMA StepPushValidationContext == SecretsInv /\ PushValidationContext => SecretsInv'
<1> SUFFICES ASSUME SecretsInv, PushValidationContext PROVE SecretsInv'
  OBVIOUS
<1>0. /\ Grows /\ version' = version + 1 /\ cas' = version + 1 /\ version \in Nat
      /\ UNCHANGED <<manager, bad, ticketers, servers, hello>>
  BY DEF SecretsInv, SecretsShape, PushValidationContext, Grows
<1>1. SecretsShape'
  <2>1. manager' \in [SecretIds -> 0 .. version'] /\ bad' \subseteq 1 .. version' /\ cas' \in 0 .. version'
    BY <1>0 DEF SecretsInv, SecretsShape
  <2>2. inbox' = [r \in Runtimes |-> inbox'[r]]
    BY DEF PushValidationContext
  <2> QED BY <1>0, <2>1, <2>2 DEF SecretsInv, SecretsShape
<1>2. HelloResolved'
  BY <1>0 DEF HelloResolved, SecretsInv
<1>3. ASSUME NEW r \in Runtimes PROVE RuntimeFollows(r)'
  <2> DEFINE m == [what |-> "ca", version |-> version + 1]
  <2>1. inbox'[r] = Append(inbox[r], m) /\ m.what = "ca" /\ m.version = version + 1
    BY <1>3 DEF PushValidationContext
  <2> HIDE DEF m
  <2>2. Change(m, version') /\ RootChange(m) /\ \A x : ~CertChange(m, x)
    BY <1>0, <2>1 DEF Change, RootChange, CertChange
  <2> QED BY <1>0, <1>3, <2>1, <2>2, RuntimeSent DEF SecretsInv
<1>4. ClientFollows'
  <2>1. CASE client = NoContext
    BY <2>1 DEF PushValidationContext, ClientFollows, NoContext
  <2>2. CASE client # NoContext
    <3>1. client' = [client EXCEPT !.ca = version + 1]
      BY <2>2 DEF PushValidationContext, WithRoots, SecretsInv, ClientFollows
    <3>2. /\ DOMAIN client' = {"built", "asked", "ca", "cert", "certId"} /\ client'.built = TRUE
          /\ client'.certId = client.certId /\ client'.ca = version + 1 /\ client'.cert = client.cert
      BY <2>2, <3>1 DEF SecretsInv, ClientFollows
    <3> QED BY <1>0, <2>2, <3>2 DEF SecretsInv, ClientFollows
  <2> QED BY <2>1, <2>2
<1> QED BY <1>1, <1>2, <1>3, <1>4 DEF SecretsInv

LEMMA StepRemoveSecret == SecretsInv /\ RemoveSecret => SecretsInv'
<1> SUFFICES ASSUME SecretsInv, RemoveSecret PROVE SecretsInv'
  OBVIOUS
<1>0. /\ UNCHANGED <<bad, version, ticketers, servers, client, inbox, hello>> /\ Grows
      /\ \A x \in SecretIds : manager'[x] \in {Missing, manager[x]}
      /\ manager' \in [SecretIds -> 0 .. version] /\ cas' \in {Missing, cas}
  BY DEF RemoveSecret, SecretsInv, SecretsShape, Grows, Missing
<1>1. SecretsShape' /\ HelloResolved'
  BY <1>0 DEF SecretsInv, SecretsShape, HelloResolved, Missing
<1>2. ASSUME NEW r \in Runtimes PROVE RuntimeFollows(r)'
  BY <1>0, <1>2, RuntimeUntouched DEF SecretsInv
<1>3. ClientFollows'
  BY <1>0 DEF SecretsInv, ClientFollows
<1> QED BY <1>1, <1>2, <1>3 DEF SecretsInv
LEMMA StepReadChange ==
  ASSUME SecretsInv, NEW s \in Runtimes, ReadChange(s)
  PROVE  SecretsInv'
<1> DEFINE q == inbox[s]
           m == Head(q)
<1>0. /\ UNCHANGED <<manager, cas, bad, version, ticketers, client, hello>> /\ q # <<>> /\ version \in Nat
      /\ servers' = [r \in Runtimes |-> IF r = s THEN AfterChange(servers[s], m) ELSE servers[r]]
      /\ inbox' = [r \in Runtimes |-> IF r = s THEN Tail(q) ELSE inbox[r]]
  BY DEF ReadChange, SecretsInv, SecretsShape
<1>1. SecretsShape' /\ HelloResolved' /\ ClientFollows'
  BY <1>0 DEF SecretsInv, SecretsShape, HelloResolved, ClientFollows
<1>2. ASSUME NEW r \in Runtimes, r # s PROVE RuntimeFollows(r)'
  <2>1. servers'[r] = servers[r] /\ inbox'[r] = inbox[r] /\ Grows
    BY <1>0, <1>2 DEF Grows
  <2> QED BY <1>0, <1>2, <2>1, RuntimeUntouched DEF SecretsInv
<1>3. RuntimeFollows(s)'
  <2>0. PICK T : q \in Seq(T)
    BY DEF SecretsInv, RuntimeFollows
  <2>1. /\ DOMAIN q = 1 .. Len(q) /\ Len(q) \in Nat /\ Len(q) >= 1 /\ m = q[1] /\ 1 \in DOMAIN q
        /\ Tail(q) \in Seq(T) /\ DOMAIN Tail(q) = 1 .. Len(q) - 1
        /\ \A j \in 1 .. Len(q) - 1 : Tail(q)[j] = q[j + 1] /\ j + 1 \in DOMAIN q
    BY <1>0, <2>0
  <2>2. /\ servers[s] = NoContext \/ FollowsNow(servers[s], q, 0)
        /\ \A k \in DOMAIN q : q[k].what = "listener" =>
             /\ FollowsNow(q[k].ctx, q, k) /\ servers[s] = NoContext
             /\ \A l \in DOMAIN q : q[l].what = "listener" => l = k
        /\ ticketers # 0 => servers[s] # NoContext \/ \E k \in DOMAIN q : q[k].what = "listener"
        /\ \A i \in DOMAIN q : Change(q[i], version)
    BY DEF SecretsInv, RuntimeFollows, ListenerAt
  <2> DEFINE after == AfterChange(servers[s], m)
             p == Tail(q)
  <2>3. after = NoContext \/ FollowsNow(after, p, 0)
    <3>1. CASE m.what = "listener"
      <4>1. after = q[1].ctx /\ FollowsNow(q[1].ctx, q, 1)
        BY <2>1, <2>2, <3>1 DEF AfterChange
      <4>2. FollowsNow(q[1].ctx, p, 1 - 1)
        <5>1. 1 \in 1 .. Len(q)
          BY <2>1
        <5> QED BY <1>0, <2>0, <4>1, <5>1, FollowsTail
      <4> QED BY <4>1, <4>2
    <3>2. CASE m.what # "listener" /\ servers[s] = NoContext
      BY <2>1, <2>2, <3>2 DEF AfterChange, Change, NoContext, UpdateServer, UpdateServerRoots
    <3>3. CASE m.what # "listener" /\ FollowsNow(servers[s], q, 0)
      BY <1>0, <2>0, <2>1, <2>2, <3>3, FollowsRead
    <3> QED BY <2>2, <3>1, <3>2, <3>3
  <2>4. ASSUME NEW k \in DOMAIN p, p[k].what = "listener"
        PROVE  /\ FollowsNow(p[k].ctx, p, k) /\ after = NoContext
               /\ \A l \in DOMAIN p : p[l].what = "listener" => l = k
    <3>1. /\ k \in 1 .. Len(q) - 1 /\ k + 1 \in DOMAIN q /\ p[k] = q[k + 1] /\ k + 1 \in 1 .. Len(q)
          /\ (k + 1) - 1 = k
      BY <2>1, <2>4
    <3>2. FollowsNow(p[k].ctx, q, k + 1) /\ servers[s] = NoContext
      BY <2>2, <2>4, <3>1
    <3>3. FollowsNow(p[k].ctx, p, (k + 1) - 1)
      BY <1>0, <2>0, <3>1, <3>2, FollowsTail
    <3>4. m.what # "listener"
      <4>1. q[k + 1].what = "listener" /\ k + 1 # 1
        BY <2>4, <3>1
      <4>2. q[1].what = "listener" => 1 = k + 1
        BY ONLY <2>1, <2>2, <3>1, <4>1
      <4> QED BY <2>1, <4>1, <4>2
    <3>5. after = NoContext
      BY <2>1, <2>2, <3>2, <3>4 DEF AfterChange, Change, NoContext, UpdateServer, UpdateServerRoots
    <3>6. ASSUME NEW l \in DOMAIN p, p[l].what = "listener" PROVE l = k
      <4>1. p[l] = q[l + 1] /\ l + 1 \in DOMAIN q /\ l \in Nat
        BY <2>1
      <4>2. l + 1 = k + 1
        BY <2>2, <2>4, <3>1, <3>6, <4>1
      <4> QED BY <3>1, <4>1, <4>2
    <3> QED BY <3>1, <3>3, <3>5, <3>6
  <2>5. ASSUME ticketers # 0 PROVE after # NoContext \/ \E k \in DOMAIN p : p[k].what = "listener"
    <3>1. CASE servers[s] # NoContext
      <4>1. m.what # "listener" /\ FollowsNow(servers[s], q, 0)
        BY <2>1, <2>2, <3>1
      <4>2. FollowsNow(after, p, 0)
        BY <1>0, <2>0, <2>1, <2>2, <4>1, FollowsRead
      <4> QED BY <4>2 DEF FollowsNow, FollowsAt, ServerContext, NoContext
    <3>2. CASE m.what = "listener"
      <4>1. after = q[1].ctx /\ FollowsNow(q[1].ctx, q, 1)
        BY <2>1, <2>2, <3>2 DEF AfterChange
      <4> QED BY <4>1 DEF FollowsNow, FollowsAt, ServerContext, NoContext
    <3>3. CASE servers[s] = NoContext /\ m.what # "listener"
      <4>1. PICK k \in DOMAIN q : q[k].what = "listener"
        BY <2>2, <2>5, <3>3
      <4>2. k - 1 \in DOMAIN p /\ p[k - 1] = q[(k - 1) + 1] /\ (k - 1) + 1 = k
        BY <2>1, <3>3, <4>1
      <4> QED BY <4>1, <4>2
    <3> QED BY <3>1, <3>2, <3>3
  <2>6. \A i \in DOMAIN p : Change(p[i], version)
    BY <2>1, <2>2
  <2>7. servers'[s] = after /\ inbox'[s] = p
    BY <1>0
  <2>8. (\E S : p \in Seq(S))
    BY <2>1
  <2> HIDE DEF after, p
  <2> QED BY <1>0, <2>3, <2>4, <2>5, <2>6, <2>7, <2>8 DEF RuntimeFollows, FollowsNow, ListenerAt
<1> QED BY <1>1, <1>2, <1>3 DEF SecretsInv

LEMMA StepClientHello ==
  ASSUME SecretsInv, NEW n \in 1 .. 2, NEW sni \in SniNames, NEW certs \in [1 .. n -> SUBSET SanNames],
         ClientHello(certs, sni)
  PROVE  SecretsInv'
<1>1. SecretsShape' /\ ClientFollows' /\ UNCHANGED <<manager, cas, bad, version, ticketers, servers, inbox>>
  BY DEF SecretsInv, SecretsShape, ClientFollows, ClientHello
<1>2. ASSUME NEW r \in Runtimes PROVE RuntimeFollows(r)'
  BY <1>1, <1>2, RuntimeUntouched DEF SecretsInv, SecretsShape, Grows
<1>3. HelloResolved'
  <2>1. hello' = [certs |-> certs, sni |-> sni, chosen |-> ResolveCert(certs, sni)]
    BY DEF ClientHello
  <2> HIDE DEF ResolveCert
  <2> QED BY <2>1 DEF HelloResolved
<1> QED BY <1>1, <1>2, <1>3 DEF SecretsInv

(* However many runtimes there are and however their reading of changes    *)
(* interleaves with pushes, removals and failed updates, every runtime's   *)
(* context keeps one set of ticket keys and ends up with the newest usable *)
(* secrets (TlsConfigurator::update, SecretManager::add), and a name that  *)
(* some certificate covers gets one that does (RelaxedResolves...).        *)
THEOREM RotationServed == SecretsSpec => []SecretsServed
<1>1. SecretsInit => SecretsInv
  BY SecretsInitInv
<1>2. SecretsInv /\ [SecretsNext]_secretVars => SecretsInv'
  <2> SUFFICES ASSUME SecretsInv, [SecretsNext]_secretVars PROVE SecretsInv'
    OBVIOUS
  <2>1. CASE \E auth \in BOOLEAN : BuildServerContext(auth)
    BY <2>1, StepBuildServerContext
  <2>2. CASE BuildClientContext
    BY <2>2, StepBuildClientContext
  <2>3. CASE PushValidationContext
    BY <2>3, StepPushValidationContext
  <2>4. CASE RemoveSecret
    BY <2>4, StepRemoveSecret
  <2>5. CASE \E id \in SecretIds, b \in BOOLEAN : PushCertificate(id, b)
    BY <2>5, StepPushCertificate
  <2>6. CASE \E r \in Runtimes : ReadChange(r)
    BY <2>6, StepReadChange
  <2>7. CASE \E n \in 1 .. 2, sni \in SniNames : \E certs \in [1 .. n -> SUBSET SanNames] : ClientHello(certs, sni)
    BY <2>7, StepClientHello
  <2>8. CASE UNCHANGED secretVars
    <3>1. SecretsShape' /\ ClientFollows' /\ HelloResolved' /\ Grows
      BY <2>8 DEF secretVars, SecretsInv, SecretsShape, ClientFollows, HelloResolved, Grows
    <3>2. ASSUME NEW r \in Runtimes PROVE RuntimeFollows(r)'
      BY <2>8, <3>1, <3>2, RuntimeUntouched DEF secretVars, SecretsInv
    <3> QED BY <3>1, <3>2 DEF SecretsInv
  <2> QED BY <2>1, <2>2, <2>3, <2>4, <2>5, <2>6, <2>7, <2>8 DEF SecretsNext
<1> QED BY <1>1, <1>2, SecretsInvImplies, PTL DEF SecretsSpec
-----------------------------------------------------------------------------
(* Connections.                                                            *)

Early == {"idle", "refused", "header", "inspect", "select"}
Chosen == {"limit", "admit", "filters", "start"}
Started == {"hello", "serve", "proxy", "copy"}
Absent == {"idle", "refused", "done"}

(* What holds of a connection by itself.                                   *)
ConnShape(s) ==
    /\ DOMAIN s = DOMAIN NewConn /\ s.pc \in Early \cup Chosen \cup Started \cup {"done"}
    /\ s.ssl \in BOOLEAN /\ s.guard \in BOOLEAN
    /\ {s.read, s.txnStart, s.txnBytes} \subseteq Nat

ConnChain(s) ==
    /\ s.pc \in Early => s.chain = NoChainYet
    /\ s.pc \in Chosen \cup Started => s.chain \in Chains
    /\ s.guard => s.pc \in {"filters", "start"} \cup Started
    /\ s.ssl => s.pc \notin {"idle", "refused", "header", "inspect"}

ConnLogs(s) ==
    /\ s.pc # "done" => s.connLogs = 0 /\ s.chainLogs = 0
    /\ s.pc = "done" => s.connLogs = 1 /\ s.chainLogs \in {0, 1} /\ s.txnBytes = s.read
    /\ s.txnBytes = s.txnStart
    /\ s.pc # "serve" => s.txnStart = s.read

ConnTold(s) ==
    /\ s.pc \in Early \cup Chosen \cup {"hello"} => s.told = "none" /\ s.offered = {}
    /\ s.pc = "serve" => /\ s.told # "none" => s.told \in s.offered /\ s.codec = s.told
                         /\ s.offered # {} => s.told # "none"

ConnFine(s) == ConnShape(s) /\ ConnChain(s) /\ ConnLogs(s) /\ ConnTold(s)

(* The gauges, and the counter of the limit, a connection counts in.       *)
CountsIn(s, g) ==
    /\ s.pc \notin Absent
    /\ g = "ssl" => s.ssl
    /\ g \in {"http", "tcp"} => s.chain.handler = g /\ s.pc \notin Chosen
    /\ g = "limit" => s.guard

InGauge(g) == {x \in Conns : CountsIn(cs[x], g)}

ConnectionsInv ==
    /\ cs = [x \in Conns |-> cs[x]] /\ \A x \in Conns : ConnFine(cs[x])
    /\ gauge \in [Gauges -> Int] /\ \A g \in Gauges : gauge[g] = Cardinality(InGauge(g))
    /\ guards = Cardinality(InGauge("limit")) /\ guards \in Nat

LEMMA ConnectionsInitInv == ConnectionsInit => ConnectionsInv
<1> SUFFICES ASSUME ConnectionsInit PROVE ConnectionsInv
  OBVIOUS
<1>1. ASSUME NEW x \in Conns PROVE ConnFine(cs[x])
  <2>1. cs[x] = NewConn
    BY <1>1 DEF ConnectionsInit
  <2>2. /\ NewConn.pc = "idle" /\ NewConn.chain = NoChainYet /\ NewConn.ssl = FALSE /\ NewConn.guard = FALSE
        /\ NewConn.told = "none" /\ NewConn.offered = {}
        /\ NewConn.read = 0 /\ NewConn.txnStart = 0 /\ NewConn.txnBytes = 0
        /\ NewConn.connLogs = 0 /\ NewConn.chainLogs = 0
    BY DEF NewConn
  <2>3. FALSE \in BOOLEAN /\ "idle" \in Early /\ "idle" \notin Chosen \cup Started
    BY DEF Early, Chosen, Started
  <2>4. ConnShape(NewConn)
    <3>1. NewConn.ssl \in BOOLEAN /\ NewConn.guard \in BOOLEAN
      BY Zenon DEF NewConn
    <3>2. {NewConn.read, NewConn.txnStart, NewConn.txnBytes} \subseteq Nat /\ NewConn.pc \in Early
      BY <2>2, <2>3
    <3> QED BY <3>1, <3>2, Zenon DEF ConnShape
  <2>5. ConnChain(NewConn)
    BY <2>2, <2>3 DEF ConnChain
  <2>6. ConnLogs(NewConn) /\ ConnTold(NewConn)
    BY <2>2, <2>3 DEF ConnLogs, ConnTold
  <2> QED BY <2>1, <2>4, <2>5, <2>6 DEF ConnFine
<1>2. \A g : InGauge(g) = {}
  BY DEF ConnectionsInit, NewConn, InGauge, CountsIn, Absent
<1>3. Cardinality({}) = 0
  BY FS_EmptySet
<1> QED BY <1>1, <1>2, <1>3, ConnectionsAssumption DEF ConnectionsInit, ConnectionsInv, Gauges

LEMMA ConnectionsInvImplies == ConnectionsInv => ConnectionsAccounted
<1> SUFFICES ASSUME ConnectionsInv PROVE ConnectionsAccounted
  OBVIOUS
<1>1. GaugesAreConnections
  <2>1. InGauge("cx") = Alive
    BY DEF InGauge, CountsIn, Alive, Absent
  <2>2. InGauge("ssl") = {c \in Alive : cs[c].ssl}
    BY DEF InGauge, CountsIn, Alive, Absent
  <2>3. \A h \in {"http", "tcp"} :
          InGauge(h) = {c \in Alive : cs[c].chain.handler = h /\ cs[c].pc \notin {"limit", "admit", "filters", "start"}}
    BY DEF InGauge, CountsIn, Alive, Absent, Chosen
  <2>4. InGauge("limit") = {c \in Alive : cs[c].guard}
    BY DEF InGauge, CountsIn, Alive, Absent
  <2> QED BY <2>1, <2>2, <2>3, <2>4 DEF ConnectionsInv, GaugesAreConnections, Gauges
<1>2. ToldIsSpoken
  BY DEF ConnectionsInv, ConnFine, ConnTold, ToldIsSpoken
<1>3. LoggedOnce
  BY DEF ConnectionsInv, ConnFine, ConnLogs, LoggedOnce
<1> QED BY <1>1, <1>2, <1>3 DEF ConnectionsAccounted

-----------------------------------------------------------------------------
(* One connection moves.                                                   *)
One(b) == IF b THEN 1 ELSE 0

(* A set that differs in one element at most.                              *)
LEMMA CountedAgain ==
  ASSUME NEW S, NEW T, NEW c, IsFiniteSet(S), S \ {c} = T \ {c}
  PROVE  IsFiniteSet(T) /\ Cardinality(T) = Cardinality(S) + One(c \in T) - One(c \in S)
<1>1. Cardinality(S) \in Nat
  BY FS_CardinalityType
<1>2. CASE c \in S /\ c \in T
  <2>1. S = T
    BY <1>2
  <2> QED BY <1>1, <1>2, <2>1 DEF One
<1>3. CASE c \notin S /\ c \notin T
  <2>1. S = T
    BY <1>3
  <2> QED BY <1>1, <1>3, <2>1 DEF One
<1>4. CASE c \notin S /\ c \in T
  <2>1. T = S \cup {c}
    BY <1>4
  <2> QED BY <1>1, <1>4, <2>1, FS_AddElement DEF One
<1>5. CASE c \in S /\ c \notin T
  <2>1. T = S \ {c}
    BY <1>5
  <2> QED BY <1>1, <1>5, <2>1, FS_RemoveElement DEF One
<1> QED BY <1>2, <1>3, <1>4, <1>5

(* A step of c that counts for the gauges what it changes of c.            *)
LEMMA OneMoves ==
  ASSUME ConnectionsInv, NEW c \in Conns, NEW s, ConnFine(s),
         cs' = [x \in Conns |-> IF x = c THEN s ELSE cs[x]],
         gauge' \in [Gauges -> Int],
         \A g \in Gauges : gauge'[g] = gauge[g] + One(CountsIn(s, g)) - One(CountsIn(cs[c], g)),
         guards' = guards + One(CountsIn(s, "limit")) - One(CountsIn(cs[c], "limit"))
  PROVE  ConnectionsInv'
<1> DEFINE In2(g) == {x \in Conns : CountsIn(cs'[x], g)}
<1>1. ASSUME NEW g
      PROVE  /\ Cardinality(In2(g)) = Cardinality(InGauge(g)) + One(CountsIn(s, g)) - One(CountsIn(cs[c], g))
             /\ Cardinality(In2(g)) \in Nat
  <2>1. IsFiniteSet(InGauge(g))
    BY ConnectionsAssumption, FS_Subset DEF InGauge
  <2>2. InGauge(g) \ {c} = In2(g) \ {c}
    BY DEF InGauge
  <2>3. (c \in In2(g) <=> CountsIn(s, g)) /\ (c \in InGauge(g) <=> CountsIn(cs[c], g))
    BY DEF InGauge
  <2> HIDE DEF In2
  <2>4. /\ IsFiniteSet(In2(g))
        /\ Cardinality(In2(g)) = Cardinality(InGauge(g)) + One(c \in In2(g)) - One(c \in InGauge(g))
    BY <2>1, <2>2, CountedAgain
  <2>5. One(c \in In2(g)) = One(CountsIn(s, g)) /\ One(c \in InGauge(g)) = One(CountsIn(cs[c], g))
    BY <2>3 DEF One
  <2> QED BY <2>4, <2>5, FS_CardinalityType
<1>2. \A x \in Conns : ConnFine(cs'[x])
  BY DEF ConnectionsInv
<1>3. \A g \in Gauges : gauge'[g] = Cardinality(In2(g))
  BY <1>1 DEF ConnectionsInv
<1>4. guards' = Cardinality(In2("limit")) /\ guards' \in Nat
  BY <1>1 DEF ConnectionsInv
<1>5. cs' = [x \in Conns |-> cs'[x]]
  OBVIOUS
<1> QED BY <1>2, <1>3, <1>4, <1>5 DEF ConnectionsInv, InGauge

(* The task of c ends, from anywhere after it was counted.                 *)
LEMMA OneEnds ==
  ASSUME ConnectionsInv, NEW c \in Conns, cs[c].pc \notin Absent, NEW with, Ends(c, with),
         DOMAIN with = DOMAIN NewConn, with.ssl \in BOOLEAN,
         {with.read, with.txnStart, with.txnBytes} \subseteq Nat,
         with.connLogs = 0, with.chainLogs \in {0, 1},
         with.txnBytes = with.read /\ with.txnStart = with.read
  PROVE  ConnectionsInv'
<1> DEFINE s == Gone(with)
<1>1. /\ DOMAIN s = DOMAIN NewConn /\ s.pc = "done" /\ s.guard = FALSE /\ s.connLogs = 1
      /\ s.ssl = with.ssl /\ s.chainLogs = with.chainLogs
      /\ s.read = with.read /\ s.txnStart = with.txnStart /\ s.txnBytes = with.txnBytes
  BY DEF Gone, NewConn
<1>2. cs' = [x \in Conns |-> IF x = c THEN s ELSE cs[x]]
  BY DEF Ends, ConnectionsInv
<1> HIDE DEF s
<1>3. ConnFine(s)
  BY <1>1 DEF ConnFine, ConnShape, ConnChain, ConnLogs, ConnTold, Early, Chosen, Started
<1>4. ASSUME NEW g \in Gauges
      PROVE  ~CountsIn(s, g) /\ (CountsIn(cs[c], g) <=> Counted(c, g))
  <2>1. ~CountsIn(s, g)
    BY <1>1 DEF CountsIn, Absent
  <2>2. CASE g = "cx"
    BY <2>1, <2>2 DEF CountsIn, Counted
  <2>3. CASE g = "ssl"
    BY <2>1, <2>3 DEF CountsIn, Counted
  <2>4. CASE g \in {"http", "tcp"}
    <3>1. Counted(c, g) <=> cs[c].chain.handler = g /\ cs[c].pc \in Started
      BY <2>4 DEF Counted, Started
    <3>2. ConnShape(cs[c]) /\ ConnChain(cs[c])
      BY DEF ConnectionsInv, ConnFine
    <3>3. cs[c].pc \in Early => cs[c].chain.handler # g
      BY <2>4, <3>2 DEF ConnChain, NoChainYet
    <3> QED BY <2>1, <2>4, <3>1, <3>2, <3>3 DEF CountsIn, ConnShape, Absent, Started, Early, Chosen
  <2> QED BY <2>2, <2>3, <2>4 DEF Gauges
<1>5. /\ gauge' \in [Gauges -> Int]
      /\ \A g \in Gauges : gauge'[g] = gauge[g] + One(CountsIn(s, g)) - One(CountsIn(cs[c], g))
  <2>1. gauge' = [g \in Gauges |-> gauge[g] - (IF Counted(c, g) THEN 1 ELSE 0)]
    BY DEF Ends
  <2>2. \A g \in Gauges : gauge[g] \in Int
    BY DEF ConnectionsInv
  <2> QED BY <1>4, <2>1, <2>2 DEF One
<1>6. guards' = guards + One(CountsIn(s, "limit")) - One(CountsIn(cs[c], "limit"))
  <2>1. ~CountsIn(s, "limit") /\ (CountsIn(cs[c], "limit") <=> cs[c].guard)
    BY <1>1 DEF CountsIn, Absent
  <2> QED BY <2>1 DEF Ends, One, ConnectionsInv
<1> QED BY <1>2, <1>3, <1>5, <1>6, OneMoves

(* A step of c that counts for nothing.                                    *)
LEMMA OneMovesUncounted ==
  ASSUME ConnectionsInv, NEW c \in Conns, NEW s, ConnFine(s),
         cs' = [x \in Conns |-> IF x = c THEN s ELSE cs[x]], UNCHANGED <<gauge, guards>>,
         \A g \in Gauges \cup {"limit"} : CountsIn(s, g) <=> CountsIn(cs[c], g)
  PROVE  ConnectionsInv'
<1>1. /\ gauge' \in [Gauges -> Int]
      /\ \A g \in Gauges : gauge[g] \in Int
      /\ guards \in Int
  BY DEF ConnectionsInv
<1>2. \A g \in Gauges : gauge'[g] = gauge[g] + One(CountsIn(s, g)) - One(CountsIn(cs[c], g))
  BY <1>1 DEF One
<1>3. guards' = guards + One(CountsIn(s, "limit")) - One(CountsIn(cs[c], "limit"))
  BY <1>1 DEF One
<1> QED BY <1>1, <1>2, <1>3, OneMoves

(* A step of c with which it counts in one gauge more.                     *)
LEMMA OneMovesUp ==
  ASSUME ConnectionsInv, NEW c \in Conns, NEW s, ConnFine(s), NEW h \in Gauges,
         cs' = [x \in Conns |-> IF x = c THEN s ELSE cs[x]], Up(h), UNCHANGED guards,
         CountsIn(s, h), ~CountsIn(cs[c], h),
         \A g \in (Gauges \ {h}) \cup {"limit"} : CountsIn(s, g) <=> CountsIn(cs[c], g)
  PROVE  ConnectionsInv'
<1>1. /\ gauge' \in [Gauges -> Int]
      /\ \A g \in Gauges : gauge[g] \in Int /\ gauge'[g] = IF g = h THEN gauge[g] + 1 ELSE gauge[g]
      /\ guards \in Int
  BY DEF ConnectionsInv, Up
<1>2. \A g \in Gauges : gauge'[g] = gauge[g] + One(CountsIn(s, g)) - One(CountsIn(cs[c], g))
  BY <1>1 DEF One
<1>3. guards' = guards + One(CountsIn(s, "limit")) - One(CountsIn(cs[c], "limit"))
  BY <1>1 DEF One
<1> QED BY <1>1, <1>2, <1>3, OneMoves

(* A connection that only goes on to another place.                        *)
LEMMA Moved ==
  ASSUME ConnectionsInv, NEW c \in Conns, NEW pc, Step(c, pc)
  PROVE  \E s : /\ cs' = [x \in Conns |-> IF x = c THEN s ELSE cs[x]]
                /\ DOMAIN s = DOMAIN NewConn /\ s.pc = pc
                /\ \A f \in DOMAIN NewConn \ {"pc"} : s[f] = cs[c][f]
<1> DEFINE s == [cs[c] EXCEPT !.pc = pc]
<1>1. DOMAIN cs[c] = DOMAIN NewConn /\ "pc" \in DOMAIN NewConn
  BY DEF ConnectionsInv, ConnFine, ConnShape, NewConn
<1>2. cs' = [x \in Conns |-> IF x = c THEN s ELSE cs[x]]
  BY DEF Step, ConnectionsInv
<1>3. DOMAIN s = DOMAIN NewConn /\ s.pc = pc /\ \A f \in DOMAIN NewConn \ {"pc"} : s[f] = cs[c][f]
  BY <1>1
<1> HIDE DEF s
<1> QED BY <1>2, <1>3

(* The same, with what the fields say.                                     *)
LEMMA MovedFields ==
  ASSUME NEW s, NEW t, \A f \in DOMAIN NewConn \ {"pc"} : s[f] = t[f]
  PROVE  /\ s.chain = t.chain /\ s.ssl = t.ssl /\ s.guard = t.guard /\ s.told = t.told
         /\ s.codec = t.codec /\ s.offered = t.offered /\ s.replay = t.replay
         /\ s.read = t.read /\ s.txnStart = t.txnStart /\ s.txnBytes = t.txnBytes
         /\ s.connLogs = t.connLogs /\ s.chainLogs = t.chainLogs
BY DEF NewConn

LEMMA StepAccept ==
  ASSUME ConnectionsInv, NEW c \in Conns, AcceptRateLimited(c) \/ AcceptConnection(c)
  PROVE  ConnectionsInv'
<1>0. ConnFine(cs[c]) /\ cs[c].pc = "idle"
  BY DEF ConnectionsInv, AcceptRateLimited, AcceptConnection, At
<1>1. CASE AcceptRateLimited(c)
  <2>1. PICK s : /\ cs' = [x \in Conns |-> IF x = c THEN s ELSE cs[x]]
                 /\ DOMAIN s = DOMAIN NewConn /\ s.pc = "refused"
                 /\ \A f \in DOMAIN NewConn \ {"pc"} : s[f] = cs[c][f]
    BY <1>1, Moved DEF AcceptRateLimited
  <2>2. ConnFine(s)
    BY <1>0, <2>1, MovedFields DEF ConnFine, ConnShape, ConnChain, ConnLogs, ConnTold, Early, Chosen, Started
  <2>3. \A g : ~CountsIn(s, g) /\ ~CountsIn(cs[c], g)
    BY <1>0, <2>1 DEF CountsIn, Absent
  <2> QED BY <1>1, <2>1, <2>2, <2>3, OneMovesUncounted DEF AcceptRateLimited
<1>2. CASE AcceptConnection(c)
  <2>1. PICK s : /\ cs' = [x \in Conns |-> IF x = c THEN s ELSE cs[x]]
                 /\ DOMAIN s = DOMAIN NewConn /\ s.pc = "header"
                 /\ \A f \in DOMAIN NewConn \ {"pc"} : s[f] = cs[c][f]
    BY <1>2, Moved DEF AcceptConnection
  <2>2. ConnFine(s)
    BY <1>0, <2>1, MovedFields DEF ConnFine, ConnShape, ConnChain, ConnLogs, ConnTold, Early, Chosen, Started
  <2>3. \A g : ~CountsIn(cs[c], g)
    BY <1>0, <2>1 DEF CountsIn, Absent
  <2>4. s.chain.handler = "none" /\ s.ssl = FALSE /\ s.guard = FALSE
    BY <2>1, <2>2 DEF ConnFine, ConnShape, ConnChain, NoChainYet, Early, Started
  <2>5. CountsIn(s, "cx") /\ \A g \in (Gauges \ {"cx"}) \cup {"limit"} : ~CountsIn(s, g)
    BY <2>1, <2>4 DEF CountsIn, Gauges, Absent
  <2>6. "cx" \in Gauges
    BY DEF Gauges
  <2> QED BY <1>2, <2>1, <2>2, <2>3, <2>5, <2>6, OneMovesUp DEF AcceptConnection
<1> QED BY <1>1, <1>2

(* A connection that is where it counts and whose handler did nothing but  *)
(* log ends.                                                               *)
LEMMA EndsAsIs ==
  ASSUME ConnectionsInv, NEW c \in Conns, cs[c].pc \notin Absent \cup {"serve"}, Ends(c, cs[c])
  PROVE  ConnectionsInv'
<1>1. ConnFine(cs[c])
  BY DEF ConnectionsInv
<1>2. /\ DOMAIN cs[c] = DOMAIN NewConn /\ cs[c].ssl \in BOOLEAN
      /\ {cs[c].read, cs[c].txnStart, cs[c].txnBytes} \subseteq Nat
  BY <1>1 DEF ConnFine, ConnShape
<1>3. /\ cs[c].connLogs = 0 /\ cs[c].chainLogs \in {0, 1}
      /\ cs[c].txnBytes = cs[c].read /\ cs[c].txnStart = cs[c].read
  BY <1>1 DEF ConnFine, ConnLogs, Absent
<1> QED BY <1>2, <1>3, OneEnds

LEMMA EndsLogged ==
  ASSUME ConnectionsInv, NEW c \in Conns, cs[c].pc \notin Absent \cup {"serve"},
         NEW flags, Ends(c, Logged(cs[c], flags))
  PROVE  ConnectionsInv'
<1> DEFINE with == Logged(cs[c], flags)
<1>1. ConnFine(cs[c])
  BY DEF ConnectionsInv
<1>2. /\ DOMAIN with = DOMAIN NewConn /\ with.ssl = cs[c].ssl /\ with.read = cs[c].read
      /\ with.txnStart = cs[c].txnStart /\ with.txnBytes = cs[c].txnBytes
      /\ with.connLogs = cs[c].connLogs /\ with.chainLogs = cs[c].chainLogs + 1
  BY <1>1 DEF ConnFine, ConnShape, Logged, NewConn
<1>3. Ends(c, with)
  OBVIOUS
<1> HIDE DEF with
<1>4. with.ssl \in BOOLEAN /\ {with.read, with.txnStart, with.txnBytes} \subseteq Nat
  BY <1>1, <1>2 DEF ConnFine, ConnShape
<1>5. /\ with.connLogs = 0 /\ with.chainLogs \in {0, 1}
      /\ with.txnBytes = with.read /\ with.txnStart = with.read
  BY <1>1, <1>2 DEF ConnFine, ConnLogs, Absent
<1> QED BY <1>2, <1>3, <1>4, <1>5, OneEnds

(* A connection goes on without having changed what it counts for.         *)
LEMMA StepOn ==
  ASSUME ConnectionsInv, NEW c \in Conns, NEW pc, Step(c, pc), UNCHANGED <<gauge, guards>>,
         <<cs[c].pc, pc>> \in {<<"header", "inspect">>, <<"inspect", "select">>, <<"limit", "filters">>,
                              <<"limit", "admit">>, <<"filters", "start">>, <<"proxy", "copy">>}
  PROVE  ConnectionsInv'
<1>0. ConnFine(cs[c])
  BY DEF ConnectionsInv
<1>1. PICK s : /\ cs' = [x \in Conns |-> IF x = c THEN s ELSE cs[x]]
               /\ DOMAIN s = DOMAIN NewConn /\ s.pc = pc
               /\ \A f \in DOMAIN NewConn \ {"pc"} : s[f] = cs[c][f]
  BY Moved
<1>2. ConnFine(s)
  BY <1>0, <1>1, MovedFields DEF ConnFine, ConnShape, ConnChain, ConnLogs, ConnTold, Early, Chosen, Started
<1>3. cs[c].pc \in Early => cs[c].chain.handler = "none"
  BY <1>0 DEF ConnFine, ConnChain, NoChainYet
<1>4. ASSUME NEW g \in Gauges \cup {"limit"} PROVE CountsIn(s, g) <=> CountsIn(cs[c], g)
  BY <1>1, <1>3, MovedFields DEF CountsIn, Gauges, Absent, Chosen, Early
<1> QED BY <1>1, <1>2, <1>4, OneMovesUncounted
LEMMA StepInspectClientHello ==
  ASSUME ConnectionsInv, NEW c \in Conns, InspectClientHello(c)
  PROVE  ConnectionsInv'
<1>0. ConnFine(cs[c]) /\ cs[c].pc = "inspect" /\ DOMAIN cs[c] = DOMAIN NewConn
  BY DEF ConnectionsInv, InspectClientHello, At, ConnFine, ConnShape
<1>1. CASE Step(c, "select") /\ UNCHANGED <<gauge, guards>>
  BY <1>0, <1>1, StepOn
<1>2. ASSUME NEW n \in 1 .. MaxReplay, NEW ssl \in BOOLEAN, UNCHANGED guards,
             cs' = [cs EXCEPT ![c].pc = "select", ![c].replay = n, ![c].ssl = ssl],
             IF ssl THEN Up("ssl") ELSE UNCHANGED gauge
      PROVE  ConnectionsInv'
  <2> DEFINE s == [cs[c] EXCEPT !.pc = "select", !.replay = n, !.ssl = ssl]
  <2>1. cs' = [x \in Conns |-> IF x = c THEN s ELSE cs[x]]
    BY <1>2 DEF ConnectionsInv
  <2>2. /\ DOMAIN s = DOMAIN NewConn /\ s.pc = "select" /\ s.ssl = ssl
        /\ s.chain = cs[c].chain /\ s.guard = cs[c].guard /\ s.told = cs[c].told /\ s.offered = cs[c].offered
        /\ s.read = cs[c].read /\ s.txnStart = cs[c].txnStart /\ s.txnBytes = cs[c].txnBytes
        /\ s.connLogs = cs[c].connLogs /\ s.chainLogs = cs[c].chainLogs
    BY <1>0 DEF NewConn
  <2> HIDE DEF s
  <2>3. ConnFine(s)
    BY <1>0, <1>2, <2>2 DEF ConnFine, ConnShape, ConnChain, ConnLogs, ConnTold, Early, Chosen, Started
  <2>4. s.chain.handler = "none" /\ cs[c].ssl = FALSE
    BY <1>0, <2>2 DEF ConnFine, ConnShape, ConnChain, NoChainYet, Early
  <2>5. ~CountsIn(cs[c], "ssl") /\ (CountsIn(s, "ssl") <=> ssl)
    BY <1>0, <2>2, <2>4 DEF CountsIn, Absent
  <2>6. ASSUME NEW g \in (Gauges \ {"ssl"}) \cup {"limit"} PROVE CountsIn(s, g) <=> CountsIn(cs[c], g)
    BY <1>0, <2>2, <2>4 DEF CountsIn, Gauges, Absent
  <2>7. CASE ssl
    <3>1. "ssl" \in Gauges /\ Up("ssl")
      BY <1>2, <2>7 DEF Gauges
    <3> QED BY <1>2, <2>1, <2>3, <2>5, <2>6, <2>7, <3>1, OneMovesUp
  <2>8. CASE ~ssl
    <3>1. \A g \in Gauges \cup {"limit"} : CountsIn(s, g) <=> CountsIn(cs[c], g)
      BY <2>5, <2>6, <2>8
    <3> QED BY <1>2, <2>1, <2>3, <2>8, <3>1, OneMovesUncounted
  <2> QED BY <2>7, <2>8
<1> QED BY <1>1, <1>2 DEF InspectClientHello

LEMMA StepSelectChain ==
  ASSUME ConnectionsInv, NEW c \in Conns, SelectChain(c)
  PROVE  ConnectionsInv'
<1>0. ConnFine(cs[c]) /\ cs[c].pc = "select" /\ DOMAIN cs[c] = DOMAIN NewConn
  BY DEF ConnectionsInv, SelectChain, At, ConnFine, ConnShape
<1>1. CASE Ends(c, cs[c])
  BY <1>0, <1>1, EndsAsIs DEF Absent
<1>2. ASSUME NEW ch \in Chains, cs' = [cs EXCEPT ![c].pc = "limit", ![c].chain = ch], UNCHANGED <<gauge, guards>>
      PROVE  ConnectionsInv'
  <2> DEFINE s == [cs[c] EXCEPT !.pc = "limit", !.chain = ch]
  <2>1. cs' = [x \in Conns |-> IF x = c THEN s ELSE cs[x]]
    BY <1>2 DEF ConnectionsInv
  <2>2. /\ DOMAIN s = DOMAIN NewConn /\ s.pc = "limit" /\ s.chain = ch
        /\ s.ssl = cs[c].ssl /\ s.guard = cs[c].guard /\ s.told = cs[c].told /\ s.offered = cs[c].offered
        /\ s.read = cs[c].read /\ s.txnStart = cs[c].txnStart /\ s.txnBytes = cs[c].txnBytes
        /\ s.connLogs = cs[c].connLogs /\ s.chainLogs = cs[c].chainLogs
    BY <1>0 DEF NewConn
  <2> HIDE DEF s
  <2>3. ConnFine(s)
    BY <1>0, <1>2, <2>2 DEF ConnFine, ConnShape, ConnChain, ConnLogs, ConnTold, Early, Chosen, Started
  <2>4. cs[c].chain.handler = "none"
    BY <1>0 DEF ConnFine, ConnChain, NoChainYet, Early
  <2>5. ASSUME NEW g \in Gauges \cup {"limit"} PROVE CountsIn(s, g) <=> CountsIn(cs[c], g)
    BY <1>0, <2>2, <2>4 DEF CountsIn, Gauges, Absent, Chosen
  <2> QED BY <1>2, <2>1, <2>3, <2>5, OneMovesUncounted
<1> QED BY <1>1, <1>2 DEF SelectChain

LEMMA StepApplyConnectionLimit ==
  ASSUME ConnectionsInv, NEW c \in Conns, ApplyConnectionLimit(c)
  PROVE  ConnectionsInv'
<1>0. ConnFine(cs[c]) /\ cs[c].pc = "limit" /\ DOMAIN cs[c] = DOMAIN NewConn
  BY DEF ConnectionsInv, ApplyConnectionLimit, At, ConnFine, ConnShape
<1>1. CASE ~cs[c].chain.limited
  <2>1. Step(c, "filters") /\ UNCHANGED <<gauge, guards>>
    BY <1>1 DEF ApplyConnectionLimit
  <2> QED BY <1>0, <2>1, StepOn
<1>2. CASE cs[c].chain.limited /\ guards < MaxLimited
  <2>1. Step(c, "admit") /\ UNCHANGED <<gauge, guards>>
    BY <1>2 DEF ApplyConnectionLimit
  <2> QED BY <1>0, <2>1, StepOn
<1>3. CASE cs[c].chain.limited /\ ~(guards < MaxLimited)
  <2>1. Ends(c, cs[c])
    BY <1>3 DEF ApplyConnectionLimit
  <2> QED BY <1>0, <2>1, EndsAsIs DEF Absent
<1> QED BY <1>1, <1>2, <1>3

LEMMA StepTakeConnectionGuard ==
  ASSUME ConnectionsInv, NEW c \in Conns, TakeConnectionGuard(c)
  PROVE  ConnectionsInv'
<1> DEFINE s == [cs[c] EXCEPT !.pc = "filters", !.guard = TRUE]
<1>1. ConnFine(cs[c]) /\ cs[c].pc = "admit" /\ DOMAIN cs[c] = DOMAIN NewConn
  BY DEF ConnectionsInv, TakeConnectionGuard, At, ConnFine, ConnShape
<1>2. /\ cs' = [x \in Conns |-> IF x = c THEN s ELSE cs[x]]
      /\ guards' = guards + 1 /\ UNCHANGED gauge
  BY DEF ConnectionsInv, TakeConnectionGuard
<1>3. /\ DOMAIN s = DOMAIN NewConn /\ s.pc = "filters" /\ s.guard = TRUE
      /\ s.chain = cs[c].chain /\ s.ssl = cs[c].ssl /\ s.told = cs[c].told /\ s.offered = cs[c].offered
      /\ s.read = cs[c].read /\ s.txnStart = cs[c].txnStart /\ s.txnBytes = cs[c].txnBytes
      /\ s.connLogs = cs[c].connLogs /\ s.chainLogs = cs[c].chainLogs
  BY <1>1 DEF NewConn
<1> HIDE DEF s
<1>4. ConnFine(s)
  <2>1. TRUE \in BOOLEAN
    OBVIOUS
  <2>2. ConnShape(s)
    BY <1>1, <1>3, <2>1 DEF ConnFine, ConnShape, Chosen
  <2> QED BY <1>1, <1>3, <2>2 DEF ConnFine, ConnChain, ConnLogs, ConnTold, Early, Chosen, Started
<1>5. ASSUME NEW g \in Gauges PROVE CountsIn(s, g) <=> CountsIn(cs[c], g)
  BY <1>1, <1>3 DEF CountsIn, Gauges, Absent, Chosen
<1>6. CountsIn(s, "limit") /\ ~CountsIn(cs[c], "limit")
  <2>1. cs[c].guard = FALSE
    BY <1>1 DEF ConnFine, ConnShape, ConnChain, Started
  <2> QED BY <1>3, <2>1 DEF CountsIn, Absent
<1>7. gauge' \in [Gauges -> Int] /\ (\A g \in Gauges : gauge[g] \in Int) /\ guards \in Int
  BY <1>2 DEF ConnectionsInv
<1>8. \A g \in Gauges : gauge'[g] = gauge[g] + One(CountsIn(s, g)) - One(CountsIn(cs[c], g))
  BY <1>2, <1>5, <1>7 DEF One
<1>9. guards' = guards + One(CountsIn(s, "limit")) - One(CountsIn(cs[c], "limit"))
  BY <1>2, <1>6, <1>7 DEF One
<1> QED BY <1>2, <1>4, <1>7, <1>8, <1>9, OneMoves

LEMMA StepStartFilterchain ==
  ASSUME ConnectionsInv, NEW c \in Conns, StartFilterchain(c)
  PROVE  ConnectionsInv'
<1>0. ConnFine(cs[c]) /\ cs[c].pc = "start" /\ DOMAIN cs[c] = DOMAIN NewConn
  BY DEF ConnectionsInv, StartFilterchain, At, ConnFine, ConnShape
<1> DEFINE ch == cs[c].chain
           pc == IF ch.tls THEN "hello" ELSE Handling(ch)
           s == [cs[c] EXCEPT !.pc = pc, !.codec = ch.codec]
<1>1. cs' = [x \in Conns |-> IF x = c THEN s ELSE cs[x]]
  BY DEF ConnectionsInv, StartFilterchain
<1>2. pc \in {"hello", "serve", "proxy"} /\ ch.handler \in {"http", "tcp"}
  BY <1>0 DEF Handling, ConnFine, ConnChain, Chosen, Chains
<1> HIDE DEF pc
<1>3. /\ DOMAIN s = DOMAIN NewConn /\ s.pc = pc
      /\ s.chain = cs[c].chain /\ s.guard = cs[c].guard /\ s.told = cs[c].told /\ s.offered = cs[c].offered
      /\ s.ssl = cs[c].ssl
      /\ s.read = cs[c].read /\ s.txnStart = cs[c].txnStart /\ s.txnBytes = cs[c].txnBytes
      /\ s.connLogs = cs[c].connLogs /\ s.chainLogs = cs[c].chainLogs
  BY <1>0 DEF NewConn
<1> HIDE DEF s
<1>4. ConnFine(s)
  BY <1>0, <1>2, <1>3 DEF ConnFine, ConnShape, ConnChain, ConnLogs, ConnTold, Early, Chosen, Started
<1>5. CountsIn(s, ch.handler) /\ ~CountsIn(cs[c], ch.handler)
  BY <1>0, <1>2, <1>3 DEF CountsIn, Absent, Chosen
<1>6. ASSUME NEW g \in (Gauges \ {ch.handler}) \cup {"limit"} PROVE CountsIn(s, g) <=> CountsIn(cs[c], g)
  BY <1>0, <1>2, <1>3 DEF CountsIn, Gauges, Absent, Chosen
<1>7. Up(ch.handler) /\ UNCHANGED guards /\ ch.handler \in Gauges
  BY <1>2 DEF StartFilterchain, Gauges
<1> QED BY <1>1, <1>4, <1>5, <1>6, <1>7, OneMovesUp

(* What is negotiated was offered, and one offer of ours is enough.        *)
LEMMA NegotiatedWasOffered ==
  ASSUME NEW codec \in Codecs \cup {"none"}, NEW offered
  PROVE  LET toldTls == NegotiateCodecType(codec, offered) IN toldTls # "none" => toldTls \in offered
<1> DEFINE ours == FromCodec(codec)
           common == {i \in DOMAIN ours : ours[i] \in offered}
<1>1. DOMAIN ours \subseteq {1, 2}
  BY DEF FromCodec, Codecs
<1> HIDE DEF ours
<1>2. ASSUME common # {} PROVE Min(common) \in common
  <2>1. \E x \in common : \A y \in common : x <= y
    <3>1. CASE 1 \in common
      BY <1>1, <3>1
    <3>2. CASE 1 \notin common
      <4>1. 2 \in common /\ \A y \in common : y = 2
        BY <1>1, <1>2, <3>2
      <4> QED BY <4>1
    <3> QED BY <3>1, <3>2
  <2> QED BY <2>1 DEF Min
<1> QED BY <1>2 DEF NegotiateCodecType, ours

LEMMA StepStartTls ==
  ASSUME ConnectionsInv, NEW c \in Conns, StartTls(c)
  PROVE  ConnectionsInv'
<1>0. ConnFine(cs[c]) /\ cs[c].pc = "hello" /\ DOMAIN cs[c] = DOMAIN NewConn
  BY DEF ConnectionsInv, StartTls, At, ConnFine, ConnShape
<1>1. CASE Ends(c, cs[c])
  BY <1>0, <1>1, EndsAsIs DEF Absent
<1> DEFINE ch == cs[c].chain
           Told(offered) == NegotiateCodecType(ch.codec, offered)
<1>2. ASSUME NEW offered \in SUBSET {"Http1", "Http2"},
             offered # {} /\ ch.handler = "http" => Told(offered) # "none",
             cs' = [cs EXCEPT ![c].pc = Handling(ch), ![c].offered = offered, ![c].told = Told(offered),
                              ![c].codec = SelectedCodec(ch.codec, Told(offered)), ![c].replay = 0],
             UNCHANGED <<gauge, guards>>
      PROVE  ConnectionsInv'
  <2> DEFINE toldTls == Told(offered)
             pc == Handling(ch)
             codec == SelectedCodec(ch.codec, toldTls)
             s == [cs[c] EXCEPT !.pc = pc, !.offered = offered, !.told = toldTls, !.codec = codec, !.replay = 0]
  <2>1. cs' = [x \in Conns |-> IF x = c THEN s ELSE cs[x]]
    BY <1>2 DEF ConnectionsInv
  <2>2. ch \in Chains /\ ch.handler \in {"http", "tcp"} /\ ch.codec \in Codecs \cup {"none"}
    BY <1>0 DEF ConnFine, ConnChain, Started, Chains
  <2>3. toldTls # "none" => toldTls \in offered /\ codec = toldTls
    BY <2>2, NegotiatedWasOffered DEF SelectedCodec
  <2>4. pc \in {"serve", "proxy"} /\ (pc = "serve" => ch.handler = "http")
    BY DEF Handling
  <2> HIDE DEF toldTls, pc, codec
  <2>5. /\ DOMAIN s = DOMAIN NewConn /\ s.pc = pc /\ s.offered = offered /\ s.told = toldTls /\ s.codec = codec
        /\ s.chain = cs[c].chain /\ s.guard = cs[c].guard /\ s.ssl = cs[c].ssl
        /\ s.read = cs[c].read /\ s.txnStart = cs[c].txnStart /\ s.txnBytes = cs[c].txnBytes
        /\ s.connLogs = cs[c].connLogs /\ s.chainLogs = cs[c].chainLogs
    BY <1>0 DEF NewConn
  <2> HIDE DEF s
  <2>6. ConnShape(s) /\ ConnChain(s) /\ ConnLogs(s)
    BY <1>0, <2>4, <2>5 DEF ConnFine, ConnShape, ConnChain, ConnLogs, Early, Chosen, Started
  <2>7. ConnTold(s)
    <3>1. pc = "serve" /\ offered # {} => toldTls # "none"
      BY <1>2, <2>4 DEF toldTls
    <3> QED BY <2>3, <2>4, <2>5, <3>1 DEF ConnTold, Early, Chosen
  <2>8. ASSUME NEW g \in Gauges \cup {"limit"} PROVE CountsIn(s, g) <=> CountsIn(cs[c], g)
    BY <1>0, <2>4, <2>5 DEF CountsIn, Gauges, Absent, Chosen
  <2>9. ConnFine(s)
    BY <2>6, <2>7 DEF ConnFine
  <2> QED BY <1>2, <2>1, <2>8, <2>9, OneMovesUncounted
<1>3. CASE \E offered \in SUBSET {"Http1", "Http2"} :
             /\ offered # {} /\ ch.handler = "http" => Told(offered) # "none"
             /\ cs' = [cs EXCEPT ![c].pc = Handling(ch), ![c].offered = offered, ![c].told = Told(offered),
                              ![c].codec = SelectedCodec(ch.codec, Told(offered)), ![c].replay = 0]
             /\ UNCHANGED <<gauge, guards>>
  BY <1>2, <1>3
<1> QED BY <1>1, <1>3 DEF StartTls
(* What the bytes of an HTTP connection are when a transaction has ended.  *)
LEMMA TransactionTaken ==
  ASSUME NEW s, ConnFine(s), s.pc = "serve"
  PROVE  LET t == TxnTakeMetrics(s)
         IN /\ DOMAIN t = DOMAIN NewConn /\ t.pc = s.pc /\ t.chain = s.chain /\ t.ssl = s.ssl
            /\ t.guard = s.guard /\ t.told = s.told /\ t.offered = s.offered /\ t.codec = s.codec
            /\ t.connLogs = s.connLogs /\ t.chainLogs = s.chainLogs
            /\ t.read = s.read /\ t.txnStart = s.read /\ t.txnBytes = s.read
<1>1. DOMAIN s = DOMAIN NewConn /\ {s.read, s.txnStart, s.txnBytes} \subseteq Nat /\ s.txnBytes = s.txnStart
  BY DEF ConnFine, ConnShape, ConnLogs
<1>2. s.txnBytes + (s.read - s.txnStart) = s.read
  BY <1>1
<1> QED BY <1>1, <1>2 DEF TxnTakeMetrics, NewConn

LEMMA StepHttp ==
  ASSUME ConnectionsInv, NEW c \in Conns, ReadBytes(c) \/ EndTransaction(c) \/ CloseHttp(c)
  PROVE  ConnectionsInv'
<1>0. ConnFine(cs[c]) /\ cs[c].pc = "serve" /\ DOMAIN cs[c] = DOMAIN NewConn
  BY DEF ConnectionsInv, ReadBytes, EndTransaction, CloseHttp, At, ConnFine, ConnShape
<1>1. CASE ReadBytes(c)
  <2> DEFINE s == [cs[c] EXCEPT !.read = cs[c].read + 1]
  <2>1. cs' = [x \in Conns |-> IF x = c THEN s ELSE cs[x]]
    BY <1>1 DEF ConnectionsInv, ReadBytes
  <2>2. /\ DOMAIN s = DOMAIN NewConn /\ s.pc = "serve" /\ s.read = cs[c].read + 1
        /\ s.chain = cs[c].chain /\ s.guard = cs[c].guard /\ s.told = cs[c].told /\ s.offered = cs[c].offered
        /\ s.ssl = cs[c].ssl /\ s.codec = cs[c].codec
        /\ s.txnStart = cs[c].txnStart /\ s.txnBytes = cs[c].txnBytes
        /\ s.connLogs = cs[c].connLogs /\ s.chainLogs = cs[c].chainLogs
    BY <1>0 DEF NewConn
  <2> HIDE DEF s
  <2>3. ConnFine(s)
    BY <1>0, <2>2 DEF ConnFine, ConnShape, ConnChain, ConnLogs, ConnTold, Early, Chosen, Started
  <2>4. ASSUME NEW g \in Gauges \cup {"limit"} PROVE CountsIn(s, g) <=> CountsIn(cs[c], g)
    BY <1>0, <2>2 DEF CountsIn
  <2> QED BY <1>1, <2>1, <2>3, <2>4, OneMovesUncounted DEF ReadBytes
<1> DEFINE t == TxnTakeMetrics(cs[c])
<1>2. /\ DOMAIN t = DOMAIN NewConn /\ t.pc = "serve" /\ t.chain = cs[c].chain /\ t.ssl = cs[c].ssl
      /\ t.guard = cs[c].guard /\ t.told = cs[c].told /\ t.offered = cs[c].offered /\ t.codec = cs[c].codec
      /\ t.connLogs = cs[c].connLogs /\ t.chainLogs = cs[c].chainLogs
      /\ t.read = cs[c].read /\ t.txnStart = cs[c].read /\ t.txnBytes = cs[c].read
  BY <1>0, TransactionTaken
<1>3. EndTransaction(c) => cs' = [x \in Conns |-> IF x = c THEN t ELSE cs[x]]
  BY DEF ConnectionsInv, EndTransaction
<1>4. CloseHttp(c) => Ends(c, t)
  BY DEF CloseHttp
<1> HIDE DEF t
<1>5. ConnFine(t)
  BY <1>0, <1>2 DEF ConnFine, ConnShape, ConnChain, ConnLogs, ConnTold, Early, Chosen, Started
<1>6. CASE EndTransaction(c)
  <2>1. ASSUME NEW g \in Gauges \cup {"limit"} PROVE CountsIn(t, g) <=> CountsIn(cs[c], g)
    BY <1>0, <1>2 DEF CountsIn
  <2> QED BY <1>3, <1>5, <1>6, <2>1, OneMovesUncounted DEF EndTransaction
<1>7. CASE CloseHttp(c)
  <2>1. /\ t.ssl \in BOOLEAN /\ {t.read, t.txnStart, t.txnBytes} \subseteq Nat
        /\ t.connLogs = 0 /\ t.chainLogs \in {0, 1}
    BY <1>2, <1>5 DEF ConnFine, ConnShape, ConnLogs
  <2> QED BY <1>0, <1>2, <1>4, <1>7, <2>1, OneEnds DEF Absent
<1> QED BY <1>1, <1>6, <1>7

LEMMA StepCopyUp ==
  ASSUME ConnectionsInv, NEW c \in Conns, CopyUp(c)
  PROVE  ConnectionsInv'
<1>0. ConnFine(cs[c]) /\ cs[c].pc = "copy" /\ DOMAIN cs[c] = DOMAIN NewConn
  BY DEF ConnectionsInv, CopyUp, At, ConnFine, ConnShape
<1> DEFINE s == [cs[c] EXCEPT !.replay = cs[c].replay - 1]
<1>1. cs' = [x \in Conns |-> IF x = c THEN s ELSE cs[x]]
  BY DEF ConnectionsInv, CopyUp
<1>2. /\ DOMAIN s = DOMAIN NewConn /\ s.pc = "copy" /\ s.read = cs[c].read
      /\ s.chain = cs[c].chain /\ s.guard = cs[c].guard /\ s.told = cs[c].told /\ s.offered = cs[c].offered
      /\ s.ssl = cs[c].ssl /\ s.codec = cs[c].codec
      /\ s.txnStart = cs[c].txnStart /\ s.txnBytes = cs[c].txnBytes
      /\ s.connLogs = cs[c].connLogs /\ s.chainLogs = cs[c].chainLogs
  BY <1>0 DEF NewConn
<1> HIDE DEF s
<1>3. ConnFine(s)
  BY <1>0, <1>2 DEF ConnFine, ConnShape, ConnChain, ConnLogs, ConnTold, Early, Chosen, Started
<1>4. ASSUME NEW g \in Gauges \cup {"limit"} PROVE CountsIn(s, g) <=> CountsIn(cs[c], g)
  BY <1>0, <1>2 DEF CountsIn
<1> QED BY <1>1, <1>3, <1>4, OneMovesUncounted DEF CopyUp

(* The steps that move on or end, and count nothing themselves.            *)
LEMMA StepOthers ==
  ASSUME ConnectionsInv, NEW c \in Conns,
         \/ ReadProxyHeader(c) \/ ApplyNetworkFilters(c) \/ ResolveFails(c) \/ NoConnector(c)
         \/ ConnectUpstream(c) \/ CopyDown(c) \/ CloseTcp(c)
  PROVE  ConnectionsInv'
<1>1. CASE ReadProxyHeader(c)
  BY <1>1, StepOn, EndsAsIs DEF ReadProxyHeader, At, Absent
<1>2. CASE ApplyNetworkFilters(c)
  BY <1>2, StepOn, EndsAsIs DEF ApplyNetworkFilters, At, Absent
<1>3. CASE ResolveFails(c)
  BY <1>3, EndsAsIs DEF ResolveFails, At, Absent
<1>4. CASE NoConnector(c)
  BY <1>4, EndsLogged DEF NoConnector, At, Absent
<1>5. CASE ConnectUpstream(c)
  BY <1>5, StepOn, EndsLogged DEF ConnectUpstream, At, Absent
<1>6. CASE CopyDown(c)
  <2>1. CASE cs[c].replay > 0
    BY <1>6, <2>1, EndsLogged DEF CopyDown, At, Absent
  <2>2. CASE UNCHANGED connectionVars
    BY <2>2 DEF connectionVars, ConnectionsInv, InGauge
  <2> QED BY <1>6, <2>1, <2>2 DEF CopyDown
<1>7. CASE CloseTcp(c)
  BY <1>7, EndsLogged DEF CloseTcp, At, Absent
<1> QED BY <1>1, <1>2, <1>3, <1>4, <1>5, <1>6, <1>7

(* For any number of connections and any limit: whichever exit a task of   *)
(* process_connection takes, the gauges and the counter of the connection  *)
(* limit are the numbers of connections they stand for (also when tasks    *)
(* pass its comparison together), a protocol told in the handshake is the  *)
(* one spoken, and a connection that is gone was logged once with each of  *)
(* its bytes.                                                              *)
THEOREM ConnectionsStayAccounted == ConnectionsSpec => []ConnectionsAccounted
<1>1. ConnectionsInit => ConnectionsInv
  BY ConnectionsInitInv
<1>2. ConnectionsInv /\ [ConnectionsNext]_connectionVars => ConnectionsInv'
  <2> SUFFICES ASSUME ConnectionsInv, [ConnectionsNext]_connectionVars PROVE ConnectionsInv'
    OBVIOUS
  <2>1. CASE UNCHANGED connectionVars
    BY <2>1 DEF connectionVars, ConnectionsInv, InGauge
  <2>2. ASSUME NEW c \in Conns, ConnectionStep(c) PROVE ConnectionsInv'
    BY <2>2, StepAccept, StepInspectClientHello, StepSelectChain, StepApplyConnectionLimit, StepTakeConnectionGuard,
       StepStartFilterchain, StepStartTls, StepHttp, StepCopyUp, StepOthers DEF ConnectionStep
  <2> QED BY <2>1, <2>2 DEF ConnectionsNext
<1> QED BY <1>1, <1>2, ConnectionsInvImplies, PTL DEF ConnectionsSpec

-----------------------------------------------------------------------------
(* Clusters: the health that is reported, and the endpoints served.        *)

LEMMA SmallestExists ==
  ASSUME NEW S, S \subseteq Nat, S # {}
  PROVE  \E x \in S : \A y \in S : x <= y
<1> DEFINE R == OpToRel(<, Nat)
<1>1. IsWellFoundedOn(R, Nat)
  BY NatLessThanWellFounded
<1>2. PICK x \in S : \A y \in S : ~(<<y, x>> \in R)
  <2> HIDE DEF R
  <2> QED BY <1>1, WFMin
<1>3. ASSUME NEW y \in S PROVE x <= y
  <2>1. x \in Nat /\ y \in Nat
    OBVIOUS
  <2>2. ~(y < x)
    BY <1>2, <2>1 DEF OpToRel
  <2> QED BY <2>1, <2>2
<1> QED BY <1>3

(* What a sequence of sequences has is what one of them has.               *)
LEMMA FlattenMembers ==
  ASSUME NEW S, NEW ss \in Seq(Seq(S)), NEW x
  PROVE  (\E k \in DOMAIN FlattenSeq(ss) : FlattenSeq(ss)[k] = x)
           <=> \E i \in 1 .. Len(ss) : \E k \in DOMAIN ss[i] : ss[i][k] = x
<1> DEFINE In(s) == \E k \in 1 .. Len(s) : s[k] = x
<1>1. PICK g : Follows(g, Seq(S), <<>>, Len(ss), Joins(ss, S))
  BY FlattenExists
<1>2. \A i \in 1 .. Len(ss) : ss[i] \in Seq(S)
  OBVIOUS
<1>3. \A i \in 0 .. Len(ss) : g[i] \in Seq(S)
  BY <1>1 DEF Follows
<1>4. ASSUME NEW i \in 1 .. Len(ss) PROVE g[i] = g[i - 1] \o ss[i]
  <2>1. i - 1 \in 0 .. Len(ss) /\ Joins(ss, S)[i] = [y \in Seq(S) |-> y \o ss[i]]
    BY DEF Joins
  <2>2. g[i] = Joins(ss, S)[i][g[i - 1]] /\ g[i - 1] \in Seq(S)
    BY <1>1, <1>3, <2>1 DEF Follows
  <2> QED BY <2>1, <2>2
<1>5. ASSUME NEW s \in Seq(S), NEW t \in Seq(S) PROVE In(s \o t) <=> In(s) \/ In(t)
  <2>1. Len(s \o t) = Len(s) + Len(t) /\ Len(s) \in Nat /\ Len(t) \in Nat
    OBVIOUS
  <2>2. \A k \in 1 .. Len(s) + Len(t) : (s \o t)[k] = IF k <= Len(s) THEN s[k] ELSE t[k - Len(s)]
    BY ConcatProperties
  <2>3. ASSUME In(s \o t) PROVE In(s) \/ In(t)
    <3>1. PICK k \in 1 .. Len(s) + Len(t) : (s \o t)[k] = x
      BY <2>1, <2>3
    <3>2. CASE k <= Len(s)
      BY <2>1, <2>2, <3>1, <3>2
    <3>3. CASE ~(k <= Len(s))
      <4>1. k - Len(s) \in 1 .. Len(t) /\ t[k - Len(s)] = x
        BY <2>1, <2>2, <3>1, <3>3
      <4> QED BY <4>1
    <3> QED BY <3>2, <3>3
  <2>4. ASSUME In(s) PROVE In(s \o t)
    <3>1. PICK k \in 1 .. Len(s) : s[k] = x
      BY <2>4
    <3>2. k \in 1 .. Len(s) + Len(t) /\ (s \o t)[k] = x
      BY <2>1, <2>2, <3>1
    <3> QED BY <2>1, <3>2
  <2>5. ASSUME In(t) PROVE In(s \o t)
    <3>1. PICK k \in 1 .. Len(t) : t[k] = x
      BY <2>5
    <3> DEFINE m == k + Len(s)
    <3>2. m \in 1 .. Len(s) + Len(t) /\ ~(m <= Len(s)) /\ m - Len(s) = k
      BY <2>1
    <3> HIDE DEF m
    <3>3. (s \o t)[m] = x
      BY <2>2, <3>1, <3>2
    <3> QED BY <2>1, <3>2, <3>3
  <2> QED BY <2>3, <2>4, <2>5
<1> DEFINE Some(n) == \E i \in 1 .. n : In(ss[i])
           P == {n \in Nat : n <= Len(ss) => (In(g[n]) <=> Some(n))}
<1>6. 0 \in P
  <2>1. g[0] = <<>> /\ Len(<<>>) = 0
    BY <1>1 DEF Follows
  <2>2. ~In(g[0]) /\ ~Some(0)
    BY <2>1
  <2> QED BY <2>2
<1>7. ASSUME NEW n \in Nat, n \in P PROVE n + 1 \in P
  <2> SUFFICES ASSUME n + 1 <= Len(ss) PROVE In(g[n + 1]) <=> Some(n + 1)
    OBVIOUS
  <2>1. n + 1 \in 1 .. Len(ss) /\ n \in 0 .. Len(ss) /\ (n + 1) - 1 = n
    OBVIOUS
  <2>2. In(g[n]) <=> Some(n)
    BY <1>7, <2>1
  <2>3. g[n + 1] = g[n] \o ss[n + 1] /\ g[n] \in Seq(S) /\ ss[n + 1] \in Seq(S)
    BY <1>2, <1>3, <1>4, <2>1
  <2>4. In(g[n + 1]) <=> In(g[n]) \/ In(ss[n + 1])
    <3> HIDE DEF In
    <3> QED BY <1>5, <2>3
  <2>5. Some(n + 1) <=> Some(n) \/ In(ss[n + 1])
    <3>1. 1 .. n + 1 = (1 .. n) \cup {n + 1}
      OBVIOUS
    <3> HIDE DEF In
    <3> QED BY <3>1
  <2> QED BY <2>2, <2>4, <2>5
<1>8. \A n \in Nat : n \in P
  <2> HIDE DEF P
  <2> QED BY <1>6, <1>7, NatSetInduction
<1>9. In(g[Len(ss)]) <=> Some(Len(ss))
  <2>1. Len(ss) \in Nat
    OBVIOUS
  <2> HIDE DEF In, Some
  <2> QED BY <1>8, <2>1
<1>10. FlattenSeq(ss) = g[Len(ss)]
  BY <1>1, FlattenFollows
<1>11. Len(ss) \in 0 .. Len(ss)
  OBVIOUS
<1>12. DOMAIN FlattenSeq(ss) = 1 .. Len(g[Len(ss)])
  BY <1>3, <1>10, <1>11
<1>13. \A i \in 1 .. Len(ss) : DOMAIN ss[i] = 1 .. Len(ss[i])
  BY <1>2
<1> QED BY <1>9, <1>10, <1>12, <1>13

-----------------------------------------------------------------------------
Endpoints == [auth : Authorities, up : BOOLEAN]
Infos == [items : Seq(Endpoints), healthy : Nat]

(* The first item of an address.                                           *)
LEMMA PositionIs ==
  ASSUME NEW items \in Seq(Endpoints), NEW a, Has(items, a)
  PROVE  Position(items, a) \in DOMAIN items /\ items[Position(items, a)].auth = a
<1> DEFINE S == {i \in DOMAIN items : items[i].auth = a}
<1>1. S \subseteq Nat /\ S # {}
  BY DEF Has
<1>2. PICK i \in S : \A j \in S : i <= j
  <2> HIDE DEF S
  <2> QED BY <1>1, SmallestExists
<1>3. \E k \in DOMAIN items : items[k].auth = a /\ \A j \in DOMAIN items : items[j].auth = a => k <= j
  BY <1>2
<1> QED BY <1>3 DEF Position

(* The items t are those of s, but that the health of some with the        *)
(* address a may be another.                                               *)
SameItems(s, t, a) ==
    /\ DOMAIN t = DOMAIN s
    /\ \A i \in DOMAIN s : t[i].auth = s[i].auth
    /\ \A i \in DOMAIN s : s[i].auth # a => t[i] = s[i]

LEMMA PriorityHealthKeeps ==
  ASSUME NEW info \in Infos, info.healthy = IsUp(info.items), NEW a, Has(info.items, a),
         NEW up \in BOOLEAN, NEW r, r = PriorityHealth(info, a, up)
  PROVE  /\ r \in Infos /\ r.healthy = IsUp(r.items)
         /\ SameItems(info.items, r.items, a)
         /\ r.items[Position(info.items, a)].up = up
<1> DEFINE i == Position(info.items, a)
           s == info.items
<1>1. s \in Seq(Endpoints) /\ info.healthy \in Nat /\ info = [items |-> s, healthy |-> info.healthy]
  BY DEF Infos
<1>2. i \in DOMAIN s /\ s[i].auth = a
  BY <1>1, PositionIs
<1>3. s[i] \in Endpoints /\ s[i] = [auth |-> s[i].auth, up |-> s[i].up] /\ s[i].up \in BOOLEAN
  <2>1. s[i] \in Endpoints
    <3> HIDE DEF s, i
    <3> QED BY <1>1, <1>2
  <2>2. \A x \in Endpoints : x = [auth |-> x.auth, up |-> x.up]
    BY DEF Endpoints
  <2>3. \A x \in Endpoints : x.up \in BOOLEAN
    BY DEF Endpoints
  <2> QED BY <2>1, <2>2, <2>3
<1> HIDE DEF i, s
<1>4. CASE s[i].up = up
  <2>1. r = info
    BY <1>4 DEF PriorityHealth, i, s
  <2> QED BY <1>4, <2>1 DEF SameItems, i, s
<1>5. CASE s[i].up # up
  <2> DEFINE e == [auth |-> s[i].auth, up |-> up]
             t == [s EXCEPT ![i] = e]
             U(x) == {k \in DOMAIN x : x[k].up}
  <2>1. [s[i] EXCEPT !.up = up] = e
    BY <1>3
  <2>2. r = [items |-> t, healthy |-> IF up THEN info.healthy + 1 ELSE info.healthy - 1]
    <3>1. r = [items |-> [s EXCEPT ![i].up = up], healthy |-> IF up THEN info.healthy + 1 ELSE info.healthy - 1]
      BY <1>5 DEF PriorityHealth, i, s
    <3>2. [s EXCEPT ![i].up = up] = [s EXCEPT ![i] = [s[i] EXCEPT !.up = up]]
      OBVIOUS
    <3> QED BY <2>1, <3>1, <3>2
  <2>3. e \in Endpoints /\ e.auth = s[i].auth /\ e.up = up
    BY <1>3 DEF Endpoints
  <2> HIDE DEF e
  <2>4. t \in Seq(Endpoints) /\ DOMAIN t = DOMAIN s /\ t[i] = e /\ \A k \in DOMAIN s : k # i => t[k] = s[k]
    BY <1>1, <1>2, <2>3
  <2> HIDE DEF t
  <2>5. SameItems(s, t, a) /\ t[i].up = up
    BY <1>2, <2>3, <2>4 DEF SameItems
  <2>6. IsFiniteSet(U(s)) /\ IsFiniteSet(U(t)) /\ Cardinality(U(s)) = info.healthy
    <3>1. IsFiniteSet(DOMAIN s)
      <4>1. DOMAIN s = 1 .. Len(s) /\ 1 \in Int /\ Len(s) \in Int
        BY <1>1
      <4> QED BY <4>1, FS_Interval
    <3>2. U(s) \in SUBSET DOMAIN s /\ U(t) \in SUBSET DOMAIN s
      BY <2>4
    <3> QED BY <3>1, <3>2, FS_Subset DEF IsUp, s
  <2>7. Cardinality(U(t)) = IF up THEN info.healthy + 1 ELSE info.healthy - 1
    <3>1. CASE up
      <4>1. U(t) = U(s) \cup {i} /\ i \notin U(s)
        BY <1>2, <1>3, <1>5, <2>3, <2>4, <3>1
      <4> HIDE DEF U
      <4> QED BY <2>6, <3>1, <4>1, FS_AddElement
    <3>2. CASE ~up
      <4>1. U(t) = U(s) \ {i} /\ i \in U(s)
        BY <1>2, <1>3, <1>5, <2>3, <2>4, <3>2
      <4> HIDE DEF U
      <4> QED BY <2>6, <3>2, <4>1, FS_RemoveElement
    <3> QED BY <3>1, <3>2
  <2>8. Cardinality(U(t)) \in Nat
    <3> HIDE DEF U
    <3> QED BY <2>6, FS_CardinalityType
  <2>9. r = [items |-> t, healthy |-> Cardinality(U(t))]
    BY <2>2, <2>7
  <2>10. r.items = t /\ r.healthy = IsUp(t)
    BY <2>9 DEF IsUp
  <2>11. r \in Infos
    BY <2>4, <2>8, <2>9 DEF Infos
  <2> QED BY <2>5, <2>10, <2>11 DEF i, s
<1> QED BY <1>4, <1>5

-----------------------------------------------------------------------------
(* A load assignment as it is in the map: its balancer has the items of    *)
(* its configuration, counted.                                             *)
Auths(cla) == {AllEndpoints(cla)[k].auth : k \in DOMAIN AllEndpoints(cla)}

LaFine(la) ==
    /\ la = [ cla |-> la.cla, policy |-> la.policy, tls |-> la.tls, lb |-> la.lb, lbTls |-> la.lbTls,
              order |-> la.order, over |-> la.over ]
    /\ la.cla \in ClaConfigs
    /\ la.lb \in [Priorities(la.cla) -> Infos]
    /\ \A p \in Priorities(la.cla) : la.lb[p].healthy = IsUp(la.lb[p].items)
    /\ \A p \in Priorities(la.cla) : \A i \in DOMAIN la.lb[p].items :
         la.lb[p].items[i].auth \in Auths(la.cla)
    /\ la.order \in Orders(la.cla)
    /\ la.over \in [DOMAIN la.over -> BOOLEAN]

(* m is l after reports about a and nothing else.                          *)
SameBut(l, m, a) ==
    /\ m.cla = l.cla /\ m.policy = l.policy /\ m.tls = l.tls /\ m.lbTls = l.lbTls /\ m.order = l.order
    /\ \A p \in Priorities(l.cla) : SameItems(l.lb[p].items, m.lb[p].items, a)
    /\ DOMAIN m.over = DOMAIN l.over
    /\ \A b \in DOMAIN l.over : b # a => m.over[b] = l.over[b]

ItemsSettled(l, a, up) ==
    OccursOnce(l, a) =>
        \A p \in DOMAIN l.lb : \A i \in DOMAIN l.lb[p].items :
            l.lb[p].items[i].auth = a => l.lb[p].items[i].up = up

Settled(l, a, up) ==
    /\ a \in DOMAIN l.over => l.over[a] = up
    /\ ItemsSettled(l, a, up)

(* Configurations.                                                         *)
LEMMA ConfigsAre ==
  ASSUME NEW cla \in ClaConfigs
  PROVE  /\ cla \in Seq(LocalityConfigs) /\ Len(cla) \in Nat
         /\ \A i \in DOMAIN cla : cla[i].eps \in Seq(Endpoints) /\ cla[i].prio \in 0 .. 1
         /\ IsFiniteSet(Priorities(cla)) /\ Cardinality(Priorities(cla)) \in Nat
<1>1. cla \in Seq(LocalityConfigs) /\ Len(cla) \in Nat
  <2>1. CASE cla \in {<<l>> : l \in LocalityConfigs}
    <3>1. PICK l \in LocalityConfigs : cla = <<l>>
      BY <2>1
    <3> HIDE DEF LocalityConfigs
    <3> QED BY <3>1
  <2>2. CASE cla \in {<<l, m>> : l \in LocalityConfigs, m \in {x \in LocalityConfigs : Len(x.eps) = 1}}
    <3>1. PICK l \in LocalityConfigs, m \in LocalityConfigs : cla = <<l, m>>
      BY <2>2
    <3> QED BY <3>1
  <2> QED BY <2>1, <2>2 DEF ClaConfigs
<1>2. ASSUME NEW l \in LocalityConfigs PROVE l.eps \in Seq(Endpoints) /\ l.prio \in 0 .. 1
  <2> DEFINE yes == TRUE
  <2>0. yes \in BOOLEAN
    OBVIOUS
  <2>1. l.prio \in 0 .. 1 /\ \/ \E a \in Authorities, u \in BOOLEAN : l.eps = <<[auth |-> a, up |-> u]>>
                             \/ \E a, b \in Authorities : l.eps = <<[auth |-> a, up |-> yes], [auth |-> b, up |-> yes]>>
    <3> DEFINE Singles == {<<[auth |-> a, up |-> u]>> : a \in Authorities, u \in BOOLEAN}
               Pairs == {<<[auth |-> a, up |-> yes], [auth |-> b, up |-> yes]>> : a \in Authorities, b \in Authorities}
    <3>1. LocalityConfigs = [prio : 0 .. 1, eps : Singles \cup Pairs]
      BY DEF LocalityConfigs
    <3>2. l.prio \in 0 .. 1 /\ (l.eps \in Singles \/ l.eps \in Pairs)
      <4> HIDE DEF Singles, Pairs
      <4> QED BY <3>1
    <3>3. l.eps \in Singles => \E a \in Authorities, u \in BOOLEAN : l.eps = <<[auth |-> a, up |-> u]>>
      OBVIOUS
    <3>4. l.eps \in Pairs => \E a, b \in Authorities : l.eps = <<[auth |-> a, up |-> yes], [auth |-> b, up |-> yes]>>
      <4> HIDE DEF yes
      <4> QED OBVIOUS
    <3> HIDE DEF Singles, Pairs, yes
    <3> QED BY <3>2, <3>3, <3>4
  <2>2. \A a \in Authorities, u \in BOOLEAN : [auth |-> a, up |-> u] \in Endpoints
    BY DEF Endpoints
  <2> HIDE DEF yes
  <2>3. CASE \E a \in Authorities, u \in BOOLEAN : l.eps = <<[auth |-> a, up |-> u]>>
    <3>1. PICK a \in Authorities, u \in BOOLEAN : l.eps = <<[auth |-> a, up |-> u]>>
      BY <2>3
    <3> DEFINE e == [auth |-> a, up |-> u]
    <3>2. e \in Endpoints /\ l.eps = <<e>>
      BY <2>2, <3>1
    <3> HIDE DEF e
    <3> QED BY <2>1, <3>2
  <2>4. CASE \E a, b \in Authorities : l.eps = <<[auth |-> a, up |-> yes], [auth |-> b, up |-> yes]>>
    <3>1. PICK a \in Authorities, b \in Authorities : l.eps = <<[auth |-> a, up |-> yes], [auth |-> b, up |-> yes]>>
      BY <2>4
    <3> DEFINE e == [auth |-> a, up |-> yes]
               f == [auth |-> b, up |-> yes]
    <3>2. e \in Endpoints /\ f \in Endpoints /\ l.eps = <<e, f>>
      BY <2>0, <2>2, <3>1
    <3> HIDE DEF e, f
    <3> QED BY <2>1, <3>2
  <2> QED BY <2>1, <2>3, <2>4
<1>3. \A i \in DOMAIN cla : cla[i] \in LocalityConfigs
  BY <1>1
<1>4. \A i \in DOMAIN cla : cla[i].eps \in Seq(Endpoints) /\ cla[i].prio \in 0 .. 1
  BY <1>2, <1>3
<1>5. IsFiniteSet(Priorities(cla)) /\ Cardinality(Priorities(cla)) \in Nat
  <2>1. IsFiniteSet(0 .. 1)
    <3>1. 0 \in Int /\ 1 \in Int
      OBVIOUS
    <3> QED BY <3>1, FS_Interval
  <2>2. Priorities(cla) \in SUBSET (0 .. 1)
    BY <1>4 DEF Priorities
  <2> QED BY <2>1, <2>2, FS_Subset, FS_CardinalityType
<1> QED BY <1>1, <1>4, <1>5

(* The places of an address in a balancer.                                 *)
LEMMA OnceIs ==
  ASSUME NEW la, NEW a, OccursOnce(la, a)
  PROVE  /\ \E p \in DOMAIN la.lb : Has(la.lb[p].items, a)
         /\ \A p, q \in DOMAIN la.lb : \A i \in DOMAIN la.lb[p].items : \A j \in DOMAIN la.lb[q].items :
              la.lb[p].items[i].auth = a /\ la.lb[q].items[j].auth = a => p = q /\ i = j
<1> DEFINE Everywhere == UNION {{p} \X DOMAIN la.lb[p].items : p \in DOMAIN la.lb}
           places == {x \in Everywhere : la.lb[x[1]].items[x[2]].auth = a}
<1>1. PICK x \in places : places = {x}
  BY DEF OccursOnce
<1>2. ASSUME NEW p \in DOMAIN la.lb, NEW i \in DOMAIN la.lb[p].items, la.lb[p].items[i].auth = a
      PROVE  <<p, i>> = x
  <2>1. <<p, i>> \in {p} \X DOMAIN la.lb[p].items
    OBVIOUS
  <2>2. <<p, i>> \in Everywhere
    BY <2>1
  <2>3. <<p, i>> \in places
    BY <1>2, <2>2
  <2> HIDE DEF places
  <2> QED BY <1>1, <2>3
<1>3. PICK p \in DOMAIN la.lb : x \in {p} \X DOMAIN la.lb[p].items
  BY <1>1
<1>4. x[1] = p /\ x[2] \in DOMAIN la.lb[p].items /\ la.lb[p].items[x[2]].auth = a
  BY <1>1, <1>3
<1>5. \E q \in DOMAIN la.lb : Has(la.lb[q].items, a)
  BY <1>4 DEF Has
<1> HIDE DEF places, Everywhere
<1>6. ASSUME NEW q \in DOMAIN la.lb, NEW r \in DOMAIN la.lb, NEW i \in DOMAIN la.lb[q].items, NEW j \in DOMAIN la.lb[r].items,
             la.lb[q].items[i].auth = a, la.lb[r].items[j].auth = a
      PROVE  q = r /\ i = j
  <2>1. <<q, i>> = x /\ <<r, j>> = x
    BY <1>2, <1>6
  <2> QED BY <2>1
<1> QED BY <1>5, <1>6

(* Where the items are the same but for their health, an address occurs    *)
(* once or not in both.                                                    *)
LEMMA OnceInBoth ==
  ASSUME NEW l, NEW m, NEW a, NEW b, DOMAIN m.lb = DOMAIN l.lb,
         \A p \in DOMAIN l.lb : SameItems(l.lb[p].items, m.lb[p].items, b)
  PROVE  OccursOnce(m, a) <=> OccursOnce(l, a)
<1> DEFINE Everywhere(x) == UNION {{p} \X DOMAIN x.lb[p].items : p \in DOMAIN x.lb}
           Places(y) == {x \in Everywhere(y) : y.lb[x[1]].items[x[2]].auth = a}
<1>1. Everywhere(m) = Everywhere(l)
  <2>1. \A p \in DOMAIN l.lb : DOMAIN m.lb[p].items = DOMAIN l.lb[p].items
    BY DEF SameItems
  <2>2. {{p} \X DOMAIN m.lb[p].items : p \in DOMAIN m.lb} = {{p} \X DOMAIN l.lb[p].items : p \in DOMAIN l.lb}
    BY <2>1
  <2> QED BY <2>2
<1>2. ASSUME NEW x \in Everywhere(l)
      PROVE  m.lb[x[1]].items[x[2]].auth = l.lb[x[1]].items[x[2]].auth
  <2>1. PICK p \in DOMAIN l.lb : x \in {p} \X DOMAIN l.lb[p].items
    OBVIOUS
  <2>2. x[1] = p /\ x[2] \in DOMAIN l.lb[p].items
    BY <2>1
  <2> QED BY <2>2 DEF SameItems
<1>3. Places(m) = Places(l)
  <2> HIDE DEF Everywhere
  <2> QED BY <1>1, <1>2
<1> QED BY <1>3 DEF OccursOnce

LEMMA BalancerHealthKeeps ==
  ASSUME NEW la, LaFine(la), NEW a, NEW up \in BOOLEAN, NEW r, r = BalancerHealth(la, a, up)
  PROVE  LaFine(r) /\ SameBut(la, r, a) /\ r.over = la.over /\ ItemsSettled(r, a, up)
<1> DEFINE with == {k \in DOMAIN la.order : Has(la.lb[la.order[k]].items, a)}
           Ps == Priorities(la.cla)
<1>1. /\ la.lb \in [Ps -> Infos] /\ la.cla \in ClaConfigs /\ DOMAIN la.lb = Ps
      /\ la.order \in [1 .. Cardinality(Ps) -> Ps] /\ Range(la.order) = Ps /\ Cardinality(Ps) \in Nat
  BY ConfigsAre DEF LaFine, Orders
<1>2. CASE with = {}
  <2>1. r = la
    BY <1>2 DEF BalancerHealth
  <2>2. ~OccursOnce(la, a)
    <3> SUFFICES ASSUME OccursOnce(la, a) PROVE FALSE
      OBVIOUS
    <3>1. PICK p \in Ps : Has(la.lb[p].items, a)
      BY <1>1, OnceIs
    <3>2. PICK k \in DOMAIN la.order : la.order[k] = p
      BY <1>1, <3>1 DEF Range
    <3> QED BY <1>2, <3>1, <3>2
  <2> QED BY <2>1, <2>2 DEF SameBut, SameItems, ItemsSettled
<1>3. CASE with # {}
  <2> DEFINE k == CHOOSE x \in with : \A j \in with : x <= j
             first == la.order[k]
  <2>1. with \subseteq Nat
    BY <1>1
  <2>2. k \in with
    <3> HIDE DEF with
    <3>1. \E x \in with : \A j \in with : x <= j
      BY <1>3, <2>1, SmallestExists
    <3> QED BY <3>1
  <2>3. first \in Ps /\ Has(la.lb[first].items, a)
    <3> HIDE DEF k
    <3> QED BY <1>1, <2>2
  <2> DEFINE info == la.lb[first]
             q == PriorityHealth(info, a, up)
             lb == [la.lb EXCEPT ![first] = q]
  <2>4. r = [la EXCEPT !.lb = lb]
    BY <1>3 DEF BalancerHealth
  <2>5. r = [ cla |-> la.cla, policy |-> la.policy, tls |-> la.tls, lb |-> lb, lbTls |-> la.lbTls,
              order |-> la.order, over |-> la.over ]
    <3> HIDE DEF lb
    <3> QED BY <2>4 DEF LaFine
  <2> HIDE DEF first, with
  <2>6. info \in Infos /\ info.healthy = IsUp(info.items) /\ Has(info.items, a)
    BY <1>1, <2>3 DEF LaFine
  <2>7. /\ q \in Infos /\ q.healthy = IsUp(q.items)
        /\ SameItems(info.items, q.items, a) /\ q.items[Position(info.items, a)].up = up
    <3> HIDE DEF info, q
    <3> QED BY <2>6, PriorityHealthKeeps DEF q
  <2>8. lb \in [Ps -> Infos] /\ DOMAIN lb = Ps /\ lb[first] = q /\ \A p \in Ps : p # first => lb[p] = la.lb[p]
    <3> HIDE DEF q
    <3> QED BY <1>1, <2>3, <2>7
  <2> HIDE DEF q, lb
  <2>9. \A p \in Ps : SameItems(la.lb[p].items, lb[p].items, a)
    BY <2>7, <2>8 DEF SameItems
  <2>10. \A p \in Ps : lb[p].healthy = IsUp(lb[p].items)
    BY <2>7, <2>8 DEF LaFine
  <2>11. \A p \in Ps : \A i \in DOMAIN lb[p].items : lb[p].items[i].auth \in Auths(la.cla)
    BY <2>9 DEF LaFine, SameItems
  <2>12. /\ r.cla = la.cla /\ r.policy = la.policy /\ r.tls = la.tls /\ r.lb = lb /\ r.lbTls = la.lbTls
         /\ r.order = la.order /\ r.over = la.over
    BY <2>5
  <2>13. LaFine(r)
    BY <2>5, <2>8, <2>10, <2>11, <2>12 DEF LaFine
  <2>14. SameBut(la, r, a)
    BY <2>9, <2>12 DEF SameBut
  <2>15. ItemsSettled(r, a, up)
    <3> SUFFICES ASSUME OccursOnce(r, a), NEW p \in Ps, NEW i \in DOMAIN lb[p].items, lb[p].items[i].auth = a
                 PROVE  lb[p].items[i].up = up
      BY <2>8, <2>12 DEF ItemsSettled
    <3> DEFINE j == Position(info.items, a)
    <3>1. j \in DOMAIN info.items /\ info.items[j].auth = a
      <4>1. info.items \in Seq(Endpoints)
        BY <2>6 DEF Infos
      <4> QED BY <2>6, <4>1, PositionIs
    <3> HIDE DEF j
    <3>2. j \in DOMAIN lb[first].items /\ lb[first].items[j].auth = a
      BY <2>3, <2>9, <3>1 DEF SameItems
    <3>3. p = first /\ i = j
      <4>1. DOMAIN r.lb = Ps
        BY <2>8, <2>12
      <4>2. p \in DOMAIN r.lb /\ first \in DOMAIN r.lb /\ i \in DOMAIN r.lb[p].items /\ j \in DOMAIN r.lb[first].items
        BY <2>3, <2>12, <3>2, <4>1
      <4>3. r.lb[p].items[i].auth = a /\ r.lb[first].items[j].auth = a
        BY <2>12, <3>2
      <4> QED BY <4>2, <4>3, OnceIs
    <3> QED BY <2>7, <2>8, <3>3 DEF j
  <2> QED BY <2>12, <2>13, <2>14, <2>15
<1> QED BY <1>2, <1>3

LEMMA BalancerTypeHealthKeeps ==
  ASSUME NEW la, LaFine(la), NEW a, NEW up \in BOOLEAN, NEW r, r = BalancerTypeHealth(la, a, up)
  PROVE  LaFine(r) /\ SameBut(la, r, a) /\ Settled(r, a, up)
<1> DEFINE over == [la.over EXCEPT ![a] = up]
           m == IF a \in DOMAIN la.over THEN [la EXCEPT !.over = over] ELSE la
<1>1. r = BalancerHealth(m, a, up)
  BY DEF BalancerTypeHealth
<1>2. LaFine(m) /\ SameBut(la, m, a) /\ (a \in DOMAIN m.over => m.over[a] = up)
  <2>1. CASE a \notin DOMAIN la.over
    <3>1. m = la
      BY <2>1
    <3> QED BY <2>1, <3>1 DEF SameBut, SameItems
  <2>2. CASE a \in DOMAIN la.over
    <3>1. la.over \in [DOMAIN la.over -> BOOLEAN]
      BY DEF LaFine
    <3>2. /\ over \in [DOMAIN la.over -> BOOLEAN] /\ DOMAIN over = DOMAIN la.over /\ over[a] = up
          /\ \A b \in DOMAIN la.over : b # a => over[b] = la.over[b]
      BY <2>2, <3>1
    <3> HIDE DEF over
    <3>3. m = [la EXCEPT !.over = over]
      BY <2>2
    <3>4. m = [ cla |-> la.cla, policy |-> la.policy, tls |-> la.tls, lb |-> la.lb, lbTls |-> la.lbTls,
                order |-> la.order, over |-> over ]
      <4> HIDE DEF m
      <4> QED BY <3>3 DEF LaFine
    <3> HIDE DEF m
    <3>5. /\ m.cla = la.cla /\ m.policy = la.policy /\ m.tls = la.tls /\ m.lb = la.lb /\ m.lbTls = la.lbTls
          /\ m.order = la.order /\ m.over = over
      BY <3>4
    <3>6. LaFine(m)
      BY <3>2, <3>4, <3>5 DEF LaFine
    <3>7. SameBut(la, m, a)
      BY <3>2, <3>5 DEF SameBut, SameItems
    <3> QED BY <3>2, <3>5, <3>6, <3>7
  <2> QED BY <2>1, <2>2
<1> HIDE DEF m
<1>3. LaFine(r) /\ SameBut(m, r, a) /\ r.over = m.over /\ ItemsSettled(r, a, up)
  BY <1>1, <1>2, BalancerHealthKeeps
<1>4. SameBut(la, r, a)
  BY <1>2, <1>3 DEF SameBut, SameItems
<1> QED BY <1>2, <1>3, <1>4 DEF Settled

-----------------------------------------------------------------------------
(* The load assignments that reports about addresses lead to.              *)
Siblings(la) ==
    {m \in [ cla : {la.cla}, policy : {la.policy}, tls : {la.tls}, lb : [Priorities(la.cla) -> Infos],
             lbTls : {la.lbTls}, order : {la.order}, over : [DOMAIN la.over -> BOOLEAN] ] : LaFine(m)}

LEMMA SiblingIs ==
  ASSUME NEW la, NEW m, LaFine(m), NEW a, SameBut(la, m, a)
  PROVE  m \in Siblings(la)
<1>1. m = [ cla |-> la.cla, policy |-> la.policy, tls |-> la.tls, lb |-> m.lb, lbTls |-> la.lbTls,
            order |-> la.order, over |-> m.over ]
  BY DEF LaFine, SameBut
<1>2. m.lb \in [Priorities(la.cla) -> Infos] /\ m.over \in [DOMAIN la.over -> BOOLEAN]
  BY DEF LaFine, SameBut
<1> QED BY <1>1, <1>2 DEF Siblings

LEMMA SameButAgain ==
  ASSUME NEW l, NEW m, NEW r, NEW a, SameBut(l, m, a), SameBut(m, r, a)
  PROVE  SameBut(l, r, a)
BY DEF SameBut, SameItems

LEMMA UpdateKeeps ==
  ASSUME NEW la, LaFine(la), NEW a, NEW up \in BOOLEAN, NEW r, r = UpdateEndpointHealth(la, a, up),
         AllEndpoints(la.cla) \in Seq(Endpoints)
  PROVE  /\ LaFine(r) /\ SameBut(la, r, a)
         /\ a \in Auths(la.cla) => Settled(r, a, up)
<1> DEFINE all == AllEndpoints(la.cla)
           n == Len(all)
           V == Siblings(la)
           Once(k, x) == IF all[k].auth = a THEN BalancerTypeHealth(x, a, up) ELSE x
           F == [k \in 1 .. n |-> [x \in V |-> Once(k, x)]]
           Def(f) == f = [k \in 0 .. n |-> IF k = 0 THEN la ELSE IF all[k].auth = a THEN BalancerTypeHealth(f[k - 1], a, up) ELSE f[k - 1]]
           d == CHOOSE f : Def(f)
<1>1. r = d[n]
  BY DEF UpdateEndpointHealth
<1>2. n \in Nat /\ DOMAIN all = 1 .. n
  OBVIOUS
<1> HIDE DEF all, n
<1>3. SameBut(la, la, a)
  BY DEF SameBut, SameItems
<1>4. la \in V
  BY <1>3, SiblingIs
<1>5. ASSUME NEW k, NEW x \in V
      PROVE  Once(k, x) \in V /\ SameBut(x, Once(k, x), a) /\ LaFine(Once(k, x)) /\ (all[k].auth = a => Settled(Once(k, x), a, up))
  <2>1. LaFine(x)
    BY DEF Siblings
  <2>2. CASE all[k].auth = a
    <3> DEFINE y == BalancerTypeHealth(x, a, up)
    <3>1. Once(k, x) = y
      BY <2>2
    <3>2. LaFine(y) /\ SameBut(x, y, a) /\ Settled(y, a, up)
      BY <2>1, BalancerTypeHealthKeeps
    <3> HIDE DEF y, Once
    <3>3. y \in Siblings(x)
      BY <3>2, SiblingIs
    <3>4. /\ x.cla = la.cla /\ x.policy = la.policy /\ x.tls = la.tls /\ x.lbTls = la.lbTls
          /\ x.order = la.order /\ DOMAIN x.over = DOMAIN la.over
      BY DEF Siblings
    <3>5. y \in V
      BY <3>3, <3>4 DEF Siblings
    <3> QED BY <3>1, <3>2, <3>5
  <2>3. CASE all[k].auth # a
    <3>1. Once(k, x) = x
      BY <2>3
    <3>2. SameBut(x, x, a)
      BY DEF SameBut, SameItems
    <3> QED BY <2>1, <2>3, <3>1, <3>2
  <2> QED BY <2>2, <2>3
<1>6. F \in [1 .. n -> [V -> V]]
  <2> HIDE DEF V, Once
  <2> QED BY <1>5
<1>7. PICK g : Follows(g, V, la, n, F)
  <2> HIDE DEF V, F
  <2> QED BY <1>2, <1>4, <1>6, RecursionUpTo
<1>8. /\ g \in [0 .. n -> V] /\ g[0] = la
      /\ \A k \in 1 .. n : g[k - 1] \in V /\ g[k] = Once(k, g[k - 1])
  <2>1. g \in [0 .. n -> V] /\ g[0] = la /\ \A k \in 1 .. n : g[k] = F[k][g[k - 1]]
    BY <1>7 DEF Follows
  <2>2. \A k \in 1 .. n : k - 1 \in 0 .. n
    BY <1>2
  <2> HIDE DEF V, Once
  <2> QED BY <2>1, <2>2
<1> HIDE DEF V
<1>9. Def(g)
  <2>1. ASSUME NEW k \in 0 .. n
        PROVE  g[k] = IF k = 0 THEN la ELSE IF all[k].auth = a THEN BalancerTypeHealth(g[k - 1], a, up) ELSE g[k - 1]
    <3>1. CASE k = 0
      BY <1>8, <3>1
    <3>2. CASE k # 0
      <4>1. k \in 1 .. n
        BY <1>2, <3>2
      <4> QED BY <1>8, <3>2, <4>1
    <3> QED BY <3>1, <3>2
  <2> QED BY <1>8, <2>1
<1>10. Def(d)
  <2> HIDE DEF Def
  <2> QED BY <1>9
<1> HIDE DEF d
<1>11. /\ d[0] = la
       /\ \A k \in 1 .. n : d[k] = Once(k, d[k - 1])
  <2>1. \A k \in 0 .. n : d[k] = IF k = 0 THEN la ELSE IF all[k].auth = a THEN BalancerTypeHealth(d[k - 1], a, up) ELSE d[k - 1]
    BY <1>10
  <2>2. 0 \in 0 .. n /\ \A k \in 1 .. n : k \in 0 .. n /\ k # 0
    BY <1>2
  <2> QED BY <2>1, <2>2
<1> HIDE DEF Def, Once
<1> DEFINE Good(k) == d[k] \in V /\ SameBut(la, d[k], a) /\ LaFine(d[k])
                        /\ ((\E j \in 1 .. k : all[j].auth = a) => Settled(d[k], a, up))
           P == {k \in Nat : k <= n => Good(k)}
<1>12. 0 \in P
  <2>1. Good(0)
    BY <1>3, <1>4, <1>11
  <2> QED BY <2>1
<1>13. ASSUME NEW k \in Nat, k \in P PROVE k + 1 \in P
  <2> SUFFICES ASSUME k + 1 <= n PROVE Good(k + 1)
    OBVIOUS
  <2>1. k + 1 \in 1 .. n /\ (k + 1) - 1 = k /\ k <= n
    BY <1>2
  <2>2. Good(k)
    BY <1>13, <2>1
  <2>3. d[k + 1] = Once(k + 1, d[k])
    BY <1>11, <2>1
  <2> DEFINE e == k + 1
  <2>4. /\ d[e] \in V /\ SameBut(d[k], d[e], a) /\ LaFine(d[e])
        /\ all[e].auth = a => Settled(d[e], a, up)
    BY <1>5, <2>2, <2>3
  <2>5. SameBut(la, d[e], a)
    BY <2>2, <2>4, SameButAgain
  <2>6. ASSUME NEW j \in 1 .. e, all[j].auth = a PROVE Settled(d[e], a, up)
    <3>1. CASE all[e].auth = a
      BY <2>4, <3>1
    <3>2. CASE all[e].auth # a
      <4>1. j \in 1 .. k
        BY <2>6, <3>2
      <4>2. d[e] = d[k]
        BY <2>3, <3>2 DEF Once
      <4> QED BY <2>2, <2>6, <4>1, <4>2
    <3> QED BY <3>1, <3>2
  <2> QED BY <2>4, <2>5, <2>6
<1>14. \A k \in Nat : k \in P
  <2> HIDE DEF P
  <2> QED BY <1>12, <1>13, NatSetInduction
<1>15. Good(n)
  BY <1>2, <1>14
<1>16. ASSUME a \in Auths(la.cla) PROVE Settled(r, a, up)
  <2>1. \E j \in 1 .. n : all[j].auth = a
    BY <1>2, <1>16 DEF Auths, all
  <2> QED BY <1>1, <1>15, <2>1
<1> QED BY <1>1, <1>15, <1>16

-----------------------------------------------------------------------------
LEMMA EndpointsAre ==
  ASSUME NEW cla \in ClaConfigs
  PROVE  /\ AllEndpoints(cla) \in Seq(Endpoints)
         /\ \A p : /\ EndpointsOf(cla, p) \in Seq(Endpoints)
                   /\ \A i \in DOMAIN EndpointsOf(cla, p) : EndpointsOf(cla, p)[i].auth \in Auths(cla)
<1> DEFINE ss == [i \in DOMAIN cla |-> cla[i].eps]
           Only(p) == [i \in DOMAIN cla |-> IF cla[i].prio = p THEN cla[i].eps ELSE <<>>]
           n == Len(cla)
<1>1. n \in Nat /\ DOMAIN cla = 1 .. n /\ \A i \in 1 .. n : cla[i].eps \in Seq(Endpoints)
  BY ConfigsAre
<1>2. <<>> \in Seq(Endpoints)
  OBVIOUS
<1>3. ss \in Seq(Seq(Endpoints)) /\ Len(ss) = n
  <2>1. ss \in [1 .. n -> Seq(Endpoints)]
    BY <1>1
  <2> HIDE DEF ss
  <2> QED BY <1>1, <2>1, SeqDef
<1>4. ASSUME NEW p
      PROVE  /\ EndpointsOf(cla, p) \in Seq(Endpoints)
             /\ \A i \in DOMAIN EndpointsOf(cla, p) : EndpointsOf(cla, p)[i].auth \in Auths(cla)
  <2>1. Only(p) \in Seq(Seq(Endpoints)) /\ Len(Only(p)) = n
    <3>1. Only(p) \in [1 .. n -> Seq(Endpoints)]
      BY <1>1, <1>2
    <3> HIDE DEF Only
    <3> QED BY <1>1, <3>1, SeqDef
  <2>2. EndpointsOf(cla, p) = FlattenSeq(Only(p))
    BY DEF EndpointsOf
  <2>3. FlattenSeq(Only(p)) \in Seq(Endpoints)
    <3> HIDE DEF Only
    <3> QED BY <2>1, FlattenType
  <2>4. ASSUME NEW i \in DOMAIN FlattenSeq(Only(p)) PROVE FlattenSeq(Only(p))[i].auth \in Auths(cla)
    <3> DEFINE x == FlattenSeq(Only(p))[i]
    <3>1. \E k \in DOMAIN FlattenSeq(Only(p)) : FlattenSeq(Only(p))[k] = x
      OBVIOUS
    <3> HIDE DEF x
    <3>2. \E j \in 1 .. n : \E k \in DOMAIN Only(p)[j] : Only(p)[j][k] = x
      <4> HIDE DEF Only
      <4> QED BY <2>1, <3>1, FlattenMembers
    <3>3. \E j \in 1 .. Len(ss) : \E k \in DOMAIN ss[j] : ss[j][k] = x
      <4>1. PICK j \in 1 .. n : \E k \in DOMAIN Only(p)[j] : Only(p)[j][k] = x
        BY <3>2
      <4>2. PICK k \in DOMAIN Only(p)[j] : Only(p)[j][k] = x
        BY <4>1
      <4>3. cla[j].prio = p
        <5> SUFFICES ASSUME cla[j].prio # p PROVE FALSE
          OBVIOUS
        <5>1. Only(p)[j] = <<>>
          BY <1>1
        <5> QED BY <4>2, <5>1
      <4>4. Only(p)[j] = cla[j].eps /\ ss[j] = cla[j].eps
        BY <1>1, <4>3
      <4> QED BY <1>3, <4>2, <4>4
    <3>4. \E k \in DOMAIN FlattenSeq(ss) : FlattenSeq(ss)[k] = x
      <4> HIDE DEF ss
      <4> QED BY <1>3, <3>3, FlattenMembers
    <3>5. AllEndpoints(cla) = FlattenSeq(ss)
      BY DEF AllEndpoints
    <3>6. PICK k \in DOMAIN AllEndpoints(cla) : AllEndpoints(cla)[k] = x
      <4> HIDE DEF ss
      <4> QED BY <3>4, <3>5
    <3>7. x.auth \in Auths(cla)
      BY <3>6 DEF Auths
    <3> QED BY <3>7 DEF x
  <2> HIDE DEF Only
  <2> QED BY <2>2, <2>3, <2>4
<1>5. AllEndpoints(cla) \in Seq(Endpoints)
  <2>1. AllEndpoints(cla) = FlattenSeq(ss)
    BY DEF AllEndpoints
  <2> HIDE DEF ss
  <2> QED BY <1>3, <2>1, FlattenType
<1> QED BY <1>4, <1>5

LEMMA BuiltIsFine ==
  ASSUME NEW cla \in ClaConfigs, NEW policy, NEW tls, NEW o \in Orders(cla)
  PROVE  LaFine(Built(cla, policy, tls, o))
<1> DEFINE la == Built(cla, policy, tls, o)
           lb == FromSlice(cla)
           over == IF policy = "override" THEN OverrideHealth(cla) ELSE <<>>
<1>1. la = [ cla |-> cla, policy |-> policy, tls |-> tls, lb |-> lb, lbTls |-> tls, order |-> o, over |-> over ]
  BY DEF Built
<1>2. ASSUME NEW p \in Priorities(cla)
      PROVE  /\ lb[p] \in Infos /\ lb[p].healthy = IsUp(lb[p].items)
             /\ \A i \in DOMAIN lb[p].items : lb[p].items[i].auth \in Auths(cla)
  <2> DEFINE s == EndpointsOf(cla, p)
  <2>1. lb[p] = [items |-> s, healthy |-> IsUp(s)]
    BY DEF FromSlice
  <2>2. s \in Seq(Endpoints) /\ \A i \in DOMAIN s : s[i].auth \in Auths(cla)
    BY EndpointsAre
  <2> HIDE DEF s, lb
  <2>3. IsUp(s) \in Nat
    <3> DEFINE U == {i \in DOMAIN s : s[i].up}
    <3>1. DOMAIN s = 1 .. Len(s) /\ 1 \in Int /\ Len(s) \in Int
      BY <2>2
    <3>2. IsFiniteSet(DOMAIN s) /\ U \in SUBSET (DOMAIN s)
      BY <3>1, FS_Interval
    <3> HIDE DEF U
    <3>3. Cardinality(U) \in Nat
      BY <3>2, FS_Subset, FS_CardinalityType
    <3> QED BY <3>3 DEF U, IsUp
  <2>4. lb[p].items = s /\ lb[p].healthy = IsUp(s)
    BY <2>1
  <2> QED BY <2>1, <2>2, <2>3, <2>4 DEF Infos
<1>3. lb = [p \in Priorities(cla) |-> lb[p]]
  BY DEF FromSlice
<1>4. lb \in [Priorities(cla) -> Infos]
  <2> HIDE DEF lb
  <2> QED BY <1>2, <1>3
<1>5. over \in [DOMAIN over -> BOOLEAN]
  <2>1. CASE policy = "override"
    <3> DEFINE all == AllEndpoints(cla)
               A == {all[i].auth : i \in DOMAIN all}
               PlaceOf(a) == CHOOSE i \in DOMAIN all : /\ all[i].auth = a
                                                  /\ \A j \in DOMAIN all : all[j].auth = a => j <= i
    <3>1. OverrideHealth(cla) = [a \in A |-> all[PlaceOf(a)].up]
      BY DEF OverrideHealth
    <3>2. all \in Seq(Endpoints)
      BY EndpointsAre
    <3> HIDE DEF all
    <3>3. ASSUME NEW a \in A PROVE PlaceOf(a) \in DOMAIN all
      <4> DEFINE S == {i \in DOMAIN all : all[i].auth = a}
                 T == {Len(all) - i : i \in S}
      <4>1. T \subseteq Nat /\ T # {} /\ Len(all) \in Nat
        BY <3>2, <3>3
      <4>2. PICK t \in T : \A y \in T : t <= y
        <5> HIDE DEF T
        <5> QED BY <4>1, SmallestExists
      <4>3. PICK i \in S : t = Len(all) - i
        BY <4>2
      <4>4. ASSUME NEW j \in DOMAIN all, all[j].auth = a PROVE j <= i
        <5>1. Len(all) - j \in T
          BY <4>4
        <5>2. t <= Len(all) - j
          BY <4>2, <5>1
        <5>3. i \in Nat /\ j \in Nat
          BY <3>2
        <5> QED BY <4>1, <4>3, <5>2, <5>3
      <4>5. \E k \in DOMAIN all : all[k].auth = a /\ \A j \in DOMAIN all : all[j].auth = a => j <= k
        BY <4>4
      <4> QED BY <4>5
    <3>4. \A i \in DOMAIN all : all[i].up \in BOOLEAN
      <4>1. \A i \in DOMAIN all : all[i] \in Endpoints
        BY <3>2
      <4>2. \A x \in Endpoints : x.up \in BOOLEAN
        BY DEF Endpoints
      <4> QED BY <4>1, <4>2
    <3>5. \A a \in A : all[PlaceOf(a)].up \in BOOLEAN
      <4> HIDE DEF A, PlaceOf
      <4> QED BY <3>3, <3>4
    <3> HIDE DEF A, PlaceOf
    <3>6. OverrideHealth(cla) \in [A -> BOOLEAN]
      BY <3>1, <3>5
    <3> QED BY <2>1, <3>6
  <2>2. CASE policy # "override"
    BY <2>2
  <2> QED BY <2>1, <2>2
<1> HIDE DEF lb, over, la
<1>6. la.cla = cla /\ la.policy = policy /\ la.tls = tls /\ la.lb = lb /\ la.lbTls = tls /\ la.order = o /\ la.over = over
  BY <1>1
<1>7. LaFine(la)
  BY <1>1, <1>2, <1>4, <1>5, <1>6 DEF LaFine
<1> QED BY <1>7 DEF la

-----------------------------------------------------------------------------
(* The balancer serves the address, or the override map does.              *)
Serves(la, a) ==
    \E p \in DOMAIN la.lb : \E i \in DOMAIN la.lb[p].items : la.lb[p].items[i] = [auth |-> a, up |-> TRUE]

Withheld(la, a) ==
    OccursOnce(la, a) => ~Serves(la, a) /\ (a \in DOMAIN la.over => ~la.over[a])

(* A cluster of the map, to which t was told.                              *)
ClusterFine(c, t) ==
    /\ t \in [Authorities -> {"configured", "up", "down"}]
    /\ \/ c = [kind |-> "none"]
       \/ c = [kind |-> "on_demand", tls |-> c.tls, cached |-> c.cached]
       \/ /\ c.kind \in {"static", "dynamic"}
          /\ c = [kind |-> c.kind, tls |-> c.tls, la |-> c.la]
          /\ c.la # NoCluster =>
               LaFine(c.la) /\ \A a \in Authorities : t[a] = "down" => Withheld(c.la, a)

ClustersInv ==
    /\ cmap = [n \in Names |-> cmap[n]] /\ told = [n \in Names |-> told[n]]
    /\ \A n \in Names : ClusterFine(cmap[n], told[n])

LEMMA ClustersInitInv == ClustersInit => ClustersInv
BY DEF ClustersInit, ClustersInv, ClusterFine

LEMMA ClustersInvImplies == ClustersInv => HealthIsServed
<1> SUFFICES ASSUME ClustersInv, NEW n \in Names, HasAssignment(n)
             PROVE  /\ \A p \in DOMAIN cmap[n].la.lb : cmap[n].la.lb[p].healthy = IsUp(cmap[n].la.lb[p].items)
                    /\ \A a \in Authorities :
                         told[n][a] = "down" /\ OccursOnce(cmap[n].la, a) =>
                            /\ ~NextItem(n, a)
                            /\ a \in DOMAIN cmap[n].la.over => ~cmap[n].la.over[a]
  BY DEF HealthIsServed, HealthyCountsAgree, DownIsNotServed
<1>1. LaFine(cmap[n].la) /\ \A a \in Authorities : told[n][a] = "down" => Withheld(cmap[n].la, a)
  <2>1. ClusterFine(cmap[n], told[n])
    BY DEF ClustersInv
  <2> QED BY <2>1 DEF ClusterFine, HasAssignment
<1>2. \A p \in DOMAIN cmap[n].la.lb : cmap[n].la.lb[p].healthy = IsUp(cmap[n].la.lb[p].items)
  BY <1>1 DEF LaFine
<1> QED BY <1>1, <1>2, Zenon DEF Withheld, Serves, NextItem

(* Singles cluster changes.                                                    *)
LEMMA OneCluster ==
  ASSUME ClustersInv, NEW n \in Names, NEW c, NEW t, cmap' = [cmap EXCEPT ![n] = c],
         told' = [told EXCEPT ![n] = t], ClusterFine(c, t)
  PROVE  ClustersInv'
<1>1. cmap' = [m \in Names |-> IF m = n THEN c ELSE cmap[m]] /\ told' = [m \in Names |-> IF m = n THEN t ELSE told[m]]
  BY DEF ClustersInv
<1>2. ASSUME NEW m \in Names PROVE ClusterFine(cmap'[m], told'[m])
  BY <1>1 DEF ClustersInv
<1> QED BY <1>1, <1>2 DEF ClustersInv

Configured == [a \in Authorities |-> "configured"]

LEMMA ConfiguredIsFine ==
  ASSUME NEW c,
         \/ c = [kind |-> "none"]
         \/ c = [kind |-> "on_demand", tls |-> c.tls, cached |-> c.cached]
         \/ /\ c.kind \in {"static", "dynamic"}
            /\ c = [kind |-> c.kind, tls |-> c.tls, la |-> c.la]
            /\ c.la # NoCluster => LaFine(c.la)
  PROVE  ClusterFine(c, Configured)
BY DEF ClusterFine, Configured

LEMMA AssignmentsAreFine ==
  ASSUME NEW v, NEW la \in Assignments(v)
  PROVE  LaFine(la)
<1>1. PICK cla \in ClaConfigs : la \in {Built(cla, policy, v, o) : policy \in {"standard", "override"}, o \in Orders(cla)}
  BY DEF Assignments
<1>2. PICK policy \in {"standard", "override"}, o \in Orders(cla) : la = Built(cla, policy, v, o)
  BY <1>1
<1> QED BY <1>2, BuiltIsFine

(* AddCluster, RemoveCluster, ChangeLoadAssignment.                        *)
LEMMA StepReplace ==
  ASSUME ClustersInv, NEW n \in Names, AddCluster(n) \/ RemoveCluster(n) \/ ChangeLoadAssignment(n)
  PROVE  ClustersInv'
<1>0. told' = [told EXCEPT ![n] = Configured]
  BY DEF AddCluster, RemoveCluster, ChangeLoadAssignment, Untold, Configured
<1>1. CASE AddCluster(n)
  <2>1. PICK c \in NewClusters(secret) : cmap' = [cmap EXCEPT ![n] = c]
    BY <1>1 DEF AddCluster
  <2>2. ClusterFine(c, Configured)
    <3>1. CASE c \in {[kind |-> "static", tls |-> secret, la |-> la] : la \in Assignments(secret)}
      <4>1. PICK la \in Assignments(secret) : c = [kind |-> "static", tls |-> secret, la |-> la]
        BY <3>1
      <4>2. LaFine(la) /\ c.la = la /\ c.kind = "static" /\ c.tls = secret
        BY <4>1, AssignmentsAreFine
      <4> QED BY <4>1, <4>2, ConfiguredIsFine
    <3>2. CASE c = [kind |-> "dynamic", tls |-> secret, la |-> NoCluster]
      <4>1. c.la = NoCluster /\ c.kind = "dynamic" /\ c.tls = secret
        BY <3>2
      <4> QED BY <3>2, <4>1, ConfiguredIsFine
    <3>3. CASE c = [kind |-> "on_demand", tls |-> secret, cached |-> {}]
      <4>1. c.cached = {} /\ c.tls = secret
        BY <3>3
      <4> QED BY <3>3, <4>1, ConfiguredIsFine
    <3> QED BY <3>1, <3>2, <3>3 DEF NewClusters
  <2> QED BY <1>0, <2>1, <2>2, OneCluster
<1>2. CASE RemoveCluster(n)
  <2> DEFINE c == [kind |-> "none"]
  <2>1. cmap' = [cmap EXCEPT ![n] = c]
    BY <1>2 DEF RemoveCluster
  <2>2. ClusterFine(c, Configured)
    BY ConfiguredIsFine
  <2> HIDE DEF c
  <2> QED BY <1>0, <2>1, <2>2, OneCluster
<1>3. CASE ChangeLoadAssignment(n)
  <2>1. PICK la \in Assignments(cmap[n].tls) \cup {NoCluster} : cmap' = [cmap EXCEPT ![n].la = la]
    BY <1>3 DEF ChangeLoadAssignment
  <2> DEFINE c == [kind |-> "dynamic", tls |-> cmap[n].tls, la |-> la]
  <2>2. cmap[n] = [kind |-> "dynamic", tls |-> cmap[n].tls, la |-> cmap[n].la]
    <3>1. ClusterFine(cmap[n], told[n]) /\ cmap[n].kind = "dynamic"
      BY <1>3 DEF ClustersInv, ChangeLoadAssignment
    <3> QED BY <3>1 DEF ClusterFine
  <2>3. cmap' = [cmap EXCEPT ![n] = c]
    <3>1. [cmap[n] EXCEPT !.la = la] = c
      BY <2>2
    <3> HIDE DEF c
    <3> QED BY <2>1, <3>1
  <2>4. c.kind = "dynamic" /\ c.tls = cmap[n].tls /\ c.la = la
    OBVIOUS
  <2>5. la # NoCluster => LaFine(la)
    BY AssignmentsAreFine
  <2>6. c = [kind |-> c.kind, tls |-> c.tls, la |-> c.la]
    OBVIOUS
  <2> HIDE DEF c
  <2>7. ClusterFine(c, Configured)
    BY <2>4, <2>5, <2>6, ConfiguredIsFine
  <2> QED BY <1>0, <2>3, <2>7, OneCluster
<1> QED BY <1>1, <1>2, <1>3

(* What was withheld stays so when another address is reported, and what   *)
(* is reported down is withheld.                                           *)
LEMMA WithheldAfter ==
  ASSUME NEW la, NEW r, LaFine(la), LaFine(r), NEW a, NEW b, SameBut(la, r, a), b # a, Withheld(la, b)
  PROVE  Withheld(r, b)
<1> SUFFICES ASSUME OccursOnce(r, b) PROVE ~Serves(r, b) /\ (b \in DOMAIN r.over => ~r.over[b])
  BY DEF Withheld
<1>1. DOMAIN r.lb = DOMAIN la.lb /\ DOMAIN la.lb = Priorities(la.cla)
  BY DEF LaFine, SameBut
<1>2. \A p \in DOMAIN la.lb : SameItems(la.lb[p].items, r.lb[p].items, a)
  BY <1>1 DEF SameBut
<1>3. OccursOnce(la, b)
  BY <1>1, <1>2, OnceInBoth
<1>4. ~Serves(la, b) /\ (b \in DOMAIN la.over => ~la.over[b])
  BY <1>3 DEF Withheld
<1>5. ~Serves(r, b)
  <2> DEFINE yes == TRUE
             e == [auth |-> b, up |-> yes]
  <2>0. e.auth = b
    <3> HIDE DEF yes
    <3> QED OBVIOUS
  <2> HIDE DEF e
  <2> SUFFICES ASSUME NEW p \in DOMAIN r.lb, NEW i \in DOMAIN r.lb[p].items, r.lb[p].items[i] = e PROVE FALSE
    BY Zenon DEF Serves, e
  <2>1. r.lb[p].items[i].auth = b
    BY <2>0
  <2>2. i \in DOMAIN la.lb[p].items /\ la.lb[p].items[i].auth = b /\ la.lb[p].items[i] = r.lb[p].items[i]
    BY <1>1, <1>2, <2>1 DEF SameItems
  <2>3. p \in DOMAIN la.lb /\ la.lb[p].items[i] = e
    BY <1>1, <2>2
  <2>4. Serves(la, b)
    BY <2>2, <2>3, Zenon DEF Serves, e
  <2> QED BY <1>4, <2>4
<1>6. b \in DOMAIN r.over => ~r.over[b]
  BY <1>4 DEF SameBut
<1> QED BY <1>5, <1>6

LEMMA WithheldWhenDown ==
  ASSUME NEW la, NEW r, LaFine(la), LaFine(r), NEW a, SameBut(la, r, a), a \in Auths(la.cla) => Settled(r, a, FALSE)
  PROVE  Withheld(r, a)
<1> SUFFICES ASSUME OccursOnce(r, a) PROVE ~Serves(r, a) /\ (a \in DOMAIN r.over => ~r.over[a])
  BY DEF Withheld
<1>1. PICK p \in DOMAIN r.lb : Has(r.lb[p].items, a)
  BY OnceIs
<1>2. PICK i \in DOMAIN r.lb[p].items : r.lb[p].items[i].auth = a
  BY <1>1 DEF Has
<1>3. a \in Auths(la.cla)
  <2>1. r.cla = la.cla /\ p \in Priorities(r.cla)
    BY <1>1 DEF SameBut, LaFine
  <2> QED BY <1>2, <2>1 DEF LaFine
<1>4. Settled(r, a, FALSE)
  BY <1>3
<1>5. a \in DOMAIN r.over => r.over[a] = FALSE
  BY <1>4 DEF Settled
<1>6. ~Serves(r, a)
  <2> SUFFICES ASSUME NEW q \in DOMAIN r.lb, NEW j \in DOMAIN r.lb[q].items, r.lb[q].items[j] = [auth |-> a, up |-> TRUE] PROVE FALSE
    BY Zenon DEF Serves
  <2>1. r.lb[q].items[j].auth = a /\ r.lb[q].items[j].up = TRUE
    BY SMT
  <2>2. r.lb[q].items[j].up = FALSE
    BY <1>4, <2>1 DEF Settled, ItemsSettled
  <2> QED BY <2>1, <2>2
<1> QED BY <1>5, <1>6

LEMMA StepReport ==
  ASSUME ClustersInv, NEW n \in Names, NEW a \in Authorities, NEW up \in BOOLEAN, ReportHealth(n, a, up)
  PROVE  ClustersInv'
<1> DEFINE la == cmap[n].la
           r == UpdateEndpointHealth(la, a, up)
           c == [kind |-> cmap[n].kind, tls |-> cmap[n].tls, la |-> r]
           t == [told[n] EXCEPT ![a] = IF up THEN "up" ELSE "down"]
<1>1. cmap' = [cmap EXCEPT ![n].la = r] /\ told' = [told EXCEPT ![n] = t]
  BY DEF ReportHealth, ClustersInv
<1>2. /\ cmap[n].kind \in {"static", "dynamic"} /\ cmap[n] = [kind |-> cmap[n].kind, tls |-> cmap[n].tls, la |-> la]
      /\ LaFine(la) /\ told[n] \in [Authorities -> {"configured", "up", "down"}]
      /\ \A b \in Authorities : told[n][b] = "down" => Withheld(la, b)
  <2>1. ClusterFine(cmap[n], told[n]) /\ HasAssignment(n)
    BY DEF ClustersInv, ReportHealth
  <2> QED BY <2>1 DEF ClusterFine, HasAssignment
<1>3. /\ LaFine(r) /\ SameBut(la, r, a)
      /\ a \in Auths(la.cla) => Settled(r, a, up)
  <2>1. AllEndpoints(la.cla) \in Seq(Endpoints)
    BY <1>2, EndpointsAre DEF LaFine
  <2> HIDE DEF la
  <2> QED BY <1>2, <2>1, UpdateKeeps
<1> HIDE DEF r
<1>4. cmap' = [cmap EXCEPT ![n] = c]
  <2>1. [cmap[n] EXCEPT !.la = r] = c
    BY <1>2
  <2> HIDE DEF c
  <2> QED BY <1>1, <2>1
<1>5. t \in [Authorities -> {"configured", "up", "down"}]
  BY <1>2
<1>6. ASSUME NEW b \in Authorities, t[b] = "down" PROVE Withheld(r, b)
  <2>1. CASE b = a
    <3>1. up = FALSE
      BY <1>2, <1>6, <2>1
    <3> QED BY <1>2, <1>3, <2>1, <3>1, WithheldWhenDown
  <2>2. CASE b # a
    <3>1. told[n][b] = "down"
      BY <1>2, <1>6, <2>2
    <3> HIDE DEF la, t
    <3> QED BY <1>2, <1>3, <2>2, <3>1, WithheldAfter
  <2> QED BY <2>1, <2>2
<1> HIDE DEF t
<1>7. c.kind = cmap[n].kind /\ c.tls = cmap[n].tls /\ c.la = r /\ c = [kind |-> c.kind, tls |-> c.tls, la |-> c.la]
  OBVIOUS
<1> HIDE DEF c
<1>8. ClusterFine(c, t)
  BY <1>2, <1>3, <1>5, <1>6, <1>7 DEF ClusterFine
<1> QED BY <1>1, <1>4, <1>8, OneCluster

(* A new secret leaves the health as it is.                                *)
LEMMA TlsKeeps ==
  ASSUME NEW c, NEW t, NEW v, NEW fails, ClusterFine(c, t), NEW s, NEW d, d = ChangeTlsContext(c, v, fails),
         s = Configured \/ s = t
  PROVE  ClusterFine(d, s)
<1>0. Configured \in [Authorities -> {"configured", "up", "down"}] /\ \A a \in Authorities : Configured[a] # "down"
  BY DEF Configured
<1>1. s \in [Authorities -> {"configured", "up", "down"}] /\ \A a \in Authorities : s[a] = "down" => t[a] = "down"
  BY <1>0 DEF ClusterFine
<1>2. CASE c = [kind |-> "none"]
  BY <1>1, <1>2 DEF ClusterFine, ChangeTlsContext
<1>3. CASE c = [kind |-> "on_demand", tls |-> c.tls, cached |-> c.cached]
  <2>1. c.kind = "on_demand"
    BY <1>3
  <2>2. d = c \/ d = [c EXCEPT !.tls = v]
    BY <2>1 DEF ChangeTlsContext
  <2>3. d = c \/ d = [kind |-> "on_demand", tls |-> v, cached |-> c.cached]
    BY <1>3, <2>2
  <2>4. d = [kind |-> "on_demand", tls |-> d.tls, cached |-> d.cached]
    BY <1>3, <2>3
  <2> QED BY <1>1, <2>4 DEF ClusterFine
<1>4. CASE c.kind \in {"static", "dynamic"} /\ c = [kind |-> c.kind, tls |-> c.tls, la |-> c.la]
  <2>0. c.la # NoCluster => LaFine(c.la) /\ \A a \in Authorities : t[a] = "down" => Withheld(c.la, a)
    BY <1>4 DEF ClusterFine
  <2>1. ASSUME NEW la, d = [kind |-> c.kind, tls |-> v, la |-> la],
               la # NoCluster => LaFine(la) /\ \A a \in Authorities : t[a] = "down" => Withheld(la, a)
        PROVE  ClusterFine(d, s)
    <3>1. d.kind = c.kind /\ d.tls = v /\ d.la = la /\ d = [kind |-> d.kind, tls |-> d.tls, la |-> d.la]
      BY <2>1
    <3> QED BY <1>1, <1>4, <2>1, <3>1 DEF ClusterFine
  <2>2. CASE c.la = NoCluster
    <3>1. d = [c EXCEPT !.tls = v]
      BY <1>4, <2>2 DEF ChangeTlsContext
    <3>2. d = [kind |-> c.kind, tls |-> v, la |-> c.la]
      BY <1>4, <3>1
    <3> QED BY <2>1, <2>2, <3>2
  <2>3. CASE c.la # NoCluster /\ fails
    <3> DEFINE la == IF c.kind = "static" THEN c.la ELSE NoCluster
    <3>1. d = [c EXCEPT !.tls = v, !.la = la]
      BY <1>4, <2>3 DEF ChangeTlsContext
    <3>2. d = [kind |-> c.kind, tls |-> v, la |-> la]
      BY <1>4, <3>1
    <3>3. la # NoCluster => la = c.la
      OBVIOUS
    <3> HIDE DEF la
    <3> QED BY <2>0, <2>1, <3>2, <3>3
  <2>4. CASE c.la # NoCluster /\ ~fails
    <3> DEFINE l == c.la
               la == [ cla |-> l.cla, policy |-> l.policy, tls |-> v, lb |-> l.lb, lbTls |-> l.lbTls,
                       order |-> l.order, over |-> l.over ]
    <3>1. RebuiltCluster(l, v) = la
      BY <2>0, <2>4 DEF RebuiltCluster, LaFine
    <3>2. /\ la.cla = l.cla /\ la.policy = l.policy /\ la.tls = v /\ la.lb = l.lb /\ la.lbTls = l.lbTls
          /\ la.order = l.order /\ la.over = l.over
      OBVIOUS
    <3>3. la = [ cla |-> la.cla, policy |-> la.policy, tls |-> la.tls, lb |-> la.lb, lbTls |-> la.lbTls,
                 order |-> la.order, over |-> la.over ]
      OBVIOUS
    <3> HIDE DEF la
    <3>4. LaFine(la)
      BY <2>0, <2>4, <3>2, <3>3 DEF LaFine
    <3>5. \A a : Withheld(la, a) <=> Withheld(l, a)
      <4>1. ASSUME NEW a PROVE OccursOnce(la, a) <=> OccursOnce(l, a)
        BY <3>2, OnceInBoth DEF SameItems
      <4>2. ASSUME NEW a PROVE Serves(la, a) <=> Serves(l, a)
        <5> DEFINE ServesIn(lb) == \E p \in DOMAIN lb : \E i \in DOMAIN lb[p].items : lb[p].items[i] = [auth |-> a, up |-> TRUE]
        <5>1. Serves(la, a) = ServesIn(la.lb) /\ Serves(l, a) = ServesIn(l.lb)
          BY Zenon DEF Serves
        <5> HIDE DEF ServesIn
        <5> QED BY <3>2, <5>1
      <4> HIDE DEF l
      <4> QED BY <3>2, <4>1, <4>2 DEF Withheld
    <3>6. d = [c EXCEPT !.tls = v, !.la = RebuiltCluster(l, v)]
      BY <1>4, <2>4 DEF ChangeTlsContext
    <3>7. d = [kind |-> c.kind, tls |-> v, la |-> la]
      BY <1>4, <3>1, <3>6
    <3> QED BY <2>0, <2>1, <2>4, <3>4, <3>5, <3>7
  <2> QED BY <2>2, <2>3, <2>4
<1> QED BY <1>2, <1>3, <1>4 DEF ClusterFine

LEMMA StepUpdateTlsContext == ClustersInv /\ UpdateTlsContext => ClustersInv'
<1> SUFFICES ASSUME ClustersInv, UpdateTlsContext PROVE ClustersInv'
  OBVIOUS
<1> DEFINE PlaceOf(n) == CHOOSE j \in DOMAIN ClusterNames : ClusterNames[j] = n
<1>1. PICK stop \in 1 .. Len(ClusterNames) + 1 :
        /\ cmap' = [n \in Names |-> IF PlaceOf(n) > stop THEN cmap[n]
                                    ELSE ChangeTlsContext(cmap[n], secret + 1, PlaceOf(n) = stop)]
        /\ told' = [n \in Names |-> IF HasAssignment(n) /\ cmap'[n].la = NoCluster
                                    THEN [a \in Authorities |-> "configured"] ELSE told[n]]
  BY DEF UpdateTlsContext
<1> HIDE DEF PlaceOf
<1>2. ASSUME NEW n \in Names PROVE ClusterFine(cmap'[n], told'[n])
  <2>1. ClusterFine(cmap[n], told[n])
    BY DEF ClustersInv
  <2>2. told'[n] = Configured \/ told'[n] = told[n]
    BY <1>1 DEF Configured
  <2>3. CASE PlaceOf(n) > stop
    <3>1. cmap'[n] = cmap[n]
      BY <1>1, <2>3
    <3>2. told'[n] = told[n]
      BY <1>1, <3>1 DEF HasAssignment
    <3> QED BY <2>1, <3>1, <3>2
  <2>4. CASE ~(PlaceOf(n) > stop)
    <3>1. cmap'[n] = ChangeTlsContext(cmap[n], secret + 1, PlaceOf(n) = stop)
      BY <1>1, <2>4
    <3> DEFINE d == cmap'[n]
               s == told'[n]
    <3> HIDE DEF d, s
    <3>2. d = ChangeTlsContext(cmap[n], secret + 1, PlaceOf(n) = stop) /\ (s = Configured \/ s = told[n])
      BY <2>2, <3>1 DEF d, s
    <3>3. ClusterFine(d, s)
      BY <2>1, <3>2, TlsKeeps
    <3> QED BY <3>3 DEF d, s
  <2> QED BY <2>3, <2>4
<1>3. cmap' = [n \in Names |-> cmap'[n]] /\ told' = [n \in Names |-> told'[n]]
  BY <1>1
<1> QED BY <1>2, <1>3 DEF ClustersInv

LEMMA StepOriginalDst ==
  ASSUME ClustersInv, NEW n \in Names, GetOriginalDst(n) \/ EvictOriginalDst(n)
  PROVE  ClustersInv'
<1>1. told' = told
  BY DEF GetOriginalDst, EvictOriginalDst
<1>2. CASE cmap' = cmap
  BY <1>1, <1>2 DEF ClustersInv
<1>3. ASSUME NEW new, cmap' = [cmap EXCEPT ![n].cached = new], cmap[n].kind = "on_demand" PROVE ClustersInv'
  <2>1. ClusterFine(cmap[n], told[n])
    BY DEF ClustersInv
  <2>2. cmap[n] = [kind |-> "on_demand", tls |-> cmap[n].tls, cached |-> cmap[n].cached]
    BY <1>3, <2>1 DEF ClusterFine
  <2> DEFINE c == [kind |-> "on_demand", tls |-> cmap[n].tls, cached |-> new]
  <2>3. [cmap[n] EXCEPT !.cached = new] = c
    BY <2>2
  <2>4. c = [kind |-> "on_demand", tls |-> c.tls, cached |-> c.cached]
    OBVIOUS
  <2> HIDE DEF c
  <2>5. cmap' = [cmap EXCEPT ![n] = c]
    BY <1>3, <2>3
  <2>6. told' = [told EXCEPT ![n] = told[n]]
    BY <1>1 DEF ClustersInv
  <2>7. ClusterFine(c, told[n])
    BY <2>1, <2>4 DEF ClusterFine
  <2> QED BY <2>5, <2>6, <2>7, OneCluster
<1>4. CASE EvictOriginalDst(n)
  <2>1. cmap[n].kind = "on_demand" /\ \E e \in cmap[n].cached : cmap' = [cmap EXCEPT ![n].cached = cmap[n].cached \ {e}]
    BY <1>4 DEF EvictOriginalDst, ClustersInv
  <2> QED BY <1>3, <2>1
<1>5. CASE GetOriginalDst(n)
  <2>1. cmap[n].kind = "on_demand"
    BY <1>5 DEF GetOriginalDst, RoutingContexts
  <2>2. cmap' = cmap \/ \E a \in Authorities : cmap' = [cmap EXCEPT ![n].cached = cmap[n].cached \cup {[auth |-> a, tls |-> cmap[n].tls]}]
    BY <1>5 DEF GetOriginalDst, ClustersInv
  <2> QED BY <1>2, <1>3, <2>1, <2>2
<1> QED BY <1>4, <1>5

(* The health that was reported last is the one the balancers use: the     *)
(* counts of healthy endpoints are right, and what is down is not served.  *)
THEOREM ReportedHealthIsServed == ClustersSpec => []HealthIsServed
<1>1. ClustersInv /\ [ClustersNext]_clusterVars => ClustersInv'
  <2> SUFFICES ASSUME ClustersInv, [ClustersNext]_clusterVars PROVE ClustersInv'
    OBVIOUS
  <2>1. CASE cmap' = cmap /\ told' = told
    BY <2>1 DEF ClustersInv
  <2>2. CASE UpdateTlsContext
    BY <2>2, StepUpdateTlsContext
  <2>3. CASE \E n \in Names : AddCluster(n) \/ RemoveCluster(n) \/ ChangeLoadAssignment(n)
    BY <2>3, StepReplace
  <2>4. CASE \E n \in Names, a \in Authorities, up \in BOOLEAN : ReportHealth(n, a, up)
    BY <2>4, StepReport
  <2>5. CASE \E n \in Names : GetOriginalDst(n) \/ EvictOriginalDst(n)
    BY <2>5, StepOriginalDst
  <2>6. CASE \E n \in Names : AddClusterFails(n) \/ ConnectionFails(n) \/ GetConnection(n) \/ SelectOverride(n)
    <3>1. cmap' = cmap /\ told' = told
      BY <2>6 DEF AddClusterFails, ConnectionFails, GetConnection, SelectOverride
    <3> QED BY <2>1, <3>1
  <2>7. CASE UNCHANGED clusterVars
    BY <2>1, <2>7 DEF clusterVars
  <2> QED BY <2>2, <2>3, <2>4, <2>5, <2>6, <2>7 DEF ClustersNext
<1> QED BY <1>1, ClustersInitInv, ClustersInvImplies, PTL DEF ClustersSpec

=============================================================================
