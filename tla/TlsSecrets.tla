----------------------------- MODULE TlsSecrets -----------------------------
(***************************************************************************)
(* TLS contexts and the secrets they are built from (secrets/).  The       *)
(* SecretManager keeps certificates and validation contexts by name.  A    *)
(* listener's context is built once by the xDS handler and goes, with its  *)
(* ticketer, to every runtime; a cluster's is kept in the clusters map.    *)
(* When a secret changes the map is updated first and then each runtime    *)
(* updates its own copy when it reads the change.  A certificate is a      *)
(* version number; a bad one parses but its key is another certificate's.  *)
(* DNS names are label sequences.                                          *)
(***************************************************************************)
EXTENDS Integers, Sequences, FiniteSets, FiniteSetsExt, SequencesExt

CONSTANTS
    SecretIds,      \* names of SDS certificates
    Runtimes,       \* proxy runtimes
    MaxVersions,    \* secrets pushed (bound)
    SanNames,       \* DNS names certificates have
    SniNames     \* names clients ask for

ASSUME TlsSecretsAssumption ==
    /\ MaxVersions \in Nat /\ "forgotten" \notin SecretIds
    /\ SanNames \cup SniNames \subseteq Seq(STRING) \ {<<>>}

Missing == 0        \* no secret of that name
NoRoots == -1       \* no validation context asked for

VARIABLES
    manager,        \* SecretManager::certificate_secrets: name -> version
    cas,            \* SecretManager::validation_contexts: the version of the trusted CA
    bad,            \* versions no configuration can be built with
    version,        \* versions pushed
    ticketers,      \* Ticketer::new() calls so far
    servers,        \* runtime -> server context of the listener
    client,         \* client context in the clusters map
    inbox,          \* runtime -> changes it has not read
    hello           \* a handshake: certificates, server name, the one resolved

secretVars == <<manager, cas, bad, version, ticketers, servers, client, inbox, hello>>

NoContext == [built |-> FALSE]

SecretsInit ==
    /\ manager = [i \in SecretIds |-> Missing] /\ cas = Missing
    /\ bad = {} /\ version = 0 /\ ticketers = 0
    /\ servers = [r \in Runtimes |-> NoContext]
    /\ client = NoContext
    /\ inbox = [r \in Runtimes |-> <<>>]
    /\ hello = <<>>

-----------------------------------------------------------------------------
(* WantsToBuildServer::build: a validation context without roots is        *)
(* refused; the key of an only certificate has to be its own               *)
(* (with_single_cert), the keys of several are not compared with theirs.   *)
Builds(certs, ca) ==
    /\ ca # Missing
    /\ Cardinality(DOMAIN certs) = 1 => \A id \in DOMAIN certs : certs[id] \notin bad

(* create_certificate_store: a validation context the manager has not got  *)
(* is an empty root store, here Missing.                                   *)
CertificateStore(asked) ==
    IF asked THEN cas ELSE NoRoots

(* Mutant: a rebuilt context has new ticket keys.                          *)
RebuiltFreshKeys(ctx, id, v) == [ctx EXCEPT !.certs[id] = v, !.ticketer = version + 100]

(* update of a server context: the certificate of that name is replaced,   *)
(* the others, the roots and the ticketer are kept.                        *)
Rebuilt(ctx, id, v) == [ctx EXCEPT !.certs[id] = v]

(* A name the context has not got, or one that does not build: an error,   *)
(* logged, and the context stays.                                          *)
UpdateServer(ctx, id, v) ==
    IF ctx.built /\ id \in DOMAIN ctx.certs /\ Builds(Rebuilt(ctx, id, v).certs, ctx.ca)
    THEN Rebuilt(ctx, id, v) ELSE ctx

UpdateServerRoots(ctx, v) ==
    IF ctx.built /\ ctx.ca # NoRoots THEN [ctx EXCEPT !.ca = v] ELSE ctx

(* uses_secret; a client context built without its certificate has         *)
(* forgotten its name (with_no_client_auth).                               *)
ClientUses(ctx, id) == ctx.built /\ ctx.certId = id

-----------------------------------------------------------------------------
(* TlsConfigurator::try_from of a listener with SDS certificates: those    *)
(* the manager has not got are left out, all of them if it has none.       *)
BuildServerContext(auth) ==
    /\ hello = <<>>
    /\ \A r \in Runtimes : ~servers[r].built
    /\ \A r \in Runtimes : \A i \in DOMAIN inbox[r] : inbox[r][i].what # "listener"
    /\ LET certs == [i \in {j \in SecretIds : manager[j] # Missing} |-> manager[i]]
           ctx == [ built |-> TRUE, certs |-> certs, ca |-> CertificateStore(auth), ticketer |-> ticketers + 1 ]
       IN /\ Builds(certs, ctx.ca)
          /\ ticketers' = ticketers + 1
          /\ inbox' = [r \in Runtimes |-> Append(inbox[r], [what |-> "listener", ctx |-> ctx])]
    /\ UNCHANGED <<manager, cas, bad, version, servers, client, hello>>

(* TlsConfigurator::try_from of a cluster.                                 *)
BuildClientContext ==
    /\ hello = <<>>
    /\ ~client.built
    /\ CertificateStore(TRUE) # Missing
    /\ \E id \in SecretIds :
         /\ manager[id] = Missing \/ manager[id] \notin bad
         /\ client' = [ built |-> TRUE, asked |-> id, ca |-> cas, cert |-> manager[id],
                        certId |-> IF manager[id] = Missing THEN "forgotten" ELSE id ]
    /\ UNCHANGED <<manager, cas, bad, version, ticketers, servers, inbox, hello>>

-----------------------------------------------------------------------------
(* A Secret resource: SecretManager::add, then update_tls_context of the   *)
(* clusters, whose error ends it there, then the listeners are told.  What *)
(* does not parse changes nothing.                                         *)
PushCertificate(id, isBad) ==
    /\ hello = <<>> /\ version < MaxVersions
    /\ version' = version + 1
    /\ manager' = [manager EXCEPT ![id] = version + 1]
    /\ bad' = IF isBad THEN bad \union {version + 1} ELSE bad
    /\ IF ClientUses(client, id) /\ isBad
       THEN UNCHANGED <<client, inbox>>
       ELSE /\ client' = IF ClientUses(client, id) THEN [client EXCEPT !.cert = version + 1] ELSE client
            /\ inbox' = [r \in Runtimes |->
                           Append(inbox[r], [what |-> "secret", id |-> id, version |-> version + 1])]
    /\ UNCHANGED <<cas, ticketers, servers, hello>>

(* Mutant: a new trusted CA takes the client certificate away.             *)
WithRootsOnly(ctx, v) == [ctx EXCEPT !.ca = v, !.cert = Missing]

(* update of a client context with a validation context.                   *)
WithRoots(ctx, v) == [ctx EXCEPT !.ca = v]

PushValidationContext ==
    /\ hello = <<>> /\ version < MaxVersions
    /\ version' = version + 1
    /\ cas' = version + 1
    /\ client' = IF client.built THEN WithRoots(client, version + 1) ELSE client
    /\ inbox' = [r \in Runtimes |-> Append(inbox[r], [what |-> "ca", version |-> version + 1])]
    /\ UNCHANGED <<manager, bad, ticketers, servers, hello>>

(* SecretManager::remove: contexts keep what they were built with.         *)
RemoveSecret ==
    /\ \/ \E id \in SecretIds : /\ manager[id] # Missing
                               /\ manager' = [manager EXCEPT ![id] = Missing]
                               /\ UNCHANGED cas
       \/ cas # Missing /\ cas' = Missing /\ UNCHANGED manager
    /\ UNCHANGED <<bad, version, ticketers, servers, client, inbox, hello>>

(* A runtime starts the listener, or its listener reads a change.          *)
AfterChange(ctx, m) ==
    CASE m.what = "listener" -> m.ctx
      [] m.what = "ca" -> UpdateServerRoots(ctx, m.version)
      [] m.what = "secret" -> UpdateServer(ctx, m.id, m.version)

ReadChange(r) ==
    /\ inbox[r] # <<>>
    /\ servers' = [servers EXCEPT ![r] = AfterChange(servers[r], Head(inbox[r]))]
    /\ inbox' = [inbox EXCEPT ![r] = Tail(@)]
    /\ UNCHANGED <<manager, cas, bad, version, ticketers, client, hello>>

-----------------------------------------------------------------------------
(* RelaxedResolvesServerCertUsingSni.  A certificate has names; "*" first  *)
(* stands for one label.  The names "*" and "*.label" are not registered.  *)
Registered(names) == {n \in names : Head(n) = "*" => Len(n) > 2}

(* Mutant: a wildcard stands for any number of labels.                     *)
ByWildcardAnyDepth(n, sni) == Head(n) = "*" /\ Len(sni) >= Len(n) /\ IsSuffix(Tail(n), sni)

(* by_wildcard is asked for what follows the first label.                  *)
ByWildcard(n, sni) == Head(n) = "*" /\ Len(sni) > 1 /\ Tail(sni) = Tail(n)

(* The certificate of a server name: the last that registered it (insert), *)
(* by name and then by wildcard, or the default: the first certificate.    *)
ResolveCert(certs, sni) ==
    LET exact == {i \in DOMAIN certs : sni \in Registered(certs[i])}
        wild == {i \in DOMAIN certs : \E n \in Registered(certs[i]) : ByWildcard(n, sni)}
    IN IF Len(certs) = 1 THEN 1
       ELSE IF exact # {} THEN Max(exact)
       ELSE IF wild # {} THEN Max(wild)
       ELSE 1

(* A ClientHello on a listener of one or two certificates.                 *)
ClientHello(certs, sni) ==
    /\ hello' = [certs |-> certs, sni |-> sni, chosen |-> ResolveCert(certs, sni)]
    /\ UNCHANGED <<manager, cas, bad, version, ticketers, servers, client, inbox>>

SecretsNext ==
    \/ \E auth \in BOOLEAN : BuildServerContext(auth)
    \/ BuildClientContext \/ PushValidationContext \/ RemoveSecret
    \/ \E id \in SecretIds, b \in BOOLEAN : PushCertificate(id, b)
    \/ \E r \in Runtimes : ReadChange(r)
    \/ /\ hello = <<>> /\ version = 0 /\ ticketers = 0
       /\ \E n \in 1 .. 2, sni \in SniNames : \E certs \in [1 .. n -> SUBSET SanNames] : ClientHello(certs, sni)

SecretsSpec == SecretsInit /\ [][SecretsNext]_secretVars

-----------------------------------------------------------------------------
(* The runtimes that serve a listener have one set of ticket keys, those   *)
(* it was built with, however their updates interleave: a session resumes  *)
(* on any of them, before and after a rotation.                            *)
TicketsSurvive ==
    \A r \in Runtimes : servers[r].built => servers[r].ticketer = 1

(* Contexts follow their secrets: one whose changes are all read has of    *)
(* each name it holds the newest version, unless that one has another's    *)
(* key, and an only certificate always has its own; a change of the        *)
(* trusted CA or of the certificate leaves the other alone.                *)
ContextsFollowSecrets ==
    /\ \A r \in Runtimes : servers[r].built /\ inbox[r] = <<>> =>
         /\ \A id \in DOMAIN servers[r].certs :
              /\ manager[id] \in {Missing} \union bad \/ servers[r].certs[id] = manager[id]
              /\ Cardinality(DOMAIN servers[r].certs) = 1 => servers[r].certs[id] \notin bad
         /\ servers[r].ca = NoRoots \/ cas = Missing \/ servers[r].ca = cas
    /\ client.built /\ client.certId # "forgotten" =>
         /\ client.cert \notin bad
         /\ manager[client.certId] \in {Missing} \union bad \/ client.cert = manager[client.certId]
    /\ client.built => cas = Missing \/ client.ca = cas

(* What a certificate's names cover: a name itself, "*" any one label.     *)
Covers(names, sni) ==
    \E n \in Registered(names) : /\ Len(n) = Len(sni)
                                /\ \A i \in DOMAIN n : n[i] = sni[i] \/ (i = 1 /\ n[i] = "*")

(* A client that asks for a name some certificate of the listener covers   *)
(* gets one that covers it, whatever the order they were loaded in.        *)
CertCoversSni ==
    hello # <<>> =>
        ((\E i \in DOMAIN hello.certs : Covers(hello.certs[i], hello.sni)) =>
            Covers(hello.certs[hello.chosen], hello.sni) \/ Len(hello.certs) = 1)

(* Rotation of secrets keeps what clients rely on: sessions resume, a      *)
(* context has the newest usable secrets, and a name gets its certificate. *)
SecretsServed == TicketsSurvive /\ ContextsFollowSecrets /\ CertCoversSni
=============================================================================
