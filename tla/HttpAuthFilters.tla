--------------------------- MODULE HttpAuthFilters ---------------------------
(***************************************************************************)
(* The JWT and the CORS filters of the HTTP connection manager             *)
(* (http_connection_manager/jwt_authn.rs, jwt_authn/jwks.rs, cors.rs).     *)
(* JWT: a provider with the keys of its configuration and one whose key    *)
(* set is fetched; the fetcher task, the requests that fetch by themselves *)
(* and the cache of decoded tokens of a thread.  Every fetch is an await:  *)
(* its answer and the store that follows are separate steps.  CORS: one    *)
(* request and its response, for every configuration of a small family;    *)
(* it shares nothing with the JWT filter and is taken before any of it.    *)
(***************************************************************************)
EXTENDS Integers, FiniteSets, Sequences

CONSTANTS
    AuthTasks,       \* requests of a thread
    MaxRotations,    \* how often the remote issuer changes its key
    KeyLife,         \* cache_duration of the remote key set
    CacheTtl,        \* time_to_live of JWT_CACHE
    MaxAuthTime,     \* bound on the clock
    ForwardToken     \* forward: the upstream sees the token

ASSUME AuthAssumption ==
    /\ {MaxRotations, KeyLife, CacheTtl, MaxAuthTime} \subseteq Nat
    /\ CacheTtl >= 1
    /\ ForwardToken \in BOOLEAN

VARIABLES
    jclock,          \* the time
    issuer,          \* the version of the key the remote issuer signs with
    keymap,          \* key_map of the remote provider's context
    jcache,          \* JWT_CACHE: the decoded tokens and when they were
    fetcher,         \* the task of start_jwks_fetcher
    jt,              \* jt[t]: the request t
    cors             \* a CORS request, its configuration and its answer

jwtVars == <<jclock, issuer, keymap, jcache, fetcher, jt>>
authVars == <<jwtVars, cors>>

Providers == {"local", "remote"}

(* A token: who signed it with which key, whether it names the key, and    *)
(* the last moment it is good for.                                         *)
JwtTokens ==
    [by : {"local"}, key : {0}, kid : {TRUE}, exp : {MaxAuthTime}]
    \cup [by : {"remote"}, key : 0 .. MaxRotations, kid : {TRUE}, exp : {1, MaxAuthTime}]
    \cup [by : {"remote"}, key : {0}, kid : {FALSE}, exp : {MaxAuthTime}]

IdleAuth == [st |-> "idle"]

Pending == [tag |-> "pending"]
Expiring(key, deadline) == [tag |-> "expiring", key |-> key, deadline |-> deadline]

NoCors == [st |-> "idle"]

AuthInit ==
    /\ jclock = 0 /\ issuer = 0
    /\ keymap = Pending
    /\ jcache = {}
    /\ fetcher = [st |-> "off", key |-> 0]
    /\ jt = [t \in AuthTasks |-> IdleAuth]
    /\ cors = NoCors

-----------------------------------------------------------------------------
(* jsonwebtoken::decode under the validation of the provider that a rule   *)
(* requires: issuer, audience, expiry and the signature.                   *)
Verifies(prov, key, tok) == tok.by = prov /\ tok.key = key /\ tok.exp >= jclock

(* Mutant: the cache keeps what is used, as time_to_idle would.            *)
HitKeepsAlive(entry) == (jcache \ {entry}) \cup {[entry EXCEPT !.until = jclock + CacheTtl]}

(* cache.get: a hit leaves the entry and its age alone.                    *)
AfterHit(entry) == jcache

(* Whether the upstream still sees the token: the header or the parameter  *)
(* is removed, a cookie never is.                                          *)
Stripped(place) == ~ForwardToken /\ place \in {"header", "param"}

Admitted(tok, place, at) ==
    [ st |-> "admitted", seen |-> ~Stripped(place), age |-> jclock - at,
      wasGood |-> tok.exp >= at ]

Refused == [st |-> "refused"]

(* The end of decode_jwt_token with a key at hand.                         *)
Decode(t, prov, key, tok, place) ==
    IF Verifies(prov, key, tok)
    THEN /\ jcache' = {e \in jcache : e.tok # tok} \cup {[tok |-> tok, at |-> jclock, until |-> jclock + CacheTtl]}
         /\ jt' = [jt EXCEPT ![t] = Admitted(tok, place, jclock)]
    ELSE jt' = [jt EXCEPT ![t] = Refused] /\ UNCHANGED jcache

RefuseToken(t) == jt' = [jt EXCEPT ![t] = Refused] /\ UNCHANGED jcache

(* start_jwks_fetcher: the first request starts the task.                  *)
StartedFetcher == IF fetcher.st = "off" THEN [fetcher EXCEPT !.st = "fetch"] ELSE fetcher

Fetching(t, prov, tok, place, old) ==
    /\ jt' = [jt EXCEPT ![t] = [st |-> "fetch", prov |-> prov, tok |-> tok,
                                place |-> place, old |-> old, key |-> 0]]
    /\ UNCHANGED jcache

(* validation_key_lookup: with a key id an expired key set is fetched      *)
(* again, and the one loaded before answers; without one the first key     *)
(* does, whatever its age.                                                 *)
Lookup(t, prov, tok, place) ==
    IF prov = "local" THEN Decode(t, prov, 0, tok, place)
    ELSE IF keymap.tag = "pending" /\ tok.kid THEN Fetching(t, prov, tok, place, -1)
    ELSE IF keymap.tag = "pending" /\ ~tok.kid THEN RefuseToken(t)
    ELSE IF keymap.tag = "expiring" /\ tok.kid /\ jclock > keymap.deadline THEN
           Fetching(t, prov, tok, place, keymap.key)
    ELSE Decode(t, prov, keymap.key, tok, place)

(* apply_request.  The cache is asked first, by the signature alone:       *)
(* whichever provider decoded the token.                                   *)
Authenticate(t) ==
    /\ jt[t].st = "idle"
    /\ fetcher' = StartedFetcher
    /\ \/ RefuseToken(t)                  \* no provider for the request, no token in it
       \/ \E prov \in Providers, tok \in JwtTokens, place \in {"header", "param", "cookie"} :
            /\ tok.key <= issuer
            /\ \/ \E e \in jcache :
                    /\ e.tok = tok
                    /\ jcache' = AfterHit(e)
                    /\ jt' = [jt EXCEPT ![t] = Admitted(tok, place, e.at)]
               \/ (\A e \in jcache : e.tok # tok) /\ Lookup(t, prov, tok, place)
    /\ UNCHANGED <<jclock, issuer, keymap>>

(* fetch_remote_jwks: the set the issuer publishes now, or a failure.      *)
RequestFetched(t) ==
    /\ jt[t].st = "fetch"
    /\ jt' = [jt EXCEPT ![t].st = "store", ![t].key = issuer]
    /\ UNCHANGED <<jclock, issuer, keymap, jcache, fetcher>>

RequestFetchFails(t) ==
    /\ jt[t].st = "fetch"
    /\ IF jt[t].old = -1 THEN RefuseToken(t)
       ELSE Decode(t, jt[t].prov, jt[t].old, jt[t].tok, jt[t].place)
    /\ UNCHANGED <<jclock, issuer, keymap, fetcher>>

RequestStores(t) ==
    /\ jt[t].st = "store"
    /\ keymap' = Expiring(jt[t].key, jclock + KeyLife)
    /\ LET key == IF jt[t].old = -1 THEN jt[t].key ELSE jt[t].old
       IN Decode(t, jt[t].prov, key, jt[t].tok, jt[t].place)
    /\ UNCHANGED <<jclock, issuer, fetcher>>

FinishRequest(t) ==
    /\ jt[t].st \in {"admitted", "refused"}
    /\ jt' = [jt EXCEPT ![t] = IdleAuth]
    /\ UNCHANGED <<jclock, issuer, keymap, jcache, fetcher>>

(* The fetcher: fetch, store, wait for the tick; a failure waits as well.  *)
FetcherFetches ==
    /\ fetcher.st = "fetch"
    /\ \/ fetcher' = [st |-> "store", key |-> issuer]
       \/ fetcher' = [fetcher EXCEPT !.st = "tick"]
    /\ UNCHANGED <<jclock, issuer, keymap, jcache, jt>>

FetcherStores ==
    /\ fetcher.st = "store"
    /\ keymap' = Expiring(fetcher.key, jclock + KeyLife)
    /\ fetcher' = [fetcher EXCEPT !.st = "tick"]
    /\ UNCHANGED <<jclock, issuer, jcache, jt>>

FetcherTicks ==
    /\ fetcher.st = "tick"
    /\ fetcher' = [fetcher EXCEPT !.st = "fetch"]
    /\ UNCHANGED <<jclock, issuer, keymap, jcache, jt>>

RotateKey ==
    /\ issuer < MaxRotations
    /\ issuer' = issuer + 1
    /\ UNCHANGED <<jclock, keymap, jcache, fetcher, jt>>

(* Time passes, and moka drops what has been cached for its time to live.  *)
JwtTick ==
    /\ jclock < MaxAuthTime
    /\ jclock' = jclock + 1
    /\ jcache' = {e \in jcache : jclock + 1 < e.until}
    /\ UNCHANGED <<issuer, keymap, fetcher, jt>>

-----------------------------------------------------------------------------
Origins == {"a", "b"}

CorsConfigs ==
    [ cred : BOOLEAN, origins : SUBSET {"*", "a"}, methods : {{"*"}, {"GET"}},
      headers : {{}, {"*"}, {"h"}}, forwardUnmatched : BOOLEAN, expose : BOOLEAN ]

(* A request with an origin; without one the filter leaves it alone.       *)
CorsRequests ==
    [ origin : Origins, preflight : BOOLEAN, method : {"GET", "PUT"},
      headers : SUBSET {"h", "x", "mcp-session-id"}, session : BOOLEAN ]

(* Mutant: an origin that is reflected is taken for the wildcard.          *)
DetermineAllowedOriginAlike(c, origin) ==
    IF ~c.cred /\ "*" \in c.origins THEN [val |-> "*", wildcard |-> TRUE]
    ELSE IF {"*", origin} \cap c.origins # {} THEN [val |-> origin, wildcard |-> TRUE]
    ELSE [val |-> "none", wildcard |-> FALSE]

(* determine_allowed_origin.                                               *)
DetermineAllowedOrigin(c, origin) ==
    IF ~c.cred /\ "*" \in c.origins THEN [val |-> "*", wildcard |-> TRUE]
    ELSE IF {"*", origin} \cap c.origins # {} THEN [val |-> origin, wildcard |-> FALSE]
    ELSE [val |-> "none", wildcard |-> FALSE]

BareAnswer == [allow |-> "none", cred |-> FALSE, vary |-> {}, methods |-> {}, headers |-> {},
               expose |-> {}, here |-> FALSE]

VaryOrigin(c, o) == IF ~o.wildcard \/ c.cred THEN {"origin"} ELSE {}

(* apply_response: headers added to what comes from the upstream.          *)
CorsResponse(c, r, o) ==
    IF o.val = "none" THEN BareAnswer
    ELSE [BareAnswer EXCEPT
            !.allow = o.val, !.cred = c.cred, !.vary = VaryOrigin(c, o),
            !.expose = (IF c.expose THEN {"e"} ELSE {})
                       \cup (IF r.session THEN {"mcp-session-id"} ELSE {})]

(* generate_preflight_response: with credentials a wildcard is spelled out *)
GeneratePreflight(c, r, o) ==
    [ allow |-> o.val, cred |-> c.cred,
      vary |-> VaryOrigin(c, o) \cup {"method", "headers"},
      methods |-> IF "*" \in c.methods /\ c.cred THEN {r.method} ELSE c.methods,
      headers |-> IF "*" \in c.headers /\ ~c.cred THEN {"*"} ELSE r.headers,
      expose |-> IF c.expose THEN {"e"} ELSE {},
      here |-> TRUE ]

PreflightAllowed(c, r) ==
    /\ "*" \in c.methods \/ r.method \in c.methods
    /\ "*" \in c.headers \/ r.headers \subseteq c.headers \cup {"mcp-session-id"}

(* apply_request, and apply_response for what went upstream.  A preflight  *)
(* that is not allowed goes upstream too, with the origin validated.       *)
CorsAnswer(c, r) ==
    LET o == DetermineAllowedOrigin(c, r.origin)
    IN CASE o.val = "none" /\ r.preflight /\ ~c.forwardUnmatched ->
              [BareAnswer EXCEPT !.here = TRUE]
         [] o.val # "none" /\ r.preflight /\ PreflightAllowed(c, r) -> GeneratePreflight(c, r, o)
         [] OTHER -> CorsResponse(c, r, o)

HandleCors ==
    /\ cors.st = "idle" /\ fetcher.st = "off" /\ jclock = 0 /\ issuer = 0
    /\ \A t \in AuthTasks : jt[t].st = "idle"
    /\ \E c \in CorsConfigs, r \in CorsRequests :
         cors' = [st |-> "done", conf |-> c, req |-> r, answer |-> CorsAnswer(c, r)]
    /\ UNCHANGED jwtVars

AuthNext ==
    \/ /\ cors.st = "idle"
       /\ \/ \E t \in AuthTasks :
               Authenticate(t) \/ RequestFetched(t) \/ RequestFetchFails(t)
               \/ RequestStores(t) \/ FinishRequest(t)
          \/ FetcherFetches \/ FetcherStores \/ FetcherTicks
          \/ RotateKey \/ JwtTick
       /\ UNCHANGED cors
    \/ HandleCors

AuthSpec == AuthInit /\ [][AuthNext]_authVars

-----------------------------------------------------------------------------
(* Whoever is admitted presented a token that was verified, and had not    *)
(* expired, within the time a decoded token is cached: neither the cache,  *)
(* which is asked before the keys and the expiry, nor a key set that is    *)
(* fetched while it is used stretches that.                                *)
AdmittedWasValid ==
    \A t \in AuthTasks : jt[t].st = "admitted" =>
        jt[t].wasGood /\ jt[t].age < CacheTtl

(* A shared cache may reuse a CORS answer without `Vary: Origin` for every *)
(* origin, and with credentials no header is the literal wildcard.         *)
CorsCacheable ==
    cors.st = "done" =>
        LET a == cors.answer
        IN /\ a.allow # "none" /\ "origin" \notin a.vary =>
                \A o \in Origins :
                    CorsAnswer(cors.conf, [cors.req EXCEPT !.origin = o]).allow = a.allow
           /\ a.cred => "*" \notin {a.allow} \cup a.methods \cup a.headers

-----------------------------------------------------------------------------
(***************************************************************************)
(* The OAuth2 filter (http_connection_manager/oauth2.rs): the gateway      *)
(* keeps no session of its own, so a login is a protocol between the       *)
(* filter, the cookies of one browser and the identity provider, over      *)
(* several requests, several tabs and several logins.  Signed and sealed   *)
(* cookies are records only the filter can make; time is a clock.          *)
(***************************************************************************)

CONSTANTS
    Flows,           \* login flows, 1 .. n, in the order they may start
    MaxOAuthTime,         \* bound of the clock
    CsrfLife,        \* csrf_token_expires_in
    VerifierLife,    \* code_verifier_token_expires_in
    SessionLife,     \* expires_in of the tokens
    RefreshLife      \* default_refresh_token_expires_in

ASSUME OAuthAssumption ==
    /\ Flows \subseteq Nat \ {0}
    /\ {MaxOAuthTime, CsrfLife, VerifierLife, SessionLife, RefreshLife} \subseteq Nat

VARIABLES
    clock,
    jar,             \* the browser's cookies
    flow,            \* flow[f]: where the login f stands, and when it started
    answer           \* the filter's last decision

oauthVars == <<clock, jar, flow, answer>>

(* A cookie has a value, a sequence, and the time its Max-Age runs out.    *)
NoCookie == [value |-> <<>>, until |-> 0]

SetCookie(value, life) == [value |-> value, until |-> clock + life]

(* What the browser still sends of a cookie.                               *)
Sent(c) == IF c.until > clock THEN c.value ELSE <<>>

TokenCookies == {"access", "id", "refresh"}
SessionCookies == TokenCookies \cup {"expires", "hmac"}

OAuthInit ==
    /\ clock = 0
    /\ jar = [ nonce |-> [f \in Flows |-> NoCookie], verifier |-> [f \in Flows |-> NoCookie],
               session |-> [c \in SessionCookies |-> NoCookie] ]
    /\ flow = [f \in Flows |-> [st |-> "new", started |-> 0]]
    /\ answer = [kind |-> "none", flow |-> 0, tokens |-> <<>>]

OAuthAnswer(kind, f, tokens) == answer' = [kind |-> kind, flow |-> f, tokens |-> tokens]

OAuthTick ==
    /\ clock < MaxOAuthTime
    /\ clock' = clock + 1
    /\ answer' = [kind |-> "none", flow |-> 0, tokens |-> <<>>]
    /\ UNCHANGED <<jar, flow>>

-----------------------------------------------------------------------------
(* Mutant: the flows of a browser share the name of their cookies.         *)
FlowCookieNameShared(f) == CHOOSE g \in Flows : \A h \in Flows : g <= h

(* flow_cookie_name.                                                       *)
FlowCookieName(f) == f

(* Mutant: the signature covers the expiry alone.                          *)
SignedExpiryOnly(expires, access, id, refresh) == expires

(* session_hmac_tag: the fields the signature covers.                      *)
Signed(expires, access, id, refresh) ==
    <<expires, access, id, refresh>>

(* The session cookies a request carries verify: the literal expiry is in  *)
(* the future and the signature is that of all token cookies received.     *)
Authenticated ==
    LET s == [c \in SessionCookies |-> Sent(jar.session[c])]
    IN /\ s["hmac"] # <<>> /\ s["expires"] # <<>>
       /\ s["expires"][1] > clock
       /\ s["hmac"] = <<Signed(s["expires"], s["access"], s["id"], s["refresh"])>>

(* A protected request: steps 4 to 6 of apply_request.  An unauthenticated *)
(* one is redirected and starts a flow with cookies of its own, unless the *)
(* deny matcher refuses it.                                                *)
Protected(f) ==
    \/ /\ Authenticated
       /\ OAuthAnswer("continue", 0, [c \in TokenCookies |-> Sent(jar.session[c])])
       /\ UNCHANGED <<jar, flow>>
    \/ /\ ~Authenticated
       /\ OAuthAnswer("denied", 0, <<>>)
       /\ UNCHANGED <<jar, flow>>
    \/ /\ ~Authenticated
       /\ flow[f].st = "new"
       /\ \A g \in Flows : g < f => flow[g].st # "new"
       /\ flow' = [flow EXCEPT ![f] = [st |-> "at_provider", started |-> clock]]
       /\ LET n == FlowCookieName(f)
          IN jar' = [jar EXCEPT !.nonce[n] = SetCookie(<<f, clock>>, CsrfLife),
                                !.verifier[n] = SetCookie(<<f, clock>>, VerifierLife)]
       /\ OAuthAnswer("redirect", f, <<>>)

Visit(f) == Protected(f) /\ UNCHANGED clock

(* The pass-through matcher, a missing host, a redirect URI that does not  *)
(* parse: answered before or without any cookie.                           *)
OtherAnswers ==
    /\ \E kind \in {"passed_through", "bad_request"} : OAuthAnswer(kind, 0, <<>>)
    /\ UNCHANGED <<clock, jar, flow>>

(* handle_signout expires the five session cookies, and the two flow       *)
(* cookies under their base names, which no flow uses.                     *)
HandleSignout ==
    /\ jar' = [jar EXCEPT !.session = [c \in SessionCookies |-> NoCookie]]
    /\ OAuthAnswer("signed_out", 0, <<>>)
    /\ UNCHANGED <<clock, flow>>

-----------------------------------------------------------------------------
(* The provider sends the browser back with a code, or with an error.      *)
ProviderReturns(f) ==
    /\ flow[f].st = "at_provider"
    /\ \E st \in {"code", "error"} : flow' = [flow EXCEPT ![f].st = st]
    /\ answer' = [kind |-> "none", flow |-> 0, tokens |-> <<>>]
    /\ UNCHANGED <<clock, jar>>

(* verify_transaction_cookie and verify_code_verifier: the cookie is this  *)
(* flow's and the server's own check of its age passes.                    *)
Verified(cookie, f, life) ==
    LET v == Sent(cookie)
    IN v # <<>> /\ v[1] = f /\ clock - v[2] <= life

ClearTransaction(f) ==
    [jar EXCEPT !.nonce[FlowCookieName(f)] = NoCookie,
                !.verifier[FlowCookieName(f)] = NoCookie]

(* handle_callback up to the exchange.  A callback without a valid         *)
(* transaction leaves the cookies alone; any later failure clears them.    *)
HandleCallback(f) ==
    /\ flow[f].st \in {"code", "error"}
    /\ LET n == FlowCookieName(f)
           known == Verified(jar.nonce[n], f, CsrfLife)
           verifier == Verified(jar.verifier[n], f, VerifierLife)
       IN \/ /\ ~known
             /\ jar' = jar /\ flow' = flow /\ OAuthAnswer("callback_refused", f, <<>>)
          \/ /\ known /\ flow[f].st = "error"
             /\ jar' = ClearTransaction(f) /\ OAuthAnswer("unauthorized", f, <<>>)
             /\ flow' = [flow EXCEPT ![f].st = "failed"]
          \/ /\ known /\ flow[f].st = "code" /\ ~verifier
             /\ jar' = ClearTransaction(f) /\ OAuthAnswer("callback_refused", f, <<>>)
             /\ flow' = [flow EXCEPT ![f].st = "failed"]
          \/ /\ known /\ flow[f].st = "code" /\ verifier
             /\ flow' = [flow EXCEPT ![f].st = "exchanging"]
             /\ jar' = jar /\ OAuthAnswer("none", f, <<>>)
    /\ UNCHANGED clock

(* exchange_code returns while the browser may be using other tabs.        *)
ExchangeFails(f) ==
    /\ flow[f].st = "exchanging"
    /\ flow' = [flow EXCEPT ![f].st = "failed"]
    /\ jar' = ClearTransaction(f)
    /\ OAuthAnswer("bad_gateway", f, <<>>)
    /\ UNCHANGED clock

(* The rest of handle_callback.  Tokens of login f are <<f>>; a token the  *)
(* provider did not send, or whose cookie is disabled, is left out of the  *)
(* signature and its cookie is not touched.                                *)
NewSession(f, sent) ==
    LET token(c) == IF c \in sent THEN <<f>> ELSE <<>>
        expires == <<clock + SessionLife>>
        value == [ access |-> token("access"), id |-> token("id"),
                   refresh |-> token("refresh"), expires |-> expires,
                   hmac |-> <<Signed(expires, token("access"), token("id"), token("refresh"))>> ]
    IN [c \in SessionCookies |->
          IF c \in TokenCookies \ sent THEN jar.session[c]
          ELSE SetCookie(value[c], IF c = "refresh" THEN RefreshLife ELSE SessionLife)]

ExchangeSucceeds(f) ==
    /\ flow[f].st = "exchanging"
    /\ \E optional \in SUBSET {"id", "refresh"} :
         jar' = [ClearTransaction(f) EXCEPT !.session = NewSession(f, {"access"} \cup optional)]
    /\ flow' = [flow EXCEPT ![f].st = "done"]
    /\ OAuthAnswer("logged_in", f, <<>>)
    /\ UNCHANGED clock

(* The response is lost: the browser keeps its cookies and may call back   *)
(* again with the same code, which the provider takes again or refuses.    *)
ResponseLost(f) ==
    /\ flow[f].st = "exchanging"
    /\ flow' = [flow EXCEPT ![f].st = "code"]
    /\ answer' = [kind |-> "none", flow |-> 0, tokens |-> <<>>]
    /\ UNCHANGED <<clock, jar>>

OAuthNext ==
    \/ OAuthTick \/ OtherAnswers \/ HandleSignout
    \/ \E f \in Flows :
         \/ Visit(f) \/ ProviderReturns(f) \/ HandleCallback(f)
         \/ ExchangeFails(f) \/ ExchangeSucceeds(f) \/ ResponseLost(f)

OAuthSpec == OAuthInit /\ [][OAuthNext]_oauthVars

-----------------------------------------------------------------------------
(* Logins of one browser do not disturb each other: a callback is refused  *)
(* only when its own transaction or verifier has grown too old.            *)
LoginsIndependent ==
    \A f \in Flows :
      answer.kind = "callback_refused" /\ answer.flow = f =>
        clock - flow[f].started >= IF CsrfLife < VerifierLife THEN CsrfLife ELSE VerifierLife

(* A request goes upstream only with the tokens of one login: cookies left *)
(* over from another login are never mixed into a session.                 *)
SessionIsOneLogin ==
    answer.kind = "continue" =>
      \A c, d \in TokenCookies :
        answer.tokens[c] # <<>> /\ answer.tokens[d] # <<>> => answer.tokens[c] = answer.tokens[d]

(* "A valid, unexpired session continues upstream": right after a login    *)
(* the browser's next request is authenticated.                            *)
SessionUsable == answer.kind = "logged_in" => Authenticated

(* Who is admitted was authenticated: by a token that was valid not longer *)
(* ago than the cache keeps one, or by the session of one login, which     *)
(* other logins of the browser do not disturb; and no shared cache hands a *)
(* CORS answer to another origin.                                          *)
AdmissionsKept ==
    /\ AdmittedWasValid /\ CorsCacheable
    /\ LoginsIndependent /\ SessionIsOneLogin
=============================================================================
