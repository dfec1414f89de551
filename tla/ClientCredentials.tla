-------------------------- MODULE ClientCredentials --------------------------
(***************************************************************************)
(* The token cache of OAuth2ClientCredentialsStrategy                      *)
(* (auth/oauth2_client_credentials_strategy.go): Complete serves a token   *)
(* from memory while it is fresh, else it fetches one; Refresh always      *)
(* fetches; both store what they fetched under the caller's key.  Fetches  *)
(* of one key overlap, are slow, fail and time out.                        *)
(*                                                                         *)
(* The expiry the strategy records counts from the moment it reads the     *)
(* reply, the server's from the moment it issued the token.  Which         *)
(* configuration fields are missing is module AuthStrategies.              *)
(***************************************************************************)
EXTENDS Naturals, FiniteSets

CONSTANTS Workers,       \* goroutines calling the strategy
          Clients,      \* client ids, from the metadata or the config
          ScopeRefs,    \* scope type and id of the connection
          Requests,     \* normalized sets of requested OAuth scopes
          ClientClaims, \* granted scopes the metadata claims, {} for none
          Lives,        \* expires_in of a reply, 0 when it is missing
          TokenTTL, RenewBefore, TokenRequestTimeout, \* config
          ClientNone,
          MaxTime       \* bound on the clock

ASSUME ClientCredentialsAssumption ==
    /\ {TokenTTL, RenewBefore, TokenRequestTimeout} \subseteq Nat \ {0}
    /\ Lives \subseteq Nat /\ MaxTime \in Nat

VARIABLES
    clientClock,
    cache,    \* key -> cachedClientCredential or None
    clientAt, \* worker -> its locals
    held,     \* worker -> what Refresh reads of the credential its last call
              \*   returned, or None
    answer    \* history: the credential just returned by Complete and whether
              \*   it came from the cache, or None

clientVars == <<clientClock, cache, clientAt, held, answer>>

ClientIdle == [pc |-> "idle"]

\* buildClientCredentialsCacheKey.
CacheKey(client, ref, requested) == <<client, ref, requested>>

ClientInit ==
    /\ clientClock = 0
    /\ cache = [k \in Clients \X ScopeRefs \X (Requests \cup {{}}) |-> ClientNone]
    /\ clientAt = [w \in Workers |-> ClientIdle]
    /\ held = [w \in Workers |-> ClientNone]
    /\ answer = ClientNone

\* What Refresh reads of a credential.
ForRefresh(c) == [client |-> c.client, ref |-> c.ref, key |-> c.key,
                  requested |-> c.requested, granted |-> c.granted]

Fresh_UntilExpiry(key) ==
    cache[key] # ClientNone /\ cache[key].expiresAt > clientClock

\* The test of lookupCachedCredential.
Fresh(key) ==
    cache[key] # ClientNone /\ cache[key].expiresAt > clientClock + RenewBefore

\* Complete, a hit: the cached credential with its own granted scopes.
CompleteCached(w, client, ref, req, claim) ==
    LET key == CacheKey(client, ref, req)
    IN  /\ clientAt[w].pc = "idle"
        /\ Fresh(key)
        /\ held' = [held EXCEPT ![w] = ForRefresh(cache[key])]
        /\ answer' = [cred |-> cache[key], hit |-> TRUE,
                      client |-> client, requested |-> req]
        /\ UNCHANGED <<clientClock, cache, clientAt>>

Fetching(client, ref, req, claim, key, refresh) ==
    [pc |-> "fetch", client |-> client, ref |-> ref, requested |-> req,
     claim |-> IF claim = {} THEN req ELSE claim, key |-> key,
     refresh |-> refresh, since |-> clientClock, token |-> ClientNone]

\* Complete, a miss: a stale entry is deleted and the token request sent.
CompleteMiss(w, client, ref, req, claim) ==
    LET key == CacheKey(client, ref, req)
    IN  /\ clientAt[w].pc = "idle"
        /\ ~Fresh(key)
        /\ cache' = [cache EXCEPT ![key] = ClientNone]
        /\ clientAt' = [clientAt EXCEPT ![w] =
                    Fetching(client, ref, req, claim, key, FALSE)]
        /\ answer' = ClientNone
        /\ UNCHANGED <<clientClock, held>>

\* Refresh: always a token request, with the key kept in the credential.
Refresh(w) ==
    LET c == held[w]
    IN  /\ clientAt[w].pc = "idle" /\ c # ClientNone
        /\ clientAt' = [clientAt EXCEPT ![w] = Fetching(c.client, c.ref, c.requested,
                                                        c.granted, c.key, TRUE)]
        /\ answer' = ClientNone
        /\ UNCHANGED <<clientClock, cache, held>>

\* The server issues a token for the client and scopes of the request; it
\* may name its lifetime and the scopes it granted.
Issue(w, life, scopes) ==
    /\ clientAt[w].pc = "fetch" /\ clientAt[w].token = ClientNone
    /\ scopes \subseteq clientAt[w].requested
    /\ clientAt' = [clientAt EXCEPT ![w].token =
                [client |-> clientAt[w].client, requested |-> clientAt[w].requested,
                 scopes |-> scopes, life |-> life, issued |-> clientClock]]
    /\ UNCHANGED <<clientClock, cache, held, answer>>

\* fetchToken fails: transport, status, error code or an unusable body; or
\* the deadline has passed.
FetchFails(w) ==
    /\ clientAt[w].pc = "fetch"
    /\ clientAt' = [clientAt EXCEPT ![w] = ClientIdle]
    /\ answer' = ClientNone
    /\ UNCHANGED <<clientClock, cache, held>>

\* resolveClientCredentialsExpiresAt.
Lifetime(life) == IF life > 0 THEN life ELSE TokenTTL

\* The granted scopes of issueCredential.
Granted(token, claim) == IF token.scopes # {} THEN token.scopes ELSE claim

\* issueCredential, on the reply, within the request's deadline.
Receive(w) ==
    LET f == clientAt[w]
    IN  /\ f.pc = "fetch" /\ f.token # ClientNone
        /\ clientAt' = [clientAt EXCEPT ![w] =
              [pc |-> "store", refresh |-> f.refresh,
               cred |-> [client |-> f.client, ref |-> f.ref,
                         requested |-> f.requested, key |-> f.key,
                         token |-> f.token,
                         granted |-> Granted(f.token, f.claim),
                         expiresAt |-> clientClock + Lifetime(f.token.life)]]]
        /\ UNCHANGED <<clientClock, cache, held, answer>>

\* storeCachedCredential, and the call returns.
Store(w) ==
    LET s == clientAt[w]
    IN  /\ s.pc = "store"
        /\ cache' = [cache EXCEPT ![s.cred.key] = s.cred]
        /\ held' = [held EXCEPT ![w] = ForRefresh(s.cred)]
        /\ answer' = IF s.refresh THEN ClientNone
                     ELSE [cred |-> s.cred, hit |-> FALSE,
                           client |-> s.cred.client,
                           requested |-> s.cred.requested]
        /\ clientAt' = [clientAt EXCEPT ![w] = ClientIdle]
        /\ UNCHANGED clientClock

\* Time passes, but never beyond the deadline of a request.
ClientTick ==
    /\ clientClock < MaxTime
    /\ \A w \in Workers :
         clientAt[w].pc = "fetch" => clientClock < clientAt[w].since + TokenRequestTimeout
    /\ clientClock' = clientClock + 1
    /\ answer' = ClientNone
    /\ UNCHANGED <<cache, clientAt, held>>

ClientNext ==
    \/ \E w \in Workers :
         \/ \E c \in Clients, r \in ScopeRefs, q \in Requests, g \in ClientClaims :
              CompleteCached(w, c, r, q, g) \/ CompleteMiss(w, c, r, q, g)
         \/ Refresh(w)
         \/ \E l \in Lives, s \in SUBSET UNION Requests : Issue(w, l, s)
         \/ FetchFails(w) \/ Receive(w) \/ Store(w)
    \/ ClientTick

ClientSpec == ClientInit /\ [][ClientNext]_clientVars

-----------------------------------------------------------------------------
(* Properties *)

\* A token served from the cache is accepted by the server for at least the
\* renewal margin less the request timeout, although the recorded expiry is
\* later than the real one by the time the reply took: with the defaults (two
\* minutes and thirty seconds) a cached token is never already dead.
CachedTokenLives ==
    answer # ClientNone /\ answer.hit =>
        LET t == answer.cred.token
        IN  t.issued + Lifetime(t.life) + TokenRequestTimeout
              > clientClock + RenewBefore

\* A caller only gets a token that was issued for its own client and for
\* exactly the scopes it asks for, through whichever call, refresh or
\* completion, the entry was stored.
CachedTokenIsOwn ==
    answer # ClientNone =>
        /\ answer.cred.token.client = answer.client
        /\ answer.cred.token.requested = answer.requested

\* The grants recorded with a credential are the ones the token endpoint
\* named, also for a later caller that claims others.
GrantsAsIssued ==
    answer # ClientNone /\ answer.cred.token.scopes # {} =>
        answer.cred.granted = answer.cred.token.scopes

\* A token that is served is the caller's own, lives, and grants what it says.
ServedTokenUsable == CachedTokenLives /\ CachedTokenIsOwn /\ GrantsAsIssued
=============================================================================
