---------------------------- MODULE EmbeddedAuth ----------------------------
(***************************************************************************)
(* Embedded authentication (AuthenticateEmbedded in core/service.go and    *)
(* providers/shopify/embedded): a session token is validated, its id is    *)
(* claimed in the replay ledger (core/replay_ledger.go), and it is         *)
(* exchanged for an access token.                                          *)
(*                                                                         *)
(* Requests run concurrently.  The clock is read by the validator, then by *)
(* Claim before it takes the ledger's mutex, so either reading can be old  *)
(* when it is used.  The ledger lives in memory and is bounded: a restart  *)
(* and an eviction both forget claims.                                     *)
(***************************************************************************)
EXTENDS Integers, Sequences, FiniteSets

CONSTANTS
    EmbeddedRequests,   \* [token, expected, type, ttl]: what a caller may send
    EmbeddedCallers,    \* concurrent calls
    EmbeddedReplies,    \* what the shop's token endpoint may answer
    ConfiguredShop,     \* ServiceConfig.ExpectedShopDomain, a host or Unset
    Skew,               \* ClockSkew
    MaxIssuedAtAge,
    ReplayTTL,          \* the configured time to live of a claim
    MaxEmbeddedEntries, \* ReplayMaxEntries
    EmbeddedUnset,      \* an absent value
    MaxEmbeddedClock,   \* bound: the clock
    MaxRestarts         \* bound: restarts

ASSUME EmbeddedAuthAssumption ==
    /\ Skew \in Nat /\ MaxIssuedAtAge \in Nat /\ ReplayTTL \in Nat \ {0}
    /\ MaxEmbeddedEntries \in Nat \ {0} /\ MaxEmbeddedClock \in Nat /\ MaxRestarts \in Nat
    /\ \A r \in EmbeddedRequests :
          /\ r.ttl \in Int
          /\ \A t \in {r.token.exp, r.token.nbf, r.token.iat} : t = EmbeddedUnset \/ t \in Int

VARIABLES
    embeddedNow,     \* the clock
    embeddedEntries, \* the ledger: a set of [key, until], one per key
    embeddedAt,      \* embeddedAt[c]: where call c is, with what it knows
    restarts,        \* how often the process was restarted
    last,            \* history: for a (shop, id), the expiry of its newest claim
                     \*   and whether the request chose how long it lives
    forgot           \* history: the claims lost before they expired

embeddedVars == <<embeddedNow, embeddedEntries, embeddedAt, restarts, last, forgot>>

Tokens == {r.token : r \in EmbeddedRequests}
Identity(token) == <<token.dest.host.shop, token.jti>>
NoClaim == [until |-> 0, chosen |-> FALSE]
EmbeddedIdle == [pc |-> "idle", req |-> EmbeddedUnset, read |-> 0, out |-> "", shop |-> EmbeddedUnset]

EmbeddedInit ==
    /\ embeddedNow = 1 /\ embeddedEntries = {} /\ restarts = 0 /\ forgot = {}
    /\ embeddedAt = [c \in EmbeddedCallers |-> EmbeddedIdle]
    /\ last = [i \in {Identity(t) : t \in Tokens} |-> NoClaim]

-----------------------------------------------------------------------------
(* The validator.  A host is a shop written out ("full"), as its bare name *)
(* ("short"), as a URL ("url"), or not one of the platform's ("foreign").  *)

normalizeShopDomain(host) == IF host.form = "foreign" THEN EmbeddedUnset ELSE host.shop

normalizeShopDomainStrict(host) == IF host.form = "full" THEN host.shop ELSE EmbeddedUnset

\* parseHTTPSURL: https, a host, and neither user, port, query nor fragment.
parseHTTPSURL(u) == u.scheme = "https" /\ u.bare

validIssuerPath(path) == path \in {"/admin", "/admin/"}
validDestinationPath(path) == path \in {"", "/"}

\* The code of the first check that fails.
FirstFailure(checks) ==
    LET failed == {i \in DOMAIN checks : checks[i][1]}
    IN  IF failed = {} THEN "valid"
        ELSE checks[CHOOSE i \in failed : \A j \in failed : i <= j][2]

\* ValidateSessionToken: header and signature.
ValidSignature(token) == FirstFailure(<<
    <<token.parts # 3,                                      "token_malformed">>,
    <<token.alg # "HS256",                                  "unsupported_alg">>,
    <<~token.signed,                                        "signature_mismatch">> >>)

\* ValidateSessionToken: the claims, where one that is no number is Unset.
ValidClaims(token, expected) == FirstFailure(<<
    <<~parseHTTPSURL(token.iss),                            "invalid_iss">>,
    <<~parseHTTPSURL(token.dest),                           "invalid_dest">>,
    <<~validIssuerPath(token.iss.path),                     "invalid_iss_path">>,
    <<~validDestinationPath(token.dest.path),               "invalid_dest_path">>,
    <<normalizeShopDomainStrict(token.iss.host) = EmbeddedUnset,    "invalid_iss_host">>,
    <<normalizeShopDomainStrict(token.dest.host) = EmbeddedUnset,   "invalid_dest_host">>,
    <<token.iss.host.shop # token.dest.host.shop,           "issuer_destination_mismatch">>,
    <<"client" \notin token.aud,                            "aud_mismatch">>,
    <<token.exp = EmbeddedUnset,                                    "invalid_exp">>,
    <<token.nbf = EmbeddedUnset,                                    "invalid_nbf">>,
    <<token.iat = EmbeddedUnset,                                    "invalid_iat">>,
    <<token.jti = EmbeddedUnset,                                    "missing_jti">>,
    <<expected # EmbeddedUnset /\ normalizeShopDomain(expected) = EmbeddedUnset, "invalid_expected_shop">>,
    <<expected # EmbeddedUnset /\ normalizeShopDomain(expected) # token.dest.host.shop,
                                                            "shop_mismatch">> >>)

\* ValidateSessionToken, the time.
ValidTime_AnyIssue(token) == FirstFailure(<<
    <<embeddedNow > token.exp + Skew,                               "token_expired">>,
    <<token.exp + Skew < token.iat,                         "invalid_time_window">>,
    <<embeddedNow > token.iat + MaxIssuedAtAge + Skew,              "issued_too_old">> >>)

ValidTime(token) == FirstFailure(<<
    <<embeddedNow > token.exp + Skew,                               "token_expired">>,
    <<embeddedNow + Skew < token.nbf,                               "token_not_active">>,
    <<embeddedNow + Skew < token.iat,                               "issued_in_future">>,
    <<token.exp + Skew < token.iat,                         "invalid_time_window">>,
    <<embeddedNow > token.iat + MaxIssuedAtAge + Skew,              "issued_too_old">> >>)

ValidateSessionToken(token, expected) ==
    LET signature == ValidSignature(token)
        claims    == ValidClaims(token, expected)
    IN  IF signature # "valid" THEN signature
        ELSE IF claims # "valid" THEN claims ELSE ValidTime(token)

\* The empty type asks for an offline token.
resolveRequestedTokenType(type) ==
    IF type \in {EmbeddedUnset, "offline"} THEN "offline"
    ELSE IF type = "online" THEN "online" ELSE EmbeddedUnset

-----------------------------------------------------------------------------
(* The replay ledger.                                                      *)

buildReplayKey(token) == <<token.dest.host.shop, token.jti>>

pruneExpiredLocked(es, reading) == {e \in es : reading < e.until}

\* enforceCapacityLocked evicts the earliest to expire, whichever of equals the
\* map yields first, until there is room for one more.
enforceCapacityLocked(es) ==
    {kept \in SUBSET es :
        /\ Cardinality(kept) = IF Cardinality(es) > MaxEmbeddedEntries - 1 THEN MaxEmbeddedEntries - 1
                               ELSE Cardinality(es)
        /\ \A k \in kept, e \in es \ kept : e.until <= k.until}

-----------------------------------------------------------------------------
(* The exchange.                                                           *)

\* ExchangeSessionToken on a reply, Unset for one that was lost: the body fits
\* and decodes, the status is 2xx, no error is named and there is a token.
ExchangeSessionToken(req, reply) ==
    IF reply = EmbeddedUnset \/ reply.large \/ ~reply.json \/ reply.status \notin 200..299
        \/ reply.error \/ ~reply.token
    THEN EmbeddedUnset
    ELSE [type |-> resolveRequestedTokenType(req.type),
          shop |-> normalizeShopDomain(req.token.dest.host),
          exp |-> IF reply.ttl > 0 THEN embeddedNow + reply.ttl ELSE 0]

-----------------------------------------------------------------------------
EmbeddedGoto(c, pc) == embeddedAt' = [embeddedAt EXCEPT ![c].pc = pc]

ExpectedShop(req) == IF req.expected = EmbeddedUnset THEN ConfiguredShop ELSE req.expected

\* AuthenticateEmbedded up to the claim: validate the token and the type asked for.
Authenticate(c, req) ==
    /\ embeddedAt[c].pc = "idle"
    /\ LET code == ValidateSessionToken(req.token, ExpectedShop(req)) IN
       embeddedAt' = [embeddedAt EXCEPT ![c] =
                [EmbeddedIdle EXCEPT
                    !.req = req,
                    !.pc  = IF code = "valid" /\ resolveRequestedTokenType(req.type) # EmbeddedUnset
                            THEN "claim" ELSE "done",
                    !.out = IF code # "valid" THEN code
                            ELSE IF resolveRequestedTokenType(req.type) = EmbeddedUnset
                            THEN "invalid_requested_token_type" ELSE ""]]
    /\ UNCHANGED <<embeddedNow, embeddedEntries, restarts, last, forgot>>

\* Claim reads the clock ...
ReadClock(c) ==
    /\ embeddedAt[c].pc = "claim"
    /\ embeddedAt' = [embeddedAt EXCEPT ![c].pc = "locked", ![c].read = embeddedNow]
    /\ UNCHANGED <<embeddedNow, embeddedEntries, restarts, last, forgot>>

\* ... and decides under the mutex.
EmbeddedClaim(c) ==
    /\ embeddedAt[c].pc = "locked"
    /\ LET req   == embeddedAt[c].req
           key   == buildReplayKey(req.token)
           live  == pruneExpiredLocked(embeddedEntries, embeddedAt[c].read)
           until == embeddedAt[c].read + IF req.ttl > 0 THEN req.ttl ELSE ReplayTTL
       IN  \/ /\ \E e \in live : e.key = key
              /\ embeddedEntries' = live
              /\ embeddedAt' = [embeddedAt EXCEPT ![c].pc = "done", ![c].out = "replay"]
              /\ UNCHANGED <<last, forgot>>
           \/ /\ \A e \in live : e.key # key
              /\ \E kept \in enforceCapacityLocked(live) :
                    /\ embeddedEntries' = kept \cup {[key |-> key, until |-> until]}
                    /\ forgot' = (forgot \cup {e.key : e \in live \ kept}) \ {key}
              /\ last' = [last EXCEPT ![Identity(req.token)] = [until |-> until, chosen |-> req.ttl > 0]]
              /\ EmbeddedGoto(c, "exchange")
    /\ UNCHANGED <<embeddedNow, restarts>>

\* The claim stays whatever becomes of the exchange.
EmbeddedExchange(c, reply) ==
    /\ embeddedAt[c].pc = "exchange"
    /\ LET token == ExchangeSessionToken(embeddedAt[c].req, reply) IN
       embeddedAt' = [embeddedAt EXCEPT ![c].pc = "done",
                                        ![c].out = IF token = EmbeddedUnset THEN "exchange_failed" ELSE "ok",
                                        ![c].shop = IF token = EmbeddedUnset THEN EmbeddedUnset ELSE token.shop]
    /\ UNCHANGED <<embeddedNow, embeddedEntries, restarts, last, forgot>>

\* The caller has its answer.
Again(c) ==
    /\ embeddedAt[c].pc = "done" /\ embeddedAt' = [embeddedAt EXCEPT ![c] = EmbeddedIdle]
    /\ UNCHANGED <<embeddedNow, embeddedEntries, restarts, last, forgot>>

PurgeExpired ==
    /\ embeddedEntries # pruneExpiredLocked(embeddedEntries, embeddedNow)
    /\ embeddedEntries' = pruneExpiredLocked(embeddedEntries, embeddedNow)
    /\ UNCHANGED <<embeddedNow, embeddedAt, restarts, last, forgot>>

Restart ==
    /\ restarts < MaxRestarts /\ restarts' = restarts + 1
    /\ embeddedEntries' = {} /\ forgot' = forgot \cup {e.key : e \in embeddedEntries}
    /\ embeddedAt' = [c \in EmbeddedCallers |-> EmbeddedIdle]
    /\ UNCHANGED <<embeddedNow, last>>

EmbeddedTick ==
    /\ embeddedNow < MaxEmbeddedClock /\ embeddedNow' = embeddedNow + 1
    /\ UNCHANGED <<embeddedEntries, embeddedAt, restarts, last, forgot>>

EmbeddedNext ==
    \/ \E c \in EmbeddedCallers :
          \/ \E req \in EmbeddedRequests : Authenticate(c, req)
          \/ ReadClock(c) \/ EmbeddedClaim(c) \/ Again(c)
          \/ \E reply \in EmbeddedReplies : EmbeddedExchange(c, reply)
    \/ PurgeExpired \/ Restart \/ EmbeddedTick

EmbeddedSpec == EmbeddedInit /\ [][EmbeddedNext]_embeddedVars

-----------------------------------------------------------------------------
Accepted(c) == embeddedAt[c].pc = "locked" /\ embeddedAt'[c].pc = "exchange"
NewestClaim(c) == last[Identity(embeddedAt[c].req.token)]
Claimed(c) == NewestClaim(c).until
Remembered(c) == Claimed(c) # 0 /\ Identity(embeddedAt[c].req.token) \notin forgot

\* A request is turned away as a replay only if the same id of the same shop was
\* claimed: shops do not use up each other's ids.
ReplayWasClaimed ==
    \A c \in EmbeddedCallers : embeddedAt[c].out = "replay" => Claimed(c) # 0

\* A result is for the shop the request expects, or the configured one when it
\* names none.
AsExpected ==
    \A c \in EmbeddedCallers :
        embeddedAt[c].out = "ok" =>
            LET host == ExpectedShop(embeddedAt[c].req)
            IN  host # EmbeddedUnset => embeddedAt[c].shop = host.shop

ClaimedAgainLate ==
    \A c \in EmbeddedCallers : Accepted(c) /\ Remembered(c) => embeddedNow >= Claimed(c)

LedgerBounded == Cardinality(embeddedEntries) <= MaxEmbeddedEntries

\* A claim is granted again only once the earlier one has expired on the clock,
\* whichever readings the concurrent claims and purges work with, unless it was
\* evicted for room or lost in a restart.  The ledger stays within its limit, and
\* the answers are the right ones.
ClaimsHold ==
    [][ClaimedAgainLate /\ LedgerBounded' /\ ReplayWasClaimed' /\ AsExpected']_embeddedVars

PassedAgainLate ==
    \A c \in EmbeddedCallers : Accepted(c) /\ Remembered(c) /\ ~NewestClaim(c).chosen =>
        embeddedNow > embeddedAt[c].req.token.exp + Skew

\* A claim that lives for the configured time outlasts its token: the same token
\* passes a second time only in a request that was validated and then held until
\* the token had expired.  It needs every bound of the validator's window.
OutlastsToken == [][PassedAgainLate]_embeddedVars

\* A token is accepted once while it is valid, and every answer is the right one.
TokenPassesOnce == ClaimsHold /\ OutlastsToken

\* What OutlastsToken asks of the configuration and of who issues the tokens: a
\* claim lives longer than the validator accepts any token of its shop and id.
OutlivesWindow ==
    \A r, q \in EmbeddedRequests :
        Identity(r.token) = Identity(q.token) /\ r.token.exp # EmbeddedUnset
          /\ q.token.iat # EmbeddedUnset
        => r.token.exp + Skew < q.token.iat - Skew + ReplayTTL
=============================================================================
