--------------------------- MODULE MCConnections ---------------------------
(***************************************************************************)
(* The connection side for TLC: modules ConnectionRefresh, AccountLinking, *)
(* Installations, SecretProviders and ClientCredentials, and beside them   *)
(* the credentials the strategies complete and refresh (module             *)
(* CredentialChain, twice). No state is shared between these, so a         *)
(* behaviour takes the steps of one of them, chosen at the start, and the  *)
(* others keep their initial state.                                        *)
(*                                                                         *)
(* A given metadata value is named after its key, a configured one is      *)
(* "cfg".                                                                  *)
(***************************************************************************)
EXTENDS ConnectionRefresh, AccountLinking, Installations, SecretProviders,
        ClientCredentials, FiniteSets, TLC

CONSTANTS x1, x2, v1, c1, w1, i1, i2, none

VARIABLES
    part,   \* the component whose steps this behaviour takes
    cc_setup, cc_codec, cc_row, cc_endpoint, cc_now, cc_lock, cc_at,
    cc_faults, cc_first, cc_told, cc_broken, cc_stale, cr_setup, cr_codec,
    cr_row, cr_endpoint, cr_now, cr_lock, cr_at, cr_faults, cr_first, cr_told,
    cr_broken, cr_stale

ccVars == <<cc_setup, cc_codec, cc_row, cc_endpoint, cc_now, cc_lock, cc_at,
            cc_faults, cc_first, cc_told, cc_broken, cc_stale>>
crVars == <<cr_setup, cr_codec, cr_row, cr_endpoint, cr_now, cr_lock, cr_at,
            cr_faults, cr_first, cr_told, cr_broken, cr_stale>>

Auth == INSTANCE AuthStrategies WITH Unset <- none

ConfigKeys ==
    {"issuer", "audience", "subject", "signing_key", "key_id", "client_id",
     "client_secret", "token_url", "default_scopes", "secret",
     "aws_unsigned_payload"} \cup Auth!ProfileKeys

Config(keys) ==
    [k \in ConfigKeys |-> IF k \in keys THEN "cfg" ELSE none] @@ [ttl |-> 2]

Given(keys) ==
    [k \in Auth!MetaKeys |->
        IF k \notin keys THEN none
        ELSE IF k \in {"google_token_exchange", "aws_unsigned_payload"}
        THEN "true" ELSE k]

Setup(kind, configured, given, scope) ==
    [kind |-> kind, cfg |-> Config(configured), md |-> Given(given),
     scope |-> scope]

\* Which of the keys of a service account are given and which configured.
JWTSetups ==
    {Setup("jwt", configured, given \cup {"requested_grants"}, "issuer") :
        configured \in
            {{}, {"issuer", "audience", "signing_key"},
             {"issuer", "audience", "subject", "signing_key", "key_id"}},
        given \in SUBSET {"issuer", "client_email", "audience", "subject",
                          "service_account_subject", "signing_key",
                          "private_key", "token_uri", "service_account_json"}}

\* Clients whose secret is configured, with splits of the signing profile.
SigV4Setups ==
    {Setup("sigv4", {"client_id", "client_secret"} \cup configured,
           given \cup client, "scope") :
        configured \in SUBSET {"aws_access_key_id", "aws_region", "token_url"}
                         \cup {Auth!ProfileKeys},
        given \in SUBSET (Auth!ProfileKeys \cup {"aws_unsigned_payload"}),
        client \in {{}, {"client_id", "token_url"}}}

StaticSetups ==
    {Setup(kind, configured, given, "scope") :
        kind \in {"api_key", "hmac", "basic", "mtls"},
        configured \in SUBSET {"secret", "key_id"},
        given \in SUBSET {"secret", "key_id"}}

ClientSetups ==
    {Setup("client",
           {"client_id", "client_secret", "token_url", "default_scopes"},
           given, "scope") :
        given \in SUBSET {"client_id", "token_url", "requested_grants",
                          "granted_grants"}}

AllSetups == JWTSetups \cup SigV4Setups \cup StaticSetups \cup ClientSetups

OAuth2Setups ==
    {Setup("oauth2", {"default_scopes"}, given, "scope") :
        given \in {{}, {"requested_grants", "granted_grants",
                        "external_account_id"}}}

Form(scope, ttl, rotates, renews) ==
    [scope |-> scope, ttl |-> ttl, rotates |-> rotates, renews |-> renews]

\* A new scope, a rotated refresh token, the same access token again.  All with
\* the same lifetime: the clock is read to the nanosecond, so no two replies
\* lead to the same expiry.
ManyReplies ==
    {Form(none, 0, TRUE, FALSE), Form("narrow", 0, FALSE, TRUE),
     Form("narrow", 0, TRUE, FALSE)}

TwoUsers == {[issuer |-> "i", sub |-> "s"], [issuer |-> "i", sub |-> "t"]}

Built(github) ==
    [url |-> TRUE, issuer |-> "i", default |-> "i", github |-> github,
     verifier |-> FALSE, explicit |-> FALSE]

\* A built-in provider, GitHub, one whose issuer is configured with a verifier,
\* and one where the host names the account.
StableSetups ==
    {Built(FALSE), Built(TRUE),
     [Built(FALSE) EXCEPT !.default = none, !.verifier = TRUE],
     [Built(FALSE) EXCEPT !.explicit = TRUE]}

AppKey == [alg |-> "aes-256-gcm", key |-> "app", ver |-> 1, allowed |-> {},
           any |-> FALSE, legacy |-> TRUE, windows |-> <<>>]
Kms1 == [alg |-> "kms", key |-> "master", ver |-> 1, allowed |-> {},
         any |-> FALSE, legacy |-> FALSE, windows |-> <<>>]
Kms2 == [Kms1 EXCEPT !.ver = 2, !.allowed = {1},
                     !.windows = (1 :> [from |-> 0, to |-> 2])
                                   @@ (2 :> [from |-> 2, to |-> 9])]
Rollout ==
    <<[primary |-> AppKey, fallback |-> none, policy |-> "strict_fail"],
      [primary |-> Kms1, fallback |-> AppKey, policy |-> "fallback_allowed"],
      [primary |-> Kms2, fallback |-> AppKey, policy |-> "fallback_allowed"]>>

Legacy(key, ver) ==
    [env |-> [prefix |-> FALSE, alg |-> none, key |-> key, ver |-> ver,
              aad |-> FALSE],
     key |-> "app", ver |-> 1, dep |-> 1]
OldRows == {Legacy(none, 0), Legacy("app", 1)}

ScopeSets == {{}, {"read"}, {"read", "write"}}
SomeClaims == {{}, {"write"}}

\* One caller, and every way a strategy may be set up.
Strategies == INSTANCE CredentialChain WITH
    Unset <- none, Callers <- {w1}, Setups <- AllSetups,
    Replies <- {Form(none, 0, TRUE, TRUE)}, Lead <- 1, MaxClock <- 3,
    MaxFaults <- 0,
    setup <- cc_setup, codec <- cc_codec, row <- cc_row,
    endpoint <- cc_endpoint, now <- cc_now, lock <- cc_lock, at <- cc_at,
    faults <- cc_faults, first <- cc_first, told <- cc_told,
    broken <- cc_broken, stale <- cc_stale

\* Two callers of one OAuth2 connection; rotated tokens, new scopes, a lost
\* reply.
Rotation == INSTANCE CredentialChain WITH
    Unset <- none, Callers <- {x1, x2}, Setups <- OAuth2Setups,
    Replies <- ManyReplies, Lead <- 1, MaxClock <- 5, MaxFaults <- 1,
    setup <- cr_setup, codec <- cr_codec, row <- cr_row,
    endpoint <- cr_endpoint, now <- cr_now, lock <- cr_lock, at <- cr_at,
    faults <- cr_faults, first <- cr_first, told <- cr_told,
    broken <- cr_broken, stale <- cr_stale

\* What the theorems about accounts and secrets ask of the configuration.
ASSUME ConfigurationAssumption == (\A s \in Setups : Steady(s)) /\ KeysKept

-----------------------------------------------------------------------------
otherVars == <<accountVars, installVars, secretVars, clientVars>>

allVars == <<part, vars, ccVars, crVars, otherVars>>

ComposedInit ==
    /\ part \in {"refresh", "given", "strategies", "rotation", "accounts",
                 "installations", "secrets", "expiry", "keys"}
    /\ RefreshInit
    /\ Strategies!Init
    /\ part # "strategies" =>
          /\ cc_setup = Setup("api_key", {"secret"}, {}, "scope")
          /\ cc_codec = "json"
    /\ Rotation!Init
    /\ part # "rotation" =>
          /\ cr_setup = Setup("oauth2", {"default_scopes"}, {}, "scope")
          /\ cr_codec = "json"
    /\ AccountInit /\ (part # "accounts" => setup = Built(FALSE))
    /\ InstallInit
    /\ SecretInit
    /\ ClientInit

\* Workers without scopes while time passes, or with scopes while it does not.
FetchingNow == {clientAt'[w] : w \in {x \in Workers : clientAt'[x].pc = "fetch"}}
ExpiryOnly == \A f \in FetchingNow : f.requested = {} /\ f.claim = {}
KeysOnly ==
    /\ clientClock' = 0
    /\ \A f \in FetchingNow :
          f.requested # {} /\ (f.token # none => f.token.life = 0)

\* Refreshes that read the credential under a lock whose TTL may pass, or that
\* may also bring one read before, within the TTL.
RefreshStep ==
    /\ RefreshNext
    /\ \/ part = "refresh" /\ \A x \in Refreshers : rf'[x].given = 0
       \/ part = "given" /\ \A x \in Refreshers : ~rf'[x].over

ComposedNext ==
    \/ /\ RefreshStep
       /\ UNCHANGED <<part, ccVars, crVars, otherVars>>
    \/ /\ part = "strategies" /\ Strategies!Next
       /\ UNCHANGED <<part, vars, crVars, otherVars>>
    \/ /\ part = "rotation" /\ Rotation!Next
       /\ UNCHANGED <<part, vars, ccVars, otherVars>>
    \/ /\ UNCHANGED <<part, vars, ccVars, crVars>>
       /\ \/ /\ part = "accounts" /\ AccountNext
             /\ UNCHANGED <<installVars, secretVars, clientVars>>
          \/ /\ part = "installations" /\ InstallNext
             /\ UNCHANGED <<accountVars, secretVars, clientVars>>
          \/ /\ part = "secrets" /\ SecretNext
             /\ UNCHANGED <<accountVars, installVars, clientVars>>
          \/ /\ part = "expiry" /\ ClientNext /\ ExpiryOnly
             /\ UNCHANGED <<accountVars, installVars, secretVars>>
          \/ /\ part = "keys" /\ ClientNext /\ KeysOnly
             /\ UNCHANGED <<accountVars, installVars, secretVars>>

ComposedSpec == ComposedInit /\ [][ComposedNext]_allVars

ASSUME ChainsAdmissible ==
    /\ Strategies!CredentialChainAssumption
    /\ Rotation!CredentialChainAssumption

Symmetry == Permutations({x1, x2})

-----------------------------------------------------------------------------
(* Properties. *)

\* A credential that Complete returned can be refreshed, and however often, a
\* refresh presents the issuer, subject, key, endpoint, client and signing
\* profile of the first token.
RenewsAsCompleted == Strategies!RenewsAsCompleted

\* The stored refresh token and grants are the latest of the endpoint, unless
\* a reply or a save was lost or a refresh started from a replaced
\* credential; every row stays readable, also one of the legacy codec.
RowFollowsEndpoint == Rotation!RowFollowsEndpoint

=============================================================================
