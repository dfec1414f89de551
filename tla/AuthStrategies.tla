--------------------------- MODULE AuthStrategies ---------------------------
(***************************************************************************)
(* What the auth strategies make of a request and of the credential they   *)
(* get back: Complete and Refresh of the service-account JWT strategy with *)
(* its Google exchange, of OAuth2 client credentials with and without the  *)
(* SigV4 profile (auth/*.go), of the static key strategies, and of the     *)
(* OAuth2 code provider (providers/oauth2_provider.go).                    *)
(*                                                                         *)
(* A metadata map is a function on MetaKeys; a value stands for where it   *)
(* came from.  The aliases of a key that is read with the same precedence  *)
(* (jwt_issuer for issuer) are one key.  Unset is the empty string, and    *)
(* what a call that fails returns.                                         *)
(***************************************************************************)
EXTENDS Naturals, Sequences

CONSTANT Unset

MetaKeys == {"issuer", "client_email", "audience", "token_url", "subject",
             "service_account_subject", "signing_key", "private_key", "key_id",
             "private_key_id", "token_uri", "service_account_json",
             "google_token_exchange", "requested_grants", "granted_grants",
             "client_id", "client_secret", "external_account_id", "secret",
             "aws_access_key_id", "aws_secret_access_key", "aws_region",
             "aws_service", "aws_unsigned_payload"}

NoMetadata == [k \in MetaKeys |-> Unset]

firstNonEmpty(values) ==
    LET given == SelectSeq(values, LAMBDA v : v # Unset)
    IN  IF given = <<>> THEN Unset ELSE Head(given)

\* readString sees strings only; a stored Boolean reads as absent.
Boolean(v) == IF v = "true" THEN "bool:true" ELSE "bool:false"

readString(v) == IF v \in {"bool:true", "bool:false"} THEN Unset ELSE v

\* What a token was asked for with.  `to' is the token endpoint, Unset for a
\* token signed locally.
NoClaims == [iss |-> Unset, sub |-> Unset, aud |-> Unset, key |-> Unset,
             kid |-> Unset, to |-> Unset]

\* ActiveCredential; `stamp' tells access tokens apart, 0 is no access token.
Credential(claims, stamp, requested, granted, exp, refresh, refreshable, md) ==
    [claims |-> claims, stamp |-> stamp, requested |-> requested,
     granted |-> granted, exp |-> exp, refresh |-> refresh,
     refreshable |-> refreshable, md |-> md]

\* resolveExpiresAt and its copies: expires_in when it is positive, else TokenTTL.
resolveExpiresAt(cfg, now, reply) == now + (IF reply.ttl > 0 THEN reply.ttl ELSE cfg.ttl)

-----------------------------------------------------------------------------
(* ServiceAccountJWTStrategy.                                              *)

CompleteParams(cfg, md, scope) ==
    [iss |-> firstNonEmpty(<<md.issuer, md.client_email, cfg.issuer>>),
     aud |-> firstNonEmpty(<<md.audience, md.token_url, cfg.audience>>),
     sub |-> firstNonEmpty(<<md.subject, cfg.subject, scope>>),
     key |-> firstNonEmpty(<<md.signing_key, md.private_key, cfg.signing_key>>),
     kid |-> firstNonEmpty(<<md.key_id, cfg.key_id>>),
     to  |-> Unset]

RefreshParams(cfg, md) ==
    [iss |-> firstNonEmpty(<<md.issuer, cfg.issuer>>),
     aud |-> firstNonEmpty(<<md.audience, cfg.audience>>),
     sub |-> firstNonEmpty(<<md.subject, cfg.subject>>),
     key |-> firstNonEmpty(<<md.signing_key, md.private_key, cfg.signing_key>>),
     kid |-> firstNonEmpty(<<md.key_id, cfg.key_id>>),
     to  |-> Unset]

GoogleExchange(md) ==
    \/ md.service_account_json # Unset \/ md.token_uri # Unset
    \/ md.google_token_exchange = "true"

\* googleServiceAccountSpec: explicit keys, then the JSON document, then the
\* parameters the strategy resolved.
googleServiceAccountSpec(cfg, md, p) ==
    LET json(field) == IF md.service_account_json = Unset THEN Unset ELSE field
        uri == firstNonEmpty(<<md.token_uri, md.token_url, json("json:uri"), p.aud>>)
        delegate == firstNonEmpty(<<md.service_account_subject, cfg.subject>>)
    IN  [iss |-> firstNonEmpty(<<md.client_email, json("json:email"), p.iss>>),
         key |-> firstNonEmpty(<<md.private_key, md.signing_key, json("json:key"), p.key>>),
         kid |-> firstNonEmpty(<<md.private_key_id, md.key_id, json("json:kid"), p.kid>>),
         to  |-> uri,
         aud |-> firstNonEmpty(<<md.audience, uri, p.aud>>),
         sub |-> IF delegate = Unset /\ p.sub # p.iss THEN p.sub ELSE delegate]

\* googleServiceAccountSpec.metadata: what a refresh will find.
GoogleMetadata_OneSubject(spec, scopes) ==
    [NoMetadata EXCEPT
        !.issuer = spec.iss, !.client_email = spec.iss, !.audience = spec.aud,
        !.token_uri = spec.to, !.signing_key = spec.key, !.subject = spec.sub,
        !.key_id = spec.kid, !.private_key_id = spec.kid, !.requested_grants = scopes]

GoogleMetadata(spec, scopes) ==
    [NoMetadata EXCEPT
        !.issuer = spec.iss, !.client_email = spec.iss, !.audience = spec.aud,
        !.token_uri = spec.to, !.signing_key = spec.key, !.subject = spec.sub,
        !.service_account_subject = spec.sub,
        !.key_id = spec.kid, !.private_key_id = spec.kid, !.requested_grants = scopes]

\* exchangeGoogleServiceAccountJWT: the required parts, then the endpoint.
GoogleToken(cfg, spec, requested, now, reply) ==
    IF \/ Unset \in {spec.iss, spec.key, spec.to, requested} \/ reply = Unset
    THEN Unset
    ELSE Credential(spec, now, requested, firstNonEmpty(<<reply.scope, requested>>),
                    resolveExpiresAt(cfg, now, reply), Unset, TRUE,
                    GoogleMetadata(spec, requested))

JWTComplete(cfg, md, scope, now, reply) ==
    LET p == CompleteParams(cfg, md, scope)
        granted == firstNonEmpty(<<md.granted_grants, md.requested_grants>>)
    IN  IF GoogleExchange(md)
        THEN GoogleToken(cfg, googleServiceAccountSpec(cfg, md, p), md.requested_grants,
                         now, reply)
        ELSE IF Unset \in {p.iss, p.aud, p.key} THEN Unset
        ELSE Credential(p, now, md.requested_grants, granted, now + cfg.ttl, Unset, TRUE,
                        [NoMetadata EXCEPT
                            !.issuer = p.iss, !.subject = p.sub, !.audience = p.aud,
                            !.signing_key = firstNonEmpty(<<md.signing_key, md.private_key>>),
                            !.key_id = p.kid])

JWTRefresh(cfg, cred, now, reply) ==
    LET p == RefreshParams(cfg, cred.md)
        requested == firstNonEmpty(<<cred.md.requested_grants, cred.requested>>)
    IN  IF Unset \in {p.iss, p.aud, p.key} THEN Unset
        ELSE IF GoogleExchange(cred.md)
        THEN GoogleToken(cfg, googleServiceAccountSpec(cfg, cred.md, p), requested,
                         now, reply)
        ELSE IF p.sub = Unset THEN Unset
        ELSE [cred EXCEPT !.claims = p, !.stamp = now,
                          !.exp = now + cfg.ttl, !.refreshable = TRUE,
                          !.md = [@ EXCEPT !.key_id = p.kid]]

-----------------------------------------------------------------------------
(* OAuth2ClientCredentialsStrategy past its cache, and the SigV4 profile.  *)

ClientPair(cfg, md) ==
    [NoClaims EXCEPT !.iss = firstNonEmpty(<<md.client_id, cfg.client_id>>),
                     !.key = firstNonEmpty(<<md.client_secret, cfg.client_secret>>),
                     !.to  = firstNonEmpty(<<md.token_url, cfg.token_url>>)]

\* issueCredential: the metadata names the client and the endpoint, never the secret.
issueCredential(cfg, pair, requested, granted, now, reply) ==
    IF Unset \in {pair.iss, pair.key, pair.to} \/ reply = Unset THEN Unset
    ELSE Credential(pair, now, requested, firstNonEmpty(<<reply.scope, granted, requested>>),
                    resolveExpiresAt(cfg, now, reply), Unset, TRUE,
                    [NoMetadata EXCEPT !.client_id = pair.iss, !.token_url = pair.to])

ClientCredentialsComplete(cfg, md, now, reply) ==
    LET requested == firstNonEmpty(<<md.requested_grants, cfg.default_scopes>>) IN
    issueCredential(cfg, ClientPair(cfg, md), requested,
                    firstNonEmpty(<<md.granted_grants, requested>>), now, reply)

ClientCredentialsRefresh(cfg, cred, now, reply) ==
    LET requested == firstNonEmpty(<<cred.requested, cfg.default_scopes>>) IN
    issueCredential(cfg, ClientPair(cfg, cred.md), requested,
                    firstNonEmpty(<<cred.granted, requested>>), now, reply)

ProfileKeys == {"aws_access_key_id", "aws_secret_access_key", "aws_region", "aws_service"}

\* applySigV4ProfileMetadata: the runtime's values, else the profile's; and
\* validateSigV4ProfileMetadata.
applySigV4ProfileMetadata(cfg, cred, runtime) ==
    IF cred = Unset THEN Unset ELSE
    LET md == [k \in MetaKeys |->
                 IF k \in ProfileKeys
                 THEN firstNonEmpty(<<readString(runtime[k]), cfg[k], cred.md[k]>>)
                 ELSE IF k = "aws_unsigned_payload"
                 THEN Boolean(firstNonEmpty(<<readString(runtime[k]), cfg[k]>>))
                 ELSE cred.md[k]]
    IN  IF \E k \in ProfileKeys : md[k] = Unset THEN Unset ELSE [cred EXCEPT !.md = md]

-----------------------------------------------------------------------------
(* APIKeyStrategy, HMACStrategy, BasicStrategy, MTLSStrategy: a secret and, *)
(* for the last two, the name that goes with it; nothing to refresh.        *)

StaticComplete(kind, cfg, md, now) ==
    LET secret == firstNonEmpty(<<md.secret, cfg.secret>>)
        name   == firstNonEmpty(<<md.key_id, cfg.key_id,
                                  IF kind = "hmac" THEN "hmac-default" ELSE Unset>>)
    IN  IF secret = Unset \/ (kind \in {"basic", "mtls"} /\ name = Unset) THEN Unset
        ELSE Credential([NoClaims EXCEPT !.key = secret, !.kid = name], now,
                        md.requested_grants,
                        firstNonEmpty(<<md.granted_grants, md.requested_grants>>),
                        0, Unset, FALSE, [NoMetadata EXCEPT !.key_id = name])

StaticRefresh(cred) == [cred EXCEPT !.refreshable = FALSE]

-----------------------------------------------------------------------------
(* OAuth2Provider.  A reply of the token endpoint names the refresh token   *)
(* it grants, if any, and the access token by its stamp.                    *)

\* CompleteAuth; the account comes from the metadata or the profile resolver.
CompleteAuth(cfg, md, now, reply) ==
    LET requested == firstNonEmpty(<<md.requested_grants, cfg.default_scopes>>) IN
    IF reply = Unset \/ firstNonEmpty(<<md.external_account_id, reply.account>>) = Unset
    THEN Unset
    ELSE Credential(NoClaims, reply.stamp, requested,
                    firstNonEmpty(<<reply.scope, md.granted_grants, requested>>),
                    resolveExpiresAt(cfg, now, reply), reply.refresh,
                    reply.refresh # Unset, NoMetadata)

ProviderRefresh(cfg, cred, now, reply) ==
    LET requested == firstNonEmpty(<<cred.requested, cfg.default_scopes>>) IN
    IF cred.refresh = Unset \/ reply = Unset THEN Unset
    ELSE [cred EXCEPT !.stamp = reply.stamp, !.requested = requested,
                      !.granted = firstNonEmpty(<<reply.scope, @, requested>>),
                      !.exp = resolveExpiresAt(cfg, now, reply),
                      !.refresh = firstNonEmpty(<<reply.refresh, @>>),
                      !.refreshable = TRUE]
=============================================================================
