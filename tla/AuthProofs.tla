----------------------------- MODULE AuthProofs -----------------------------
(***************************************************************************)
(* Proofs about how a caller is recognised: the OAuth state of a callback  *)
(* (OAuthFlow) and embedded session tokens (EmbeddedAuth), for any callers,*)
(* tokens, limits and times.                                               *)
(***************************************************************************)
EXTENDS OAuthFlow, EmbeddedAuth, FiniteSetTheorems, WellFoundedInduction,
        TLAPS

-----------------------------------------------------------------------------
(* Embedded session tokens.  What a caller knows of its token, what the    *)
(* ledger holds of the newest claim on each identity, and how late a claim *)
(* can be when the validator has accepted the token.                       *)

EmbeddedIds == {Identity(t) : t \in Tokens}

\* What the validator has established of a request that goes on to the claim.
Vetted(req) ==
    /\ req \in EmbeddedRequests
    /\ req.token.exp \in Int /\ req.token.iat \in Int
    /\ req.token.exp # EmbeddedUnset /\ req.token.iat # EmbeddedUnset
    /\ normalizeShopDomain(req.token.dest.host) = req.token.dest.host.shop
    /\ ExpectedShop(req) # EmbeddedUnset => ExpectedShop(req).shop = req.token.dest.host.shop

EmbeddedCallSound(l, n, la) ==
    /\ DOMAIN l = DOMAIN EmbeddedIdle
    /\ l.pc \in {"claim", "locked", "exchange"} =>
         Vetted(l.req) /\ l.out = "" /\ n + Skew >= l.req.token.iat
    /\ l.pc = "locked" => l.read \in Nat /\ l.read <= n /\ l.read + Skew >= l.req.token.iat
    /\ l.out = "replay" => l.req \in EmbeddedRequests /\ la[Identity(l.req.token)].until # 0
    /\ l.out = "ok" => (ExpectedShop(l.req) # EmbeddedUnset => l.shop = ExpectedShop(l.req).shop)

LedgerSound(es, n, la, fo) ==
    /\ IsFiniteSet(es) /\ Cardinality(es) <= MaxEmbeddedEntries
    /\ \A e \in es : e.key \in EmbeddedIds /\ e.until = la[e.key].until /\ e.until # 0
    /\ \A e, f \in es : e.key = f.key => e = f
    /\ \A i \in EmbeddedIds :
         la[i].until # 0 /\ i \notin fo => (\E e \in es : e.key = i) \/ n >= la[i].until

NewestSound(la) ==
    /\ la \in [EmbeddedIds -> [until : Nat, chosen : BOOLEAN]]
    /\ OutlivesWindow =>
         \A r \in EmbeddedRequests :
            la[Identity(r.token)].until # 0 /\ ~la[Identity(r.token)].chosen
              /\ r.token.exp # EmbeddedUnset
            => r.token.exp + Skew < la[Identity(r.token)].until

EmbeddedInv ==
    /\ embeddedNow \in Nat
    /\ embeddedAt = [c \in EmbeddedCallers |-> embeddedAt[c]]
    /\ \A c \in EmbeddedCallers : EmbeddedCallSound(embeddedAt[c], embeddedNow, last)
    /\ LedgerSound(embeddedEntries, embeddedNow, last, forgot)
    /\ NewestSound(last)

\* A nonempty set of naturals has a least element.
LEMMA LeastIndex ==
  ASSUME NEW S \in SUBSET Nat, S # {} PROVE \E i \in S : \A j \in S : i <= j
<1> DEFINE R == OpToRel(<, Nat)
<1>1. PICK m \in S : \A y \in S : ~(<<y, m>> \in R)
  <2> HIDE DEF R
  <2>1. IsWellFoundedOn(R, Nat)
    BY NatLessThanWellFounded, Zenon DEF R
  <2>2. QED
    BY <2>1, WFMin, Zenon
<1> HIDE DEF R
<1>2. ASSUME NEW y \in S PROVE m <= y
  <2>1. y \in Nat /\ m \in Nat
    BY Zenon
  <2>2. ~(y < m)
    BY <1>1, <2>1, Zenon DEF R, OpToRel
  <2>3. QED
    BY <2>1, <2>2
<1>3. QED
  BY <1>2, Zenon

\* The first failure names one of the codes, and without one no check failed.
LEMMA FailureNamed ==
  ASSUME NEW n \in Nat, NEW checks, DOMAIN checks = 1 .. n, NEW codes,
         \A i \in 1 .. n : checks[i][2] \in codes
  PROVE  /\ FirstFailure(checks) \in codes \cup {"valid"}
         /\ FirstFailure(checks) \notin codes => \A i \in 1 .. n : ~checks[i][1]
<1> DEFINE failed == {i \in DOMAIN checks : checks[i][1]}
           first == CHOOSE i \in failed : \A j \in failed : i <= j
<1>1. CASE failed = {}
  BY <1>1, Zenon DEF FirstFailure
<1>2. CASE failed # {}
  <2>1. failed \in SUBSET Nat
    OBVIOUS
  <2>2. \E i \in failed : \A j \in failed : i <= j
    BY <1>2, <2>1, LeastIndex, Zenon
  <2>3. first \in failed
    BY <2>2, Zenon
  <2>4. FirstFailure(checks) = checks[first][2]
    BY <1>2, Zenon DEF FirstFailure
  <2> HIDE DEF first
  <2>5. QED
    BY <2>3, <2>4, Zenon
<1>3. QED
  BY <1>1, <1>2, Zenon

\* No code of the signature checks reads like an answer of the service.
LEMMA SignatureCode ==
  ASSUME NEW token PROVE ValidSignature(token) \notin {"replay", "ok"}
<1> DEFINE checks == <<
    <<token.parts # 3,                                      "token_malformed">>,
    <<token.alg # "HS256",                                  "unsupported_alg">>,
    <<~token.signed,                                        "signature_mismatch">> >>
   codes == {"token_malformed", "unsupported_alg", "signature_mismatch"}
<1>1. DOMAIN checks = 1 .. 3 /\ \A i \in 1 .. 3 : checks[i][2] \in codes
  OBVIOUS
<1>2. ValidSignature(token) = FirstFailure(checks)
  BY Zenon DEF ValidSignature
<1>3. 3 \in Nat
  BY Zenon
<1> HIDE DEF checks, codes
<1>4. FirstFailure(checks) \in codes \cup {"valid"}
  BY <1>1, <1>3, FailureNamed, Zenon
<1>5. QED
  BY <1>2, <1>4, Zenon DEF codes

\* Nor does one of the time window, and a valid token was issued within the skew.
LEMMA TimeCode ==
  ASSUME NEW token
  PROVE  /\ ValidTime(token) \notin {"replay", "ok"}
         /\ ValidTime(token) = "valid" => ~(embeddedNow + Skew < token.iat)
<1> DEFINE checks == <<
    <<embeddedNow > token.exp + Skew,                       "token_expired">>,
    <<embeddedNow + Skew < token.nbf,                       "token_not_active">>,
    <<embeddedNow + Skew < token.iat,                       "issued_in_future">>,
    <<token.exp + Skew < token.iat,                         "invalid_time_window">>,
    <<embeddedNow > token.iat + MaxIssuedAtAge + Skew,      "issued_too_old">> >>
   codes == {"token_expired", "token_not_active", "issued_in_future", "invalid_time_window",
             "issued_too_old"}
<1>1. DOMAIN checks = 1 .. 5 /\ \A i \in 1 .. 5 : checks[i][2] \in codes
  OBVIOUS
<1>2. ValidTime(token) = FirstFailure(checks)
  BY Zenon DEF ValidTime
<1>3. 5 \in Nat /\ 3 \in 1 .. 5
  OBVIOUS
<1>4. checks[3][1] <=> embeddedNow + Skew < token.iat
  BY Zenon
<1> HIDE DEF checks, codes
<1>5. FirstFailure(checks) \in codes \cup {"valid"}
      /\ (FirstFailure(checks) \notin codes => \A i \in 1 .. 5 : ~checks[i][1])
  BY <1>1, <1>3, FailureNamed, Zenon
<1>6. QED
  BY <1>2, <1>3, <1>4, <1>5, Zenon DEF codes

\* Nor does one of the claims, and valid claims are of the expected shop.
LEMMA ClaimsCode ==
  ASSUME NEW token, NEW expected
  PROVE  /\ ValidClaims(token, expected) \notin {"replay", "ok"}
         /\ ValidClaims(token, expected) = "valid" =>
              /\ normalizeShopDomainStrict(token.dest.host) # EmbeddedUnset
              /\ token.exp # EmbeddedUnset /\ token.iat # EmbeddedUnset
              /\ expected # EmbeddedUnset =>
                   /\ normalizeShopDomain(expected) # EmbeddedUnset
                   /\ normalizeShopDomain(expected) = token.dest.host.shop
<1> DEFINE checks == <<
    <<~parseHTTPSURL(token.iss),                            "invalid_iss">>,
    <<~parseHTTPSURL(token.dest),                           "invalid_dest">>,
    <<~validIssuerPath(token.iss.path),                     "invalid_iss_path">>,
    <<~validDestinationPath(token.dest.path),               "invalid_dest_path">>,
    <<normalizeShopDomainStrict(token.iss.host) = EmbeddedUnset,    "invalid_iss_host">>,
    <<normalizeShopDomainStrict(token.dest.host) = EmbeddedUnset,   "invalid_dest_host">>,
    <<token.iss.host.shop # token.dest.host.shop,           "issuer_destination_mismatch">>,
    <<"client" \notin token.aud,                            "aud_mismatch">>,
    <<token.exp = EmbeddedUnset,                                    "invalid_exp">>,
    <<token.nbf = EmbeddedUnset,                                    "invalid_nbf">>,
    <<token.iat = EmbeddedUnset,                                    "invalid_iat">>,
    <<token.jti = EmbeddedUnset,                                    "missing_jti">>,
    <<expected # EmbeddedUnset
      /\ normalizeShopDomain(expected) = EmbeddedUnset, "invalid_expected_shop">>,
    <<expected # EmbeddedUnset /\ normalizeShopDomain(expected) # token.dest.host.shop,
                                                            "shop_mismatch">> >>
   codes == {"invalid_iss", "invalid_dest", "invalid_iss_path", "invalid_dest_path",
             "invalid_iss_host", "invalid_dest_host", "issuer_destination_mismatch",
             "aud_mismatch", "invalid_exp", "invalid_nbf", "invalid_iat", "missing_jti",
             "invalid_expected_shop", "shop_mismatch"}
<1>1. DOMAIN checks = 1 .. 14 /\ \A i \in 1 .. 14 : checks[i][2] \in codes
  OBVIOUS
<1>2. ValidClaims(token, expected) = FirstFailure(checks)
  BY Zenon DEF ValidClaims
<1>3. 14 \in Nat /\ 6 \in 1 .. 14 /\ 9 \in 1 .. 14 /\ 11 \in 1 .. 14 /\ 13 \in 1 .. 14
        /\ 14 \in 1 .. 14
  OBVIOUS
<1>4. /\ checks[6][1] <=> normalizeShopDomainStrict(token.dest.host) = EmbeddedUnset
      /\ checks[9][1] <=> token.exp = EmbeddedUnset
      /\ checks[11][1] <=> token.iat = EmbeddedUnset
      /\ checks[13][1] <=> expected # EmbeddedUnset /\ normalizeShopDomain(expected) = EmbeddedUnset
      /\ checks[14][1] <=> expected # EmbeddedUnset
                            /\ normalizeShopDomain(expected) # token.dest.host.shop
  BY Zenon
<1> HIDE DEF checks, codes
<1>5. FirstFailure(checks) \in codes \cup {"valid"}
      /\ (FirstFailure(checks) \notin codes => \A i \in 1 .. 14 : ~checks[i][1])
  BY <1>1, <1>3, FailureNamed, Zenon
<1>6. FirstFailure(checks) = "valid" => FirstFailure(checks) \notin codes
  BY Zenon DEF codes
<1>7. QED
  BY <1>2, <1>3, <1>4, <1>5, <1>6, Zenon DEF codes

\* What ValidateSessionToken has established when it accepts.
LEMMA ValidatedFacts ==
  ASSUME NEW req \in EmbeddedRequests, embeddedNow \in Nat
  PROVE  /\ ValidateSessionToken(req.token, ExpectedShop(req)) \notin {"replay", "ok"}
         /\ ValidateSessionToken(req.token, ExpectedShop(req)) = "valid" =>
              Vetted(req) /\ embeddedNow + Skew >= req.token.iat
<1> DEFINE x == ExpectedShop(req)
           code == ValidateSessionToken(req.token, x)
<1>1. code \notin {"replay", "ok"}
  BY SignatureCode, ClaimsCode, TimeCode, Zenon DEF ValidateSessionToken
<1>2. ASSUME code = "valid" PROVE Vetted(req) /\ embeddedNow + Skew >= req.token.iat
  <2>1. ValidClaims(req.token, x) = "valid" /\ ValidTime(req.token) = "valid"
    BY <1>2, Zenon DEF ValidateSessionToken
  <2>2. /\ normalizeShopDomainStrict(req.token.dest.host) # EmbeddedUnset
        /\ req.token.exp # EmbeddedUnset /\ req.token.iat # EmbeddedUnset
        /\ x # EmbeddedUnset => normalizeShopDomain(x) # EmbeddedUnset
                                /\ normalizeShopDomain(x) = req.token.dest.host.shop
    BY <2>1, ClaimsCode, Zenon
  <2>3. req.token.exp \in Int /\ req.token.iat \in Int
    BY <2>2, EmbeddedAuthAssumption, Zenon
  <2>4. normalizeShopDomain(req.token.dest.host) = req.token.dest.host.shop
    BY <2>2, Zenon DEF normalizeShopDomain, normalizeShopDomainStrict
  <2>5. x # EmbeddedUnset => x.shop = req.token.dest.host.shop
    BY <2>2, Zenon DEF normalizeShopDomain
  <2>6. ~(embeddedNow + Skew < req.token.iat)
    BY <2>1, TimeCode, Zenon
  <2>7. embeddedNow + Skew >= req.token.iat
    BY <2>3, <2>6, EmbeddedAuthAssumption
  <2>8. QED
    BY <2>2, <2>3, <2>4, <2>5, <2>7, Zenon DEF Vetted
<1>3. QED
  BY <1>1, <1>2, Zenon

\* The shop and id of a request's token are among the identities.
LEMMA IdentityKnown ==
  ASSUME NEW req \in EmbeddedRequests PROVE Identity(req.token) \in EmbeddedIds
BY Zenon DEF EmbeddedIds, Tokens

\* A caller whose claims are not forgotten by last stays sound as the clock runs.
LEMMA OthersSound ==
  ASSUME NEW l, NEW n \in Nat, NEW m \in Nat, n <= m, NEW la, NEW lb, EmbeddedCallSound(l, n, la),
         \A i \in EmbeddedIds : la[i].until # 0 => lb[i].until # 0
  PROVE  EmbeddedCallSound(l, m, lb)
<1>1. ASSUME l.pc \in {"claim", "locked", "exchange"} PROVE m + Skew >= l.req.token.iat
  <2> DEFINE t == l.req.token.iat
  <2>1. t \in Int /\ n + Skew >= t
    BY <1>1, Zenon DEF EmbeddedCallSound, Vetted
  <2> HIDE DEF t
  <2>2. m + Skew >= t
    BY <2>1, EmbeddedAuthAssumption
  <2>3. QED
    BY <2>2, Zenon DEF t
<1>2. ASSUME l.pc = "locked" PROVE l.read <= m
  <2> DEFINE t == l.read
  <2>1. t \in Nat /\ t <= n
    BY <1>2, Zenon DEF EmbeddedCallSound
  <2> HIDE DEF t
  <2>2. t <= m
    BY <2>1
  <2>3. QED
    BY <2>2, Zenon DEF t
<1>3. QED
  BY <1>1, <1>2, IdentityKnown, Zenon DEF EmbeddedCallSound

\* The invariant contains the bound of the ledger and the right answers.
LEMMA EmbeddedInvSafe == EmbeddedInv => LedgerBounded /\ ReplayWasClaimed /\ AsExpected
BY Zenon
   DEF EmbeddedInv, EmbeddedCallSound, LedgerSound, LedgerBounded, ReplayWasClaimed, AsExpected,
       Claimed, NewestClaim

\* A caller with no request knows nothing.
LEMMA IdleCallSound == ASSUME NEW n, NEW la PROVE EmbeddedCallSound(EmbeddedIdle, n, la)
BY Zenon DEF EmbeddedCallSound, EmbeddedIdle

\* The ledger is empty and nothing was claimed.
LEMMA EmbeddedInitInv == EmbeddedInit => EmbeddedInv
<1> SUFFICES ASSUME EmbeddedInit PROVE EmbeddedInv
  BY Zenon
<1>1. last = [i \in EmbeddedIds |-> NoClaim]
  BY Zenon DEF EmbeddedInit, EmbeddedIds
<1>2. \A r \in EmbeddedRequests : last[Identity(r.token)].until = 0
  BY <1>1, IdentityKnown, Zenon DEF NoClaim
<1>3. NewestSound(last)
  BY <1>1, <1>2, Zenon DEF NewestSound, NoClaim
<1>4. LedgerSound(embeddedEntries, embeddedNow, last, forgot)
  <2>1. IsFiniteSet(embeddedEntries) /\ Cardinality(embeddedEntries) = 0
    BY FS_EmptySet, Zenon DEF EmbeddedInit
  <2>2. QED
    BY <1>1, <2>1, EmbeddedAuthAssumption DEF EmbeddedInit, LedgerSound, NoClaim
<1>5. \A c \in EmbeddedCallers : EmbeddedCallSound(embeddedAt[c], embeddedNow, last)
  BY IdleCallSound, Zenon DEF EmbeddedInit
<1>6. QED
  BY <1>3, <1>4, <1>5, Zenon DEF EmbeddedInit, EmbeddedInv

\* One call moves to locals l; the ledger and the clock stay.
LEMMA EmbeddedCallStep ==
  ASSUME EmbeddedInv, NEW c \in EmbeddedCallers, NEW l, EmbeddedCallSound(l, embeddedNow, last),
         embeddedAt' = [embeddedAt EXCEPT ![c] = l],
         UNCHANGED <<embeddedNow, embeddedEntries, last, forgot>>
  PROVE  EmbeddedInv'
<1>1. embeddedAt' = [d \in EmbeddedCallers |-> IF d = c THEN l ELSE embeddedAt[d]]
  BY Zenon DEF EmbeddedInv
<1>2. \A d \in EmbeddedCallers : EmbeddedCallSound(embeddedAt'[d], embeddedNow, last)
  BY <1>1, Zenon DEF EmbeddedInv
<1>3. embeddedAt' = [d \in EmbeddedCallers |-> embeddedAt'[d]]
  BY <1>1, Zenon
<1>4. QED
  BY <1>2, <1>3, Zenon DEF EmbeddedInv

\* AuthenticateEmbedded validates before it claims.
LEMMA AuthenticateInv ==
  ASSUME EmbeddedInv, NEW c \in EmbeddedCallers, NEW req \in EmbeddedRequests, Authenticate(c, req)
  PROVE  EmbeddedInv'
<1> DEFINE code == ValidateSessionToken(req.token, ExpectedShop(req))
           typed == resolveRequestedTokenType(req.type) # EmbeddedUnset
           pc == IF code = "valid" /\ typed THEN "claim" ELSE "done"
           out == IF code # "valid" THEN code
                  ELSE IF ~typed THEN "invalid_requested_token_type" ELSE ""
           l == [EmbeddedIdle EXCEPT !.req = req, !.pc = pc, !.out = out]
<1>1. embeddedAt' = [embeddedAt EXCEPT ![c] = l]
      /\ UNCHANGED <<embeddedNow, embeddedEntries, last, forgot>>
  BY Zenon DEF Authenticate
<1>2. embeddedNow \in Nat
  BY Zenon DEF EmbeddedInv
<1>3. code \notin {"replay", "ok"}
      /\ (code = "valid" => Vetted(req) /\ embeddedNow + Skew >= req.token.iat)
  BY <1>2, ValidatedFacts, Zenon
<1> HIDE DEF code, typed
<1>4. /\ pc \in {"claim", "done"} /\ out \notin {"replay", "ok"}
      /\ pc = "claim" => code = "valid" /\ out = ""
  BY <1>3, Zenon
<1> HIDE DEF pc, out
<1>5. DOMAIN l = DOMAIN EmbeddedIdle /\ l.pc = pc /\ l.out = out /\ l.req = req
  BY Zenon DEF EmbeddedIdle
<1> HIDE DEF l
<1>6. EmbeddedCallSound(l, embeddedNow, last)
  BY <1>3, <1>4, <1>5, Zenon DEF EmbeddedCallSound
<1>7. QED
  BY <1>1, <1>6, EmbeddedCallStep, Zenon

\* The fields of a call's locals after an update of some of them.
LEMMA EmbeddedLocals ==
  ASSUME NEW l, DOMAIN l = DOMAIN EmbeddedIdle, NEW pc, NEW v
  PROVE  /\ LET m == [l EXCEPT !.pc = pc] IN
              DOMAIN m = DOMAIN EmbeddedIdle /\ m.pc = pc /\ m.req = l.req /\ m.out = l.out
              /\ m.read = l.read /\ m.shop = l.shop
         /\ LET m == [l EXCEPT !.pc = pc, !.read = v] IN
              DOMAIN m = DOMAIN EmbeddedIdle /\ m.pc = pc /\ m.req = l.req /\ m.out = l.out
              /\ m.read = v /\ m.shop = l.shop
         /\ LET m == [l EXCEPT !.pc = pc, !.out = v] IN
              DOMAIN m = DOMAIN EmbeddedIdle /\ m.pc = pc /\ m.req = l.req /\ m.out = v
BY Zenon DEF EmbeddedIdle

\* Claim reads a clock that is not behind the validator's.
LEMMA ReadClockInv ==
  ASSUME EmbeddedInv, NEW c \in EmbeddedCallers, ReadClock(c) PROVE EmbeddedInv'
<1> DEFINE k == embeddedAt[c]
           l == [k EXCEPT !.pc = "locked", !.read = embeddedNow]
<1>1. EmbeddedCallSound(k, embeddedNow, last) /\ embeddedNow \in Nat
  BY Zenon DEF EmbeddedInv
<1>2. k.pc = "claim" /\ embeddedAt' = [embeddedAt EXCEPT ![c] = l]
      /\ UNCHANGED <<embeddedNow, embeddedEntries, last, forgot>>
  BY Zenon DEF ReadClock
<1> HIDE DEF k
<1>3. DOMAIN k = DOMAIN EmbeddedIdle
  BY <1>1, Zenon DEF EmbeddedCallSound
<1>4. DOMAIN l = DOMAIN EmbeddedIdle /\ l.pc = "locked" /\ l.req = k.req /\ l.out = k.out
      /\ l.read = embeddedNow
  BY <1>3, EmbeddedLocals
<1> HIDE DEF l
<1>5. Vetted(k.req) /\ k.out = "" /\ embeddedNow + Skew >= k.req.token.iat
  BY <1>1, <1>2, Zenon DEF EmbeddedCallSound
<1>6. embeddedNow \in Nat /\ embeddedNow <= embeddedNow
  BY <1>1
<1>7. EmbeddedCallSound(l, embeddedNow, last)
  BY <1>4, <1>5, <1>6, Zenon DEF EmbeddedCallSound
<1>8. QED
  BY <1>2, <1>7, EmbeddedCallStep, Zenon

\* The exchange answers for the shop of the token.
LEMMA EmbeddedExchangeInv ==
  ASSUME EmbeddedInv, NEW c \in EmbeddedCallers, NEW reply,
    EmbeddedExchange(c, reply) PROVE EmbeddedInv'
<1> DEFINE k == embeddedAt[c]
           token == ExchangeSessionToken(k.req, reply)
           out == IF token = EmbeddedUnset THEN "exchange_failed" ELSE "ok"
           shop == IF token = EmbeddedUnset THEN EmbeddedUnset ELSE token.shop
           l == [k EXCEPT !.pc = "done", !.out = out, !.shop = shop]
<1>1. EmbeddedCallSound(k, embeddedNow, last)
  BY Zenon DEF EmbeddedInv
<1>2. k.pc = "exchange" /\ embeddedAt' = [embeddedAt EXCEPT ![c] = l]
      /\ UNCHANGED <<embeddedNow, embeddedEntries, last, forgot>>
  BY Zenon DEF EmbeddedExchange
<1> HIDE DEF k
<1>3. DOMAIN k = DOMAIN EmbeddedIdle /\ Vetted(k.req)
  BY <1>1, <1>2, Zenon DEF EmbeddedCallSound
<1>4. token = EmbeddedUnset \/ token.shop = normalizeShopDomain(k.req.token.dest.host)
  BY Zenon DEF ExchangeSessionToken
<1> HIDE DEF token
<1>5. out = "exchange_failed" \/ (out = "ok" /\ shop = normalizeShopDomain(k.req.token.dest.host))
  BY <1>4, Zenon
<1> HIDE DEF out, shop
<1>6. DOMAIN l = DOMAIN EmbeddedIdle /\ l.pc = "done" /\ l.req = k.req /\ l.out = out
        /\ l.shop = shop
  BY <1>3, Zenon DEF EmbeddedIdle
<1> HIDE DEF l
<1>7. EmbeddedCallSound(l, embeddedNow, last)
  <2>1. out = "ok" => (ExpectedShop(k.req) # EmbeddedUnset => shop = ExpectedShop(k.req).shop)
    BY <1>3, <1>5, Zenon DEF Vetted
  <2>2. out # "replay"
    BY <1>5, Zenon
  <2>3. QED
    BY <1>6, <2>1, <2>2, Zenon DEF EmbeddedCallSound
<1>8. QED
  BY <1>2, <1>7, EmbeddedCallStep, Zenon

\* A caller with its answer starts afresh.
LEMMA AgainInv ==
  ASSUME EmbeddedInv, NEW c \in EmbeddedCallers, Again(c) PROVE EmbeddedInv'
<1>1. embeddedAt' = [embeddedAt EXCEPT ![c] = EmbeddedIdle]
      /\ UNCHANGED <<embeddedNow, embeddedEntries, last, forgot>>
  BY Zenon DEF Again
<1>2. QED
  BY <1>1, IdleCallSound, EmbeddedCallStep, Zenon

\* Pruning with a reading of the clock that is not ahead of it.
LEMMA PruneSound ==
  ASSUME NEW es, NEW n \in Nat, NEW la, NEW fo, LedgerSound(es, n, la, fo), NewestSound(la),
         NEW reading \in Nat, reading <= n
  PROVE  LedgerSound(pruneExpiredLocked(es, reading), n, la, fo)
<1> DEFINE L == pruneExpiredLocked(es, reading)
<1>1. L \subseteq es /\ \A e \in es : e \in L \/ ~(reading < e.until)
  BY Zenon DEF pruneExpiredLocked
<1> HIDE DEF L
<1>2. IsFiniteSet(es) /\ Cardinality(es) <= MaxEmbeddedEntries
  BY Zenon DEF LedgerSound
<1>3. IsFiniteSet(L) /\ Cardinality(L) <= Cardinality(es) /\ Cardinality(L) \in Nat
        /\ Cardinality(es) \in Nat
  BY <1>1, <1>2, FS_Subset, FS_CardinalityType, Zenon
<1>4. Cardinality(L) <= MaxEmbeddedEntries
  BY <1>2, <1>3, EmbeddedAuthAssumption
<1>5. ASSUME NEW i \in EmbeddedIds, la[i].until # 0, i \notin fo
      PROVE  (\E e \in L : e.key = i) \/ n >= la[i].until
  <2>1. CASE \E e \in es : e.key = i
    <3>1. PICK e \in es : e.key = i
      BY <2>1, Zenon
    <3>2. e.until = la[i].until /\ la[i].until \in Nat
      BY <3>1, Zenon DEF LedgerSound, NewestSound
    <3>3. e \in L \/ n >= la[i].until
      BY <1>1, <3>2
    <3>4. QED
      BY <3>1, <3>3, Zenon
  <2>2. QED
    BY <1>5, <2>1, Zenon DEF LedgerSound
<1>6. QED
  BY <1>1, <1>3, <1>4, <1>5, Zenon DEF LedgerSound, L

\* A claim: the ledger after pruning, with room made, holds the new entry.
LEMMA ClaimSound ==
  ASSUME NEW es, NEW n \in Nat, NEW la, NEW fo, LedgerSound(es, n, la, fo), NewestSound(la),
         NEW kept \in enforceCapacityLocked(es), NEW key \in EmbeddedIds, \A e \in es : e.key # key,
         NEW until \in Nat \ {0}, NEW chosen \in BOOLEAN
  PROVE  LedgerSound(kept \cup {[key |-> key, until |-> until]}, n,
                     [la EXCEPT ![key] = [until |-> until, chosen |-> chosen]],
                     (fo \cup {e.key : e \in es \ kept}) \ {key})
<1> DEFINE x == [key |-> key, until |-> until]
           K == kept \cup {x}
           lb == [la EXCEPT ![key] = [until |-> until, chosen |-> chosen]]
           fb == (fo \cup {e.key : e \in es \ kept}) \ {key}
<1>1. kept \subseteq es /\ IsFiniteSet(es)
      /\ Cardinality(kept) = IF Cardinality(es) > MaxEmbeddedEntries - 1 THEN MaxEmbeddedEntries - 1
                             ELSE Cardinality(es)
  BY Zenon DEF enforceCapacityLocked, LedgerSound
<1>2. x.key = key /\ x.until = until
  BY Zenon
<1>3. /\ \A i \in EmbeddedIds \ {key} : lb[i] = la[i]
      /\ lb[key].until = until
  BY Zenon DEF NewestSound
<1> HIDE DEF x, lb
<1>4. IsFiniteSet(kept) /\ IsFiniteSet(K)
      /\ (Cardinality(K) = Cardinality(kept) \/ Cardinality(K) = Cardinality(kept) + 1)
  BY <1>1, FS_Subset, FS_AddElement, Zenon
<1>5. Cardinality(es) \in Nat /\ Cardinality(kept) \in Nat
  BY <1>1, <1>4, FS_CardinalityType, Zenon
<1>6. Cardinality(kept) <= MaxEmbeddedEntries - 1
  BY <1>1, <1>5, EmbeddedAuthAssumption
<1>7. Cardinality(K) <= MaxEmbeddedEntries
  BY <1>4, <1>5, <1>6, EmbeddedAuthAssumption
<1>8. \A e \in kept : e \in es /\ e.key # key
  BY <1>1, Zenon
<1>9. \A e \in K : e.key \in EmbeddedIds /\ e.until = lb[e.key].until /\ e.until # 0
  BY <1>2, <1>3, <1>8, Zenon DEF LedgerSound
<1>10. \A e, f \in K : e.key = f.key => e = f
  BY <1>2, <1>8, Zenon DEF LedgerSound
<1>11. ASSUME NEW i \in EmbeddedIds, lb[i].until # 0, i \notin fb
       PROVE  (\E e \in K : e.key = i) \/ n >= lb[i].until
  <2>1. CASE i = key
    BY <1>2, <2>1, Zenon
  <2>2. CASE i # key
    <3>1. la[i].until # 0 /\ i \notin fo /\ lb[i] = la[i]
      BY <1>3, <1>11, <2>2, Zenon
    <3>2. (\E e \in es : e.key = i) \/ n >= la[i].until
      BY <3>1, Zenon DEF LedgerSound
    <3>3. \A e \in es : e.key = i => e \in kept
      BY <1>11, <2>2, Zenon
    <3>4. QED
      BY <3>1, <3>2, <3>3, Zenon
  <2>3. QED
    BY <2>1, <2>2, Zenon
<1> HIDE DEF K, fb
<1>12. LedgerSound(K, n, lb, fb)
  BY <1>4, <1>7, <1>9, <1>10, <1>11, Zenon DEF LedgerSound
<1>13. QED
  BY <1>12, Zenon DEF K, fb, lb, x

\* The newest claim of an id outlasts its tokens when it lives for ReplayTTL.
LEMMA NewestStep ==
  ASSUME NEW la, NewestSound(la), NEW req, Vetted(req), NEW read \in Nat,
    read + Skew >= req.token.iat,
         NEW chosen \in BOOLEAN, NEW until \in Nat \ {0}, ~chosen => until = read + ReplayTTL
  PROVE  NewestSound([la EXCEPT ![Identity(req.token)] = [until |-> until, chosen |-> chosen]])
<1> DEFINE key == Identity(req.token)
           lb == [la EXCEPT ![key] = [until |-> until, chosen |-> chosen]]
<1>1. key \in EmbeddedIds
  BY IdentityKnown, Zenon DEF Vetted
<1> HIDE DEF key
<1>2. lb \in [EmbeddedIds -> [until : Nat, chosen : BOOLEAN]] /\ lb[key].until = until
        /\ lb[key].chosen = chosen
      /\ \A i \in EmbeddedIds \ {key} : lb[i] = la[i]
  BY <1>1, Zenon DEF NewestSound
<1> HIDE DEF lb
<1>3. ASSUME OutlivesWindow, NEW r \in EmbeddedRequests, lb[Identity(r.token)].until # 0,
             ~lb[Identity(r.token)].chosen, r.token.exp # EmbeddedUnset
      PROVE  r.token.exp + Skew < lb[Identity(r.token)].until
  <2>1. Identity(r.token) \in EmbeddedIds
    BY IdentityKnown, Zenon
  <2>2. CASE Identity(r.token) = key
    <3> DEFINE t == req.token.iat
               u == r.token.exp
    <3>1. u + Skew < t - Skew + ReplayTTL
      BY <1>3, <2>2, Zenon DEF OutlivesWindow, Vetted, key
    <3>2. t \in Int /\ u \in Int /\ read + Skew >= t
      BY <1>3, EmbeddedAuthAssumption, Zenon DEF Vetted
    <3>3. until = read + ReplayTTL
      BY <1>2, <1>3, <2>2, Zenon
    <3> HIDE DEF t, u
    <3>4. u + Skew < until
      BY <3>1, <3>2, <3>3, EmbeddedAuthAssumption
    <3>5. QED
      BY <1>2, <2>2, <3>4, Zenon DEF u
  <2>3. CASE Identity(r.token) # key
    <3>1. lb[Identity(r.token)] = la[Identity(r.token)]
      BY <1>2, <2>1, <2>3, Zenon
    <3>2. QED
      BY <1>3, <3>1, Zenon DEF NewestSound
  <2>4. QED
    BY <2>2, <2>3, Zenon
<1>4. NewestSound(lb)
  BY <1>2, <1>3, Zenon DEF NewestSound
<1>5. QED
  BY <1>4, Zenon DEF lb, key

\* Claim under the mutex, with a reading that may be old.
LEMMA EmbeddedClaimInv ==
  ASSUME EmbeddedInv, NEW c \in EmbeddedCallers, EmbeddedClaim(c) PROVE EmbeddedInv'
<1> DEFINE k == embeddedAt[c]
           req == k.req
           key == buildReplayKey(req.token)
           read == k.read
           kept0 == pruneExpiredLocked(embeddedEntries, read)
           lasts == IF req.ttl > 0 THEN req.ttl ELSE ReplayTTL
           until == read + lasts
<1>1. EmbeddedCallSound(k, embeddedNow, last) /\ embeddedNow \in Nat /\ k.pc = "locked"
  BY Zenon DEF EmbeddedInv, EmbeddedClaim
<1>2. DOMAIN k = DOMAIN EmbeddedIdle /\ Vetted(req) /\ read \in Nat /\ read <= embeddedNow
      /\ read + Skew >= req.token.iat /\ k.out = ""
  BY <1>1, Zenon DEF EmbeddedCallSound
<1>3. key = Identity(req.token) /\ key \in EmbeddedIds /\ req \in EmbeddedRequests
        /\ req.ttl \in Int
  BY <1>2, IdentityKnown, EmbeddedAuthAssumption, Zenon DEF Vetted, buildReplayKey, Identity
<1>4. until \in Nat \ {0} /\ (~(req.ttl > 0) => until = read + ReplayTTL)
  <2>1. lasts \in Nat \ {0} /\ (~(req.ttl > 0) => lasts = ReplayTTL)
    BY <1>3, EmbeddedAuthAssumption
  <2>2. read \in Nat
    BY <1>2, Zenon
  <2> HIDE DEF lasts, read
  <2>3. QED
    BY <2>1, <2>2
<1>5. LedgerSound(kept0, embeddedNow, last, forgot) /\ NewestSound(last)
  <2>1. LedgerSound(embeddedEntries, embeddedNow, last, forgot) /\ NewestSound(last)
    BY Zenon DEF EmbeddedInv
  <2> HIDE DEF read
  <2>2. QED
    BY <1>1, <1>2, <2>1, PruneSound, Zenon
<1>6. /\ embeddedNow' = embeddedNow
      /\ \/ /\ \E e \in kept0 : e.key = key
            /\ embeddedEntries' = kept0
            /\ embeddedAt' = [embeddedAt EXCEPT ![c] = [k EXCEPT !.pc = "done", !.out = "replay"]]
            /\ last' = last /\ forgot' = forgot
         \/ /\ \A e \in kept0 : e.key # key
            /\ \E kept \in enforceCapacityLocked(kept0) :
                  /\ embeddedEntries' = kept \cup {[key |-> key, until |-> until]}
                  /\ forgot' = (forgot \cup {e.key : e \in kept0 \ kept}) \ {key}
            /\ last' = [last EXCEPT ![key] = [until |-> until, chosen |-> req.ttl > 0]]
            /\ embeddedAt' = [embeddedAt EXCEPT ![c] = [k EXCEPT !.pc = "exchange"]]
  BY <1>3, Zenon DEF EmbeddedClaim, EmbeddedGoto
<1>0. DOMAIN k = DOMAIN EmbeddedIdle
  BY <1>2, Zenon
<1> HIDE DEF kept0, until, key, read, k
<1>7. \A d \in EmbeddedCallers : EmbeddedCallSound(embeddedAt[d], embeddedNow, last)
  BY Zenon DEF EmbeddedInv
<1>8. CASE \E e \in kept0 : e.key = key
  <2> DEFINE l == [k EXCEPT !.pc = "done", !.out = "replay"]
  <2>1. embeddedEntries' = kept0 /\ embeddedAt' = [embeddedAt EXCEPT ![c] = l]
        /\ last' = last /\ forgot' = forgot /\ embeddedNow' = embeddedNow
    BY <1>6, <1>8, Zenon
  <2>2. DOMAIN l = DOMAIN EmbeddedIdle /\ l.pc = "done" /\ l.req = req /\ l.out = "replay"
    BY <1>0, EmbeddedLocals
  <2> HIDE DEF l
  <2>3. last[key].until # 0
    BY <1>5, <1>8, Zenon DEF LedgerSound
  <2>4. EmbeddedCallSound(l, embeddedNow, last)
    BY <1>3, <2>2, <2>3, Zenon DEF EmbeddedCallSound
  <2>5. embeddedAt' = [d \in EmbeddedCallers |-> IF d = c THEN l ELSE embeddedAt[d]]
    BY <2>1, Zenon DEF EmbeddedInv
  <2>6. \A d \in EmbeddedCallers : EmbeddedCallSound(embeddedAt'[d], embeddedNow', last')
    BY <1>7, <2>1, <2>4, <2>5, Zenon
  <2>7. embeddedAt' = [d \in EmbeddedCallers |-> embeddedAt'[d]]
    BY <2>5, Zenon
  <2>8. QED
    BY <1>1, <1>5, <2>1, <2>6, <2>7, Zenon DEF EmbeddedInv
<1>9. CASE \A e \in kept0 : e.key # key
  <2> DEFINE l == [k EXCEPT !.pc = "exchange"]
             chosen == req.ttl > 0
             lb == [last EXCEPT ![key] = [until |-> until, chosen |-> chosen]]
  <2>1. PICK kept \in enforceCapacityLocked(kept0) :
               /\ embeddedEntries' = kept \cup {[key |-> key, until |-> until]}
               /\ forgot' = (forgot \cup {e.key : e \in kept0 \ kept}) \ {key}
    BY <1>6, <1>9, Zenon
  <2>2. last' = lb /\ embeddedAt' = [embeddedAt EXCEPT ![c] = l] /\ embeddedNow' = embeddedNow
    BY <1>6, <1>9, Zenon
  <2>3. chosen \in BOOLEAN /\ (~chosen => until = read + ReplayTTL)
    BY <1>4
  <2> HIDE DEF chosen
  <2>4. LedgerSound(embeddedEntries', embeddedNow, lb, forgot')
    BY <1>1, <1>3, <1>4, <1>5, <1>9, <2>1, <2>3, ClaimSound, Zenon
  <2>5. NewestSound(lb)
    BY <1>2, <1>3, <1>4, <1>5, <2>3, NewestStep, Zenon
  <2>6. \A i \in EmbeddedIds : last[i].until # 0 => lb[i].until # 0
    BY <1>3, <1>4, <1>5, Zenon DEF NewestSound
  <2> HIDE DEF lb
  <2>7. DOMAIN l = DOMAIN EmbeddedIdle /\ l.pc = "exchange" /\ l.req = req /\ l.out = k.out
    BY <1>0, EmbeddedLocals
  <2> HIDE DEF l
  <2>8. Vetted(req) /\ embeddedNow + Skew >= req.token.iat
    BY <1>1, Zenon DEF EmbeddedCallSound
  <2>9. EmbeddedCallSound(l, embeddedNow, lb)
    BY <1>2, <2>7, <2>8, Zenon DEF EmbeddedCallSound
  <2>10. embeddedAt' = [d \in EmbeddedCallers |-> IF d = c THEN l ELSE embeddedAt[d]]
    BY <2>2, Zenon DEF EmbeddedInv
  <2>11. \A d \in EmbeddedCallers : EmbeddedCallSound(embeddedAt[d], embeddedNow, lb)
    BY <1>1, <1>7, <2>6, OthersSound
  <2>12. \A d \in EmbeddedCallers : EmbeddedCallSound(embeddedAt'[d], embeddedNow', last')
    BY <2>2, <2>9, <2>10, <2>11, Zenon
  <2>13. embeddedAt' = [d \in EmbeddedCallers |-> embeddedAt'[d]]
    BY <2>10, Zenon
  <2>14. QED
    BY <1>1, <2>2, <2>4, <2>5, <2>12, <2>13, Zenon DEF EmbeddedInv
<1>10. QED
  BY <1>8, <1>9, Zenon

\* PurgeExpired removes what has expired.
LEMMA PurgeInv == ASSUME EmbeddedInv, PurgeExpired PROVE EmbeddedInv'
<1>1. /\ embeddedEntries' = pruneExpiredLocked(embeddedEntries, embeddedNow)
      /\ UNCHANGED <<embeddedNow, embeddedAt, last, forgot>>
  BY Zenon DEF PurgeExpired
<1>2. LedgerSound(embeddedEntries', embeddedNow, last, forgot)
  <2>1. embeddedNow \in Nat /\ LedgerSound(embeddedEntries, embeddedNow, last, forgot)
          /\ NewestSound(last)
    BY Zenon DEF EmbeddedInv
  <2>2. embeddedNow <= embeddedNow
    BY <2>1
  <2>3. QED
    BY <1>1, <2>1, <2>2, PruneSound, Zenon
<1>3. QED
  BY <1>1, <1>2, Zenon DEF EmbeddedInv

\* A restart forgets what the ledger held.
LEMMA RestartInv == ASSUME EmbeddedInv, Restart PROVE EmbeddedInv'
<1>1. /\ embeddedEntries' = {} /\ forgot' = forgot \cup {e.key : e \in embeddedEntries}
      /\ embeddedAt' = [c \in EmbeddedCallers |-> EmbeddedIdle]
      /\ embeddedNow' = embeddedNow /\ last' = last
  BY Zenon DEF Restart
<1>2. LedgerSound({}, embeddedNow, last, forgot')
  <2>1. IsFiniteSet({}) /\ Cardinality({}) = 0
    BY FS_EmptySet, Zenon
  <2>2. \A i \in EmbeddedIds : last[i].until # 0 /\ i \notin forgot' => embeddedNow >= last[i].until
    BY <1>1, Zenon DEF EmbeddedInv, LedgerSound
  <2>3. 0 <= MaxEmbeddedEntries
    BY EmbeddedAuthAssumption
  <2>4. QED
    BY <2>1, <2>2, <2>3, Zenon DEF LedgerSound
<1>3. \A c \in EmbeddedCallers : EmbeddedCallSound(embeddedAt'[c], embeddedNow, last)
  BY <1>1, IdleCallSound, Zenon
<1>4. QED
  BY <1>1, <1>2, <1>3, Zenon DEF EmbeddedInv

\* The clock ticks.
LEMMA EmbeddedTickInv == ASSUME EmbeddedInv, EmbeddedTick PROVE EmbeddedInv'
<1>1. embeddedNow \in Nat /\ embeddedNow' = embeddedNow + 1 /\ embeddedNow' \in Nat
        /\ embeddedNow <= embeddedNow'
      /\ UNCHANGED <<embeddedEntries, embeddedAt, last, forgot>>
  BY DEF EmbeddedTick, EmbeddedInv
<1>2. \A c \in EmbeddedCallers : EmbeddedCallSound(embeddedAt[c], embeddedNow', last)
  <2> DEFINE m == embeddedNow'
  <2> HIDE DEF m
  <2>1. m \in Nat /\ embeddedNow \in Nat /\ embeddedNow <= m
    BY <1>1, Zenon DEF m
  <2>2. \A c \in EmbeddedCallers : EmbeddedCallSound(embeddedAt[c], m, last)
    BY <2>1, OthersSound, Zenon DEF EmbeddedInv
  <2>3. QED
    BY <2>2, Zenon DEF m
<1>3. LedgerSound(embeddedEntries, embeddedNow', last, forgot)
  <2>1. \A i \in EmbeddedIds : embeddedNow >= last[i].until => embeddedNow' >= last[i].until
    <3> TAKE i \in EmbeddedIds
    <3>1. last[i].until \in Nat
      BY Zenon DEF EmbeddedInv, NewestSound
    <3>2. QED
      BY <1>1, <3>1
  <2>2. QED
    BY <2>1, Zenon DEF EmbeddedInv, LedgerSound
<1>4. QED
  BY <1>1, <1>2, <1>3, Zenon DEF EmbeddedInv

\* The invariant is inductive.
LEMMA EmbeddedNextInv == EmbeddedInv /\ [EmbeddedNext]_embeddedVars => EmbeddedInv'
<1> SUFFICES ASSUME EmbeddedInv, [EmbeddedNext]_embeddedVars PROVE EmbeddedInv'
  BY Zenon
<1>1. CASE UNCHANGED embeddedVars
  BY <1>1, Zenon DEF embeddedVars, EmbeddedInv
<1>2. QED
  BY <1>1, AuthenticateInv, ReadClockInv, EmbeddedClaimInv, AgainInv, EmbeddedExchangeInv,
     PurgeInv, RestartInv, EmbeddedTickInv, Zenon DEF EmbeddedNext

\* Only EmbeddedClaim accepts, and only what the pruned ledger does not hold.
LEMMA AcceptedIsLate ==
  EmbeddedInv /\ [EmbeddedNext]_embeddedVars =>
      ClaimedAgainLate /\ (OutlivesWindow => PassedAgainLate)
<1> SUFFICES ASSUME EmbeddedInv, [EmbeddedNext]_embeddedVars, NEW c \in EmbeddedCallers,
                    Accepted(c), Remembered(c)
             PROVE  /\ embeddedNow >= Claimed(c)
                    /\ OutlivesWindow /\ ~NewestClaim(c).chosen =>
                         embeddedNow > embeddedAt[c].req.token.exp + Skew
  BY Zenon DEF ClaimedAgainLate, PassedAgainLate
<1>1. embeddedAt[c].pc = "locked" /\ embeddedAt'[c].pc = "exchange"
  BY Zenon DEF Accepted
<1>2. embeddedAt = [d \in EmbeddedCallers |-> embeddedAt[d]]
      /\ \A d \in EmbeddedCallers : EmbeddedCallSound(embeddedAt[d], embeddedNow, last)
  BY Zenon DEF EmbeddedInv
<1>3. EmbeddedClaim(c)
  <2>1. embeddedAt' # embeddedAt
    BY <1>1, Zenon
  <2>2. ~PurgeExpired /\ ~EmbeddedTick /\ ~UNCHANGED embeddedVars
    BY <2>1, Zenon DEF PurgeExpired, EmbeddedTick, embeddedVars
  <2>3. ~Restart
    <3>1. SUFFICES ASSUME Restart PROVE FALSE
      BY Zenon
    <3>2. embeddedAt'[c] = EmbeddedIdle
      BY <3>1, Zenon DEF Restart
    <3>3. EmbeddedIdle.pc = "idle"
      BY Zenon DEF EmbeddedIdle
    <3>4. QED
      BY <1>1, <3>2, <3>3, Zenon
  <2>4. PICK d \in EmbeddedCallers : \/ \E req \in EmbeddedRequests : Authenticate(d, req)
                                    \/ ReadClock(d) \/ EmbeddedClaim(d) \/ Again(d)
                                    \/ \E reply \in EmbeddedReplies : EmbeddedExchange(d, reply)
    BY <2>2, <2>3, Zenon DEF EmbeddedNext
  <2>5. d = c
    BY <1>1, <1>2, <2>4, Zenon
       DEF Authenticate, ReadClock, EmbeddedClaim, EmbeddedGoto, Again, EmbeddedExchange
  <2>6. QED
    BY <1>1, <2>4, <2>5, Zenon DEF Authenticate, ReadClock, Again, EmbeddedExchange
<1> DEFINE k == embeddedAt[c]
           i == Identity(k.req.token)
           L == pruneExpiredLocked(embeddedEntries, k.read)
<1>4. EmbeddedCallSound(k, embeddedNow, last)
  BY <1>2, Zenon
<1>5. Vetted(k.req) /\ k.read \in Nat /\ k.read <= embeddedNow /\ DOMAIN k = DOMAIN EmbeddedIdle
  BY <1>1, <1>4, Zenon DEF EmbeddedCallSound
<1>6. i \in EmbeddedIds /\ i = buildReplayKey(k.req.token) /\ k.req \in EmbeddedRequests
  BY <1>5, IdentityKnown, Zenon DEF Vetted, Identity, buildReplayKey
<1>7. \A e \in L : e.key # i
  <2>1. embeddedAt' # [embeddedAt EXCEPT ![c] = [k EXCEPT !.pc = "done", !.out = "replay"]]
    BY <1>1, <1>2, <1>5, Zenon DEF EmbeddedIdle
  <2>2. QED
    BY <1>3, <1>6, <2>1, Zenon DEF EmbeddedClaim
<1>8. last[i].until # 0 /\ i \notin forgot
  BY Zenon DEF Remembered, Claimed, NewestClaim
<1>9. LedgerSound(L, embeddedNow, last, forgot)
  <2>1. embeddedNow \in Nat /\ LedgerSound(embeddedEntries, embeddedNow, last, forgot)
          /\ NewestSound(last)
    BY Zenon DEF EmbeddedInv
  <2> DEFINE read == k.read
  <2>2. read \in Nat /\ read <= embeddedNow
    BY <1>5, Zenon
  <2> HIDE DEF read
  <2>3. LedgerSound(pruneExpiredLocked(embeddedEntries, read), embeddedNow, last, forgot)
    BY <2>1, <2>2, PruneSound, Zenon
  <2>4. QED
    BY <2>3, Zenon DEF read
<1> HIDE DEF L, i
<1>10. embeddedNow >= last[i].until
  BY <1>6, <1>7, <1>8, <1>9, Zenon DEF LedgerSound
<1>11. Claimed(c) = last[i].until /\ NewestClaim(c) = last[i]
  BY Zenon DEF Claimed, NewestClaim, i
<1>12. ASSUME OutlivesWindow, ~last[i].chosen PROVE embeddedNow > k.req.token.exp + Skew
  <2> DEFINE u == k.req.token.exp
             w == last[i].until
  <2>1. u \in Int /\ u # EmbeddedUnset
    BY <1>5, Zenon DEF Vetted
  <2>2. u + Skew < w /\ w \in Nat
    BY <1>6, <1>8, <1>12, <2>1, Zenon DEF EmbeddedInv, NewestSound, i
  <2>3. embeddedNow >= w /\ embeddedNow \in Nat
    BY <1>10, Zenon DEF EmbeddedInv
  <2> HIDE DEF u, w
  <2>4. embeddedNow > u + Skew
    BY <2>1, <2>2, <2>3, EmbeddedAuthAssumption
  <2>5. QED
    BY <2>4, Zenon DEF u
<1>13. QED
  BY <1>10, <1>11, <1>12, Zenon

\* Whatever readings of the clock concurrent claims and purges work with, the
\* replay ledger grants a claim again only once the earlier one has expired,
\* unless it was evicted or lost in a restart; it stays within its limit, calls
\* nothing a replay that was not claimed, and answers for the expected shop.
THEOREM ClaimsAreHeld == EmbeddedSpec => ClaimsHold
<1>1. EmbeddedInit => EmbeddedInv
  BY EmbeddedInitInv, Zenon
<1>2. EmbeddedInv /\ [EmbeddedNext]_embeddedVars => EmbeddedInv'
  BY EmbeddedNextInv, Zenon
<1>3. EmbeddedInv /\ [EmbeddedNext]_embeddedVars => ClaimedAgainLate
  BY AcceptedIsLate, Zenon
<1>4. EmbeddedInv => LedgerBounded /\ ReplayWasClaimed /\ AsExpected
  BY EmbeddedInvSafe, Zenon
<1>5. QED
  BY <1>1, <1>2, <1>3, <1>4, PTL DEF EmbeddedSpec, ClaimsHold

\* When a claim outlives the window in which the validator accepts its token, a
\* token is accepted a second time only in a request that was held until the token
\* had expired, or with a time to live that the request chose.
THEOREM TokensPassOnce == OutlivesWindow /\ EmbeddedSpec => TokenPassesOnce
<1> SUFFICES ASSUME OutlivesWindow PROVE EmbeddedSpec => TokenPassesOnce
  BY Zenon
<1>1. EmbeddedInit => EmbeddedInv
  BY EmbeddedInitInv, Zenon
<1>2. EmbeddedInv /\ [EmbeddedNext]_embeddedVars => EmbeddedInv'
  BY EmbeddedNextInv, Zenon
<1>3. EmbeddedInv /\ [EmbeddedNext]_embeddedVars => PassedAgainLate
  BY AcceptedIsLate, Zenon
<1>4. QED
  BY <1>1, <1>2, <1>3, ClaimsAreHeld, PTL DEF EmbeddedSpec, OutlastsToken, TokenPassesOnce

-----------------------------------------------------------------------------
(* OAuth states.  A record that was saved is in one place: in the store, with*)
(* a callback, used by an exchange, or dropped.                            *)

OAuthRecord == [id : 1 .. MaxConnects, scope : OAuthScopes, redirect : Optional(Redirects),
                grants : {"connect", OAuthNone}, exp : Nat]

\* The store's entries: no more than it may hold, one per record, of records
\* that Connect saved.
EntriesSound(e, n) ==
    /\ IsFiniteSet(DOMAIN e) /\ Cardinality(DOMAIN e) <= MaxOAuthEntries
    /\ \A s \in DOMAIN e : e[s] \in OAuthRecord /\ e[s].id \in 1 .. n
    /\ \A s, t \in DOMAIN e : e[s].id = e[t].id => s = t

Checking(c) == oauthAt[c].pc = "check"

\* A record is in one place: in the store, in a callback's hands or exchanged.
OnePlace ==
    /\ \A c \in Callbacks : Checking(c) =>
         /\ oauthAt[c].record \in OAuthRecord /\ oauthAt[c].record.id \in 1 .. connects
         /\ exchanges[oauthAt[c].record.id] = 0
         /\ oauthAt[c].record.id \notin Ids(oauthEntries)
    /\ \A c, d \in Callbacks :
         Checking(c) /\ Checking(d) /\ oauthAt[c].record.id = oauthAt[d].record.id => c = d
    /\ \A n \in Ids(oauthEntries) : exchanges[n] = 0

OAuthInv ==
    /\ oauthNow \in Nat /\ connects \in 0 .. MaxConnects
    /\ exchanges \in [1 .. MaxConnects -> 0 .. 1]
    /\ \A n \in 1 .. MaxConnects : n > connects => exchanges[n] = 0
    /\ oauthAt = [c \in Callbacks |-> oauthAt[c]]
    /\ EntriesSound(oauthEntries, connects)
    /\ OnePlace /\ NothingLost /\ ExchangeBound

\* A set of equals has one element or none.
LEMMA AtMostOne ==
  ASSUME NEW S, \A x, y \in S : x = y
  PROVE  Cardinality(S) \in {0, 1} /\ (Cardinality(S) = 0 <=> S = {})
<1>1. CASE S = {}
  BY <1>1, FS_EmptySet, Zenon
<1>2. CASE S # {}
  <2>1. PICK x : x \in S
    BY <1>2, Zenon
  <2>2. S = {x}
    BY <2>1, Zenon
  <2>3. Cardinality({x}) = 1
    BY FS_Singleton, Zenon
  <2>4. QED
    BY <1>2, <2>2, <2>3
<1>3. QED
  BY <1>1, <1>2, Zenon

\* In one place means counted once.
LEMMA OAuthInvSafe == OAuthInv => RecordsAccounted
<1> SUFFICES ASSUME OAuthInv PROVE RecordsAccounted
  BY Zenon
<1>1. Bounded
  BY Zenon DEF OAuthInv, EntriesSound, Bounded
<1>2. ASSUME NEW n \in 1 .. connects
      PROVE  exchanges[n] + Cardinality(Held(n))
               + Cardinality({s \in DOMAIN oauthEntries : oauthEntries[s].id = n}) <= 1
  <2> DEFINE S == {s \in DOMAIN oauthEntries : oauthEntries[s].id = n}
  <2>0. n \in 1 .. MaxConnects
    BY OAuthFlowAssumption DEF OAuthInv
  <2>1. exchanges[n] \in 0 .. 1
    BY <2>0, Zenon DEF OAuthInv
  <2>2. \A x, y \in Held(n) : x = y
    BY Zenon DEF OAuthInv, OnePlace, Held, Checking
  <2>3. \A x, y \in S : x = y
    BY Zenon DEF OAuthInv, EntriesSound
  <2>4. Cardinality(Held(n)) \in {0, 1} /\ (Cardinality(Held(n)) = 0 <=> Held(n) = {})
    BY <2>2, AtMostOne, Zenon
  <2>5. Cardinality(S) \in {0, 1} /\ (Cardinality(S) = 0 <=> S = {})
    BY <2>3, AtMostOne, Zenon
  <2>6. S # {} => n \in Ids(oauthEntries)
    BY Zenon DEF Ids
  <2>7. (Held(n) # {} => exchanges[n] = 0 /\ S = {}) /\ (S # {} => exchanges[n] = 0)
    BY <2>6 DEF OAuthInv, OnePlace, Held, Checking
  <2>8. QED
    BY <2>1, <2>4, <2>5, <2>7
<1>3. ExchangedOnce
  BY <1>2, Zenon DEF ExchangedOnce
<1>4. QED
  BY <1>1, <1>3, Zenon DEF OAuthInv, RecordsAccounted

\* The store is empty and nothing was exchanged.
LEMMA OAuthInitInv == OAuthInit => OAuthInv
<1> SUFFICES ASSUME OAuthInit PROVE OAuthInv
  BY Zenon
<1>1. DOMAIN oauthEntries = {} /\ connects = 0
  BY DEF OAuthInit
<1>2. EntriesSound(oauthEntries, connects)
  BY <1>1, FS_EmptySet, OAuthFlowAssumption DEF EntriesSound
<1>3. \A c \in Callbacks : oauthAt[c].pc = "idle"
  BY Zenon DEF OAuthInit, OAuthIdle
<1>4. Ids(oauthEntries) = {}
  BY <1>1, Zenon DEF Ids
<1>5. OnePlace /\ NothingLost /\ ExchangeBound
  BY <1>1, <1>3, <1>4 DEF OnePlace, NothingLost, ExchangeBound, Checking
<1>6. QED
  BY <1>2, <1>5, OAuthFlowAssumption DEF OAuthInit, OAuthInv

\* Keeping some entries keeps them sound.
LEMMA KeepSound ==
  ASSUME NEW e, NEW n, EntriesSound(e, n), NEW S \in SUBSET DOMAIN e
  PROVE  /\ EntriesSound(OAuthKeep(e, S), n)
         /\ DOMAIN OAuthKeep(e, S) = S
         /\ \A s \in S : OAuthKeep(e, S)[s] = e[s]
         /\ Ids(OAuthKeep(e, S)) \subseteq Ids(e)
<1> DEFINE k == OAuthKeep(e, S)
<1>1. DOMAIN k = S /\ \A s \in S : k[s] = e[s]
  BY Zenon DEF OAuthKeep
<1>2. IsFiniteSet(S) /\ Cardinality(S) <= Cardinality(DOMAIN e)
  BY FS_Subset, Zenon DEF EntriesSound
<1>3. Cardinality(S) \in Nat /\ Cardinality(DOMAIN e) \in Nat
  BY <1>2, FS_CardinalityType, Zenon DEF EntriesSound
<1>4. Cardinality(S) <= MaxOAuthEntries
  BY <1>2, <1>3, OAuthFlowAssumption DEF EntriesSound
<1> HIDE DEF k
<1>5. QED
  BY <1>1, <1>2, <1>4 DEF EntriesSound, Ids, k

\* enforceCapacityLocked leaves room for one.
LEMMA RoomSound ==
  ASSUME NEW e, NEW n, EntriesSound(e, n), NEW k \in Room(e)
  PROVE  /\ EntriesSound(k, n) /\ DOMAIN k \subseteq DOMAIN e
         /\ \A s \in DOMAIN k : k[s] = e[s]
         /\ Cardinality(DOMAIN k) <= MaxOAuthEntries - 1
<1> DEFINE D == DOMAIN e
           excess == IF Cardinality(D) > MaxOAuthEntries - 1
                     THEN Cardinality(D) - (MaxOAuthEntries - 1) ELSE 0
<1>1. PICK V \in SUBSET D : Cardinality(V) = excess /\ k = OAuthKeep(e, D \ V)
  BY Zenon DEF Room
<1>2. IsFiniteSet(D) /\ Cardinality(D) \in Nat
  BY FS_CardinalityType, Zenon DEF EntriesSound
<1>3. Cardinality(D \ V) = Cardinality(D) - Cardinality(D \cap V)
  BY <1>2, FS_Difference, Zenon
<1>4. D \cap V = V
  BY <1>1, Zenon
<1>5. Cardinality(D \ V) <= MaxOAuthEntries - 1
  BY <1>1, <1>2, <1>3, <1>4, OAuthFlowAssumption
<1>6. D \ V \in SUBSET D
  BY Zenon
<1>7. QED
  BY <1>1, <1>5, <1>6, KeepSound, Zenon

\* Save stores the record and accounts for every entry it drops.
LEMMA SaveSound ==
  ASSUME OAuthInv, NEW s, NEW r \in OAuthRecord, NEW n \in Nat, n >= connects, r.id \in 1 .. n,
         r.id \notin Ids(oauthEntries), Save(s, r)
  PROVE  /\ EntriesSound(oauthEntries', n)
         /\ r.id \in Ids(oauthEntries')
              /\ Ids(oauthEntries') \subseteq Ids(oauthEntries) \cup {r.id}
         /\ Ids(oauthEntries) \subseteq Ids(oauthEntries') \cup dropped' \cup expired'
         /\ dropped \subseteq dropped' /\ expired \subseteq expired'
<1> DEFINE e == oauthEntries
           unexpired == OAuthKeep(e, Live(e))
<1>1. Live(e) \in SUBSET DOMAIN e
  BY Zenon DEF Live
<1>2. EntriesSound(e, connects) /\ connects \in Nat
  BY DEF OAuthInv
<1>3. /\ EntriesSound(unexpired, connects) /\ DOMAIN unexpired \subseteq DOMAIN e
      /\ \A x \in DOMAIN unexpired : unexpired[x] = e[x]
  BY <1>1, <1>2, KeepSound, Zenon
<1>4. PICK kept \in IF s \in DOMAIN unexpired THEN {unexpired} ELSE Room(unexpired) :
         /\ oauthEntries' = [x \in DOMAIN kept \cup {s} |-> IF x = s THEN r ELSE kept[x]]
         /\ dropped' = dropped \cup (Ids(unexpired) \ Ids(oauthEntries'))
         /\ expired' = expired \cup (Ids(oauthEntries) \ Ids(unexpired))
  BY Zenon DEF Save
<1> HIDE DEF unexpired
<1>5. /\ EntriesSound(kept, connects) /\ DOMAIN kept \subseteq DOMAIN e
      /\ \A x \in DOMAIN kept : kept[x] = e[x]
      /\ s \in DOMAIN kept \/ Cardinality(DOMAIN kept) <= MaxOAuthEntries - 1
  <2>1. CASE s \in DOMAIN unexpired
    BY <1>3, <1>4, <2>1, Zenon
  <2>2. CASE s \notin DOMAIN unexpired
    BY <1>3, <1>4, <2>2, RoomSound, Zenon
  <2>3. QED
    BY <2>1, <2>2, Zenon
<1>7. DOMAIN oauthEntries' = DOMAIN kept \cup {s} /\ oauthEntries'[s] = r
      /\ \A x \in DOMAIN kept : x # s => oauthEntries'[x] = e[x]
  BY <1>4, <1>5, Zenon
<1>8. IsFiniteSet(DOMAIN kept \cup {s}) /\ Cardinality(DOMAIN kept \cup {s}) <= MaxOAuthEntries
  <2>1. IsFiniteSet(DOMAIN kept) /\ Cardinality(DOMAIN kept) <= MaxOAuthEntries
        /\ Cardinality(DOMAIN kept) \in Nat
    BY <1>5, FS_CardinalityType, Zenon DEF EntriesSound
  <2>2. IsFiniteSet(DOMAIN kept \cup {s})
        /\ Cardinality(DOMAIN kept \cup {s}) = IF s \in DOMAIN kept THEN Cardinality(DOMAIN kept)
                                               ELSE Cardinality(DOMAIN kept) + 1
    BY <2>1, FS_AddElement, Zenon
  <2>3. QED
    BY <1>5, <2>1, <2>2, OAuthFlowAssumption
<1>9. \A x \in DOMAIN kept : e[x] \in OAuthRecord /\ e[x].id \in 1 .. n /\ e[x].id # r.id
  BY <1>2, <1>5 DEF EntriesSound, Ids
<1>10. \A x, y \in DOMAIN kept : e[x].id = e[y].id => x = y
  BY <1>2, <1>5, Zenon DEF EntriesSound
<1>11. EntriesSound(oauthEntries', n)
  BY <1>7, <1>8, <1>9, <1>10, Zenon DEF EntriesSound
<1>12. r.id \in Ids(oauthEntries') /\ Ids(oauthEntries') \subseteq Ids(oauthEntries) \cup {r.id}
  BY <1>5, <1>7 DEF Ids
<1>13. QED
  BY <1>4, <1>11, <1>12, Zenon

\* Connect saves a record with a number of its own.
LEMMA ConnectInv ==
  ASSUME OAuthInv, NEW s \in States, NEW scope \in OAuthScopes,
    NEW redirect \in Optional(Redirects),
         NEW grants \in {"connect", OAuthNone}, Connect(s, scope, redirect, grants)
  PROVE  OAuthInv'
<1> DEFINE r == [id |-> connects + 1, scope |-> scope, redirect |-> redirect, grants |-> grants,
                 exp |-> oauthNow + OAuthTTL]
<1>1. connects < MaxConnects /\ connects' = connects + 1 /\ Save(s, r)
      /\ oauthNow' = oauthNow /\ oauthAt' = oauthAt /\ exchanges' = exchanges
  BY Zenon DEF Connect
<1>2. connects \in 0 .. MaxConnects /\ connects \in Nat /\ oauthNow \in Nat /\ connects' \in Nat
      /\ connects' \in 0 .. MaxConnects /\ connects + 1 \in 1 .. MaxConnects
  BY <1>1, OAuthFlowAssumption DEF OAuthInv
<1>3. r \in OAuthRecord /\ r.id = connects + 1
  BY <1>2, OAuthFlowAssumption DEF OAuthRecord
<1> HIDE DEF r
<1>4. \A n \in Ids(oauthEntries) : n \in 1 .. connects
  BY Zenon DEF OAuthInv, EntriesSound, Ids
<1>5. r.id \notin Ids(oauthEntries)
  BY <1>2, <1>3, <1>4
<1>6. /\ EntriesSound(oauthEntries', connects')
      /\ r.id \in Ids(oauthEntries') /\ Ids(oauthEntries') \subseteq Ids(oauthEntries) \cup {r.id}
      /\ Ids(oauthEntries) \subseteq Ids(oauthEntries') \cup dropped' \cup expired'
      /\ dropped \subseteq dropped' /\ expired \subseteq expired'
  <2>1. connects' >= connects /\ r.id \in 1 .. connects'
    BY <1>1, <1>2, <1>3
  <2>2. QED
    BY <1>1, <1>2, <1>3, <1>5, <2>1, SaveSound, Zenon
<1>7. exchanges[connects + 1] = 0
  BY <1>2 DEF OAuthInv
<1>8. OnePlace'
  <2>1. \A c \in Callbacks : Checking(c)' <=> Checking(c)
    BY <1>1, Zenon DEF Checking
  <2>2. \A n \in Ids(oauthEntries') : exchanges[n] = 0
    BY <1>3, <1>6, <1>7, Zenon DEF OAuthInv, OnePlace
  <2>3. ASSUME NEW c \in Callbacks, Checking(c)
        PROVE  oauthAt[c].record.id \notin Ids(oauthEntries')
          /\ oauthAt[c].record.id \in 1 .. connects'
    <3>1. oauthAt[c].record.id \in 1 .. connects /\ oauthAt[c].record.id \notin Ids(oauthEntries)
      BY <2>3, Zenon DEF OAuthInv, OnePlace
    <3>2. oauthAt[c].record.id # r.id /\ oauthAt[c].record.id \in 1 .. connects'
      BY <1>1, <1>2, <1>3, <3>1
    <3>3. QED
      BY <1>6, <3>1, <3>2, Zenon
  <2>4. QED
    BY <1>1, <2>1, <2>2, <2>3, Zenon DEF OAuthInv, OnePlace
<1>9. NothingLost'
  <2> SUFFICES ASSUME NEW n \in 1 .. connects'
               PROVE  \/ exchanges[n] > 0 \/ n \in dropped' \cup expired'
                      \/ Held(n) # {} \/ n \in Ids(oauthEntries')
    BY <1>1, Zenon DEF NothingLost, Held
  <2>1. n = connects + 1 \/ n \in 1 .. connects
    BY <1>1, <1>2
  <2>2. QED
    BY <1>3, <1>6, <2>1, Zenon DEF OAuthInv, NothingLost
<1>10. ExchangeBound'
  BY <1>1, Zenon DEF OAuthInv, ExchangeBound
<1>11. \A n \in 1 .. MaxConnects : n > connects' => exchanges'[n] = 0
  BY <1>1, <1>2 DEF OAuthInv
<1>12. QED
  BY <1>1, <1>2, <1>6, <1>8, <1>9, <1>10, <1>11, Zenon DEF OAuthInv

\* A callback moves to locals [pc, req, record, sent].
LEMMA CallbackMoves ==
  ASSUME OAuthInv, NEW c \in Callbacks, NEW pc, NEW req, NEW record, NEW merged,
         OAuthGoto(c, pc, req, record, merged)
  PROVE  /\ oauthAt' = [d \in Callbacks |-> oauthAt'[d]]
         /\ oauthAt'[c] = [pc |-> pc, req |-> req, record |-> record, sent |-> merged]
         /\ \A d \in Callbacks \ {c} : oauthAt'[d] = oauthAt[d]
<1>1. oauthAt = [d \in Callbacks |-> oauthAt[d]]
  BY Zenon DEF OAuthInv
<1>2. oauthAt' =
        [d \in Callbacks |-> IF d = c
          THEN [pc |-> pc, req |-> req, record |-> record, sent |-> merged]
                                      ELSE oauthAt[d]]
  BY <1>1, Zenon DEF OAuthGoto
<1>3. QED
  BY <1>2, Zenon

\* Consume moves a live record from the store to the callback.
LEMMA ConsumeInv ==
  ASSUME OAuthInv, NEW c \in Callbacks, NEW req \in Request, Consume(c, req)
  PROVE  OAuthInv'
<1> DEFINE e == oauthEntries
           L == Live(e)
           S == L \ {req.state}
<1>1. oauthAt[c].pc = "idle" /\ oauthEntries' = OAuthKeep(e, S)
      /\ expired' = expired \cup (Ids(e) \ Ids(OAuthKeep(e, L)))
      /\ oauthNow' = oauthNow /\ connects' = connects /\ exchanges' = exchanges
           /\ dropped' = dropped
      /\ IF req.state \in L THEN OAuthGoto(c, "check", req, e[req.state], OAuthNone)
         ELSE OAuthGoto(c, "refused", req, OAuthNone, OAuthNone)
  BY Zenon DEF Consume, Consumed
<1>2. L \in SUBSET DOMAIN e /\ S \in SUBSET DOMAIN e
  BY Zenon DEF Live
<1>3. EntriesSound(e, connects)
  BY Zenon DEF OAuthInv
<1> HIDE DEF L, S
<1>4. EntriesSound(oauthEntries', connects) /\ DOMAIN oauthEntries' = S
      /\ \A s \in S : oauthEntries'[s] = e[s]
  BY <1>1, <1>2, <1>3, KeepSound, Zenon
<1>5. DOMAIN OAuthKeep(e, L) = L /\ \A s \in L : OAuthKeep(e, L)[s] = e[s]
  BY <1>2, <1>3, KeepSound, Zenon
<1>6. Ids(oauthEntries') = {e[s].id : s \in S} /\ Ids(OAuthKeep(e, L)) = {e[s].id : s \in L}
      /\ Ids(oauthEntries') \subseteq Ids(e)
  BY <1>2, <1>4, <1>5, Zenon DEF Ids
<1>7. \A n \in Ids(e) : n \in Ids(oauthEntries') \/ n \in expired'
                       \/ (req.state \in L /\ n = e[req.state].id)
  BY <1>1, <1>6, Zenon DEF S
<1>8. CASE req.state \in L
  <2> DEFINE r == e[req.state]
  <2>1. /\ oauthAt' = [d \in Callbacks |-> oauthAt'[d]]
        /\ oauthAt'[c] = [pc |-> "check", req |-> req, record |-> r, sent |-> OAuthNone]
        /\ \A d \in Callbacks \ {c} : oauthAt'[d] = oauthAt[d]
    BY <1>1, <1>8, CallbackMoves, Zenon
  <2>2. r \in OAuthRecord /\ r.id \in 1 .. connects /\ r.id \in Ids(e)
          /\ r.id \notin Ids(oauthEntries')
    BY <1>2, <1>3, <1>6, <1>8, Zenon DEF EntriesSound, Ids, S
  <2>3. \A d \in Callbacks \ {c} : Checking(d)' <=> Checking(d)
    BY <2>1, Zenon DEF Checking
  <2>4. oauthAt'[c].pc = "check" /\ oauthAt'[c].record = r
    BY <2>1
  <2> HIDE DEF r
  <2>5. exchanges[r.id] = 0 /\ \A d \in Callbacks : Checking(d) => oauthAt[d].record.id # r.id
    BY <2>2, Zenon DEF OAuthInv, OnePlace
  <2>6. OnePlace'
    BY <1>1, <1>6, <2>1, <2>2, <2>3, <2>4, <2>5 DEF OAuthInv, OnePlace
  <2>7. NothingLost'
    <3> SUFFICES ASSUME NEW n \in 1 .. connects
                 PROVE  \/ exchanges[n] > 0 \/ n \in dropped \cup expired'
                        \/ Held(n)' # {} \/ n \in Ids(oauthEntries')
      BY <1>1, Zenon DEF NothingLost
    <3>1. Held(n) \subseteq Held(n)'
      BY <1>1, <2>1, Zenon DEF Held
    <3>2. n = r.id => c \in Held(n)'
      BY <2>4, Zenon DEF Held
    <3>3. expired \subseteq expired'
      BY <1>1, Zenon
    <3>4. exchanges[n] > 0 \/ n \in dropped \cup expired \/ Held(n) # {} \/ n \in Ids(e)
      BY Zenon DEF OAuthInv, NothingLost
    <3>5. QED
      BY <1>7, <3>1, <3>2, <3>3, <3>4, Zenon DEF r
  <2>8. ExchangeBound'
    BY <2>1, <2>4 DEF OAuthInv, ExchangeBound
  <2>9. QED
    BY <1>1, <1>4, <2>1, <2>6, <2>7, <2>8, Zenon DEF OAuthInv
<1>9. CASE req.state \notin L
  <2>1. /\ oauthAt' = [d \in Callbacks |-> oauthAt'[d]]
        /\ oauthAt'[c] = [pc |-> "refused", req |-> req, record |-> OAuthNone, sent |-> OAuthNone]
        /\ \A d \in Callbacks \ {c} : oauthAt'[d] = oauthAt[d]
    BY <1>1, <1>9, CallbackMoves, Zenon
  <2>2. oauthAt'[c].pc = "refused"
    BY <2>1
  <2>3. \A d \in Callbacks : Checking(d)' <=> Checking(d)
    BY <1>1, <2>1, <2>2, Zenon DEF Checking
  <2>4. OnePlace'
    BY <1>1, <1>6, <2>1, <2>2, <2>3 DEF OAuthInv, OnePlace, Checking
  <2>5. NothingLost'
    <3> SUFFICES ASSUME NEW n \in 1 .. connects
                 PROVE  \/ exchanges[n] > 0 \/ n \in dropped \cup expired'
                        \/ Held(n)' # {} \/ n \in Ids(oauthEntries')
      BY <1>1, Zenon DEF NothingLost
    <3>1. Held(n) \subseteq Held(n)'
      BY <1>1, <2>1, Zenon DEF Held
    <3>2. expired \subseteq expired'
      BY <1>1, Zenon
    <3>3. exchanges[n] > 0 \/ n \in dropped \cup expired \/ Held(n) # {} \/ n \in Ids(e)
      BY Zenon DEF OAuthInv, NothingLost
    <3>4. QED
      BY <1>7, <1>9, <3>1, <3>2, <3>3, Zenon
  <2>6. ExchangeBound'
    BY <2>1, <2>2 DEF OAuthInv, ExchangeBound
  <2>7. QED
    BY <1>1, <1>4, <2>1, <2>4, <2>5, <2>6, Zenon DEF OAuthInv
<1>10. QED
  BY <1>8, <1>9, Zenon

\* restoreOnValidationFailure moves it back.
LEMMA RestoreInv ==
  ASSUME OAuthInv, NEW c \in Callbacks, Restore(c) PROVE OAuthInv'
<1> DEFINE r == oauthAt[c].record
<1>1. oauthAt[c].pc = "check" /\ Save(oauthAt[c].req.state, r)
      /\ OAuthGoto(c, "mismatch", OAuthNone, OAuthNone, OAuthNone)
      /\ oauthNow' = oauthNow /\ connects' = connects /\ exchanges' = exchanges
  BY Zenon DEF Restore
<1>2. r \in OAuthRecord /\ r.id \in 1 .. connects /\ exchanges[r.id] = 0
        /\ r.id \notin Ids(oauthEntries)
  BY <1>1, Zenon DEF OAuthInv, OnePlace, Checking
<1>3. connects \in Nat /\ connects >= connects
  BY OAuthFlowAssumption DEF OAuthInv
<1>4. /\ oauthAt' = [d \in Callbacks |-> oauthAt'[d]]
      /\ oauthAt'[c] =
           [pc |-> "mismatch", req |-> OAuthNone, record |-> OAuthNone, sent |-> OAuthNone]
      /\ \A d \in Callbacks \ {c} : oauthAt'[d] = oauthAt[d]
  BY <1>1, CallbackMoves, Zenon
<1>5. oauthAt'[c].pc = "mismatch"
  BY <1>4
<1>6. /\ EntriesSound(oauthEntries', connects)
      /\ r.id \in Ids(oauthEntries') /\ Ids(oauthEntries') \subseteq Ids(oauthEntries) \cup {r.id}
      /\ Ids(oauthEntries) \subseteq Ids(oauthEntries') \cup dropped' \cup expired'
      /\ dropped \subseteq dropped' /\ expired \subseteq expired'
  <2> DEFINE s == oauthAt[c].req.state
  <2>1. Save(s, r)
    BY <1>1, Zenon
  <2> HIDE DEF s, r
  <2>2. QED
    BY <1>2, <1>3, <2>1, SaveSound, Zenon
<1>7. \A d \in Callbacks : Checking(d)' => d # c /\ Checking(d) /\ oauthAt[d].record.id # r.id
  BY <1>1, <1>4, <1>5, Zenon DEF Checking, OAuthInv, OnePlace
<1>8. OnePlace'
  <2>1. \A n \in Ids(oauthEntries') : exchanges'[n] = 0
    BY <1>1, <1>2, <1>6, Zenon DEF OAuthInv, OnePlace
  <2>2. ASSUME NEW d \in Callbacks, Checking(d)'
        PROVE  /\ oauthAt'[d].record \in OAuthRecord /\ oauthAt'[d].record.id \in 1 .. connects'
               /\ exchanges'[oauthAt'[d].record.id] = 0
               /\ oauthAt'[d].record.id \notin Ids(oauthEntries')
    <3>1. d # c /\ Checking(d) /\ oauthAt[d].record.id # r.id /\ oauthAt'[d] = oauthAt[d]
      BY <1>4, <1>7, <2>2, Zenon
    <3>2. oauthAt[d].record.id \notin Ids(oauthEntries')
      BY <1>6, <3>1, Zenon DEF OAuthInv, OnePlace
    <3>3. QED
      BY <1>1, <3>1, <3>2, Zenon DEF OAuthInv, OnePlace
  <2>3. \A a, b \in Callbacks : Checking(a)' /\ Checking(b)'
           /\ oauthAt'[a].record.id = oauthAt'[b].record.id => a = b
    BY <1>4, <1>7, Zenon DEF OAuthInv, OnePlace
  <2>4. QED
    BY <2>1, <2>2, <2>3, Zenon DEF OnePlace
<1>9. NothingLost'
  <2> SUFFICES ASSUME NEW n \in 1 .. connects
               PROVE  \/ exchanges[n] > 0 \/ n \in dropped' \cup expired'
                      \/ Held(n)' # {} \/ n \in Ids(oauthEntries')
    BY <1>1, Zenon DEF NothingLost
  <2>1. \A d \in Held(n) : d \in Held(n)' \/ n = r.id
    BY <1>4, Zenon DEF Held
  <2>2. exchanges[n] > 0 \/ n \in dropped \cup expired \/ Held(n) # {} \/ n \in Ids(oauthEntries)
    BY Zenon DEF OAuthInv, NothingLost
  <2>3. QED
    BY <1>6, <2>1, <2>2, Zenon
<1>10. ExchangeBound'
  BY <1>4, <1>5 DEF OAuthInv, ExchangeBound
<1>11. QED
  BY <1>1, <1>4, <1>6, <1>8, <1>9, <1>10, Zenon DEF OAuthInv

\* The exchange uses the record up.
LEMMA OAuthExchangeInv ==
  ASSUME OAuthInv, NEW c \in Callbacks, OAuthExchange(c) PROVE OAuthInv'
<1> DEFINE r == oauthAt[c].record
           q == oauthAt[c].req
           x == applyOAuthStateContext(q, r)
<1>1. oauthAt[c].pc = "check" /\ Matches(q, r) /\ exchanges' = [exchanges EXCEPT ![r.id] = @ + 1]
      /\ OAuthGoto(c, "exchanged", OAuthNone, r, x)
      /\ oauthNow' = oauthNow /\ connects' = connects /\ oauthEntries' = oauthEntries
      /\ dropped' = dropped /\ expired' = expired
  BY Zenon DEF OAuthExchange
<1>2. r \in OAuthRecord /\ r.id \in 1 .. connects /\ exchanges[r.id] = 0
        /\ r.id \notin Ids(oauthEntries)
      /\ \A d \in Callbacks \ {c} : Checking(d) => oauthAt[d].record.id # r.id
  BY <1>1, Zenon DEF OAuthInv, OnePlace, Checking
<1>3. x.scope = r.scope /\ (r.redirect # OAuthNone => x.redirect = r.redirect)
      /\ (r.grants # OAuthNone => x.grants = r.grants)
  BY <1>1, Zenon DEF applyOAuthStateContext, Matches
<1> HIDE DEF x, r, q
<1>4. /\ oauthAt' = [d \in Callbacks |-> oauthAt'[d]]
      /\ oauthAt'[c] = [pc |-> "exchanged", req |-> OAuthNone, record |-> r, sent |-> x]
      /\ \A d \in Callbacks \ {c} : oauthAt'[d] = oauthAt[d]
  BY <1>1, CallbackMoves, Zenon
<1>5. oauthAt'[c].pc = "exchanged" /\ oauthAt'[c].record = r /\ oauthAt'[c].sent = x
  BY <1>4
<1>6. r.id \in 1 .. MaxConnects /\ connects \in 0 .. MaxConnects
      /\ exchanges \in [1 .. MaxConnects -> 0 .. 1]
  BY <1>2, Zenon DEF OAuthRecord, OAuthInv
<1>7. exchanges' = [exchanges EXCEPT ![r.id] = 1]
  BY <1>1, <1>2
<1>8. exchanges' \in [1 .. MaxConnects -> 0 .. 1] /\ exchanges'[r.id] = 1
      /\ \A n \in 1 .. MaxConnects : n # r.id => exchanges'[n] = exchanges[n]
  BY <1>6, <1>7
<1>9. \A d \in Callbacks : Checking(d)' <=> (d # c /\ Checking(d))
  BY <1>4, <1>5, Zenon DEF Checking
<1>10. \A n \in Ids(oauthEntries) : n \in 1 .. MaxConnects
  BY Zenon DEF OAuthInv, EntriesSound, Ids, OAuthRecord
<1>11. OnePlace'
  <2>1. \A n \in Ids(oauthEntries') : exchanges'[n] = 0
    BY <1>1, <1>2, <1>8, <1>10, Zenon DEF OAuthInv, OnePlace
  <2>2. ASSUME NEW d \in Callbacks, Checking(d)'
        PROVE  /\ oauthAt'[d].record \in OAuthRecord /\ oauthAt'[d].record.id \in 1 .. connects'
               /\ exchanges'[oauthAt'[d].record.id] = 0
               /\ oauthAt'[d].record.id \notin Ids(oauthEntries')
    <3>1. d # c /\ Checking(d) /\ oauthAt'[d] = oauthAt[d] /\ oauthAt[d].record.id # r.id
      BY <1>2, <1>4, <1>9, <2>2, Zenon
    <3>2. oauthAt[d].record \in OAuthRecord /\ oauthAt[d].record.id \in 1 .. connects
          /\ exchanges[oauthAt[d].record.id] = 0 /\ oauthAt[d].record.id \notin Ids(oauthEntries)
      BY <3>1, Zenon DEF OAuthInv, OnePlace
    <3>3. oauthAt[d].record.id \in 1 .. MaxConnects
      BY <3>2, Zenon DEF OAuthRecord
    <3>4. QED
      BY <1>1, <1>8, <3>1, <3>2, <3>3, Zenon
  <2>3. \A a, b \in Callbacks : Checking(a)' /\ Checking(b)'
           /\ oauthAt'[a].record.id = oauthAt'[b].record.id => a = b
    BY <1>4, <1>9, Zenon DEF OAuthInv, OnePlace
  <2>4. QED
    BY <2>1, <2>2, <2>3, Zenon DEF OnePlace
<1>12. NothingLost'
  <2> SUFFICES ASSUME NEW n \in 1 .. connects
               PROVE  \/ exchanges'[n] > 0 \/ n \in dropped \cup expired
                      \/ Held(n)' # {} \/ n \in Ids(oauthEntries)
    BY <1>1, Zenon DEF NothingLost
  <2>1. \A d \in Held(n) : d \in Held(n)' \/ n = r.id
    BY <1>4, Zenon DEF Held, r
  <2>2. exchanges[n] > 0 \/ n \in dropped \cup expired \/ Held(n) # {} \/ n \in Ids(oauthEntries)
    BY Zenon DEF OAuthInv, NothingLost
  <2>3. n \in 1 .. MaxConnects
    BY <1>6, OAuthFlowAssumption
  <2>4. QED
    BY <1>8, <2>1, <2>2, <2>3
<1>13. ExchangeBound'
  BY <1>3, <1>4, <1>5 DEF OAuthInv, ExchangeBound
<1>14. \A n \in 1 .. MaxConnects : n > connects' => exchanges'[n] = 0
  BY <1>1, <1>2, <1>6, <1>8 DEF OAuthInv
<1>15. QED
  BY <1>1, <1>4, <1>8, <1>11, <1>12, <1>13, <1>14, Zenon DEF OAuthInv

\* The invariant is inductive.
LEMMA OAuthNextInv == OAuthInv /\ [OAuthNext]_oauthVars => OAuthInv'
<1> SUFFICES ASSUME OAuthInv, [OAuthNext]_oauthVars PROVE OAuthInv'
  BY Zenon
<1>1. CASE UNCHANGED oauthVars
  BY <1>1, Zenon DEF oauthVars, OAuthInv, OnePlace, NothingLost, ExchangeBound, Checking, Held
<1>2. CASE OAuthTick
  BY <1>2 DEF OAuthTick, OAuthInv, OnePlace, NothingLost, ExchangeBound, Checking, Held
<1>3. QED
  BY <1>1, <1>2, ConnectInv, ConsumeInv, RestoreInv, OAuthExchangeInv, Zenon
     DEF OAuthNext, OAuthFinished

\* Whatever connects, callbacks, restores and expiries interleave, a saved state
\* authorizes at most one exchange, the exchange is bound to what the state says,
\* no record is lost without being evicted or expired, and the store stays within
\* its limit.
THEOREM RecordsAreAccounted == OAuthSpec => []RecordsAccounted
<1>1. OAuthInit => OAuthInv
  BY OAuthInitInv, Zenon
<1>2. OAuthInv /\ [OAuthNext]_oauthVars => OAuthInv'
  BY OAuthNextInv, Zenon
<1>3. OAuthInv => RecordsAccounted
  BY OAuthInvSafe, Zenon
<1>4. QED
  BY <1>1, <1>2, <1>3, PTL DEF OAuthSpec

=============================================================================
