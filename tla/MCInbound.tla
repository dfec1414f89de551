----------------------------- MODULE MCInbound -----------------------------
(***************************************************************************)
(* The inbound side for TLC: module InboundClaims, the OAuth callback      *)
(* (module OAuthFlow) and embedded sessions (module EmbeddedAuth, once for *)
(* the replay window and once for what is accepted). No state is shared    *)
(* between these, so a behaviour takes the steps of one of them, chosen at *)
(* the start, and the others keep their initial state.                     *)
(***************************************************************************)
EXTENDS InboundClaims, OAuthFlow, EmbeddedAuth, TLC

CONSTANTS q1, q2, k1, k2, p1, p2, r1, r2, none

VARIABLE part   \* the component whose steps this behaviour takes

Url(shop, form, path) ==
    [scheme |-> "https", bare |-> TRUE, path |-> path,
     host |-> [shop |-> shop, form |-> form]]

Token(shop, jti, iat) ==
    [parts |-> 3, alg |-> "HS256", signed |-> TRUE, aud |-> {"client", "other"},
     iss |-> Url(shop, "full", "/admin"), dest |-> Url(shop, "full", ""),
     exp |-> iat + 1, nbf |-> iat, iat |-> iat, jti |-> jti]

Ask(token, expected) ==
    [token |-> token, expected |-> expected, type |-> none, ttl |-> 0]

Full(shop) == [shop |-> shop, form |-> "full"]
Short(shop) == [shop |-> shop, form |-> "short"]

\* One of each malformed token.
Malformed(t) ==
    {[t EXCEPT !.parts = 2], [t EXCEPT !.alg = "none"],
     [t EXCEPT !.signed = FALSE], [t EXCEPT !.iss.scheme = "http"],
     [t EXCEPT !.dest.bare = FALSE], [t EXCEPT !.iss.path = ""],
     [t EXCEPT !.dest.path = "/admin"], [t EXCEPT !.iss.host.form = "foreign"],
     [t EXCEPT !.dest.host.form = "short"], [t EXCEPT !.iss.host.shop = "b"],
     [t EXCEPT !.aud = {"other"}], [t EXCEPT !.exp = none],
     [t EXCEPT !.jti = none]}

ValidityRequests ==
    LET t == Token("a", "j", 3) IN
    {Ask(x, none) : x \in Malformed(t) \cup {t}}
      \cup {Ask(t, h) : h \in {Full("a"), Short("a"), Full("b"),
                               [shop |-> "a", form |-> "foreign"]}}
      \cup {[Ask(Token("b", "j", 2), Short("b")) EXCEPT !.type = "online",
                                                        !.ttl = 1],
            [Ask(t, none) EXCEPT !.type = "device"]}

WindowRequests ==
    {Ask(Token("a", "j", 3), none), Ask(Token("b", "j", 2), Full("b"))}

Answer == [large |-> FALSE, json |-> TRUE, status |-> 200, error |-> FALSE,
           token |-> TRUE, ttl |-> 1]

AllReplies ==
    {none, Answer, [Answer EXCEPT !.large = TRUE],
     [Answer EXCEPT !.json = FALSE], [Answer EXCEPT !.status = 500],
     [Answer EXCEPT !.error = TRUE], [Answer EXCEPT !.token = FALSE],
     [Answer EXCEPT !.ttl = 0]}

AllRequests == ValidityRequests \cup WindowRequests
ShopA == Full("a")

\* The tokens of this instance expire within the replay window, as the proof of
\* OutlastsToken asks (module AuthProofs).
ASSUME ConfigurationAssumption == OutlivesWindow

-----------------------------------------------------------------------------
allVars == <<part, vars, oauthVars, embeddedVars>>

ComposedInit ==
    /\ part \in {"claims", "oauth", "window", "validity"}
    /\ InboundInit
    /\ OAuthInit
    /\ EmbeddedInit

\* Two callers with two tokens, or one caller with every kind of request and no
\* restart.
WindowOnly ==
    \A c \in EmbeddedCallers : embeddedAt'[c].req \in WindowRequests \cup {none}
ValidityOnly == embeddedAt'[q2] = EmbeddedIdle /\ restarts' = 0

\* Every Connect is for one scope; callbacks come with either.
OneScope == \A s \in DOMAIN oauthEntries' : oauthEntries'[s].scope = p1

ComposedNext ==
    \/ /\ part = "claims" /\ InboundNext
       /\ UNCHANGED <<part, oauthVars, embeddedVars>>
    \/ /\ part = "oauth" /\ OAuthNext /\ OneScope
       /\ UNCHANGED <<part, vars, embeddedVars>>
    \/ /\ part = "window" /\ EmbeddedNext /\ WindowOnly
       /\ UNCHANGED <<part, vars, oauthVars>>
    \/ /\ part = "validity" /\ EmbeddedNext /\ ValidityOnly
       /\ UNCHANGED <<part, vars, oauthVars>>

ComposedSpec == ComposedInit /\ [][ComposedNext]_allVars

Symmetry == Permutations({q1, q2}) \cup Permutations({k1, k2})
              \cup Permutations({r1, r2})

=============================================================================
