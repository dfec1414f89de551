--------------------------- MODULE AccountLinking ---------------------------
(***************************************************************************)
(* Which connection a callback ends at: OAuth2Provider.CompleteAuth        *)
(* (providers/oauth2_provider.go) derives the external account id from the *)
(* request or from the user's profile (identity/resolver.go), and          *)
(* CompleteCallback (core/service.go) finds the connection of that account *)
(* or creates it.                                                          *)
(*                                                                         *)
(* What a provider says of a user is external: an id token and a userinfo  *)
(* reply may each be missing, name the issuer or not, and the login of a   *)
(* GitHub user may change between two callbacks.                           *)
(***************************************************************************)
EXTENDS Integers, Sequences

CONSTANTS
    AccountCallbacks, \* concurrent callbacks of one provider and scope
    Users,            \* [issuer, sub]: the provider's users
    Setups,           \* the provider, [url, issuer, default, github, verifier, explicit]
    AccountUnset,     \* an absent value
    MaxCallbacks      \* bound: callbacks begun

ASSUME AccountLinkingAssumption ==
    /\ MaxCallbacks \in Nat
    /\ \A u \in Users : u = [issuer |-> u.issuer, sub |-> u.sub] /\ AccountUnset \notin {u.issuer, u.sub}

VARIABLES
    setup,     \* the provider at hand
    conns,     \* the connection rows: a sequence of accounts, the id its index
    accountAt, \* accountAt[c]: where callback c is
    begun,     \* callbacks begun
    linked     \* history: [user, conn] of the callbacks that completed

accountVars == <<setup, conns, accountAt, begun, linked>>

AccountIdle == [pc |-> "idle", user |-> AccountUnset, account |-> AccountUnset, target |-> 0, conn |-> 0]

AccountInit ==
    /\ setup \in Setups /\ conns = <<>> /\ begun = 0 /\ linked = {}
    /\ accountAt = [c \in AccountCallbacks |-> AccountIdle]

firstNonEmpty(options) ==
    LET set == {i \in DOMAIN options : options[i] # AccountUnset} IN
    IF set = {} THEN AccountUnset ELSE options[CHOOSE i \in set : \A j \in set : i <= j]

-----------------------------------------------------------------------------
(* What the provider may say of a user.                                    *)

\* The claims of an id token and the payload of a userinfo reply; only the id
\* token must name the issuer.
AccountClaims(user) == [iss |-> user.issuer, sub |-> user.sub, id |-> AccountUnset, login |-> AccountUnset]

Payloads(user) ==
    IF setup.github
    THEN {[iss |-> AccountUnset, sub |-> AccountUnset, id |-> user.sub, login |-> l] : l \in {"old", "new"}}
    ELSE {[AccountClaims(user) EXCEPT !.iss = AccountUnset], AccountClaims(user)}

\* id_token, whether the verifier accepts it, a userinfo_endpoint in the request,
\* and the endpoint's reply, Unset for a failure of any kind.
Sources(user) ==
    [idToken : IF setup.github THEN {AccountUnset} ELSE {AccountUnset, AccountClaims(user)}, verifies : BOOLEAN,
     endpoint : BOOLEAN, reply : {AccountUnset} \cup Payloads(user)]

-----------------------------------------------------------------------------
(* The profile resolver.                                                   *)

normalizeOIDCProfile(issuer, payload) == [issuer |-> issuer, subject |-> payload.sub]

\* The numeric id before the login, which a user may change.
normalizeGitHubProfile(issuer, payload) ==
    [issuer |-> issuer, subject |-> firstNonEmpty(<<payload.id, payload.login>>)]

\* profileFromIDToken and decodeVerifiedOrRawIDToken.
profileFromIDToken(src) ==
    IF src.idToken = AccountUnset \/ (setup.verifier /\ ~src.verifies) THEN AccountUnset
    ELSE LET issuer == firstNonEmpty(<<src.idToken.iss, setup.default>>)
             profile == normalizeOIDCProfile(issuer, src.idToken)
         IN  IF profile.subject = AccountUnset THEN AccountUnset ELSE profile

\* The userinfo endpoint, asked when the id token gives no profile.
profileFromUserInfo_NoIssuer(src) ==
    IF (~src.endpoint /\ ~setup.url) \/ src.reply = AccountUnset THEN AccountUnset
    ELSE IF setup.github THEN normalizeGitHubProfile(src.reply.iss, src.reply)
         ELSE normalizeOIDCProfile(src.reply.iss, src.reply)

profileFromUserInfo(src) ==
    IF (~src.endpoint /\ ~setup.url) \/ src.reply = AccountUnset THEN AccountUnset
    ELSE LET issuer == firstNonEmpty(<<src.reply.iss, setup.issuer, setup.default>>) IN
         IF setup.github THEN normalizeGitHubProfile(issuer, src.reply)
         ELSE normalizeOIDCProfile(issuer, src.reply)

Resolve(src) ==
    IF profileFromIDToken(src) # AccountUnset THEN profileFromIDToken(src)
    ELSE LET profile == profileFromUserInfo(src) IN
         IF profile = AccountUnset THEN AccountUnset
         ELSE IF profile.subject = AccountUnset THEN AccountUnset ELSE profile

\* "issuer|subject", or the bare subject.
ExternalAccountID(profile) ==
    IF profile.issuer = AccountUnset THEN <<profile.subject>> ELSE <<profile.issuer, profile.subject>>

\* CompleteAuth: external_account_id of the request, else the resolved profile's.
Account(user, src) ==
    IF setup.explicit THEN <<"explicit", user>>
    ELSE IF Resolve(src) = AccountUnset THEN AccountUnset ELSE ExternalAccountID(Resolve(src))

-----------------------------------------------------------------------------
(* CompleteCallback.                                                       *)

AccountGoto(c, pc) == accountAt' = [accountAt EXCEPT ![c].pc = pc]

\* strategy.Complete; without an account id the callback fails.  A reconsent
\* names the connection it is for.
Complete(c, user, src, target) ==
    /\ accountAt[c].pc = "idle" /\ begun < MaxCallbacks
    /\ begun' = begun + 1
    /\ accountAt' = IF Account(user, src) = AccountUnset THEN accountAt
                    ELSE [accountAt EXCEPT ![c] = [pc |-> "find", user |-> user, target |-> target,
                                                   account |-> Account(user, src), conn |-> 0]]
    /\ UNCHANGED <<setup, conns, linked>>

Rows(account) == {i \in DOMAIN conns : conns[i] = account}

\* findCallbackConnection: the target if its account matches, else the row found
\* by scope and account.
Found(l) ==
    IF l.target # 0
    THEN IF conns[l.target] = l.account THEN [l EXCEPT !.pc = "update", !.conn = l.target]
                                        ELSE AccountIdle
    ELSE IF Rows(l.account) = {} THEN [l EXCEPT !.pc = "create"]
    ELSE [l EXCEPT !.pc = "update", !.conn = CHOOSE i \in Rows(l.account) : TRUE]

findCallbackConnection(c) ==
    /\ accountAt[c].pc = "find"
    /\ accountAt' = [accountAt EXCEPT ![c] = Found(accountAt[c])]
    /\ UNCHANGED <<setup, conns, begun, linked>>

Completed(c, conn) ==
    /\ linked' = linked \cup {[user |-> accountAt[c].user, conn |-> conn]}
    /\ accountAt' = [accountAt EXCEPT ![c] = AccountIdle]

\* UpdateStatus of the row that was found.
AccountUpdateStatus(c) ==
    /\ accountAt[c].pc = "update"
    /\ Completed(c, accountAt[c].conn)
    /\ UNCHANGED <<setup, conns, begun>>

\* Create, which the unique index on provider, scope and account refuses when
\* another callback was faster.
Create(c) ==
    /\ accountAt[c].pc = "create"
    /\ \/ /\ Rows(accountAt[c].account) = {}
          /\ conns' = Append(conns, accountAt[c].account)
          /\ Completed(c, Len(conns'))
       \/ /\ Rows(accountAt[c].account) # {}
          /\ accountAt' = [accountAt EXCEPT ![c] = AccountIdle]
          /\ UNCHANGED <<conns, linked>>
    /\ UNCHANGED <<setup, begun>>

AccountNext ==
    \E c \in AccountCallbacks :
        \/ \E user \in Users, target \in {0} \cup DOMAIN conns :
              \E src \in Sources(user) : Complete(c, user, src, target)
        \/ findCallbackConnection(c) \/ AccountUpdateStatus(c) \/ Create(c)

AccountSpec == AccountInit /\ [][AccountNext]_accountVars

-----------------------------------------------------------------------------
Issuer(s) == firstNonEmpty(<<s.issuer, s.default>>)

\* The setups that tell users apart and know them again: the host names the
\* account, GitHub gives every user an id, or the issuer that is configured is
\* the one the id tokens name.
Steady(s) ==
    \/ s.explicit
    \/ s.github /\ \A u, v \in Users : u.sub = v.sub => u = v
    \/ ~s.github /\ \A u \in Users : Issuer(s) = u.issuer

\* "a stable account key": every callback a user completes ends at the same
\* connection, whichever of id token, userinfo reply and login it came with.
SameUserSameConnection ==
    \A x, y \in linked : x.user = y.user => x.conn = y.conn

\* Two users never share a connection, also when the reconsent of one is
\* completed by the other or both connect at once.
UsersApart ==
    \A x, y \in linked : x.conn = y.conn => x.user = y.user

\* Two callbacks that raced to create the connection leave one row.
OneRowPerAccount ==
    \A i, j \in DOMAIN conns : conns[i] = conns[j] => i = j

\* A user has one connection and shares it with nobody, however callbacks race.
UsersKeepConnections == SameUserSameConnection /\ UsersApart /\ OneRowPerAccount
=============================================================================
