--------------------------- MODULE CredentialChain --------------------------
(***************************************************************************)
(* The life of one connection's credential: a strategy completes it, the   *)
(* service encodes and stores it (core/credential_codec.go,                *)
(* encryptCredentialPayload in core/service.go), callers of Refresh and of *)
(* EnsureCredentialFresh (core/credential_freshness.go) read it back,      *)
(* decide, ask the token endpoint for the next one under the connection    *)
(* lock, and store that when it differs.                                   *)
(*                                                                         *)
(* The token endpoint is external: it may rotate the refresh token with    *)
(* every reply and then accepts only the newest.  The lock is a mutex here *)
(* (ConnectionRefresh models its lease).  A token request takes time: the  *)
(* clock moves with each.                                                  *)
(***************************************************************************)
EXTENDS AuthStrategies

CONSTANTS
    Callers,        \* concurrent calls on the connection
    Setups,         \* [kind, cfg, md, scope]: the strategy, its configuration,
                    \* the metadata of the completing request, the scope's id
    Replies,        \* what the endpoint may answer: [scope, ttl, rotates, renews]
    Lead,           \* RefreshLeadWindow
    MaxClock,       \* bound: the clock
    MaxFaults       \* bound: replies lost and saves that fail

CredentialChainAssumption ==
    Lead \in Nat /\ MaxClock \in Nat /\ MaxFaults \in Nat

VARIABLES
    setup,      \* the strategy and the request
    codec,      \* the service's credentialCodec: "legacy" or "json"
    row,        \* the active credential row, Unset before Complete
    endpoint,   \* [refresh, stamp]: what the endpoint accepts and last issued
    now,        \* the clock
    lock,       \* who holds the connection lock, or Unset
    at,         \* at[c]: where caller c is
    faults,     \* how many faults have happened
    first,      \* history: what the first token was asked for with, if the
                \* stored payload can tell
    told,       \* history: the scopes the endpoint's delivered replies last named
    broken,     \* history: a reply or a save was lost
    stale       \* history: a refresh started from a credential replaced meanwhile

vars == <<setup, codec, row, endpoint, now, lock, at, faults, first, told, broken, stale>>

Idle == [pc |-> "idle", mode |-> Unset, cred |-> Unset, read |-> 0, got |-> Unset]

Init ==
    /\ setup \in Setups /\ codec \in {"legacy", "json"}
    /\ row = Unset /\ now = 1 /\ lock = Unset
    /\ endpoint = [refresh |-> Unset, stamp |-> 0]
    /\ at = [c \in Callers |-> Idle]
    /\ faults = 0 /\ first = Unset /\ told = Unset /\ broken = FALSE
    /\ stale = FALSE

-----------------------------------------------------------------------------
(* Codec and row.                                                          *)

\* Encode, with the columns SaveNewVersion stores beside the payload.  The
\* legacy payload is the bare token.
Encode(format, cred) ==
    [format |-> format,
     payload |-> IF format = "json" THEN cred
                 ELSE Credential(cred.claims, cred.stamp, Unset, Unset, 0, Unset, FALSE,
                                 NoMetadata),
     requested |-> cred.requested, granted |-> cred.granted, exp |-> cred.exp,
     refreshable |-> cred.refreshable]

\* codecForCredential: the service's own format, or the legacy one.
Readable(r) == r.format \in {codec, "legacy"}

\* credentialToActive: decode, and fill what the payload lacks from the columns.
credentialToActive(r) ==
    [r.payload EXCEPT !.requested = firstNonEmpty(<<@, r.requested>>),
                      !.granted = firstNonEmpty(<<@, r.granted>>),
                      !.exp = IF @ = 0 THEN r.exp ELSE @,
                      !.refreshable = @ \/ r.refreshable]

\* shouldPersistRefreshedCredential.
shouldPersistRefreshedCredential_TokenOnly(current, refreshed) ==
    <<current.claims, current.stamp>> # <<refreshed.claims, refreshed.stamp>>

shouldPersistRefreshedCredential(current, refreshed) ==
    \/ <<current.claims, current.stamp>> # <<refreshed.claims, refreshed.stamp>>
    \/ current.refreshable # refreshed.refreshable
    \/ current.requested # refreshed.requested
    \/ current.granted # refreshed.granted
    \/ current.exp # refreshed.exp

-----------------------------------------------------------------------------
(* Freshness.                                                              *)

CanAutoRefresh(cred) == cred.refreshable /\ cred.refresh # Unset

\* ShouldRefreshCredential on the state ResolveCredentialTokenState resolves.
ShouldRefreshCredential(cred) ==
    CanAutoRefresh(cred) /\ (cred.stamp = 0 \/ (cred.exp # 0 /\ cred.exp <= now + Lead))

-----------------------------------------------------------------------------
(* The token endpoint.                                                     *)

\* The reply a form of it makes, with the tokens it names.
Answer(form) ==
    [scope |-> form.scope, ttl |-> form.ttl, account |-> "account",
     stamp |-> IF form.renews \/ endpoint.stamp = 0 THEN now ELSE endpoint.stamp,
     refresh |-> IF form.rotates THEN now ELSE Unset]

\* It remembers the newest tokens; a refresh token it rotated out is refused.
Issues(reply) ==
    endpoint' = [refresh |-> firstNonEmpty(<<reply.refresh, endpoint.refresh>>),
                 stamp |-> reply.stamp]

Complete(cfg, md, reply) ==
    CASE setup.kind = "jwt"    -> JWTComplete(cfg, md, setup.scope, now, reply)
      [] setup.kind = "oauth2" -> CompleteAuth(cfg, md, now, reply)
      [] setup.kind = "client" -> ClientCredentialsComplete(cfg, md, now, reply)
      [] setup.kind = "sigv4"  -> applySigV4ProfileMetadata(cfg,
                                    ClientCredentialsComplete(cfg, md, now, reply), md)
      [] OTHER                 -> StaticComplete(setup.kind, cfg, md, now)

RefreshWith(cfg, cred, reply) ==
    CASE setup.kind = "jwt"    -> JWTRefresh(cfg, cred, now, reply)
      [] setup.kind = "oauth2" -> ProviderRefresh(cfg, cred, now, reply)
      [] setup.kind = "client" -> ClientCredentialsRefresh(cfg, cred, now, reply)
      [] setup.kind = "sigv4"  -> applySigV4ProfileMetadata(cfg,
                                    ClientCredentialsRefresh(cfg, cred, now, reply), cred.md)
      [] OTHER                 -> StaticRefresh(cred)

\* What a refresh of this kind presents: the claims, and the signing profile.
Presents(cred) == [claims |-> cred.claims, profile |-> [k \in ProfileKeys |-> cred.md[k]]]

-----------------------------------------------------------------------------
\* CompleteCallback: complete, encrypt and save the first version.
Connect(form) ==
    /\ row = Unset /\ now < MaxClock
    /\ LET reply == Answer(form)
           cred  == Complete(setup.cfg, setup.md, reply)
       IN  /\ cred # Unset
           /\ row' = Encode(codec, cred)
           /\ Issues(reply)
           /\ told' = cred.granted
           /\ first' = IF codec = "json" THEN Presents(cred) ELSE Unset
    /\ now' = now + 1
    /\ UNCHANGED <<setup, codec, lock, at, faults, broken, stale>>

\* The service is restarted with the JSON codec.
Upgrade ==
    /\ codec = "legacy" /\ row # Unset /\ \A c \in Callers : at[c] = Idle
    /\ codec' = "json"
    /\ UNCHANGED <<setup, row, endpoint, now, lock, at, faults, first, told, broken, stale>>

\* EnsureCredentialFresh reads and decides before anything is locked.
Ensure(c) ==
    /\ at[c].pc = "idle" /\ row # Unset
    /\ LET cred == credentialToActive(row) IN
       at' = [at EXCEPT ![c] =
                IF ~Readable(row) THEN [Idle EXCEPT !.pc = "done", !.mode = "unreadable"]
                ELSE IF ShouldRefreshCredential(cred)
                THEN [pc |-> "lock", mode |-> "ensure", cred |-> cred, read |-> now, got |-> Unset]
                ELSE [pc |-> "done", mode |-> "ensure", cred |-> cred, read |-> now, got |-> cred]]
    /\ UNCHANGED <<setup, codec, row, endpoint, now, lock, faults, first, told, broken, stale>>

Refresh(c) ==
    /\ at[c].pc = "idle" /\ row # Unset
    /\ at' = [at EXCEPT ![c] = [Idle EXCEPT !.pc = "lock", !.mode = "refresh", !.read = now]]
    /\ UNCHANGED <<setup, codec, row, endpoint, now, lock, faults, first, told, broken, stale>>

\* connectionLocker.Acquire, and the read that follows when no credential was
\* passed in.
Acquire(c) ==
    /\ at[c].pc = "lock" /\ lock = Unset /\ Readable(row)
    /\ lock' = c
    /\ at' = [at EXCEPT ![c].pc = "ask",
                        ![c].cred = IF @ = Unset THEN credentialToActive(row) ELSE @]
    /\ UNCHANGED <<setup, codec, row, endpoint, now, faults, first, told, broken, stale>>

Return(c, got) ==
    /\ at' = [at EXCEPT ![c].pc = "done", ![c].cred = Unset, ![c].got = got]
    /\ lock' = Unset

Fault == faults < MaxFaults /\ faults' = faults + 1

\* strategy.Refresh: refused by the endpoint, an error of the strategy, or the
\* next credential.
Refused(c) ==
    /\ at[c].pc = "ask" /\ setup.kind = "oauth2"
    /\ at[c].cred.refresh \notin {Unset, endpoint.refresh}
    /\ Return(c, Unset)
    /\ UNCHANGED <<setup, codec, row, endpoint, now, faults, first, told, broken, stale>>

CannotRefresh(c) ==
    /\ at[c].pc = "ask"
    /\ \A form \in Replies : RefreshWith(setup.cfg, at[c].cred, Answer(form)) = Unset
    /\ Return(c, Unset)
    /\ UNCHANGED <<setup, codec, row, endpoint, now, faults, first, told, broken, stale>>

Accepted(c) ==
    setup.kind = "oauth2" => at[c].cred.refresh \in {Unset, endpoint.refresh}

Ask(c, form) ==
    /\ at[c].pc = "ask" /\ now < MaxClock /\ Accepted(c)
    /\ LET reply == Answer(form)
           cred  == RefreshWith(setup.cfg, at[c].cred, reply)
       IN  /\ cred # Unset
           /\ Issues(reply)
           /\ at' = [at EXCEPT ![c].pc = "save", ![c].got = cred]
           /\ told' = firstNonEmpty(<<reply.scope, told>>)
    /\ now' = now + 1
    /\ stale' = (stale \/ at[c].cred # credentialToActive(row))
    /\ UNCHANGED <<setup, codec, row, lock, faults, first, broken>>

\* The endpoint answers and the answer is lost, too large, malformed or an error.
LoseReply(c, form) ==
    /\ at[c].pc = "ask" /\ now < MaxClock /\ Accepted(c) /\ Fault
    /\ setup.kind \in {"oauth2", "client", "sigv4"}
    /\ Issues(Answer(form))
    /\ Return(c, Unset)
    /\ broken' = TRUE /\ now' = now + 1
    /\ UNCHANGED <<setup, codec, row, first, told, stale>>

\* encryptCredentialPayload and SaveNewVersion, when there is something to save.
Save(c) ==
    /\ at[c].pc = "save"
    /\ row' = IF shouldPersistRefreshedCredential(at[c].cred, at[c].got)
              THEN Encode(codec, at[c].got) ELSE row
    /\ Return(c, at[c].got)
    /\ UNCHANGED <<setup, codec, endpoint, now, faults, first, told, broken, stale>>

SaveFails(c) ==
    /\ at[c].pc = "save" /\ Fault
    /\ shouldPersistRefreshedCredential(at[c].cred, at[c].got)
    /\ Return(c, Unset)
    /\ broken' = TRUE
    /\ UNCHANGED <<setup, codec, row, endpoint, now, first, told, stale>>

Again(c) ==
    /\ at[c].pc = "done" /\ now < MaxClock
    /\ at' = [at EXCEPT ![c] = Idle]
    /\ UNCHANGED <<setup, codec, row, endpoint, now, lock, faults, first, told, broken, stale>>

Tick ==
    /\ now < MaxClock /\ now' = now + 1
    /\ UNCHANGED <<setup, codec, row, endpoint, lock, at, faults, first, told, broken, stale>>

Step(c) ==
    \/ Ensure(c) \/ Refresh(c) \/ Acquire(c) \/ Refused(c) \/ CannotRefresh(c)
    \/ Save(c) \/ SaveFails(c) \/ Again(c)
    \/ \E form \in Replies : Ask(c, form) \/ LoseReply(c, form)

Next ==
    \/ \E form \in Replies : Connect(form)
    \/ Upgrade \/ Tick
    \/ \E c \in Callers : Step(c)

Spec == Init /\ [][Next]_vars

-----------------------------------------------------------------------------
Stored == credentialToActive(row)

Quiet == row # Unset /\ \A c \in Callers : at[c].pc # "save"

\* However refreshes interleave, the stored refresh token is the one the
\* endpoint accepts, unless a reply or a save was lost: rotation is followed by
\* OAuth2Provider.Refresh, survives the codec, and is never judged not worth
\* persisting (the bare-token format cannot carry it).
RotationFollowed ==
    Quiet /\ row.format = "json" /\ ~broken /\ setup.kind = "oauth2" =>
        Stored.refresh = endpoint.refresh

\* No caller meets a row it cannot decode, also when the legacy codec wrote it
\* before the service was moved to JSON.
StillReadable == \A c \in Callers : at[c].mode # "unreadable"

\* The stored grants are those the endpoint named last and a reply without scope
\* leaves them as they were, unless a refresh started from a credential that
\* EnsureCredentialFresh had read before the lock and another caller replaced.
GrantsFollowed ==
    Quiet /\ ~broken /\ ~stale /\ setup.kind = "oauth2" => Stored.granted = told

\* A refresh presents what the completing request was given: issuer, subject,
\* audience, key, endpoint, client and signing profile of the stored credential
\* are those of the first token, however often it has been refreshed and
\* wherever the first took them from.
RefreshRepeats ==
    row # Unset /\ first # Unset => Presents(Stored) = first

\* EnsureCredentialFresh answers with a credential that was not within the lead
\* window of its expiry when it decided, if it has a refresh token to use.
EnsuredWithToken ==
    \A c \in Callers :
        LET got == at[c].got IN
        at[c].pc = "done" /\ at[c].mode = "ensure" /\ got # Unset =>
            got.refresh = Unset \/ got.exp > at[c].read + Lead

\* A credential that Complete returned can be refreshed by the strategy that
\* made it, as the conformance test asks of every strategy; a payload that kept
\* the bare token only is no credential Complete returned.
CompletedCanRefresh ==
    \A c \in Callers :
        at[c].pc = "ask" /\ at[c].cred.refreshable /\ first # Unset =>
            \E form \in Replies : RefreshWith(setup.cfg, at[c].cred, Answer(form)) # Unset

\* Complete and Refresh of every strategy agree on what a credential stands for.
RenewsAsCompleted == CompletedCanRefresh /\ RefreshRepeats

\* The stored row follows the endpoint and serves its readers.
RowFollowsEndpoint ==
    RotationFollowed /\ GrantsFollowed /\ StillReadable /\ EnsuredWithToken
=============================================================================
