-------------------------- MODULE ConnectionRefresh --------------------------
(***************************************************************************)
(* One connection and what changes it: Service.Refresh and                 *)
(* RunRefreshWithRetry under the connection lock, EnsureCredentialFresh,   *)
(* which reads the credential before it, and Service.Revoke,               *)
(* StartReconsent and CompleteCallback, which take no lock                 *)
(* (core/service.go, core/refresh_runner.go, core/credential_freshness.go, *)
(* core/grants.go), over the SQL connection, credential and grant stores.  *)
(*                                                                         *)
(* A refresh reads the active credential under the lock, or is given one   *)
(* that its caller read from the store before.                             *)
(*                                                                         *)
(* The provider rotates refresh tokens: a successful refresh may replace   *)
(* the token, and a token that was replaced is refused.                    *)
(***************************************************************************)
EXTENDS Integers, Sequences

CONSTANTS
    Refreshers,     \* callers of Refresh or RunRefreshWithRetry
    Revokers,       \* callers of Revoke
    Callbacks,      \* callers of CompleteCallback for this connection
    MaxAttempts,    \* RefreshRunOptions.MaxAttempts
    None,           \* nobody
    MaxToken,       \* bound of the tokens the provider issues
    MaxRevokes      \* bound of the calls of Revoke

ASSUME RefreshAssumption ==
    /\ None \notin Refreshers
    /\ MaxAttempts \in Nat \ {0}
    /\ {MaxToken, MaxRevokes} \subseteq Nat

VARIABLES
    lock,       \* whose entry is in MemoryConnectionLocker.locks, or None
    conn,       \* the connection's status column
    creds,      \* the credential versions, oldest first
    token,      \* the refresh token the provider accepts
    rf,         \* rf[x]: where refresher x is
    rv,         \* rv[v]: where revoker v is
    cb,         \* cb[c]: where callback c is
    revokes,    \* history: how often RevokeActive has run
    stolen,     \* history: a lock has been released by another than its holder
    disturbed   \* history: see Disturbs

vars == <<lock, conn, creds, token, rf, rv, cb, revokes, stolen, disturbed>>

-----------------------------------------------------------------------------
ConnectionStatuses ==
    {"active", "disconnected", "errored", "pending_reauth", "needs_reconsent"}

Credential == [token : Nat, active : BOOLEAN]

\* A refresher's locals: whether it is RunRefreshWithRetry, the attempt, the
\* version of the credential in its request (0: none), the token it presents and
\* then the one it is issued (0 once it is not used again), whether the lock's
\* TTL has passed since it acquired it, and (history) how many revocations there
\* had been when the credential was read.
Refresher == [pc : {"idle", "given", "load", "call", "save", "activate", "grants",
                    "reconsent", "backoff", "reauth", "unlock"},
              runner : BOOLEAN, attempt : 0..MaxAttempts, given : Nat, token : Nat,
              over : BOOLEAN, epoch : Nat]

IdleRefresher == [pc |-> "idle", runner |-> FALSE, attempt |-> 0, given |-> 0,
                  token |-> 0, over |-> FALSE, epoch |-> 0]

Callback == [pc : {"idle", "activate", "save", "grants"}, token : Nat]

IdleCallback == [pc |-> "idle", token |-> 0]

\* A refresher that has acquired the lock and not released it.
Inside(x) == rf[x].pc \notin {"idle", "given"}

\* Where a refresher is between loading the credential and writing a new one.
InFlight(x) == rf[x].pc \in {"call", "save"}

\* A refresher that has, or will present again, a credential it has read.
Holds(x) == InFlight(x) \/ rf[x].given # 0

HasActive == \E i \in 1..Len(creds) : creds[i].active

RefreshInit ==
    /\ lock = None
    /\ conn = "active"
    /\ creds = <<[token |-> 1, active |-> TRUE]>>
    /\ token = 1
    /\ rf = [x \in Refreshers |-> IdleRefresher]
    /\ rv = [v \in Revokers |-> "idle"]
    /\ cb = [c \in Callbacks |-> IdleCallback]
    /\ revokes = 0
    /\ stolen = FALSE
    /\ disturbed = FALSE

\* Mutated form: the new version is not marked active.
Saved_Inactive(t) == Append([i \in 1..Len(creds) |-> [creds[i] EXCEPT !.active = FALSE]],
                            [token |-> t, active |-> FALSE])

\* SaveNewVersion, one transaction: revoke what is active, insert the next.
Saved(t) ==
    Append([i \in 1..Len(creds) |-> [creds[i] EXCEPT !.active = FALSE]],
           [token |-> t, active |-> TRUE])

\* RevokeActive.
Deactivated == [i \in 1..Len(creds) |-> [creds[i] EXCEPT !.active = FALSE]]

\* ConnectionStore.UpdateStatus writes any status over any other.
UpdateStatus(status) == conn' = status

\* connectionTransitionAllowed, or no change: what Connection.TransitionTo admits.
TransitionAllowed(current, next) ==
    \/ next = current
    \/ current = "active"
    \/ current = "disconnected" /\ next = "active"
    \/ current = "errored" /\ next \in {"active", "pending_reauth", "disconnected"}
    \/ current = "pending_reauth" /\ next \in {"active", "disconnected"}
    \/ current = "needs_reconsent" /\ next \in {"active", "disconnected", "pending_reauth"}

-----------------------------------------------------------------------------
\* Mutated form: the lock is not looked at.
LockFree_Always == TRUE

\* MemoryConnectionLocker.Acquire: no entry, or one whose TTL has passed.
LockFree == \A y \in Refreshers : lock = y => rf[y].over

\* What makes a loaded token old without a revocation: a second refresher or a
\* callback at work on the connection, or a token that was issued and not saved.
Disturbs(b) == disturbed' = (disturbed \/ b)

\* Refresher x goes on with the locals l; with nothing but a new place.
Becomes(x, l) == rf' = [rf EXCEPT ![x] = l]
Goto(x, pc) == Becomes(x, [rf[x] EXCEPT !.pc = pc, !.token = 0])

\* GetActiveByConnection finds version i.
ActiveVersion(i) ==
    /\ creds[i].active
    /\ \A j \in 1..Len(creds) : creds[j].active => j <= i

\* EnsureCredentialFresh, or another caller, reads the credential that it puts
\* into its request to refresh.
EnsureCredentialFresh(x) ==
    /\ rf[x].pc = "idle"
    /\ \E i \in 1..Len(creds) :
          /\ ActiveVersion(i)
          /\ Becomes(x, [IdleRefresher EXCEPT !.pc = "given", !.given = i, !.epoch = revokes])
    /\ UNCHANGED <<lock, conn, creds, token, rv, cb, revokes, stolen, disturbed>>

\* Acquire fails, and the request is over.
Contend(x) ==
    /\ rf[x].pc = "given"
    /\ ~LockFree
    /\ Becomes(x, IdleRefresher)
    /\ UNCHANGED <<lock, conn, creds, token, rv, cb, revokes, stolen, disturbed>>

\* Refresh, or RunRefreshWithRetry, acquires the lock.
Start(x, runner) ==
    /\ rf[x].pc \in {"idle", "given"}
    /\ LockFree
    /\ lock' = x
    /\ Becomes(x, [rf[x] EXCEPT !.pc = "load", !.runner = runner, !.attempt = 1])
    /\ Disturbs((\E y \in Refreshers : Inside(y)) \/ \E c \in Callbacks : cb[c].pc # "idle")
    /\ UNCHANGED <<conn, creds, token, rv, cb, revokes, stolen>>

\* The lock's TTL passes while x is at work.
Lapse(x) ==
    /\ Inside(x) /\ ~rf[x].over
    /\ Becomes(x, [rf[x] EXCEPT !.over = TRUE])
    /\ UNCHANGED <<lock, conn, creds, token, rv, cb, revokes, stolen, disturbed>>

LastAttempt(attempt) == attempt = MaxAttempts

\* An attempt of x has failed.  Refresh returns; RunRefreshWithRetry gives up
\* on an unrecoverable error or after the last attempt, and otherwise waits.
Failed(x, unrecoverable) ==
    Goto(x, IF ~rf[x].runner THEN "unlock"
            ELSE IF unrecoverable \/ LastAttempt(rf[x].attempt) THEN "reauth"
            ELSE "backoff")

\* A store or codec error; how isUnrecoverableRefreshError classes it depends
\* on the error's category.
StoreError(x) == \E unrecoverable \in BOOLEAN : Failed(x, unrecoverable)

\* The connection is read.  The credential is the one in the request, in every
\* attempt, as old as it is by now; without one the active credential is read.
Load(x) ==
    /\ rf[x].pc = "load"
    /\ \/ /\ rf[x].given # 0
          /\ Becomes(x, [rf[x] EXCEPT !.pc = "call", !.token = creds[rf[x].given].token])
       \/ /\ rf[x].given = 0
          /\ \E i \in 1..Len(creds) :
                /\ ActiveVersion(i)
                /\ Becomes(x, [rf[x] EXCEPT !.pc = "call", !.token = creds[i].token,
                                            !.epoch = revokes])
       \/ StoreError(x)
    /\ UNCHANGED <<lock, conn, creds, token, rv, cb, revokes, stolen, disturbed>>

\* Mutated form: a rotated credential is taken for the old one.
AfterRotation_NotSaved == "activate"

\* shouldPersistRefreshedCredential holds of a rotated credential, which comes
\* with a new access token.
AfterRotation == "save"

\* strategy.Refresh: the provider rotates the token, leaves the credential as
\* it is (which is then not saved), or fails; it refuses a token that is not
\* current.
Call(x) ==
    /\ rf[x].pc = "call"
    /\ \/ /\ rf[x].token = token /\ token < MaxToken
          /\ token' = token + 1
          /\ Becomes(x, [rf[x] EXCEPT !.pc = AfterRotation, !.token = token + 1])
       \/ /\ rf[x].token = token
          /\ Goto(x, "activate")
          /\ UNCHANGED token
       \/ StoreError(x) /\ UNCHANGED token
    /\ UNCHANGED <<lock, conn, creds, rv, cb, revokes, stolen, disturbed>>

\* Encrypt and SaveNewVersion; on an error the issued token is lost.
Save(x) ==
    /\ rf[x].pc = "save"
    /\ \/ creds' = Saved(rf[x].token) /\ Goto(x, "activate") /\ UNCHANGED disturbed
       \/ StoreError(x) /\ Disturbs(TRUE) /\ UNCHANGED creds
    /\ UNCHANGED <<lock, conn, token, rv, cb, revokes, stolen>>

Activate(x) ==
    /\ rf[x].pc = "activate"
    /\ \/ UpdateStatus("active") /\ Goto(x, "grants")
       \/ StoreError(x) /\ UNCHANGED conn
    /\ UNCHANGED <<lock, creds, token, rv, cb, revokes, stolen, disturbed>>

\* reconcileGrantSnapshot saves the next grant snapshot; a version another
\* caller has saved meanwhile is among the errors.  Required grants that the
\* snapshot lacks send the connection to needs_reconsent.
Grants(x) ==
    /\ rf[x].pc = "grants"
    /\ Goto(x, "unlock") \/ Goto(x, "reconsent") \/ StoreError(x)
    /\ UNCHANGED <<lock, conn, creds, token, rv, cb, revokes, stolen, disturbed>>

\* Required grants are missing: transitionConnectionToNeedsReconsent.
Reconsent(x) ==
    /\ rf[x].pc = "reconsent"
    /\ \/ UpdateStatus("needs_reconsent") /\ Goto(x, "unlock")
       \/ StoreError(x) /\ UNCHANGED conn
    /\ UNCHANGED <<lock, creds, token, rv, cb, revokes, stolen, disturbed>>

\* Mutated form: the attempts are not counted.
NextAttempt_Same(attempt) == attempt

NextAttempt(attempt) == attempt + 1

\* waitWithContext: the delay passes, or the caller's context ends the run.
Backoff(x) ==
    /\ rf[x].pc = "backoff"
    /\ \/ Becomes(x, [rf[x] EXCEPT !.pc = "load", !.attempt = NextAttempt(@)])
       \/ Goto(x, "unlock")
    /\ UNCHANGED <<lock, conn, creds, token, rv, cb, revokes, stolen, disturbed>>

\* transitionConnectionToPendingReauth; its error is ignored.
Reauth(x) ==
    /\ rf[x].pc = "reauth"
    /\ UpdateStatus("pending_reauth") \/ UNCHANGED conn
    /\ Goto(x, "unlock")
    /\ UNCHANGED <<lock, creds, token, rv, cb, revokes, stolen, disturbed>>

\* memoryLockHandle.Unlock deletes the connection's entry, whoever put it there.
Unlock(x) ==
    /\ rf[x].pc = "unlock"
    /\ lock' = None
    /\ stolen' = (stolen \/ lock \notin {x, None})
    /\ Becomes(x, IdleRefresher)
    /\ UNCHANGED <<conn, creds, token, rv, cb, revokes, disturbed>>

-----------------------------------------------------------------------------
\* Revoke: RevokeActive, then the status; each may fail and end the call.
RevokeCredential(v) ==
    /\ rv[v] = "idle"
    /\ revokes < MaxRevokes
    /\ revokes' = revokes + 1
    /\ creds' = Deactivated
    /\ rv' = [rv EXCEPT ![v] = "disconnect"]
    /\ UNCHANGED <<lock, conn, token, rf, cb, stolen, disturbed>>

Disconnect(v) ==
    /\ rv[v] = "disconnect"
    /\ UpdateStatus("disconnected") \/ UNCHANGED conn
    /\ rv' = [rv EXCEPT ![v] = "idle"]
    /\ UNCHANGED <<lock, creds, token, rf, cb, revokes, stolen, disturbed>>

\* StartReconsent, up to the redirect to the provider.
StartReconsent ==
    /\ UpdateStatus("needs_reconsent")
    /\ UNCHANGED <<lock, creds, token, rf, rv, cb, revokes, stolen, disturbed>>

-----------------------------------------------------------------------------
\* Nobody but callback c is at work on the connection.
Alone(c) ==
    /\ \A x \in Refreshers : ~Inside(x)
    /\ \A e \in Callbacks \ {c} : cb[e].pc = "idle"

CallbackGoto(c, pc) == cb' = [cb EXCEPT ![c].pc = pc]

CallbackReturns(c) == cb' = [cb EXCEPT ![c] = IdleCallback]

\* CompleteCallback up to strategy.Complete: the provider issues a token.
CallbackComplete(c) ==
    /\ cb[c].pc = "idle"
    /\ token < MaxToken
    /\ token' = token + 1
    /\ cb' = [cb EXCEPT ![c] = [pc |-> "activate", token |-> token + 1]]
    /\ Disturbs(~Alone(c))
    /\ UNCHANGED <<lock, conn, creds, rf, rv, revokes, stolen>>

\* The connection is active before its credential is saved.
CallbackActivate(c) ==
    /\ cb[c].pc = "activate"
    /\ \/ UpdateStatus("active") /\ CallbackGoto(c, "save") /\ UNCHANGED disturbed
       \/ CallbackReturns(c) /\ Disturbs(TRUE) /\ UNCHANGED conn
    /\ UNCHANGED <<lock, creds, token, rf, rv, revokes, stolen>>

\* Saving the credential of an undisturbed authorization repairs what came before.
CallbackSave(c) ==
    /\ cb[c].pc = "save"
    /\ \/ /\ creds' = Saved(cb[c].token)
          /\ CallbackGoto(c, "grants")
          /\ disturbed' = (disturbed /\ ~(Alone(c) /\ cb[c].token = token))
       \/ CallbackReturns(c) /\ Disturbs(TRUE) /\ UNCHANGED creds
    /\ UNCHANGED <<lock, conn, token, rf, rv, revokes, stolen>>

\* Saved or not, the snapshot ends the callback.
CallbackGrants(c) ==
    /\ cb[c].pc = "grants"
    /\ CallbackReturns(c)
    /\ UNCHANGED <<lock, conn, creds, token, rf, rv, revokes, stolen, disturbed>>

-----------------------------------------------------------------------------
\* The process stops and starts again: the stores keep what they have, the
\* calls in progress and the in-memory locks are gone.
Crash ==
    /\ lock' = None
    /\ rf' = [x \in Refreshers |-> IdleRefresher]
    /\ rv' = [v \in Revokers |-> "idle"]
    /\ cb' = [c \in Callbacks |-> IdleCallback]
    /\ disturbed' = (\/ disturbed
                     \/ \E x \in Refreshers : rf[x].pc = "save"
                     \/ \E c \in Callbacks : cb[c].pc \in {"activate", "save"})
    /\ UNCHANGED <<conn, creds, token, revokes, stolen>>

Step(x) ==
    \/ Load(x) \/ Call(x) \/ Save(x) \/ Activate(x) \/ Grants(x)
    \/ Reconsent(x) \/ Backoff(x) \/ Reauth(x) \/ Unlock(x)

RefreshNext ==
    \/ \E x \in Refreshers :
          \/ EnsureCredentialFresh(x) \/ Contend(x)
          \/ \E runner \in BOOLEAN : Start(x, runner)
          \/ Lapse(x) \/ Step(x)
    \/ \E v \in Revokers : RevokeCredential(v) \/ Disconnect(v)
    \/ StartReconsent
    \/ \E c \in Callbacks : \/ CallbackComplete(c) \/ CallbackActivate(c) \/ CallbackSave(c)
                            \/ CallbackGrants(c)
    \/ Crash

RefreshSpec == RefreshInit /\ [][RefreshNext]_vars

\* A goroutine that can go on does, and a call to the provider returns.
FairRefreshSpec == RefreshSpec /\ \A x \in Refreshers : WF_vars(Step(x))

-----------------------------------------------------------------------------
\* The statuses are the five of core/domain.go, the credential versions and the
\* callers' locals have their types.
TypeOK ==
    /\ lock \in Refreshers \cup {None}
    /\ conn \in ConnectionStatuses
    /\ creds \in Seq(Credential)
    /\ token \in Nat /\ revokes \in Nat
    /\ rf \in [Refreshers -> Refresher]
    /\ rv \in [Revokers -> {"idle", "disconnect"}]
    /\ cb \in [Callbacks -> Callback]
    /\ stolen \in BOOLEAN /\ disturbed \in BOOLEAN

\* Whatever refreshes, callbacks and revocations interleave or are cut off, at
\* most one credential version is active, and it is the newest one.
NewestActive == \A i \in 1..Len(creds) : creds[i].active => i = Len(creds)

\* Two refreshes are under way together only when the lock's TTL has passed for
\* one of them, or has once: until then the lock of RunRefreshWithRetry and
\* Refresh excludes them, through retries, errors and restarts.
LockExclusion ==
    ~stolen => \A x, y \in Refreshers :
                  x # y /\ Inside(x) /\ Inside(y) => rf[x].over \/ rf[y].over

\* From the read of the active credential, before the lock or under it, to its
\* last use a refresh finds an active one in the store unless Revoke has run
\* meanwhile: no other refresh or callback, lock or not, takes it away without
\* leaving another.
OnlyRevokeTakesAway ==
    \A x \in Refreshers : Holds(x) /\ rf[x].epoch = revokes => HasActive

\* With rotating tokens, and unless a refresh or callback overlapped another or
\* lost the token it was issued (which an authorization that runs alone
\* repairs), a refresh that reads the credential under the lock presents the
\* token the provider accepts, and one that brings a credential read before the
\* lock does unless a version was saved since: by another call that came first,
\* or by an earlier attempt of its own.
PresentsCurrentToken ==
    \A x \in Refreshers :
        rf[x].pc = "call" /\ ~disturbed /\ rf[x].given \in {0, Len(creds)} => rf[x].token = token

\* A refresh, with all its retries, ends, and its lock entry goes.
RefreshEnds == \A x \in Refreshers : Inside(x) ~> ~Inside(x)

\* core/refresh_runner_test.go expects a second refresh to fail while a first
\* holds the lock within its TTL.
LockHeldExclusively ==
    \A x, y \in Refreshers : x # y /\ Inside(x) /\ Inside(y) => rf[x].over \/ rf[y].over

\* core/domain_test.go: a connection never moves from pending_reauth to
\* needs_reconsent, nor along any other edge outside the transition table.
AllowedTransitions == [][TransitionAllowed(conn, conn')]_vars
=============================================================================
