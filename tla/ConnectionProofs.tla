-------------------------- MODULE ConnectionProofs --------------------------
(***************************************************************************)
(* Proofs about a connection: its refresh (ConnectionRefresh), the cache of*)
(* client credentials (ClientCredentials) and the installations' transition*)
(* table (Installations), for any callers, schedules, faults and clocks.   *)
(***************************************************************************)
EXTENDS ConnectionRefresh, ClientCredentials, Installations,
        WellFoundedInduction, TLAPS

-----------------------------------------------------------------------------
(* The refresh of a connection.                                            *)

Busy(c) == cb[c].pc # "idle"

\* Nobody loses the lock but to its TTL, until one has been taken away.
LockKept == ~stolen => \A x \in Refreshers : Inside(x) => lock = x \/ rf[x].over

\* The attempts left, the revocations seen and the version brought along of a
\* refresher.
Counted ==
    \A x \in Refreshers :
        /\ rf[x].pc = "backoff" => rf[x].attempt < MaxAttempts
        /\ rf[x].epoch <= revokes
        /\ rf[x].given \in 0..Len(creds)

\* A token that was issued waits to be saved.
Issuing ==
    \/ \E x \in Refreshers : rf[x].pc = "save"
    \/ \E c \in Callbacks : cb[c].pc \in {"activate", "save"}

\* At most one refresher or callback is at work.
OneAtWork ==
    /\ \A x, y \in Refreshers : Inside(x) /\ Inside(y) => x = y
    /\ \A c, e \in Callbacks : Busy(c) /\ Busy(e) => c = e
    /\ \A x \in Refreshers, c \in Callbacks : ~(Inside(x) /\ Busy(c))

\* A refresher with an issued token, or one loaded from the newest version.
OfNewest(x) ==
    \/ rf[x].pc = "save"
    \/ rf[x].pc = "call" /\ rf[x].given \in {0, Len(creds)}

\* The provider's token is the one that is loaded, waits or is stored in the
\* newest version, active or revoked.
TokenKept ==
    /\ \A x \in Refreshers : OfNewest(x) => rf[x].token = token
    /\ \A c \in Callbacks : cb[c].pc \in {"activate", "save"} => cb[c].token = token
    /\ Issuing \/ \A i \in 1..Len(creds) : i = Len(creds) => creds[i].token = token

\* The inductive invariant.
IInv ==
    /\ TypeOK /\ NewestActive /\ OnlyRevokeTakesAway
    /\ LockKept /\ Counted
    /\ ~disturbed => OneAtWork /\ TokenKept

-----------------------------------------------------------------------------
\* The locals of refreshers and callbacks that are not running.
LEMMA IdleLocals ==
    /\ IdleRefresher \in Refresher /\ IdleRefresher.pc = "idle"
    /\ IdleRefresher.epoch = 0 /\ IdleRefresher.given = 0
    /\ IdleCallback \in Callback /\ IdleCallback.pc = "idle"
<1>1. 0 \in 0..MaxAttempts
  BY RefreshAssumption
<1>2. IdleRefresher \in Refresher
  BY <1>1, Zenon DEF IdleRefresher, Refresher
<1>3. IdleRefresher.pc = "idle" /\ IdleRefresher.epoch = 0 /\ IdleRefresher.given = 0
  BY Zenon DEF IdleRefresher
<1>. QED  BY <1>2, <1>3, Zenon DEF IdleCallback, Callback

\* RevokeActive deactivates every version, and leaves its token.
LEMMA DeactivatedCreds ==
    ASSUME TypeOK
    PROVE  /\ Deactivated \in Seq(Credential)
           /\ Len(Deactivated) = Len(creds)
           /\ \A i \in 1..Len(creds) : /\ Deactivated[i].active = FALSE
                                        /\ Deactivated[i].token = creds[i].token
<1>1. creds \in Seq(Credential) /\ Len(creds) \in Nat
  BY DEF TypeOK
<1>2. \A i \in 1..Len(creds) : creds[i] \in Credential
  BY <1>1
<1>. DEFINE off(i) == [creds[i] EXCEPT !.active = FALSE]
<1>3. \A i \in 1..Len(creds) : /\ off(i) \in Credential /\ off(i).active = FALSE
                               /\ off(i).token = creds[i].token
  BY <1>2, Zenon DEF Credential
<1>4. Deactivated = [i \in 1..Len(creds) |-> off(i)]
  BY Zenon DEF Deactivated
<1>. HIDE DEF off
<1>5. Deactivated \in Seq(Credential) /\ Len(Deactivated) = Len(creds)
  BY <1>1, <1>3, <1>4
<1>. QED  BY <1>3, <1>4, <1>5, Zenon

\* SaveNewVersion adds a version, which is the only active one.
LEMMA SavedCreds ==
    ASSUME TypeOK, NEW t \in Nat
    PROVE  /\ Saved(t) \in Seq(Credential)
           /\ Len(Saved(t)) = Len(creds) + 1
           /\ \A i \in 1..Len(creds) : Saved(t)[i].active = FALSE
           /\ Saved(t)[Len(creds) + 1].active = TRUE
           /\ Saved(t)[Len(creds) + 1].token = t
<1>. DEFINE v == [token |-> t, active |-> TRUE]
<1>1. v \in Credential /\ v.active = TRUE /\ v.token = t
  BY Zenon DEF Credential
<1>2. Saved(t) = Append(Deactivated, v)
  BY Zenon DEF Saved, Deactivated
<1>3. Len(creds) \in Nat
  BY DEF TypeOK
<1>. HIDE DEF v
<1>4. /\ Saved(t) \in Seq(Credential)
      /\ Len(Saved(t)) = Len(Deactivated) + 1
      /\ \A i \in 1..Len(Deactivated) : Saved(t)[i] = Deactivated[i]
      /\ Saved(t)[Len(Deactivated) + 1] = v
  BY <1>1, <1>2, DeactivatedCreds
<1>. QED  BY <1>1, <1>3, <1>4, DeactivatedCreds, Zenon

\* The invariant holds for a connection with its first credential.
LEMMA InitIInv == RefreshInit => IInv
<1>. SUFFICES ASSUME RefreshInit PROVE IInv
  BY Zenon
<1>. DEFINE v == [token |-> 1, active |-> TRUE]
<1>1. v \in Credential /\ v.active = TRUE /\ v.token = 1
  BY Zenon DEF Credential
<1>2. creds = <<v>> /\ token = 1 /\ revokes = 0 /\ disturbed = FALSE /\ stolen = FALSE
  BY Zenon DEF RefreshInit
<1>. HIDE DEF v
<1>3. creds \in Seq(Credential) /\ Len(creds) = 1 /\ creds[1] = v
  BY <1>1, <1>2
<1>4. /\ \A x \in Refreshers : rf[x] = IdleRefresher
      /\ \A c \in Callbacks : cb[c] = IdleCallback
  BY Zenon DEF RefreshInit
<1>5. TypeOK
  <2>1. rf \in [Refreshers -> Refresher] /\ cb \in [Callbacks -> Callback]
    BY IdleLocals, Zenon DEF RefreshInit
  <2>. QED  BY <1>3, <2>1, Zenon DEF RefreshInit, TypeOK, ConnectionStatuses
<1>6. NewestActive
  BY <1>3 DEF NewestActive
<1>7. \A x \in Refreshers : /\ ~Inside(x) /\ ~Holds(x) /\ ~OfNewest(x) /\ rf[x].pc # "backoff"
                            /\ rf[x].epoch = 0 /\ rf[x].given = 0
  BY <1>4, IdleLocals, Zenon DEF Inside, InFlight, Holds, OfNewest
<1>8. \A c \in Callbacks : ~Busy(c) /\ cb[c].pc \notin {"activate", "save"}
  BY <1>4, IdleLocals, Zenon DEF Busy
<1>9. OnlyRevokeTakesAway /\ LockKept /\ Counted
  BY <1>2, <1>3, <1>7 DEF OnlyRevokeTakesAway, LockKept, Counted
<1>10. OneAtWork
  BY <1>7, <1>8, Zenon DEF OneAtWork
<1>11. TokenKept
  <2>1. \A i \in 1..Len(creds) : i = Len(creds) => creds[i].token = token
    BY <1>1, <1>2, <1>3
  <2>. QED  BY <1>7, <1>8, <2>1, Zenon DEF TokenKept
<1>. QED  BY <1>5, <1>6, <1>9, <1>10, <1>11, Zenon DEF IInv

-----------------------------------------------------------------------------
\* What a refresher's step does to the locals.
LEMMA BecomesEffect ==
    ASSUME TypeOK, NEW x \in Refreshers, NEW l \in Refresher, Becomes(x, l)
    PROVE  /\ rf' \in [Refreshers -> Refresher]
           /\ rf'[x] = l
           /\ \A y \in Refreshers \ {x} : rf'[y] = rf[y]
BY Zenon DEF Becomes, TypeOK

\* A step inside the lock that ends anywhere but between Load and Save, and
\* drops an issued token only as a disturbance.
LEMMA Moves ==
    ASSUME IInv, NEW x \in Refreshers, NEW l \in Refresher, Becomes(x, l),
           Inside(x), l.over = rf[x].over, l.epoch = rf[x].epoch, l.given = rf[x].given,
           l.pc \notin {"idle", "given", "call", "save"},
           l.pc = "backoff" => l.attempt < MaxAttempts,
           UNCHANGED <<lock, creds, token, rv, cb, revokes, stolen>>,
           conn' \in ConnectionStatuses, disturbed' \in BOOLEAN,
           ~disturbed' => ~disturbed /\ rf[x].pc # "save"
    PROVE  IInv'
<1>1. TypeOK
  BY Zenon DEF IInv
<1>2. /\ rf' \in [Refreshers -> Refresher]
      /\ rf'[x] = l
      /\ \A y \in Refreshers \ {x} : rf'[y] = rf[y]
  BY <1>1, BecomesEffect, Zenon
<1>3. TypeOK'
  BY <1>1, <1>2, Zenon DEF TypeOK
<1>4. \A y \in Refreshers :
          /\ Inside(y)' <=> Inside(y)
          /\ Holds(y)' => Holds(y)
          /\ OfNewest(y)' => OfNewest(y) /\ y # x
          /\ rf'[y].over = rf[y].over /\ rf'[y].epoch = rf[y].epoch
          /\ rf'[y].given = rf[y].given
  BY <1>2, Zenon DEF Inside, InFlight, Holds, OfNewest
<1>5. NewestActive'
  BY Zenon DEF IInv, NewestActive
<1>6. OnlyRevokeTakesAway'
  BY <1>4, Zenon DEF IInv, OnlyRevokeTakesAway, HasActive
<1>7. LockKept'
  BY <1>4, Zenon DEF IInv, LockKept
<1>8. Counted'
  BY <1>2, <1>4, Zenon DEF IInv, Counted
<1>9. ASSUME ~disturbed' PROVE OneAtWork' /\ TokenKept'
  <2>1. ~disturbed /\ rf[x].pc # "save"
    BY <1>9, Zenon
  <2>2. OneAtWork /\ TokenKept
    BY <2>1, Zenon DEF IInv
  <2>3. OneAtWork'
    BY <1>4, <2>2, Zenon DEF OneAtWork, Busy
  <2>4. Issuing' <=> Issuing
    BY <1>2, <2>1, Zenon DEF Issuing
  <2>5. \A y \in Refreshers : OfNewest(y)' => rf'[y].token = token
    BY <1>2, <1>4, <2>2, Zenon DEF TokenKept
  <2>. QED  BY <2>2, <2>3, <2>4, <2>5, Zenon DEF TokenKept
<1>. QED  BY <1>3, <1>5, <1>6, <1>7, <1>8, <1>9, Zenon DEF IInv

\* The locals that Goto gives.
LEMMA GotoLocals ==
    ASSUME TypeOK, NEW x \in Refreshers, NEW pc, Goto(x, pc),
           pc \in {"activate", "grants", "reconsent", "backoff", "reauth", "unlock"}
    PROVE  \E l \in Refresher :
               /\ Becomes(x, l) /\ l.pc = pc /\ l.over = rf[x].over
               /\ l.epoch = rf[x].epoch /\ l.attempt = rf[x].attempt
               /\ l.given = rf[x].given
<1>. DEFINE l == [rf[x] EXCEPT !.pc = pc, !.token = 0]
<1>1. rf[x] \in Refresher
  BY Zenon DEF TypeOK
<1>2. l \in Refresher
  BY <1>1, Zenon DEF Refresher
<1>3. /\ l.pc = pc /\ l.over = rf[x].over
      /\ l.epoch = rf[x].epoch /\ l.attempt = rf[x].attempt
      /\ l.given = rf[x].given
  BY <1>1, Zenon DEF Refresher
<1>4. Becomes(x, l)
  BY Zenon DEF Goto
<1>. HIDE DEF l
<1>. QED  BY <1>2, <1>3, <1>4, Zenon

\* Going on to a place without a loaded token.
LEMMA GotoPreserves ==
    ASSUME IInv, NEW x \in Refreshers, NEW pc, Goto(x, pc),
           pc \in {"activate", "grants", "reconsent", "backoff", "reauth", "unlock"},
           pc = "backoff" => rf[x].attempt < MaxAttempts,
           Inside(x),
           UNCHANGED <<lock, creds, token, rv, cb, revokes, stolen>>,
           conn' \in ConnectionStatuses, disturbed' \in BOOLEAN,
           ~disturbed' => ~disturbed /\ rf[x].pc # "save"
    PROVE  IInv'
<1>1. TypeOK
  BY Zenon DEF IInv
<1>2. PICK l \in Refresher :
               /\ Becomes(x, l) /\ l.pc = pc /\ l.over = rf[x].over
               /\ l.epoch = rf[x].epoch /\ l.attempt = rf[x].attempt
               /\ l.given = rf[x].given
  BY <1>1, GotoLocals, Zenon
<1>. QED  BY <1>2, Moves, Zenon

\* A failed attempt, whatever follows it.
LEMMA FailedPreserves ==
    ASSUME IInv, NEW x \in Refreshers, StoreError(x), Inside(x),
           UNCHANGED <<lock, conn, creds, token, rv, cb, revokes, stolen>>,
           disturbed' \in BOOLEAN,
           ~disturbed' => ~disturbed /\ rf[x].pc # "save"
    PROVE  IInv'
<1>1. PICK u \in BOOLEAN : Failed(x, u)
  BY Zenon DEF StoreError
<1>2. rf[x].attempt \in 0..MaxAttempts /\ MaxAttempts \in Nat
  BY RefreshAssumption, Zenon DEF IInv, TypeOK, Refresher
<1>3. \/ Goto(x, "unlock") \/ Goto(x, "reauth")
      \/ Goto(x, "backoff") /\ rf[x].attempt # MaxAttempts
  BY <1>1, Zenon DEF Failed, LastAttempt
<1>4. conn' \in ConnectionStatuses
  BY Zenon DEF IInv, TypeOK
<1>5. CASE Goto(x, "unlock")
  BY <1>4, <1>5, GotoPreserves, Zenon
<1>6. CASE Goto(x, "reauth")
  BY <1>4, <1>6, GotoPreserves, Zenon
<1>7. CASE Goto(x, "backoff") /\ rf[x].attempt # MaxAttempts
  <2>1. rf[x].attempt < MaxAttempts
    BY <1>2, <1>7
  <2>. QED  BY <1>4, <1>7, <2>1, GotoPreserves, Zenon
<1>. QED  BY <1>3, <1>5, <1>6, <1>7, Zenon

\* The steps after the credential is saved, and the waits between attempts.
LEMMA LaterPreserves ==
    ASSUME IInv, NEW x \in Refreshers,
           Activate(x) \/ Grants(x) \/ Reconsent(x) \/ Reauth(x) \/ Backoff(x)
    PROVE  IInv'
<1>1. /\ UNCHANGED <<lock, creds, token, rv, cb, revokes, stolen, disturbed>>
      /\ Inside(x) /\ rf[x].pc # "save"
  BY Zenon DEF Activate, Grants, Reconsent, Reauth, Backoff, Inside
<1>2. conn \in ConnectionStatuses /\ disturbed' \in BOOLEAN /\ TypeOK
  BY <1>1, Zenon DEF IInv, TypeOK
<1>3. ~disturbed' => ~disturbed /\ rf[x].pc # "save"
  BY <1>1, Zenon
<1>4. {"active", "needs_reconsent", "pending_reauth"} \subseteq ConnectionStatuses
  BY Zenon DEF ConnectionStatuses
<1>5. ASSUME StoreError(x) /\ UNCHANGED conn PROVE IInv'
  BY <1>1, <1>2, <1>3, <1>5, FailedPreserves, Zenon
<1>6. ASSUME NEW pc \in {"grants", "reconsent", "unlock"}, Goto(x, pc),
             conn' \in ConnectionStatuses
      PROVE  IInv'
  BY <1>1, <1>2, <1>3, <1>6, GotoPreserves, Zenon
<1>7. CASE Activate(x)
  BY <1>4, <1>5, <1>6, <1>7, Zenon DEF Activate, UpdateStatus
<1>8. CASE Grants(x)
  BY <1>2, <1>5, <1>6, <1>8, Zenon DEF Grants
<1>9. CASE Reconsent(x)
  BY <1>4, <1>5, <1>6, <1>9, Zenon DEF Reconsent, UpdateStatus
<1>10. CASE Reauth(x)
  BY <1>2, <1>4, <1>6, <1>10, Zenon DEF Reauth, UpdateStatus
<1>11. CASE Backoff(x)
  <2>1. UNCHANGED conn /\ conn' \in ConnectionStatuses /\ rf[x].pc = "backoff"
    BY <1>2, <1>11, Zenon DEF Backoff
  <2>2. CASE Goto(x, "unlock")
    BY <1>6, <2>1, <2>2, Zenon
  <2>3. CASE Becomes(x, [rf[x] EXCEPT !.pc = "load", !.attempt = NextAttempt(@)])
    <3>1. rf[x] \in Refresher /\ rf[x].attempt \in 0..MaxAttempts
      BY <1>2, Zenon DEF TypeOK, Refresher
    <3>2. rf[x].attempt < MaxAttempts /\ MaxAttempts \in Nat
      BY <2>1, RefreshAssumption, Zenon DEF IInv, Counted
    <3>. DEFINE n == rf[x].attempt + 1
                l == [rf[x] EXCEPT !.pc = "load", !.attempt = n]
    <3>3. n \in 0..MaxAttempts
      BY <3>1, <3>2
    <3>4. Becomes(x, l)
      BY <2>3, Zenon DEF NextAttempt
    <3>. HIDE DEF n
    <3>5. l \in Refresher
      BY <3>1, <3>3, Zenon DEF Refresher
    <3>6. /\ l.pc = "load" /\ l.over = rf[x].over /\ l.epoch = rf[x].epoch
          /\ l.given = rf[x].given
      BY <3>1, Zenon DEF Refresher
    <3>. HIDE DEF l
    <3>. QED  BY <1>1, <1>2, <1>3, <2>1, <3>4, <3>5, <3>6, Moves, Zenon
  <2>. QED  BY <1>11, <2>2, <2>3, Zenon DEF Backoff
<1>. QED  BY <1>7, <1>8, <1>9, <1>10, <1>11, Zenon

\* Inside the lock, x goes between Load and Save with a token that is the
\* provider's unless the connection is disturbed or the token is an older one
\* that x brought along.
LEMMA Flies ==
    ASSUME IInv, NEW x \in Refreshers, NEW l \in Refresher, Becomes(x, l),
           Inside(x), rf[x].pc # "save", l.over = rf[x].over,
           l.given = rf[x].given, l.epoch <= revokes, l.pc \in {"call", "save"},
           l.epoch = revokes => HasActive,
           UNCHANGED <<lock, conn, creds, rv, cb, revokes, stolen, disturbed>>,
           token' \in Nat, token' = token \/ l.pc = "save",
           ~disturbed /\ (l.pc = "save" \/ l.given \in {0, Len(creds)}) => l.token = token'
    PROVE  IInv'
<1>1. TypeOK
  BY Zenon DEF IInv
<1>2. /\ rf' \in [Refreshers -> Refresher]
      /\ rf'[x] = l
      /\ \A y \in Refreshers \ {x} : rf'[y] = rf[y]
  BY <1>1, BecomesEffect, Zenon
<1>3. TypeOK'
  BY <1>1, <1>2, Zenon DEF TypeOK
<1>4. \A y \in Refreshers :
          /\ Inside(y)' <=> Inside(y)
          /\ y # x => (Holds(y)' <=> Holds(y))
          /\ rf'[y].over = rf[y].over /\ rf'[y].given = rf[y].given
  BY <1>2, Zenon DEF Inside, InFlight, Holds
<1>5. NewestActive'
  BY Zenon DEF IInv, NewestActive
<1>6. OnlyRevokeTakesAway'
  BY <1>2, <1>4, Zenon DEF IInv, OnlyRevokeTakesAway, HasActive
<1>7. LockKept'
  BY <1>4, Zenon DEF IInv, LockKept
<1>8. Counted'
  BY <1>2, <1>4, Zenon DEF IInv, Counted
<1>9. ASSUME ~disturbed PROVE OneAtWork' /\ TokenKept'
  <2>1. OneAtWork /\ TokenKept
    BY <1>9, Zenon DEF IInv
  <2>2. OneAtWork'
    BY <1>4, <2>1, Zenon DEF OneAtWork, Busy
  <2>3. /\ \A y \in Refreshers \ {x} : ~Inside(y)
        /\ \A c \in Callbacks : ~Busy(c)
    BY <2>1, Zenon DEF OneAtWork
  <2>4. \A y \in Refreshers : OfNewest(y)' => rf'[y].token = token'
    BY <1>2, <1>4, <1>9, <2>3, Zenon DEF Inside, OfNewest
  <2>5. \A c \in Callbacks : cb[c].pc \notin {"activate", "save"}
    BY <2>3, Zenon DEF Busy
  <2>6. ~Issuing
    BY <2>3, <2>5, Zenon DEF Issuing, Inside
  <2>7. Issuing' \/ \A i \in 1..Len(creds) : i = Len(creds) => creds[i].token = token'
    <3>1. CASE l.pc = "save"
      BY <1>2, <3>1, Zenon DEF Issuing
    <3>2. CASE l.pc # "save"
      BY <2>1, <2>6, <3>2, Zenon DEF TokenKept
    <3>. QED  BY <3>1, <3>2, Zenon
  <2>. QED  BY <2>2, <2>4, <2>5, <2>7, Zenon DEF TokenKept
<1>. QED  BY <1>3, <1>5, <1>6, <1>7, <1>8, <1>9, Zenon DEF IInv

\* Nothing waits to be saved while x is about to load, and so the newest version
\* has the provider's token.
LEMMA NewestCurrent ==
    ASSUME IInv, ~disturbed, NEW x \in Refreshers, rf[x].pc = "load"
    PROVE  \A i \in 1..Len(creds) : i = Len(creds) => creds[i].token = token
<1>1. OneAtWork /\ TokenKept /\ Inside(x)
  BY Zenon DEF IInv, Inside
<1>2. \A y \in Refreshers : rf[y].pc # "save"
  BY <1>1, Zenon DEF OneAtWork, Inside
<1>3. \A c \in Callbacks : cb[c].pc \notin {"activate", "save"}
  BY <1>1, Zenon DEF OneAtWork, Busy
<1>4. ~Issuing
  BY <1>2, <1>3, Zenon DEF Issuing
<1>. QED  BY <1>1, <1>4, Zenon DEF TokenKept

\* The credential of the request is taken, or the active one is read.
LEMMA LoadPreserves ==
    ASSUME IInv, NEW x \in Refreshers, Load(x) PROVE IInv'
<1>1. /\ UNCHANGED <<lock, conn, creds, token, rv, cb, revokes, stolen, disturbed>>
      /\ Inside(x) /\ rf[x].pc = "load"
  BY Zenon DEF Load, Inside
<1>2. /\ TypeOK /\ rf[x] \in Refresher /\ token' \in Nat /\ revokes \in Nat
      /\ disturbed' \in BOOLEAN
  BY <1>1, Zenon DEF IInv, TypeOK
<1>3. CASE StoreError(x)
  BY <1>1, <1>2, <1>3, FailedPreserves, Zenon
<1>4. ASSUME NEW i \in 1..Len(creds), NEW e \in Nat, e <= revokes,
             e = revokes => HasActive,
             rf[x].given \in {0, Len(creds)} => i = Len(creds),
             Becomes(x, [rf[x] EXCEPT !.pc = "call", !.token = creds[i].token, !.epoch = e])
      PROVE  IInv'
  <2>. DEFINE t == creds[i].token
              l == [rf[x] EXCEPT !.pc = "call", !.token = t, !.epoch = e]
  <2>1. t \in Nat
    <3>1. creds[i] \in Credential
      BY <1>2 DEF TypeOK
    <3>. QED  BY <3>1, Zenon DEF Credential
  <2>2. Becomes(x, l)
    BY <1>4, Zenon
  <2>3. ~disturbed /\ rf[x].given \in {0, Len(creds)} => t = token
    BY <1>1, <1>4, NewestCurrent, Zenon
  <2>. HIDE DEF t
  <2>4. l \in Refresher
    BY <1>2, <1>4, <2>1, Zenon DEF Refresher
  <2>5. /\ l.pc = "call" /\ l.token = t /\ l.epoch = e /\ l.over = rf[x].over
        /\ l.given = rf[x].given
    BY <1>2, Zenon DEF Refresher
  <2>. HIDE DEF l
  <2>6. ~disturbed /\ (l.pc = "save" \/ l.given \in {0, Len(creds)}) => l.token = token'
    BY <1>1, <2>3, <2>5, Zenon
  <2>. QED  BY <1>1, <1>2, <1>4, <2>2, <2>4, <2>5, <2>6, Flies, Zenon
<1>5. ASSUME NEW i \in 1..Len(creds), ActiveVersion(i),
             Becomes(x, [rf[x] EXCEPT !.pc = "call", !.token = creds[i].token,
                                      !.epoch = revokes])
      PROVE  IInv'
  <2>1. i = Len(creds) /\ HasActive
    BY <1>5, Zenon DEF ActiveVersion, HasActive, IInv, NewestActive
  <2>2. revokes <= revokes
    BY <1>2
  <2>. QED  BY <1>2, <1>4, <1>5, <2>1, <2>2, Zenon
<1>6. CASE /\ rf[x].given # 0
           /\ Becomes(x, [rf[x] EXCEPT !.pc = "call", !.token = creds[rf[x].given].token])
  <2>. DEFINE g == rf[x].given
              e == rf[x].epoch
  <2>1. g \in 0..Len(creds) /\ e <= revokes /\ (e = revokes => HasActive)
    BY <1>6, Zenon DEF IInv, Counted, OnlyRevokeTakesAway, Holds
  <2>2. e \in Nat /\ Len(creds) \in Nat
    <3>1. e \in Nat
      BY <1>2, Zenon DEF Refresher
    <3>. QED  BY <1>2, <3>1 DEF TypeOK
  <2>3. /\ [rf[x] EXCEPT !.pc = "call", !.token = creds[g].token]
             = [rf[x] EXCEPT !.pc = "call", !.token = creds[g].token, !.epoch = e]
        /\ Becomes(x, [rf[x] EXCEPT !.pc = "call", !.token = creds[g].token])
    BY <1>2, <1>6 DEF Refresher
  <2>4. g # 0
    BY <1>6, Zenon
  <2>. HIDE DEF g, e
  <2>5. g \in 1..Len(creds) /\ (g \in {0, Len(creds)} => g = Len(creds))
    BY <2>1, <2>2, <2>4
  <2>6. Becomes(x, [rf[x] EXCEPT !.pc = "call", !.token = creds[g].token, !.epoch = e])
    BY <2>3, Zenon
  <2>7. rf[x].given = g
    BY Zenon DEF g
  <2>. QED  BY <1>4, <2>1, <2>2, <2>5, <2>6, <2>7, Zenon
<1>. QED  BY <1>3, <1>5, <1>6, Zenon DEF Load

\* The provider's answer.
LEMMA CallPreserves ==
    ASSUME IInv, NEW x \in Refreshers, Call(x) PROVE IInv'
<1>1. /\ UNCHANGED <<lock, conn, creds, rv, cb, revokes, stolen, disturbed>>
      /\ Inside(x) /\ rf[x].pc = "call"
  BY Zenon DEF Call, Inside
<1>2. /\ TypeOK /\ rf[x] \in Refresher /\ token \in Nat /\ revokes \in Nat
      /\ disturbed' \in BOOLEAN /\ conn' \in ConnectionStatuses
  BY <1>1, Zenon DEF IInv, TypeOK
<1>3. ~disturbed' => ~disturbed /\ rf[x].pc # "save"
  BY <1>1, Zenon
<1>4. CASE StoreError(x) /\ UNCHANGED token
  BY <1>1, <1>2, <1>3, <1>4, FailedPreserves, Zenon
<1>5. CASE Goto(x, "activate") /\ UNCHANGED token
  BY <1>1, <1>2, <1>3, <1>5, GotoPreserves, Zenon
<1>6. CASE /\ token' = token + 1
           /\ Becomes(x, [rf[x] EXCEPT !.pc = AfterRotation, !.token = token + 1])
  <2>. DEFINE t == token + 1
              l == [rf[x] EXCEPT !.pc = "save", !.token = t]
  <2>1. t \in Nat /\ token' = t
    BY <1>2, <1>6
  <2>2. Becomes(x, l)
    BY <1>6, Zenon DEF AfterRotation
  <2>. HIDE DEF t
  <2>3. l \in Refresher
    BY <1>2, <2>1, Zenon DEF Refresher
  <2>4. /\ l.pc = "save" /\ l.token = t /\ l.epoch = rf[x].epoch /\ l.over = rf[x].over
        /\ l.given = rf[x].given
    BY <1>2, Zenon DEF Refresher
  <2>. HIDE DEF l
  <2>5. l.epoch <= revokes /\ (l.epoch = revokes => HasActive)
    BY <1>1, <2>4, Zenon DEF IInv, Counted, OnlyRevokeTakesAway, InFlight, Holds
  <2>. QED  BY <1>1, <1>2, <2>1, <2>2, <2>3, <2>4, <2>5, Flies, Zenon
<1>. QED  BY <1>4, <1>5, <1>6, Zenon DEF Call

\* What SaveNewVersion, by a refresher or a callback, establishes.
LEMMA SavedPreserves ==
    ASSUME TypeOK, NEW t \in Nat, creds' = Saved(t)
    PROVE  /\ creds' \in Seq(Credential) /\ NewestActive' /\ HasActive'
           /\ 0..Len(creds) \subseteq 0..Len(creds')
           /\ \A i \in 1..Len(creds') : i = Len(creds') => creds'[i].token = t
<1>1. Len(creds) \in Nat
  BY DEF TypeOK
<1>2. /\ creds' \in Seq(Credential) /\ Len(creds') = Len(creds) + 1
      /\ \A i \in 1..Len(creds) : creds'[i].active = FALSE
      /\ creds'[Len(creds) + 1].active = TRUE
      /\ creds'[Len(creds) + 1].token = t
  <2>. DEFINE s == Saved(t)
  <2>1. /\ s \in Seq(Credential) /\ Len(s) = Len(creds) + 1
        /\ \A i \in 1..Len(creds) : s[i].active = FALSE
        /\ s[Len(creds) + 1].active = TRUE /\ s[Len(creds) + 1].token = t
    BY SavedCreds, Zenon
  <2>2. creds' = s
    BY Zenon
  <2>. HIDE DEF s
  <2>. QED  BY <2>1, <2>2, Zenon
<1>3. \A i \in 1..Len(creds') : i \in 1..Len(creds) \/ i = Len(creds) + 1
  BY <1>1, <1>2
<1>4. Len(creds') \in 1..Len(creds') /\ 0..Len(creds) \subseteq 0..Len(creds')
  BY <1>1, <1>2
<1>5. NewestActive'
  BY <1>2, <1>3, Zenon DEF NewestActive
<1>6. HasActive'
  BY <1>2, <1>4, Zenon DEF HasActive
<1>. QED  BY <1>2, <1>4, <1>5, <1>6, Zenon

\* The new version is saved, or the issued token is lost.
LEMMA SavePreserves ==
    ASSUME IInv, NEW x \in Refreshers, Save(x) PROVE IInv'
<1>1. /\ UNCHANGED <<lock, conn, token, rv, cb, revokes, stolen>>
      /\ Inside(x) /\ rf[x].pc = "save"
  BY Zenon DEF Save, Inside
<1>2. TypeOK /\ rf[x].token \in Nat /\ revokes \in Nat /\ disturbed \in BOOLEAN
  <2>1. rf[x] \in Refresher
    BY Zenon DEF IInv, TypeOK
  <2>2. rf[x].token \in Nat
    BY <2>1, Zenon DEF Refresher
  <2>. QED  BY <2>2, Zenon DEF IInv, TypeOK
<1>3. CASE StoreError(x) /\ Disturbs(TRUE) /\ UNCHANGED creds
  <2>1. disturbed' = TRUE
    BY <1>3, Zenon DEF Disturbs
  <2>. QED  BY <1>1, <1>3, <2>1, FailedPreserves, Zenon
<1>4. CASE creds' = Saved(rf[x].token) /\ Goto(x, "activate") /\ UNCHANGED disturbed
  <2>1. PICK l \in Refresher :
               /\ Becomes(x, l) /\ l.pc = "activate" /\ l.over = rf[x].over
               /\ l.epoch = rf[x].epoch /\ l.attempt = rf[x].attempt
               /\ l.given = rf[x].given
    BY <1>2, <1>4, GotoLocals
  <2>2. /\ rf' \in [Refreshers -> Refresher]
        /\ rf'[x] = l
        /\ \A y \in Refreshers \ {x} : rf'[y] = rf[y]
    BY <1>2, <2>1, BecomesEffect, Zenon
  <2>3. /\ creds' \in Seq(Credential) /\ NewestActive' /\ HasActive'
        /\ 0..Len(creds) \subseteq 0..Len(creds')
        /\ \A i \in 1..Len(creds') : i = Len(creds') => creds'[i].token = rf[x].token
    BY <1>2, <1>4, SavedPreserves, Zenon
  <2>4. TypeOK'
    BY <1>1, <1>2, <1>4, <2>2, <2>3, Zenon DEF TypeOK
  <2>5. \A y \in Refreshers :
            /\ Inside(y)' <=> Inside(y)
            /\ OfNewest(y)' => Inside(y) /\ y # x
            /\ rf'[y].over = rf[y].over /\ rf'[y].epoch = rf[y].epoch
            /\ rf'[y].given = rf[y].given
    BY <1>1, <2>1, <2>2, Zenon DEF Inside, OfNewest
  <2>6. OnlyRevokeTakesAway'
    BY <2>3, Zenon DEF OnlyRevokeTakesAway
  <2>7. LockKept'
    BY <1>1, <2>5, Zenon DEF IInv, LockKept
  <2>8. Counted'
    BY <1>1, <2>1, <2>2, <2>3, <2>5, Zenon DEF IInv, Counted
  <2>9. ASSUME ~disturbed' PROVE OneAtWork' /\ TokenKept'
    <3>1. OneAtWork /\ TokenKept
      BY <1>4, <2>9, Zenon DEF IInv
    <3>2. OneAtWork'
      BY <1>1, <2>5, <3>1, Zenon DEF OneAtWork, Busy
    <3>3. rf[x].token = token
      BY <1>1, <3>1, Zenon DEF TokenKept, OfNewest
    <3>4. \A y \in Refreshers : ~OfNewest(y)'
      BY <1>1, <2>5, <3>1, Zenon DEF OneAtWork
    <3>5. \A c \in Callbacks : cb'[c].pc \in {"activate", "save"} => cb'[c].token = token'
      BY <1>1, <3>1, Zenon DEF TokenKept
    <3>. QED  BY <1>1, <2>3, <3>2, <3>3, <3>4, <3>5, Zenon DEF TokenKept
  <2>. QED  BY <2>3, <2>4, <2>6, <2>7, <2>8, <2>9, Zenon DEF IInv
<1>. QED  BY <1>3, <1>4, Zenon DEF Save

\* What a caller does before it has the lock changes nobody else's view.
LEMMA OutsideMoves ==
    ASSUME IInv, NEW x \in Refreshers, NEW l \in Refresher, Becomes(x, l),
           ~Inside(x), l.pc \in {"idle", "given"}, l.epoch <= revokes,
           l.given \in 0..Len(creds),
           l.given # 0 => l.epoch = revokes /\ HasActive,
           UNCHANGED <<lock, conn, creds, token, rv, cb, revokes, stolen, disturbed>>
    PROVE  IInv'
<1>1. TypeOK
  BY Zenon DEF IInv
<1>2. /\ rf' \in [Refreshers -> Refresher]
      /\ rf'[x] = l
      /\ \A y \in Refreshers \ {x} : rf'[y] = rf[y]
  BY <1>1, BecomesEffect, Zenon
<1>3. TypeOK'
  BY <1>1, <1>2, Zenon DEF TypeOK
<1>4. \A y \in Refreshers :
          /\ Inside(y)' <=> Inside(y)
          /\ Inside(y) => rf'[y] = rf[y]
          /\ OfNewest(y)' => OfNewest(y) /\ y # x
  BY <1>2, Zenon DEF Inside, OfNewest
<1>5. NewestActive'
  BY Zenon DEF IInv, NewestActive
<1>6. OnlyRevokeTakesAway'
  <2>. SUFFICES ASSUME NEW y \in Refreshers, Holds(y)', rf'[y].epoch = revokes
                PROVE  HasActive
    BY Zenon DEF OnlyRevokeTakesAway, HasActive
  <2>1. CASE y = x
    BY <1>2, <2>1, Zenon DEF Holds, InFlight
  <2>2. CASE y # x
    <3>1. Holds(y) /\ rf[y].epoch = revokes
      BY <1>2, <2>2, Zenon DEF Holds, InFlight
    <3>. QED  BY <3>1, Zenon DEF IInv, OnlyRevokeTakesAway
  <2>. QED  BY <2>1, <2>2, Zenon
<1>7. LockKept'
  BY <1>4, Zenon DEF IInv, LockKept
<1>8. Counted'
  BY <1>2, Zenon DEF IInv, Counted
<1>9. ASSUME ~disturbed' PROVE OneAtWork' /\ TokenKept'
  <2>1. OneAtWork /\ TokenKept
    BY <1>9, Zenon DEF IInv
  <2>2. OneAtWork'
    BY <1>4, <2>1, Zenon DEF OneAtWork, Busy
  <2>3. Issuing' <=> Issuing
    BY <1>2, Zenon DEF Issuing, Inside
  <2>4. \A y \in Refreshers : OfNewest(y)' => rf'[y].token = token
    BY <1>2, <1>4, <2>1, Zenon DEF TokenKept
  <2>. QED  BY <2>1, <2>2, <2>3, <2>4, Zenon DEF TokenKept
<1>. QED  BY <1>3, <1>5, <1>6, <1>7, <1>8, <1>9, Zenon DEF IInv

\* A caller reads the credential of its request, or is refused the lock.
LEMMA OutsidePreserves ==
    ASSUME IInv, NEW x \in Refreshers, EnsureCredentialFresh(x) \/ Contend(x)
    PROVE  IInv'
<1>1. /\ UNCHANGED <<lock, conn, creds, token, rv, cb, revokes, stolen, disturbed>>
      /\ ~Inside(x)
  BY Zenon DEF EnsureCredentialFresh, Contend, Inside
<1>2. revokes \in Nat /\ Len(creds) \in Nat
  BY DEF IInv, TypeOK
<1>3. 0 <= revokes /\ revokes <= revokes /\ 0 \in 0..Len(creds)
  BY <1>2
<1>4. CASE Contend(x)
  <2>1. Becomes(x, IdleRefresher)
    BY <1>4, Zenon DEF Contend
  <2>. QED  BY <1>1, <1>3, <2>1, IdleLocals, OutsideMoves, Zenon
<1>5. CASE EnsureCredentialFresh(x)
  <2>1. PICK i \in 1..Len(creds) :
          /\ ActiveVersion(i)
          /\ Becomes(x, [IdleRefresher EXCEPT !.pc = "given", !.given = i, !.epoch = revokes])
    BY <1>5, Zenon DEF EnsureCredentialFresh
  <2>2. HasActive
    BY <2>1, Zenon DEF HasActive, ActiveVersion
  <2>3. i \in Nat /\ i \in 0..Len(creds)
    BY <1>2
  <2>. DEFINE l == [IdleRefresher EXCEPT !.pc = "given", !.given = i, !.epoch = revokes]
  <2>4. l \in Refresher
    BY <1>2, <2>3, IdleLocals, Zenon DEF Refresher
  <2>5. l.pc = "given" /\ l.given = i /\ l.epoch = revokes
    BY IdleLocals, Zenon DEF Refresher
  <2>6. Becomes(x, l)
    BY <2>1, Zenon
  <2>. HIDE DEF l
  <2>. QED  BY <1>1, <1>3, <2>2, <2>3, <2>4, <2>5, <2>6, OutsideMoves, Zenon
<1>. QED  BY <1>4, <1>5, Zenon

\* Acquire succeeds where no entry is, or an expired one.
LEMMA StartPreserves ==
    ASSUME IInv, NEW x \in Refreshers, NEW b \in BOOLEAN, Start(x, b) PROVE IInv'
<1>1. /\ UNCHANGED <<conn, creds, token, rv, cb, revokes, stolen>>
      /\ ~Inside(x) /\ lock' = x /\ LockFree
  BY Zenon DEF Start, Inside
<1>2. TypeOK /\ revokes \in Nat /\ disturbed \in BOOLEAN
  BY Zenon DEF IInv, TypeOK
<1>. DEFINE l == [rf[x] EXCEPT !.pc = "load", !.runner = b, !.attempt = 1]
<1>3. 1 \in 0..MaxAttempts /\ rf[x] \in Refresher
  BY <1>2, RefreshAssumption DEF TypeOK
<1>4. l \in Refresher
  BY <1>3, Zenon DEF Refresher
<1>5. l.pc = "load" /\ l.epoch = rf[x].epoch /\ l.given = rf[x].given
  BY <1>3, Zenon DEF Refresher
<1>6. Becomes(x, l)
  BY Zenon DEF Start
<1>. HIDE DEF l
<1>7. /\ rf' \in [Refreshers -> Refresher]
      /\ rf'[x] = l
      /\ \A y \in Refreshers \ {x} : rf'[y] = rf[y]
  BY <1>2, <1>4, <1>6, BecomesEffect, Zenon
<1>8. disturbed' = (disturbed \/ (\E y \in Refreshers : Inside(y))
                              \/ \E c \in Callbacks : Busy(c))
  BY Zenon DEF Start, Disturbs, Busy
<1>9. TypeOK'
  BY <1>1, <1>2, <1>7, <1>8, Zenon DEF TypeOK
<1>10. \A y \in Refreshers :
          /\ y # x => (Inside(y)' <=> Inside(y))
          /\ Holds(y)' => Holds(y)
          /\ OfNewest(y)' => OfNewest(y) /\ y # x
          /\ rf'[y].epoch = rf[y].epoch /\ rf'[y].given = rf[y].given
  BY <1>1, <1>5, <1>7, Zenon DEF Inside, InFlight, Holds, OfNewest
<1>11. NewestActive'
  BY <1>1, Zenon DEF IInv, NewestActive
<1>12. OnlyRevokeTakesAway'
  BY <1>1, <1>10, Zenon DEF IInv, OnlyRevokeTakesAway, HasActive
<1>13. LockKept'
  <2>1. SUFFICES ASSUME ~stolen, NEW y \in Refreshers, Inside(y)'
                 PROVE  lock' = y \/ rf'[y].over
    BY <1>1, Zenon DEF LockKept
  <2>2. CASE y = x
    BY <1>1, <2>2, Zenon
  <2>3. CASE y # x
    <3>1. Inside(y) /\ rf'[y] = rf[y]
      BY <1>7, <1>10, <2>1, <2>3, Zenon
    <3>2. lock = y \/ rf[y].over
      BY <2>1, <3>1, Zenon DEF IInv, LockKept
    <3>. QED  BY <1>1, <3>1, <3>2, Zenon DEF LockFree
  <2>. QED  BY <2>2, <2>3, Zenon
<1>14. Counted'
  BY <1>1, <1>5, <1>7, <1>10, Zenon DEF IInv, Counted
<1>15. ASSUME ~disturbed' PROVE OneAtWork' /\ TokenKept'
  <2>1. /\ ~disturbed /\ \A y \in Refreshers : ~Inside(y)
        /\ \A c \in Callbacks : ~Busy(c)
    BY <1>8, <1>15, Zenon
  <2>2. TokenKept
    BY <2>1, Zenon DEF IInv
  <2>3. OneAtWork'
    BY <1>1, <1>10, <2>1, Zenon DEF OneAtWork, Busy
  <2>4. Issuing' <=> Issuing
    BY <1>1, <1>5, <1>7, <2>1, Zenon DEF Issuing, Inside
  <2>5. \A y \in Refreshers : OfNewest(y)' => rf'[y].token = token'
    BY <1>1, <1>7, <1>10, <2>2, Zenon DEF TokenKept
  <2>. QED  BY <1>1, <2>2, <2>3, <2>4, <2>5, Zenon DEF TokenKept
<1>. QED  BY <1>9, <1>11, <1>12, <1>13, <1>14, <1>15, Zenon DEF IInv

\* The lock's TTL passes.
LEMMA LapsePreserves ==
    ASSUME IInv, NEW x \in Refreshers, Lapse(x) PROVE IInv'
<1>1. UNCHANGED <<lock, conn, creds, token, rv, cb, revokes, stolen, disturbed>>
  BY Zenon DEF Lapse
<1>2. TypeOK /\ rf[x] \in Refresher
  BY Zenon DEF IInv, TypeOK
<1>. DEFINE l == [rf[x] EXCEPT !.over = TRUE]
<1>3. l \in Refresher
  BY <1>2, Zenon DEF Refresher
<1>4. /\ l.pc = rf[x].pc /\ l.token = rf[x].token /\ l.epoch = rf[x].epoch
      /\ l.attempt = rf[x].attempt /\ l.given = rf[x].given /\ l.over = TRUE
  BY <1>2, Zenon DEF Refresher
<1>5. Becomes(x, l)
  BY Zenon DEF Lapse
<1>. HIDE DEF l
<1>6. /\ rf' \in [Refreshers -> Refresher]
      /\ rf'[x] = l
      /\ \A y \in Refreshers \ {x} : rf'[y] = rf[y]
  BY <1>2, <1>3, <1>5, BecomesEffect, Zenon
<1>7. \A y \in Refreshers :
          /\ rf'[y].pc = rf[y].pc /\ rf'[y].token = rf[y].token
          /\ rf'[y].epoch = rf[y].epoch /\ rf'[y].attempt = rf[y].attempt
          /\ rf'[y].given = rf[y].given
          /\ rf[y].over => rf'[y].over
  BY <1>4, <1>6, Zenon
<1>8. \A y \in Refreshers : /\ Inside(y)' <=> Inside(y)
                            /\ Holds(y)' <=> Holds(y)
                            /\ OfNewest(y)' <=> OfNewest(y)
  BY <1>1, <1>7, Zenon DEF Inside, InFlight, Holds, OfNewest
<1>9. TypeOK'
  BY <1>1, <1>2, <1>6, Zenon DEF TypeOK
<1>10. NewestActive'
  BY <1>1, Zenon DEF IInv, NewestActive
<1>11. OnlyRevokeTakesAway'
  BY <1>1, <1>7, <1>8, Zenon DEF IInv, OnlyRevokeTakesAway, HasActive
<1>12. LockKept'
  BY <1>1, <1>7, <1>8, Zenon DEF IInv, LockKept
<1>13. Counted'
  BY <1>1, <1>7, Zenon DEF IInv, Counted
<1>14. ASSUME ~disturbed' PROVE OneAtWork' /\ TokenKept'
  <2>1. OneAtWork /\ TokenKept
    BY <1>1, <1>14, Zenon DEF IInv
  <2>2. OneAtWork'
    BY <1>1, <1>8, <2>1, Zenon DEF OneAtWork, Busy
  <2>3. Issuing' <=> Issuing
    BY <1>1, <1>7, Zenon DEF Issuing
  <2>. QED  BY <1>1, <1>7, <1>8, <2>1, <2>2, <2>3, Zenon DEF TokenKept
<1>. QED  BY <1>9, <1>10, <1>11, <1>12, <1>13, <1>14, Zenon DEF IInv

\* Unlock deletes the entry; where it was another's, the exclusion is over.
LEMMA UnlockPreserves ==
    ASSUME IInv, NEW x \in Refreshers, Unlock(x) PROVE IInv'
<1>1. /\ UNCHANGED <<conn, creds, token, rv, cb, revokes, disturbed>>
      /\ Inside(x) /\ rf[x].pc = "unlock" /\ lock' = None
      /\ stolen' = (stolen \/ lock \notin {x, None})
  BY Zenon DEF Unlock, Inside
<1>2. TypeOK /\ revokes \in Nat /\ stolen \in BOOLEAN
  BY Zenon DEF IInv, TypeOK
<1>3. /\ rf' \in [Refreshers -> Refresher]
      /\ rf'[x] = IdleRefresher
      /\ \A y \in Refreshers \ {x} : rf'[y] = rf[y]
  BY <1>2, IdleLocals, BecomesEffect, Zenon DEF Unlock
<1>4. \A y \in Refreshers :
          /\ Inside(y)' => Inside(y) /\ y # x
          /\ Holds(y)' => Holds(y) /\ y # x
          /\ OfNewest(y)' => OfNewest(y) /\ y # x
  BY <1>1, <1>3, IdleLocals, Zenon DEF Inside, InFlight, Holds, OfNewest
<1>5. TypeOK'
  BY <1>1, <1>2, <1>3, Zenon DEF TypeOK
<1>6. NewestActive'
  BY <1>1, Zenon DEF IInv, NewestActive
<1>7. OnlyRevokeTakesAway'
  BY <1>1, <1>3, <1>4, Zenon DEF IInv, OnlyRevokeTakesAway, HasActive
<1>8. LockKept'
  <2>1. SUFFICES ASSUME ~stolen', NEW y \in Refreshers, Inside(y)'
                 PROVE  rf'[y].over
    BY Zenon DEF LockKept
  <2>2. Inside(y) /\ y # x /\ rf'[y] = rf[y]
    BY <1>3, <1>4, <2>1, Zenon
  <2>3. lock # y
    BY <1>1, <2>1, <2>2, RefreshAssumption, Zenon
  <2>. QED  BY <1>1, <2>1, <2>2, <2>3, Zenon DEF IInv, LockKept
<1>9. Counted'
  <2>1. 0 <= revokes /\ 0 \in 0..Len(creds)
    BY <1>2 DEF TypeOK
  <2>. QED  BY <1>1, <1>3, <2>1, IdleLocals, Zenon DEF IInv, Counted
<1>10. ASSUME ~disturbed' PROVE OneAtWork' /\ TokenKept'
  <2>1. OneAtWork /\ TokenKept
    BY <1>1, <1>10, Zenon DEF IInv
  <2>2. OneAtWork'
    BY <1>1, <1>4, <2>1, Zenon DEF OneAtWork, Busy
  <2>3. Issuing' <=> Issuing
    BY <1>1, <1>3, IdleLocals, Zenon DEF Issuing
  <2>4. \A y \in Refreshers : OfNewest(y)' => rf'[y].token = token'
    BY <1>1, <1>3, <1>4, <2>1, Zenon DEF TokenKept
  <2>. QED  BY <1>1, <2>1, <2>2, <2>3, <2>4, Zenon DEF TokenKept
<1>. QED  BY <1>5, <1>6, <1>7, <1>8, <1>9, <1>10, Zenon DEF IInv

\* Revoke's first write: every earlier load is now of an older revocation.
LEMMA RevokePreserves ==
    ASSUME IInv, NEW v \in Revokers, RevokeCredential(v) PROVE IInv'
<1>1. /\ UNCHANGED <<lock, conn, token, rf, cb, stolen, disturbed>>
      /\ revokes' = revokes + 1 /\ creds' = Deactivated
      /\ rv' = [rv EXCEPT ![v] = "disconnect"]
  BY Zenon DEF RevokeCredential
<1>2. TypeOK /\ revokes \in Nat
  BY Zenon DEF IInv, TypeOK
<1>. DEFINE s == Deactivated
<1>3. /\ s \in Seq(Credential) /\ Len(s) = Len(creds)
      /\ \A i \in 1..Len(creds) : s[i].active = FALSE /\ s[i].token = creds[i].token
  BY <1>2, DeactivatedCreds, Zenon
<1>4. creds' = s
  BY <1>1, Zenon
<1>. HIDE DEF s
<1>5. /\ creds' \in Seq(Credential) /\ Len(creds') = Len(creds)
      /\ \A i \in 1..Len(creds') : ~creds'[i].active /\ creds'[i].token = creds[i].token
  BY <1>3, <1>4, Zenon
<1>6. TypeOK'
  BY <1>1, <1>2, <1>5 DEF TypeOK
<1>7. NewestActive'
  BY <1>5, Zenon DEF NewestActive
<1>8. \A x \in Refreshers : rf[x].epoch \in Nat /\ rf[x].epoch <= revokes
  <2>1. \A x \in Refreshers : rf[x] \in Refresher
    BY <1>2, Zenon DEF TypeOK
  <2>. QED  BY <2>1, Zenon DEF IInv, Counted, Refresher
<1>9. OnlyRevokeTakesAway'
  BY <1>1, <1>2, <1>8 DEF OnlyRevokeTakesAway
<1>10. LockKept'
  BY <1>1, Zenon DEF IInv, LockKept, Inside
<1>11. Counted'
  <2>0. \A e \in Nat : e <= revokes => e <= revokes + 1
    BY <1>2
  <2>1. \A x \in Refreshers : rf[x].epoch <= revokes + 1
    BY <1>8, <2>0, Zenon
  <2>. QED  BY <1>1, <1>5, <2>1, Zenon DEF IInv, Counted
<1>12. ASSUME ~disturbed' PROVE OneAtWork' /\ TokenKept'
  <2>1. OneAtWork /\ TokenKept
    BY <1>1, <1>12, Zenon DEF IInv
  <2>2. OneAtWork'
    BY <1>1, <2>1, Zenon DEF OneAtWork, Busy, Inside
  <2>3. /\ \A x \in Refreshers : OfNewest(x)' <=> OfNewest(x)
        /\ Issuing' <=> Issuing
    BY <1>1, <1>5, Zenon DEF OfNewest, Issuing
  <2>. QED  BY <1>1, <1>5, <2>1, <2>2, <2>3, Zenon DEF TokenKept
<1>. QED  BY <1>6, <1>7, <1>9, <1>10, <1>11, <1>12, Zenon DEF IInv

\* Writes of the status alone, which nothing here depends on.
LEMMA StatusPreserves ==
    ASSUME IInv, UNCHANGED <<lock, creds, token, rf, cb, revokes, stolen, disturbed>>,
           conn' \in ConnectionStatuses, rv' \in [Revokers -> {"idle", "disconnect"}]
    PROVE  IInv'
<1>1. TypeOK'
  BY Zenon DEF IInv, TypeOK
<1>2. NewestActive' /\ OnlyRevokeTakesAway'
  BY Zenon DEF IInv, NewestActive, OnlyRevokeTakesAway, Holds, InFlight, HasActive
<1>3. LockKept' /\ Counted'
  BY Zenon DEF IInv, LockKept, Counted, Inside
<1>4. ASSUME ~disturbed' PROVE OneAtWork' /\ TokenKept'
  <2>1. OneAtWork /\ TokenKept
    BY <1>4, Zenon DEF IInv
  <2>2. OneAtWork'
    BY <2>1, Zenon DEF OneAtWork, Busy, Inside
  <2>. QED  BY <2>1, <2>2, Zenon DEF TokenKept, OfNewest, Issuing
<1>. QED  BY <1>1, <1>2, <1>3, <1>4, Zenon DEF IInv

\* The process stops: a token that waits to be saved is lost.
LEMMA CrashPreserves == ASSUME IInv, Crash PROVE IInv'
<1>1. UNCHANGED <<conn, creds, token, revokes, stolen>> /\ lock' = None
  BY Zenon DEF Crash
<1>2. TypeOK /\ revokes \in Nat
  BY Zenon DEF IInv, TypeOK
<1>3. /\ rf' \in [Refreshers -> Refresher]
      /\ \A x \in Refreshers : rf'[x] = IdleRefresher
      /\ cb' \in [Callbacks -> Callback]
      /\ \A c \in Callbacks : cb'[c] = IdleCallback
      /\ rv' \in [Revokers -> {"idle", "disconnect"}]
  BY IdleLocals, Zenon DEF Crash
<1>4. disturbed' = (disturbed \/ Issuing)
  BY Zenon DEF Crash, Issuing
<1>5. TypeOK'
  BY <1>1, <1>2, <1>3, <1>4, Zenon DEF TypeOK
<1>6. /\ \A x \in Refreshers : ~Inside(x)' /\ ~Holds(x)' /\ ~OfNewest(x)'
      /\ \A c \in Callbacks : ~Busy(c)' /\ cb'[c].pc \notin {"activate", "save"}
  BY <1>3, IdleLocals, Zenon DEF Inside, InFlight, Holds, OfNewest, Busy
<1>7. NewestActive'
  BY <1>1, Zenon DEF IInv, NewestActive
<1>8. OnlyRevokeTakesAway' /\ LockKept'
  BY <1>6, Zenon DEF OnlyRevokeTakesAway, LockKept
<1>9. Counted'
  <2>1. 0 <= revokes /\ 0 \in 0..Len(creds)
    BY <1>2 DEF TypeOK
  <2>. QED  BY <1>1, <1>3, <2>1, IdleLocals, Zenon DEF Counted
<1>10. ASSUME ~disturbed' PROVE OneAtWork' /\ TokenKept'
  <2>1. ~Issuing /\ TokenKept
    BY <1>4, <1>10, Zenon DEF IInv
  <2>2. OneAtWork'
    BY <1>6, Zenon DEF OneAtWork
  <2>. QED  BY <1>1, <1>6, <2>1, <2>2, Zenon DEF TokenKept
<1>. QED  BY <1>5, <1>7, <1>8, <1>9, <1>10, Zenon DEF IInv

\* Callbacks take no lock and revoke nothing without a successor.
LEMMA CallbackMoves ==
    ASSUME IInv, UNCHANGED <<lock, rf, rv, revokes, stolen>>,
           cb' \in [Callbacks -> Callback], conn' \in ConnectionStatuses,
           token' \in Nat, disturbed' \in BOOLEAN,
           creds' \in Seq(Credential), NewestActive', HasActive => HasActive',
           0..Len(creds) \subseteq 0..Len(creds'),
           ~disturbed' => OneAtWork' /\ TokenKept'
    PROVE  IInv'
<1>1. TypeOK'
  BY Zenon DEF IInv, TypeOK
<1>2. OnlyRevokeTakesAway'
  BY Zenon DEF IInv, OnlyRevokeTakesAway, Holds, InFlight
<1>3. LockKept' /\ Counted'
  BY Zenon DEF IInv, LockKept, Counted, Inside
<1>. QED  BY <1>1, <1>2, <1>3, Zenon DEF IInv

\* What CallbackGoto and CallbackReturns do.
LEMMA CallbackEffect ==
    ASSUME TypeOK, NEW c \in Callbacks, NEW pc \in {"idle", "activate", "save", "grants"},
           CallbackGoto(c, pc) \/ (CallbackReturns(c) /\ pc = "idle")
    PROVE  /\ cb' \in [Callbacks -> Callback]
           /\ cb'[c].pc = pc
           /\ pc # "idle" => cb'[c].token = cb[c].token
           /\ \A e \in Callbacks \ {c} : cb'[e] = cb[e]
<1>1. cb \in [Callbacks -> Callback] /\ cb[c] \in Callback
  BY Zenon DEF TypeOK
<1>2. CASE CallbackGoto(c, pc)
  BY <1>1, <1>2, Zenon DEF CallbackGoto, Callback
<1>3. CASE CallbackReturns(c) /\ pc = "idle"
  BY <1>1, <1>3, IdleLocals, Zenon DEF CallbackReturns
<1>. QED  BY <1>2, <1>3, Zenon

\* The provider's answer to an authorization, its token still to be saved.
LEMMA CallbackCompletePreserves ==
    ASSUME IInv, NEW c \in Callbacks, CallbackComplete(c) PROVE IInv'
<1>1. /\ UNCHANGED <<lock, conn, creds, rf, rv, revokes, stolen>>
      /\ ~Busy(c) /\ token' = token + 1 /\ disturbed' = (disturbed \/ ~Alone(c))
  BY Zenon DEF CallbackComplete, Busy, Disturbs
<1>2. TypeOK /\ token \in Nat /\ token' \in Nat
  BY <1>1 DEF IInv, TypeOK
<1>. DEFINE l == [pc |-> "activate", token |-> token + 1]
<1>3. l \in Callback /\ l.pc = "activate" /\ l.token = token'
  BY <1>1, <1>2, Zenon DEF Callback
<1>4. cb' = [cb EXCEPT ![c] = l]
  BY Zenon DEF CallbackComplete
<1>. HIDE DEF l
<1>5. /\ cb' \in [Callbacks -> Callback] /\ cb'[c] = l
      /\ \A e \in Callbacks \ {c} : cb'[e] = cb[e]
  BY <1>2, <1>3, <1>4, Zenon DEF TypeOK
<1>6. /\ NewestActive' /\ (HasActive => HasActive') /\ creds' \in Seq(Credential)
      /\ 0..Len(creds) \subseteq 0..Len(creds')
      /\ conn' \in ConnectionStatuses /\ disturbed' \in BOOLEAN
  BY <1>1, Zenon DEF IInv, TypeOK, NewestActive, HasActive
<1>7. ASSUME ~disturbed' PROVE OneAtWork' /\ TokenKept'
  <2>1. /\ \A x \in Refreshers : ~Inside(x)
        /\ \A e \in Callbacks \ {c} : cb[e].pc = "idle"
    BY <1>1, <1>7, Zenon DEF Alone
  <2>2. OneAtWork'
    BY <1>1, <1>5, <2>1 DEF OneAtWork, Inside, Busy
  <2>3. \A x \in Refreshers : ~OfNewest(x)'
    BY <1>1, <2>1, Zenon DEF Inside, OfNewest
  <2>4. \A e \in Callbacks : cb'[e].pc \in {"activate", "save"} => cb'[e].token = token'
    BY <1>3, <1>5, <2>1, Zenon
  <2>5. Issuing'
    BY <1>3, <1>5, Zenon DEF Issuing
  <2>. QED  BY <2>2, <2>3, <2>4, <2>5, Zenon DEF TokenKept
<1>. QED  BY <1>1, <1>2, <1>5, <1>6, <1>7, CallbackMoves, Zenon

\* The connection is set active with the token still to be saved, or the token
\* is lost.
LEMMA CallbackActivatePreserves ==
    ASSUME IInv, NEW c \in Callbacks, CallbackActivate(c) PROVE IInv'
<1>1. UNCHANGED <<lock, creds, token, rf, rv, revokes, stolen>> /\ cb[c].pc = "activate"
  BY Zenon DEF CallbackActivate
<1>2. TypeOK /\ token' \in Nat /\ disturbed \in BOOLEAN
  BY <1>1, Zenon DEF IInv, TypeOK
<1>3. /\ NewestActive' /\ (HasActive => HasActive') /\ creds' \in Seq(Credential)
      /\ 0..Len(creds) \subseteq 0..Len(creds')
  BY <1>1, Zenon DEF IInv, TypeOK, NewestActive, HasActive
<1>4. CASE UpdateStatus("active") /\ CallbackGoto(c, "save") /\ UNCHANGED disturbed
  <2>1. /\ cb' \in [Callbacks -> Callback]
        /\ cb'[c].pc = "save" /\ cb'[c].token = cb[c].token
        /\ \A e \in Callbacks \ {c} : cb'[e] = cb[e]
    BY <1>2, <1>4, CallbackEffect, Zenon
  <2>2. conn' \in ConnectionStatuses /\ disturbed' \in BOOLEAN
    BY <1>2, <1>4, Zenon DEF UpdateStatus, ConnectionStatuses
  <2>3. ASSUME ~disturbed' PROVE OneAtWork' /\ TokenKept'
    <3>1. OneAtWork /\ TokenKept
      BY <1>4, <2>3, Zenon DEF IInv
    <3>2. \A e \in Callbacks : Busy(e)' <=> Busy(e)
      BY <1>1, <2>1, Zenon DEF Busy
    <3>3. OneAtWork'
      BY <1>1, <3>1, <3>2, Zenon DEF OneAtWork, Inside
    <3>4. Issuing'
      BY <2>1, Zenon DEF Issuing
    <3>5. \A e \in Callbacks : cb'[e].pc \in {"activate", "save"} => cb'[e].token = token'
      BY <1>1, <2>1, <3>1, Zenon DEF TokenKept
    <3>. QED  BY <1>1, <3>1, <3>3, <3>4, <3>5, Zenon DEF TokenKept, OfNewest
  <2>. QED  BY <1>1, <1>2, <1>3, <2>1, <2>2, <2>3, CallbackMoves, Zenon
<1>5. CASE CallbackReturns(c) /\ Disturbs(TRUE) /\ UNCHANGED conn
  <2>1. cb' \in [Callbacks -> Callback]
    BY <1>2, <1>5, CallbackEffect, Zenon
  <2>2. disturbed' = TRUE /\ conn' \in ConnectionStatuses
    BY <1>2, <1>5, Zenon DEF Disturbs, TypeOK
  <2>. QED  BY <1>1, <1>2, <1>3, <2>1, <2>2, CallbackMoves, Zenon
<1>. QED  BY <1>4, <1>5, Zenon DEF CallbackActivate

\* The credential of an authorization is saved, which settles the token where
\* nobody else is at work.
LEMMA CallbackSavePreserves ==
    ASSUME IInv, NEW c \in Callbacks, CallbackSave(c) PROVE IInv'
<1>1. UNCHANGED <<lock, conn, token, rf, rv, revokes, stolen>> /\ cb[c].pc = "save"
  BY Zenon DEF CallbackSave
<1>2. TypeOK /\ token' \in Nat /\ disturbed \in BOOLEAN /\ conn' \in ConnectionStatuses
  BY <1>1, Zenon DEF IInv, TypeOK
<1>3. cb[c].token \in Nat
  <2>1. cb[c] \in Callback
    BY <1>2, Zenon DEF TypeOK
  <2>. QED  BY <2>1, Zenon DEF Callback
<1>4. CASE /\ creds' = Saved(cb[c].token)
           /\ CallbackGoto(c, "grants")
           /\ disturbed' = (disturbed /\ ~(Alone(c) /\ cb[c].token = token))
  <2>1. /\ cb' \in [Callbacks -> Callback]
        /\ cb'[c].pc = "grants"
        /\ \A e \in Callbacks \ {c} : cb'[e] = cb[e]
    BY <1>2, <1>4, CallbackEffect, Zenon
  <2>2. /\ creds' \in Seq(Credential) /\ NewestActive' /\ HasActive'
        /\ 0..Len(creds) \subseteq 0..Len(creds')
        /\ \A i \in 1..Len(creds') : i = Len(creds') => creds'[i].token = cb[c].token
    BY <1>2, <1>3, <1>4, SavedPreserves, Zenon
  <2>3. disturbed' \in BOOLEAN
    BY <1>4, Zenon
  <2>4. \A e \in Callbacks : Busy(e)' <=> Busy(e)
    BY <1>1, <2>1, Zenon DEF Busy
  <2>5. ASSUME ~disturbed' PROVE OneAtWork' /\ TokenKept'
    <3>1. CASE ~disturbed
      <4>1. OneAtWork /\ TokenKept
        BY <3>1, Zenon DEF IInv
      <4>2. OneAtWork'
        BY <1>1, <2>4, <4>1, Zenon DEF OneAtWork, Inside
      <4>3. cb[c].token = token
        BY <1>1, <4>1, Zenon DEF TokenKept
      <4>4. \A e \in Callbacks : cb'[e].pc \in {"activate", "save"} => cb'[e].token = token'
        BY <1>1, <2>1, <4>1, Zenon DEF TokenKept
      <4>5. \A x \in Refreshers : ~OfNewest(x)'
        <5>1. Busy(c)
          BY <1>1, Zenon DEF Busy
        <5>. QED  BY <1>1, <4>1, <5>1, Zenon DEF OneAtWork, Inside, OfNewest
      <4>. QED  BY <1>1, <2>2, <4>2, <4>3, <4>4, <4>5, Zenon DEF TokenKept
    <3>2. CASE disturbed
      <4>1. Alone(c) /\ cb[c].token = token
        BY <1>4, <2>5, <3>2, Zenon
      <4>2. /\ \A x \in Refreshers : ~Inside(x)
            /\ \A e \in Callbacks \ {c} : cb[e].pc = "idle"
        BY <4>1, Zenon DEF Alone
      <4>3. OneAtWork'
        BY <1>1, <2>1, <4>2 DEF OneAtWork, Inside, Busy
      <4>4. \A x \in Refreshers : ~OfNewest(x)'
        BY <1>1, <4>2, Zenon DEF Inside, OfNewest
      <4>5. \A e \in Callbacks : cb'[e].pc \notin {"activate", "save"}
        BY <2>1, <4>2, Zenon
      <4>. QED  BY <1>1, <2>2, <4>1, <4>3, <4>4, <4>5, Zenon DEF TokenKept
    <3>. QED  BY <1>2, <3>1, <3>2, Zenon
  <2>. QED  BY <1>1, <1>2, <2>1, <2>2, <2>3, <2>5, CallbackMoves, Zenon
<1>5. CASE CallbackReturns(c) /\ Disturbs(TRUE) /\ UNCHANGED creds
  <2>1. cb' \in [Callbacks -> Callback]
    BY <1>2, <1>5, CallbackEffect, Zenon
  <2>2. disturbed' = TRUE
    BY <1>5, Zenon DEF Disturbs
  <2>3. /\ NewestActive' /\ (HasActive => HasActive') /\ creds' \in Seq(Credential)
        /\ 0..Len(creds) \subseteq 0..Len(creds')
    BY <1>5, Zenon DEF IInv, TypeOK, NewestActive, HasActive
  <2>. QED  BY <1>1, <1>2, <2>1, <2>2, <2>3, CallbackMoves, Zenon
<1>. QED  BY <1>4, <1>5, Zenon DEF CallbackSave

\* The callback's end.
LEMMA CallbackGrantsPreserves ==
    ASSUME IInv, NEW c \in Callbacks, CallbackGrants(c) PROVE IInv'
<1>1. /\ UNCHANGED <<lock, conn, creds, token, rf, rv, revokes, stolen, disturbed>>
      /\ cb[c].pc = "grants" /\ CallbackReturns(c)
  BY Zenon DEF CallbackGrants
<1>2. /\ TypeOK /\ token' \in Nat /\ disturbed' \in BOOLEAN
      /\ conn' \in ConnectionStatuses
  BY <1>1, Zenon DEF IInv, TypeOK
<1>3. /\ NewestActive' /\ (HasActive => HasActive') /\ creds' \in Seq(Credential)
      /\ 0..Len(creds) \subseteq 0..Len(creds')
  BY <1>1, Zenon DEF IInv, TypeOK, NewestActive, HasActive
<1>4. /\ cb' \in [Callbacks -> Callback] /\ cb'[c].pc = "idle"
      /\ \A e \in Callbacks \ {c} : cb'[e] = cb[e]
  BY <1>1, <1>2, CallbackEffect, Zenon
<1>5. ASSUME ~disturbed' PROVE OneAtWork' /\ TokenKept'
  <2>1. OneAtWork /\ TokenKept
    BY <1>1, <1>5, Zenon DEF IInv
  <2>2. \A e \in Callbacks : Busy(e)' => Busy(e)
    BY <1>4, Zenon DEF Busy
  <2>3. OneAtWork'
    BY <1>1, <2>1, <2>2, Zenon DEF OneAtWork, Inside
  <2>4. Issuing' <=> Issuing
    BY <1>1, <1>4, Zenon DEF Issuing
  <2>5. \A e \in Callbacks : cb'[e].pc \in {"activate", "save"} => cb'[e].token = token'
    BY <1>1, <1>4, <2>1, Zenon DEF TokenKept
  <2>. QED  BY <1>1, <2>1, <2>3, <2>4, <2>5, Zenon DEF TokenKept, OfNewest
<1>. QED  BY <1>1, <1>2, <1>3, <1>4, <1>5, CallbackMoves, Zenon

-----------------------------------------------------------------------------
\* Every step of the connection's handlers preserves the invariant.
LEMMA NextIInv == IInv /\ [RefreshNext]_vars => IInv'
<1>. SUFFICES ASSUME IInv, [RefreshNext]_vars PROVE IInv'
  BY Zenon
<1>0. /\ conn \in ConnectionStatuses /\ rv \in [Revokers -> {"idle", "disconnect"}]
      /\ {"disconnected", "needs_reconsent"} \subseteq ConnectionStatuses
  BY Zenon DEF IInv, TypeOK, ConnectionStatuses
<1>1. ASSUME NEW x \in Refreshers, NEW b \in BOOLEAN, Start(x, b) PROVE IInv'
  BY <1>1, StartPreserves, Zenon
<1>10. ASSUME NEW x \in Refreshers, EnsureCredentialFresh(x) \/ Contend(x) PROVE IInv'
  BY <1>10, OutsidePreserves, Zenon
<1>2. ASSUME NEW x \in Refreshers, Lapse(x) PROVE IInv'
  BY <1>2, LapsePreserves, Zenon
<1>3. ASSUME NEW x \in Refreshers, Step(x) PROVE IInv'
  BY <1>3, LoadPreserves, CallPreserves, SavePreserves, LaterPreserves,
     UnlockPreserves, Zenon DEF Step
<1>4. ASSUME NEW v \in Revokers, RevokeCredential(v) PROVE IInv'
  BY <1>4, RevokePreserves, Zenon
<1>5. ASSUME NEW v \in Revokers, Disconnect(v) PROVE IInv'
  <2>1. /\ UNCHANGED <<lock, creds, token, rf, cb, revokes, stolen, disturbed>>
        /\ conn' \in ConnectionStatuses /\ rv' \in [Revokers -> {"idle", "disconnect"}]
    BY <1>0, <1>5, Zenon DEF Disconnect, UpdateStatus
  <2>. QED  BY <2>1, StatusPreserves, Zenon
<1>6. CASE StartReconsent
  <2>1. /\ UNCHANGED <<lock, creds, token, rf, cb, revokes, stolen, disturbed>>
        /\ conn' \in ConnectionStatuses /\ rv' \in [Revokers -> {"idle", "disconnect"}]
    BY <1>0, <1>6, Zenon DEF StartReconsent, UpdateStatus
  <2>. QED  BY <2>1, StatusPreserves, Zenon
<1>7. ASSUME NEW c \in Callbacks,
             \/ CallbackComplete(c) \/ CallbackActivate(c) \/ CallbackSave(c)
             \/ CallbackGrants(c)
      PROVE  IInv'
  BY <1>7, CallbackCompletePreserves, CallbackActivatePreserves,
     CallbackSavePreserves, CallbackGrantsPreserves, Zenon
<1>8. CASE Crash
  BY <1>8, CrashPreserves, Zenon
<1>9. CASE UNCHANGED vars
  <2>1. /\ UNCHANGED <<lock, creds, token, rf, cb, revokes, stolen, disturbed>>
        /\ conn' \in ConnectionStatuses /\ rv' \in [Revokers -> {"idle", "disconnect"}]
    BY <1>0, <1>9, Zenon DEF vars
  <2>. QED  BY <2>1, StatusPreserves, Zenon
<1>. QED  BY <1>1, <1>2, <1>3, <1>4, <1>5, <1>6, <1>7, <1>8, <1>9, <1>10, Zenon DEF RefreshNext

\* The invariant holds in every reachable state.
THEOREM Invariance == RefreshSpec => []IInv
BY InitIInv, NextIInv, PTL DEF RefreshSpec

\* However refreshes, callbacks, revocations and restarts interleave, at most
\* the newest credential version is active, and a refresh that has one in hand,
\* read under the lock or before it, loses it to a revocation only
\* (SaveNewVersion, RevokeActive).
THEOREM CredentialsSafe == RefreshSpec => [](TypeOK /\ NewestActive /\ OnlyRevokeTakesAway)
<1>1. IInv => TypeOK /\ NewestActive /\ OnlyRevokeTakesAway
  BY Zenon DEF IInv
<1>. QED  BY <1>1, Invariance, PTL

\* The connection lock excludes refreshes within its TTL until an Unlock has
\* deleted another's entry (MemoryConnectionLocker).
THEOREM LockExcludes == RefreshSpec => []LockExclusion
<1>1. IInv => LockExclusion
  <2>. SUFFICES ASSUME IInv, ~stolen, NEW x \in Refreshers, NEW y \in Refreshers,
                       x # y, Inside(x), Inside(y)
                PROVE  rf[x].over \/ rf[y].over
    BY Zenon DEF LockExclusion
  <2>. QED  BY Zenon DEF IInv, LockKept
<1>. QED  BY <1>1, Invariance, PTL

\* With rotating refresh tokens, and unless a refresh or callback overlapped
\* another or lost the token it was issued, Refresh presents the current one when
\* it reads the credential itself, and when its caller brought one that no saved
\* version has followed since.
THEOREM TokenCurrent == RefreshSpec => []PresentsCurrentToken
<1>1. IInv => PresentsCurrentToken
  BY Zenon DEF IInv, TokenKept, OfNewest, PresentsCurrentToken
<1>. QED  BY <1>1, Invariance, PTL

-----------------------------------------------------------------------------
(* The client-credentials cache.  A credential's recorded expiry exceeds   *)
(* the token's own by no more than the request timeout, since a reply is   *)
(* read within the deadline of its request; and a credential is kept under *)
(* the key of the client and the scopes its token was issued for.          *)

CacheKeys == Clients \X ScopeRefs \X (Requests \cup {{}})

KeyOf(c, r, q) == c \in Clients /\ r \in ScopeRefs /\ q \in Requests

CredSound(cred) ==
    /\ KeyOf(cred.client, cred.ref, cred.requested)
    /\ cred.key = CacheKey(cred.client, cred.ref, cred.requested)
    /\ cred.token.client = cred.client /\ cred.token.requested = cred.requested
    /\ cred.token.issued \in Nat /\ cred.token.life \in Nat /\ cred.expiresAt \in Nat
    /\ cred.expiresAt <= cred.token.issued + Lifetime(cred.token.life) + TokenRequestTimeout
    /\ cred.token.scopes # {} => cred.granted = cred.token.scopes

\* What a caller keeps for Refresh.
HeldSound(h) == KeyOf(h.client, h.ref, h.requested)
  /\ h.key = CacheKey(h.client, h.ref, h.requested)

\* A request under way, and the token the server has issued for it.
TokenSound(f, clock) ==
    /\ f.token.client = f.client /\ f.token.requested = f.requested
    /\ f.token.issued \in f.since..clock /\ f.token.life \in Nat

FetchSound(f, clock) ==
    /\ f = [pc |-> f.pc, client |-> f.client, ref |-> f.ref, requested |-> f.requested,
            claim |-> f.claim, key |-> f.key, refresh |-> f.refresh, since |-> f.since,
            token |-> f.token]
    /\ HeldSound(f)
    /\ f.since \in Nat /\ f.since <= clock /\ clock <= f.since + TokenRequestTimeout
    /\ f.token # ClientNone => TokenSound(f, clock)

WorkerSound(l, clock) ==
    /\ l.pc \in {"idle", "fetch", "store"}
    /\ l.pc = "fetch" => FetchSound(l, clock)
    /\ l.pc = "store" => CredSound(l.cred)

AnswerSound(a, clock) ==
    /\ CredSound(a.cred) /\ a.client = a.cred.client /\ a.requested = a.cred.requested
    /\ a.hit => a.cred.expiresAt > clock + RenewBefore

CacheInv ==
    /\ clientClock \in Nat
    /\ DOMAIN cache = CacheKeys /\ cache = [k \in CacheKeys |-> cache[k]]
    /\ \A k \in CacheKeys : cache[k] # ClientNone => CredSound(cache[k]) /\ cache[k].key = k
    /\ clientAt = [w \in Workers |-> clientAt[w]]
    /\ \A w \in Workers : WorkerSound(clientAt[w], clientClock)
    /\ held = [w \in Workers |-> held[w]]
    /\ \A w \in Workers : held[w] # ClientNone => HeldSound(held[w])
    /\ answer # ClientNone => AnswerSound(answer, clientClock)

\* The invariant holds of an empty cache.
LEMMA CacheInitInv == ClientInit => CacheInv
<1> SUFFICES ASSUME ClientInit PROVE CacheInv
  BY Zenon
<1>1. WorkerSound(ClientIdle, 0)
  BY Zenon DEF ClientIdle, WorkerSound
<1> QED BY <1>1, Zenon DEF ClientInit, CacheInv, CacheKeys

\* A request that begins is sound.
LEMMA FetchingSound ==
    ASSUME clientClock \in Nat, NEW client, NEW ref, NEW req, NEW claim, NEW key, NEW refresh,
           KeyOf(client, ref, req), key = CacheKey(client, ref, req)
    PROVE  WorkerSound(Fetching(client, ref, req, claim, key, refresh), clientClock)
<1> DEFINE f == Fetching(client, ref, req, claim, key, refresh)
           cl == IF claim = {} THEN req ELSE claim
<1>1. f = [pc |-> "fetch", client |-> client, ref |-> ref, requested |-> req, claim |-> cl,
           key |-> key, refresh |-> refresh, since |-> clientClock, token |-> ClientNone]
  BY Zenon DEF Fetching
<1> HIDE DEF f, cl
<1>2. /\ f.pc = "fetch" /\ f.client = client /\ f.ref = ref /\ f.requested = req /\ f.claim = cl
      /\ f.key = key /\ f.refresh = refresh /\ f.since = clientClock /\ f.token = ClientNone
  BY <1>1, Zenon
<1>3. clientClock <= clientClock + TokenRequestTimeout
  BY ClientCredentialsAssumption
<1>4. f = [pc |-> f.pc, client |-> f.client, ref |-> f.ref, requested |-> f.requested,
           claim |-> f.claim, key |-> f.key, refresh |-> f.refresh, since |-> f.since,
           token |-> f.token]
  BY <1>1, Zenon
<1> QED BY <1>2, <1>3, <1>4 DEF WorkerSound, FetchSound, HeldSound, f

\* A worker steps; the cache and what the callers hold stay as they are.
LEMMA WorkerStepInv ==
    ASSUME CacheInv, NEW w \in Workers, NEW l, WorkerSound(l, clientClock),
           clientAt' = [clientAt EXCEPT ![w] = l], UNCHANGED <<clientClock, cache, held>>,
           answer' = ClientNone \/ answer' = answer
    PROVE  CacheInv'
<1>1. clientAt' = [v \in Workers |-> clientAt'[v]] /\ clientAt'[w] = l
      /\ \A v \in Workers : v # w => clientAt'[v] = clientAt[v]
  BY Zenon DEF CacheInv
<1>2. \A v \in Workers : WorkerSound(clientAt'[v], clientClock)
  BY <1>1, Zenon DEF CacheInv
<1> QED BY <1>1, <1>2, Zenon DEF CacheInv

\* Every step of the strategy, the server and the clock keeps the invariant.
LEMMA CacheNextInv == CacheInv /\ [ClientNext]_clientVars => CacheInv'
<1> SUFFICES ASSUME CacheInv, [ClientNext]_clientVars PROVE CacheInv'
  BY Zenon
<1>1. /\ clientClock \in Nat /\ TokenRequestTimeout \in Nat /\ RenewBefore \in Nat
      /\ TokenTTL \in Nat /\ Lives \subseteq Nat
  BY ClientCredentialsAssumption, Zenon DEF CacheInv
<1>2. WorkerSound(ClientIdle, clientClock)
  BY Zenon DEF ClientIdle, WorkerSound
<1>3. ASSUME NEW w \in Workers, NEW c \in Clients, NEW r \in ScopeRefs, NEW q \in Requests,
             NEW g \in ClientClaims, CompleteCached(w, c, r, q, g)
      PROVE  CacheInv'
  <2> DEFINE key == CacheKey(c, r, q)
             cred == cache[key]
  <2>1. key \in CacheKeys /\ key = <<c, r, q>>
    BY Zenon DEF CacheKeys, CacheKey
  <2>2. cred # ClientNone /\ cred.expiresAt > clientClock + RenewBefore
    BY <1>3, Zenon DEF CompleteCached, Fresh
  <2>3. CredSound(cred) /\ cred.key = <<c, r, q>>
    BY <2>1, <2>2, Zenon DEF CacheInv
  <2>4. /\ held' = [held EXCEPT ![w] = ForRefresh(cred)]
        /\ answer' = [cred |-> cred, hit |-> TRUE, client |-> c, requested |-> q]
        /\ UNCHANGED <<clientClock, cache, clientAt>>
    BY <1>3, Zenon DEF CompleteCached
  <2> HIDE DEF cred
  <2>5. c = cred.client /\ q = cred.requested
    BY <2>3 DEF CredSound, CacheKey
  <2>6. HeldSound(ForRefresh(cred))
    BY <2>3, Zenon DEF HeldSound, ForRefresh, CredSound
  <2>7. AnswerSound(answer', clientClock)
    BY <2>2, <2>3, <2>4, <2>5, Zenon DEF AnswerSound
  <2>8. /\ held' = [v \in Workers |-> held'[v]]
        /\ \A v \in Workers : held'[v] # ClientNone => HeldSound(held'[v])
    BY <2>4, <2>6, Zenon DEF CacheInv
  <2> QED BY <2>4, <2>7, <2>8, Zenon DEF CacheInv
<1>4. ASSUME NEW w \in Workers, NEW c \in Clients, NEW r \in ScopeRefs, NEW q \in Requests,
             NEW g \in ClientClaims, CompleteMiss(w, c, r, q, g)
      PROVE  CacheInv'
  <2> DEFINE key == CacheKey(c, r, q)
             l == Fetching(c, r, q, g, key, FALSE)
  <2>1. /\ cache' = [cache EXCEPT ![key] = ClientNone] /\ clientAt' = [clientAt EXCEPT ![w] = l]
        /\ answer' = ClientNone /\ UNCHANGED <<clientClock, held>>
    BY <1>4, Zenon DEF CompleteMiss
  <2>2. WorkerSound(l, clientClock)
    BY <1>1, FetchingSound, Zenon DEF KeyOf
  <2> HIDE DEF l, key
  <2>3. /\ DOMAIN cache' = CacheKeys /\ cache' = [k \in CacheKeys |-> cache'[k]]
        /\ \A k \in CacheKeys : cache'[k] # ClientNone => cache'[k] = cache[k]
    BY <2>1, Zenon DEF CacheInv
  <2>4. clientAt' = [v \in Workers |-> clientAt'[v]]
        /\ \A v \in Workers : WorkerSound(clientAt'[v], clientClock)
    BY <2>1, <2>2, Zenon DEF CacheInv
  <2> QED BY <2>1, <2>3, <2>4, Zenon DEF CacheInv
<1>5. ASSUME NEW w \in Workers, Refresh(w) PROVE CacheInv'
  <2> DEFINE h == held[w]
             l == Fetching(h.client, h.ref, h.requested, h.granted, h.key, TRUE)
  <2>1. /\ h # ClientNone /\ clientAt' = [clientAt EXCEPT ![w] = l]
        /\ answer' = ClientNone /\ UNCHANGED <<clientClock, cache, held>>
    BY <1>5, Zenon DEF Refresh
  <2>2. HeldSound(h)
    BY <2>1, Zenon DEF CacheInv
  <2> HIDE DEF h
  <2>3. WorkerSound(l, clientClock)
    BY <1>1, <2>2, FetchingSound, Zenon DEF HeldSound
  <2> HIDE DEF l
  <2> QED BY <2>1, <2>3, WorkerStepInv, Zenon
<1>6. ASSUME NEW w \in Workers, NEW life \in Lives, NEW scopes, Issue(w, life, scopes)
      PROVE  CacheInv'
  <2> DEFINE f == clientAt[w]
             t == [client |-> f.client, requested |-> f.requested, scopes |-> scopes,
                   life |-> life, issued |-> clientClock]
             l == [f EXCEPT !.token = t]
  <2>1. f.pc = "fetch" /\ UNCHANGED <<clientClock, cache, held, answer>>
    BY <1>6, Zenon DEF Issue
  <2>2. clientAt' = [clientAt EXCEPT ![w] = l]
    BY <1>6, Zenon DEF Issue, CacheInv
  <2>3. FetchSound(f, clientClock)
    BY <2>1, Zenon DEF CacheInv, WorkerSound
  <2>4. /\ t.client = f.client /\ t.requested = f.requested /\ t.life \in Nat
        /\ t.issued = clientClock
    BY <1>1, Zenon
  <2> HIDE DEF f, t
  <2>5. l = [pc |-> f.pc, client |-> f.client, ref |-> f.ref, requested |-> f.requested,
             claim |-> f.claim, key |-> f.key, refresh |-> f.refresh, since |-> f.since,
             token |-> t]
    BY <2>3 DEF FetchSound
  <2> HIDE DEF l
  <2>6. /\ l.pc = "fetch" /\ l.client = f.client /\ l.ref = f.ref /\ l.requested = f.requested
        /\ l.claim = f.claim /\ l.key = f.key /\ l.refresh = f.refresh /\ l.since = f.since
        /\ l.token = t /\ f.pc = l.pc
    BY <2>1, <2>5, Zenon
  <2>7. FetchSound(l, clientClock)
    BY <1>1, <2>3, <2>4, <2>5, <2>6 DEF FetchSound, HeldSound, TokenSound
  <2>8. WorkerSound(l, clientClock)
    BY <2>6, <2>7, Zenon DEF WorkerSound
  <2> QED BY <2>1, <2>2, <2>8, WorkerStepInv, Zenon
<1>7. ASSUME NEW w \in Workers, FetchFails(w) PROVE CacheInv'
  BY <1>2, <1>7, WorkerStepInv, Zenon DEF FetchFails
<1>8. ASSUME NEW w \in Workers, Receive(w) PROVE CacheInv'
  <2> DEFINE f == clientAt[w]
             gr == Granted(f.token, f.claim)
             cred == [client |-> f.client, ref |-> f.ref, requested |-> f.requested, key |-> f.key,
                      token |-> f.token, granted |-> gr,
                      expiresAt |-> clientClock + Lifetime(f.token.life)]
             l == [pc |-> "store", refresh |-> f.refresh, cred |-> cred]
  <2>1. /\ f.pc = "fetch" /\ f.token # ClientNone /\ clientAt' = [clientAt EXCEPT ![w] = l]
        /\ UNCHANGED <<clientClock, cache, held, answer>>
    BY <1>8, Zenon DEF Receive
  <2>2. FetchSound(f, clientClock) /\ TokenSound(f, clientClock)
    BY <2>1, Zenon DEF CacheInv, WorkerSound, FetchSound
  <2>3. f.token.scopes # {} => gr = f.token.scopes
    BY Zenon DEF Granted
  <2> HIDE DEF f, gr
  <2>4. /\ cred.client = f.client /\ cred.ref = f.ref /\ cred.requested = f.requested
        /\ cred.key = f.key /\ cred.token = f.token /\ cred.granted = gr
        /\ cred.expiresAt = clientClock + Lifetime(f.token.life)
    BY Zenon
  <2>5. Lifetime(f.token.life) \in Nat
    BY <1>1, <2>2, Zenon DEF TokenSound, Lifetime
  <2>6. /\ f.token.issued \in Nat /\ f.since <= f.token.issued
        /\ clientClock <= f.since + TokenRequestTimeout /\ f.since \in Nat
    BY <1>1, <2>2 DEF TokenSound, FetchSound
  <2>7. cred.expiresAt <= f.token.issued + Lifetime(f.token.life) + TokenRequestTimeout
        /\ cred.expiresAt \in Nat
    BY <1>1, <2>4, <2>5, <2>6
  <2> HIDE DEF cred
  <2>8. CredSound(cred)
    BY <2>2, <2>3, <2>4, <2>6, <2>7, Zenon DEF CredSound, FetchSound, HeldSound, TokenSound
  <2>9. WorkerSound(l, clientClock)
    BY <2>8, Zenon DEF WorkerSound
  <2> HIDE DEF l
  <2> QED BY <2>1, <2>9, WorkerStepInv, Zenon
<1>9. ASSUME NEW w \in Workers, Store(w) PROVE CacheInv'
  <2> DEFINE cred == clientAt[w].cred
  <2>1. /\ clientAt[w].pc = "store" /\ cache' = [cache EXCEPT ![cred.key] = cred]
        /\ held' = [held EXCEPT ![w] = ForRefresh(cred)]
        /\ \/ answer' = ClientNone
           \/ answer' = [cred |-> cred, hit |-> FALSE, client |-> cred.client,
                         requested |-> cred.requested]
        /\ clientAt' = [clientAt EXCEPT ![w] = ClientIdle] /\ clientClock' = clientClock
    BY <1>9, Zenon DEF Store
  <2>2. CredSound(cred)
    BY <2>1, Zenon DEF CacheInv, WorkerSound
  <2> HIDE DEF cred
  <2>3. /\ cache' = [k \in CacheKeys |-> cache'[k]] /\ DOMAIN cache' = CacheKeys
        /\ \A k \in CacheKeys : cache'[k] = cache[k] \/ (k = cred.key /\ cache'[k] = cred)
    BY <2>1, Zenon DEF CacheInv
  <2>4. \A k \in CacheKeys : cache'[k] # ClientNone => CredSound(cache'[k]) /\ cache'[k].key = k
    BY <2>2, <2>3, Zenon DEF CacheInv
  <2>5. clientAt' = [v \in Workers |-> clientAt'[v]]
        /\ \A v \in Workers : WorkerSound(clientAt'[v], clientClock)
    BY <1>2, <2>1, Zenon DEF CacheInv
  <2>6. HeldSound(ForRefresh(cred))
    BY <2>2, Zenon DEF HeldSound, ForRefresh, CredSound
  <2>7. /\ held' = [v \in Workers |-> held'[v]]
        /\ \A v \in Workers : held'[v] # ClientNone => HeldSound(held'[v])
    BY <2>1, <2>6, Zenon DEF CacheInv
  <2>8. answer' # ClientNone => AnswerSound(answer', clientClock)
    BY <2>1, <2>2 DEF AnswerSound
  <2> QED BY <1>1, <2>1, <2>3, <2>4, <2>5, <2>7, <2>8, Zenon DEF CacheInv
<1>10. CASE ClientTick
  <2>1. /\ clientClock' = clientClock + 1 /\ answer' = ClientNone
        /\ UNCHANGED <<cache, clientAt, held>>
        /\ \A w \in Workers : clientAt[w].pc = "fetch" =>
              clientClock < clientAt[w].since + TokenRequestTimeout
    BY <1>10, Zenon DEF ClientTick
  <2>2. ASSUME NEW w \in Workers PROVE WorkerSound(clientAt[w], clientClock + 1)
    <3>1. WorkerSound(clientAt[w], clientClock)
      BY Zenon DEF CacheInv
    <3>2. CASE clientAt[w].pc = "fetch"
      <4>1. FetchSound(clientAt[w], clientClock)
        BY <3>1, <3>2, Zenon DEF WorkerSound
      <4>2. /\ clientAt[w].since \in Nat /\ clientAt[w].since <= clientClock + 1
            /\ clientClock + 1 <= clientAt[w].since + TokenRequestTimeout
        BY <1>1, <2>1, <3>2, <4>1 DEF FetchSound
      <4>3. clientAt[w].token # ClientNone => TokenSound(clientAt[w], clientClock + 1)
        BY <1>1, <4>1, <4>2 DEF FetchSound, TokenSound
      <4> QED BY <3>2, <4>1, <4>2, <4>3, Zenon DEF FetchSound, WorkerSound
    <3>3. CASE clientAt[w].pc # "fetch"
      BY <3>1, <3>3, Zenon DEF WorkerSound
    <3> QED BY <3>2, <3>3, Zenon
  <2> QED BY <1>1, <2>1, <2>2 DEF CacheInv
<1>11. CASE UNCHANGED clientVars
  BY <1>11, Zenon DEF clientVars, CacheInv
<1> QED BY <1>3, <1>4, <1>5, <1>6, <1>7, <1>8, <1>9, <1>10, <1>11, Zenon DEF ClientNext

\* A token that Complete serves is the caller's own, with the grants the server
\* named, and a cached one is alive for the renewal margin less the request
\* timeout, for any number of workers, clients and scopes and any lifetimes.
THEOREM ServedTokensUsable == ClientSpec => []ServedTokenUsable
<1>1. CacheInv => ServedTokenUsable
  <2> SUFFICES ASSUME CacheInv, answer # ClientNone
               PROVE  CachedTokenLives /\ CachedTokenIsOwn /\ GrantsAsIssued
    BY Zenon DEF ServedTokenUsable, CachedTokenLives, CachedTokenIsOwn, GrantsAsIssued
  <2>1. AnswerSound(answer, clientClock) /\ CredSound(answer.cred) /\ clientClock \in Nat
    BY Zenon DEF CacheInv, AnswerSound
  <2>2. CachedTokenIsOwn /\ GrantsAsIssued
    BY <2>1, Zenon DEF AnswerSound, CredSound, CachedTokenIsOwn, GrantsAsIssued
  <2>3. CachedTokenLives
    <3> SUFFICES ASSUME answer.hit
                 PROVE  answer.cred.token.issued + Lifetime(answer.cred.token.life)
                          + TokenRequestTimeout > clientClock + RenewBefore
      BY Zenon DEF CachedTokenLives
    <3>1. answer.cred.expiresAt > clientClock + RenewBefore
      BY <2>1, Zenon DEF AnswerSound
    <3>2. /\ answer.cred.token.issued \in Nat /\ answer.cred.token.life \in Nat
          /\ answer.cred.expiresAt \in Nat /\ RenewBefore \in Nat /\ TokenRequestTimeout \in Nat
          /\ answer.cred.expiresAt <=
                answer.cred.token.issued + Lifetime(answer.cred.token.life) + TokenRequestTimeout
      BY <2>1, ClientCredentialsAssumption, Zenon DEF CredSound
    <3>3. Lifetime(answer.cred.token.life) \in Nat
      BY <3>2, ClientCredentialsAssumption, Zenon DEF Lifetime
    <3> QED BY <2>1, <3>1, <3>2, <3>3
  <2> QED BY <2>2, <2>3, Zenon
<1> QED BY <1>1, CacheInitInv, CacheNextInv, PTL DEF ClientSpec

-----------------------------------------------------------------------------
(* Installations.  Beside the types: an uninstalled row or record says when*)
(* it was revoked, no row is newer than the clock, and a caller about to   *)
(* write has checked the transition from the record it read.               *)

InstallLocals == [pc : {"idle", "find", "write"}, op : {"upsert", "update"}, id : Nat,
                  status : Statuses, rec : Row]

Revoked(r) == r.status = "uninstalled" => r.revoked

RowsSound(table, clock) ==
    \A i \in DOMAIN table : Revoked(table[i]) /\ table[i].updated <= clock

InstallSound(l, n) ==
    /\ l.id <= n
    /\ Revoked(l.rec)
    /\ l.pc = "write" /\ l.id # 0 => Allowed(l.rec.status, l.status)

InstallInv ==
    /\ installRows \in Seq(Row) /\ installClock \in Nat /\ calls \in Nat
    /\ installAt \in [Callers -> InstallLocals]
    /\ RowsSound(installRows, installClock)
    /\ \A c \in Callers : InstallSound(installAt[c], Len(installRows))

\* An idle caller is sound.
LEMMA InstallIdleSound ==
    ASSUME NEW n \in Nat PROVE InstallIdle \in InstallLocals /\ InstallSound(InstallIdle, n)
BY DEF InstallIdle, InstallLocals, InstallSound, Revoked, Row, Statuses

\* The invariant holds of an empty store.
LEMMA InstallInitInv == InstallInit => InstallInv
<1> SUFFICES ASSUME InstallInit PROVE InstallInv
  BY Zenon
<1>1. installRows = <<>> /\ installRows \in Seq(Row) /\ Len(installRows) = 0
        /\ DOMAIN installRows = {}
  BY DEF InstallInit
<1>2. InstallIdle \in InstallLocals /\ InstallSound(InstallIdle, 0)
  BY InstallIdleSound, Zenon
<1> QED BY <1>1, <1>2, Zenon DEF InstallInit, InstallInv, RowsSound

\* The newest row is one of the rows: none is newer than the clock, so one is
\* newer than all others.
LEMMA NewestIsRow == InstallInv => Newest \in 0..Len(installRows)
<1> SUFFICES ASSUME InstallInv PROVE Newest \in 0..Len(installRows)
  BY Zenon
<1>1. /\ installRows \in Seq(Row) /\ Len(installRows) \in Nat
      /\ DOMAIN installRows = 1..Len(installRows) /\ installClock \in Nat
      /\ \A i \in DOMAIN installRows :
            installRows[i].updated \in Nat /\ installRows[i].updated <= installClock
  <2>1. installRows \in Seq(Row) /\ installClock \in Nat /\ RowsSound(installRows, installClock)
    BY Zenon DEF InstallInv
  <2>2. \A i \in DOMAIN installRows : installRows[i] \in Row
    BY <2>1
  <2> QED BY <2>1, <2>2 DEF RowsSound, Row
<1>2. CASE installRows = <<>>
  BY <1>1, <1>2 DEF Newest
<1>3. CASE installRows # <<>>
  <2> DEFINE D == DOMAIN installRows
             T == {installClock - installRows[i].updated : i \in D}
  <2>1. D # {}
    BY <1>1, <1>3
  <2>2. \A i \in D : installClock - installRows[i].updated \in Nat
    BY <1>1
  <2>3. T \subseteq Nat /\ T # {}
    <3>1. \A t \in T : t \in Nat
      BY <2>2, Zenon
    <3>2. PICK i \in D : TRUE
      BY <2>1, Zenon
    <3>3. installClock - installRows[i].updated \in T
      BY <3>2, Zenon
    <3> QED BY <3>1, <3>3, Zenon
  <2> DEFINE R == OpToRel(<, Nat)
  <2>4. PICK m \in T : \A y \in T : ~(<<y, m>> \in R)
    <3> HIDE DEF T, R
    <3>1. IsWellFoundedOn(R, Nat)
      BY NatLessThanWellFounded, Zenon DEF R
    <3> QED BY <2>3, <3>1, WFMin, Zenon
  <2> HIDE DEF R
  <2>5. PICK i \in D : m = installClock - installRows[i].updated
    BY Zenon
  <2>6. \A j \in D : installRows[j].updated <= installRows[i].updated
    <3> TAKE j \in D
    <3>1. installClock - installRows[j].updated \in T
      BY Zenon
    <3>2. ~(installClock - installRows[j].updated < installClock - installRows[i].updated)
      BY <2>2, <2>4, <2>5, <3>1, Zenon DEF R, OpToRel
    <3> QED BY <1>1, <3>2
  <2>7. Newest \in D
    BY <1>3, <2>5, <2>6, Zenon DEF Newest
  <2> QED BY <1>1, <2>7
<1> QED BY <1>2, <1>3, Zenon

\* One caller steps, and the rows stay as they are.
LEMMA InstallStepInv ==
    ASSUME InstallInv, NEW c \in Callers, NEW l \in InstallLocals,
           InstallSound(l, Len(installRows)), InstallGoto(c, l), calls' \in Nat,
           UNCHANGED <<installRows, installClock>>
    PROVE  InstallInv'
BY Zenon DEF InstallInv, InstallGoto

\* What the store writes is a sound row, revoked when it is uninstalled.
LEMMA InstallWritten ==
    ASSUME NEW rec \in Row, Revoked(rec), NEW st \in Statuses, installClock \in Nat
    PROVE  /\ Written(rec, st) \in Row /\ Revoked(Written(rec, st))
           /\ Written(rec, st).status = st /\ Written(rec, st).updated = installClock + 1
<1> DEFINE gone == (st = "uninstalled") \/ rec.revoked
           new == [rec EXCEPT !.status = st, !.updated = installClock + 1, !.revoked = gone]
<1>1. gone \in BOOLEAN /\ (st = "uninstalled" => gone)
  BY Zenon DEF Row
<1>2. Written(rec, st) = new
  BY Zenon DEF Written
<1> HIDE DEF gone
<1>3. new \in Row /\ new.status = st /\ new.updated = installClock + 1 /\ new.revoked = gone
  <2>1. ASSUME NEW t \in Nat, NEW b \in BOOLEAN
        PROVE  LET n == [rec EXCEPT !.status = st, !.updated = t, !.revoked = b]
               IN  n \in Row /\ n.status = st /\ n.updated = t /\ n.revoked = b
    BY Zenon DEF Row
  <2>2. installClock + 1 \in Nat
    OBVIOUS
  <2> QED BY <1>1, <2>1, <2>2, Zenon
<1> HIDE DEF new
<1>4. Revoked(new)
  BY <1>1, <1>3, Zenon DEF Revoked
<1> QED BY <1>2, <1>3, <1>4, Zenon

\* Every step of the service and the store keeps the invariant.
LEMMA InstallNextInv == InstallInv /\ [InstallNext]_installVars => InstallInv'
<1> SUFFICES ASSUME InstallInv, [InstallNext]_installVars PROVE InstallInv'
  BY Zenon
<1>1. /\ installRows \in Seq(Row) /\ Len(installRows) \in Nat /\ installClock \in Nat
           /\ calls \in Nat
      /\ DOMAIN installRows = 1..Len(installRows)
      /\ installAt \in [Callers -> InstallLocals] /\ RowsSound(installRows, installClock)
      /\ \A c \in Callers : InstallSound(installAt[c], Len(installRows))
  BY DEF InstallInv
<1>2. InstallIdle \in InstallLocals /\ InstallSound(InstallIdle, Len(installRows))
  BY <1>1, InstallIdleSound, Zenon
<1>3. ASSUME NEW c \in Callers, NEW op \in {"upsert", "update"}, NEW i \in 0..Len(installRows),
             NEW st \in Statuses, Check(c, op, i, st)
      PROVE  InstallInv'
  <2> DEFINE l == [InstallIdle EXCEPT !.pc = "find", !.op = op, !.id = i, !.status = st]
  <2>1. l \in InstallLocals /\ l.pc = "find" /\ l.id = i /\ l.rec = InstallIdle.rec
    <3>1. i \in Nat
      BY <1>1
    <3> QED BY <1>2, <3>1, Zenon DEF InstallIdle, InstallLocals
  <2>2. InstallSound(l, Len(installRows))
    BY <1>1, <1>2, <2>1 DEF InstallSound
  <2>3. InstallGoto(c, l) /\ calls' \in Nat /\ UNCHANGED <<installRows, installClock>>
    BY <1>1, <1>3 DEF Check
  <2> HIDE DEF l
  <2> QED BY <2>1, <2>2, <2>3, InstallStepInv, Zenon
<1>4. ASSUME NEW c \in Callers, NEW st \in Statuses, UpsertInstallation(c, st) PROVE InstallInv'
  BY <1>3, <1>4, NewestIsRow, Zenon DEF UpsertInstallation
<1>5. ASSUME NEW c \in Callers, NEW st \in Statuses, NEW i \in DOMAIN installRows,
             UpdateInstallationStatus(c, i, st)
      PROVE  InstallInv'
  <2>1. i \in 0..Len(installRows)
    BY <1>1
  <2> QED BY <1>3, <1>5, <2>1, Zenon DEF UpdateInstallationStatus
<1>6. ASSUME NEW c \in Callers, Find(c) PROVE InstallInv'
  <2> DEFINE me == installAt[c]
             i == IF me.op = "upsert" THEN Newest ELSE me.id
             r == IF i = 0 THEN InstallIdle.rec ELSE installRows[i]
             l == [me EXCEPT !.pc = "write", !.id = i, !.rec = r]
  <2>1. me \in InstallLocals /\ InstallSound(me, Len(installRows))
    BY <1>1, Zenon
  <2>2. /\ me.pc = "find" /\ MayBecome(i, me.status) /\ InstallGoto(c, l)
        /\ UNCHANGED <<installRows, installClock, calls>>
    BY <1>6, Zenon DEF Find
  <2>3. i \in 0..Len(installRows)
    <3>1. CASE me.op = "upsert"
      BY <3>1, NewestIsRow, Zenon
    <3>2. CASE me.op # "upsert"
      BY <1>1, <2>1, <3>2 DEF InstallLocals, InstallSound
    <3> QED BY <3>1, <3>2, Zenon
  <2> HIDE DEF i
  <2>4. r \in Row /\ Revoked(r) /\ (i # 0 => r = installRows[i])
    <3>1. CASE i = 0
      BY <1>2, <3>1, Zenon DEF InstallLocals, InstallSound
    <3>2. CASE i # 0
      BY <1>1, <2>3, <3>2 DEF RowsSound
    <3> QED BY <3>1, <3>2, Zenon
  <2> HIDE DEF r
  <2>5. /\ l \in InstallLocals /\ l.pc = "write" /\ l.id = i /\ l.rec = r /\ l.status = me.status
    <3>1. i \in Nat
      BY <1>1, <2>3
    <3> QED BY <2>1, <2>4, <3>1, Zenon DEF InstallLocals
  <2> HIDE DEF l
  <2>6. InstallSound(l, Len(installRows))
    BY <1>1, <2>2, <2>3, <2>4, <2>5 DEF InstallSound, MayBecome
  <2> QED BY <1>1, <2>2, <2>5, <2>6, InstallStepInv, Zenon
<1>7. ASSUME NEW c \in Callers, FindRefused(c) \/ Abandon(c) PROVE InstallInv'
  BY <1>1, <1>2, <1>7, InstallStepInv, Zenon DEF FindRefused, Abandon
<1>8. ASSUME NEW c \in Callers, Write(c) PROVE InstallInv'
  <2> DEFINE me == installAt[c]
             new == Written(me.rec, me.status)
  <2>1. /\ me \in InstallLocals /\ InstallSound(me, Len(installRows)) /\ me.rec \in Row
        /\ me.status \in Statuses /\ me.id \in Nat /\ me.id <= Len(installRows)
    BY <1>1, Zenon DEF InstallLocals, InstallSound
  <2>2. /\ installRows' = IF me.id = 0 THEN Append(installRows, new)
                          ELSE [installRows EXCEPT ![me.id] = new]
        /\ installClock' = installClock + 1 /\ InstallGoto(c, InstallIdle) /\ UNCHANGED calls
    BY <1>8, Zenon DEF Write
  <2>3. new \in Row /\ Revoked(new) /\ new.updated = installClock + 1
    BY <1>1, <2>1, InstallWritten, Zenon DEF InstallSound
  <2> HIDE DEF new
  <2>4. /\ installRows' \in Seq(Row) /\ Len(installRows) <= Len(installRows')
        /\ Len(installRows') \in Nat
        /\ \A i \in DOMAIN installRows' :
              installRows'[i] = new
                \/ (i \in DOMAIN installRows /\ installRows'[i] = installRows[i])
    <3>1. CASE me.id = 0
      BY <1>1, <2>2, <2>3, <3>1
    <3>2. CASE me.id # 0
      BY <1>1, <2>1, <2>2, <2>3, <3>2
    <3> QED BY <3>1, <3>2, Zenon
  <2>5. RowsSound(installRows', installClock')
    <3> SUFFICES ASSUME NEW i \in DOMAIN installRows'
                 PROVE  Revoked(installRows'[i]) /\ installRows'[i].updated <= installClock'
      BY Zenon DEF RowsSound
    <3>1. CASE installRows'[i] = new
      BY <1>1, <2>2, <2>3, <3>1
    <3>2. CASE i \in DOMAIN installRows /\ installRows'[i] = installRows[i]
      <4>1. installRows[i] \in Row /\ installRows[i].updated \in Nat
        <5>1. installRows[i] \in Row
          BY <1>1, <3>2
        <5> QED BY <5>1, Zenon DEF Row
      <4> QED BY <1>1, <2>2, <3>2, <4>1 DEF RowsSound
    <3> QED BY <2>4, <3>1, <3>2, Zenon
  <2>6. ASSUME NEW d \in Callers PROVE InstallSound(installAt'[d], Len(installRows'))
    <3>1. InstallSound(InstallIdle, Len(installRows'))
      BY <2>4, InstallIdleSound, Zenon
    <3>2. InstallSound(installAt[d], Len(installRows')) 
      <4>1. installAt[d].id \in Nat /\ InstallSound(installAt[d], Len(installRows))
        BY <1>1, Zenon DEF InstallLocals
      <4> QED BY <1>1, <2>4, <4>1 DEF InstallSound
    <3> QED BY <1>1, <2>2, <3>1, <3>2, Zenon DEF InstallGoto
  <2> QED BY <1>1, <1>2, <2>2, <2>4, <2>5, <2>6 DEF InstallInv, InstallGoto
<1>9. CASE UNCHANGED installVars
  BY <1>9, Zenon DEF installVars, InstallInv
<1> QED BY <1>4, <1>5, <1>6, <1>7, <1>8, <1>9, Zenon DEF InstallNext

\* A write keeps the transition table unless another call wrote between the
\* store's read and this write, and an uninstalled row says when it was
\* revoked, for any number of callers, calls and rows.
THEOREM InstallationsKeepTable == InstallSpec => TableUnlessRaced
<1>1. InstallInv => RevokedWhenUninstalled
  BY Zenon DEF InstallInv, RowsSound, Revoked, RevokedWhenUninstalled
<1>2. InstallInv /\ InstallNext => LeavesTableByRace
  <2> SUFFICES ASSUME InstallInv, InstallNext, NEW i \in DOMAIN installRows,
                      installRows'[i].status # installRows[i].status
               PROVE  \/ <<installRows[i].status, installRows'[i].status>> \in InTable
                      \/ \E c \in Callers :
                            /\ installAt[c].pc = "write" /\ installAt[c].id = i
                            /\ installAt'[c].pc = "idle" /\ installAt[c].rec # installRows[i]
    BY Zenon DEF LeavesTableByRace
  <2>1. PICK c \in Callers : Write(c)
    BY Zenon DEF InstallNext, UpsertInstallation, UpdateInstallationStatus, Check, Find,
           FindRefused, Abandon
  <2> DEFINE me == installAt[c]
             new == Written(me.rec, me.status)
  <2>2. /\ installRows \in Seq(Row) /\ DOMAIN installRows = 1..Len(installRows)
        /\ installClock \in Nat /\ installAt \in [Callers -> InstallLocals]
        /\ me \in InstallLocals /\ me.rec \in Row /\ me.status \in Statuses /\ me.id \in Nat
        /\ InstallSound(me, Len(installRows)) /\ installRows[i] \in Row
    BY DEF InstallInv, InstallLocals
  <2>3. new.status = me.status
    BY <2>2, InstallWritten, Zenon DEF InstallSound
  <2>4. /\ me.pc = "write" /\ InstallGoto(c, InstallIdle)
        /\ installRows' = IF me.id = 0 THEN Append(installRows, new)
                          ELSE [installRows EXCEPT ![me.id] = new]
    BY <2>1, Zenon DEF Write
  <2> HIDE DEF new
  <2>5. me.id = i /\ installRows'[i] = new
    BY <2>2, <2>4
  <2>6. installAt'[c].pc = "idle"
    BY <2>2, <2>4, Zenon DEF InstallGoto, InstallIdle
  <2>7. CASE me.rec = installRows[i]
    <3>1. i # 0 /\ installRows[i].status \in Statuses
      BY <2>2 DEF Row
    <3>2. Allowed(installRows[i].status, me.status)
      BY <2>2, <2>4, <2>5, <2>7, <3>1, Zenon DEF InstallSound
    <3>3. installRows[i].status # me.status
      BY <2>3, <2>5, Zenon
    <3>4. <<installRows[i].status, me.status>> \in InTable
      BY <3>1, <3>2, <3>3, Zenon DEF Allowed, InTable, Statuses
    <3> QED BY <2>3, <2>5, <3>4, Zenon
  <2> QED BY <2>4, <2>5, <2>6, <2>7, Zenon
<1>3. InstallSpec => []InstallInv
  BY InstallInitInv, InstallNextInv, PTL DEF InstallSpec
<1> QED BY <1>1, <1>2, <1>3, PTL DEF InstallSpec, TableUnlessRaced

=============================================================================
