---------------------------- MODULE InboundClaims ----------------------------
(***************************************************************************)
(* Inbound dispatch (inbound/dispatcher.go): Dispatcher.Dispatch run by    *)
(* concurrent requests over InMemoryClaimStore.  The store's methods hold  *)
(* its mutex, so each is one step; Claim reads the clock before it locks,  *)
(* so a claim may run with a time that has passed.                         *)
(***************************************************************************)
EXTENDS Integers, FiniteSets

CONSTANTS
    Keys,       \* provider:surface:idempotency-key strings
    Requests,   \* concurrent calls of Dispatch
    KeyTTL,     \* Dispatcher.KeyTTL: the lease, and the idempotency window
    None,       \* no key
    MaxTime,    \* bound of the clock
    MaxClaims   \* bound of the claim counter

ASSUME InboundAssumption ==
    /\ None \notin Keys
    /\ KeyTTL \in Nat \ {0}
    /\ MaxTime \in Nat /\ MaxClaims \in Nat

VARIABLES
    now,        \* the clock
    entries,    \* InMemoryClaimStore.entries, status "absent" for no entry
    claims,     \* InMemoryClaimStore.claims, as a set of <<claim ID, key>>
    nextID,     \* InMemoryClaimStore.nextID
    registered, \* whether the surface has a handler
    rq,         \* rq[w]: where request w is in Dispatch
    doneAt      \* history: when the key was last completed, or Never

vars == <<now, entries, claims, nextID, registered, rq, doneAt>>

-----------------------------------------------------------------------------
\* The zero time.Time, and the time of what has not happened.
Zero == -1
Never == -1

Times == Nat \cup {Zero}

\* Attempts is kept by the code and read by nothing; it is left out.
Entry == [status : {"absent", "processing", "retry_ready", "complete"},
          id : Nat, lease : Times, retryAt : Times]

Absent == [status |-> "absent", id |-> 0, lease |-> Zero, retryAt |-> Zero]

Locals == [pc : {"idle", "claim", "lookup", "handle", "complete", "fail"},
           key : Keys \cup {None}, at : Nat, id : Nat]

Idle == [pc |-> "idle", key |-> None, at |-> 0, id |-> 0]

\* Requests that hold a claim ID.
Engaged(w) == rq[w].pc \in {"lookup", "handle", "complete", "fail"}

LeaseOver(w) == now >= rq[w].at + KeyTTL

InboundInit ==
    /\ now = 0
    /\ entries = [k \in Keys |-> Absent]
    /\ claims = {}
    /\ nextID = 0
    /\ registered = FALSE
    /\ rq = [w \in Requests |-> Idle]
    /\ doneAt = [k \in Keys |-> Never]

Goto(w, pc) == rq' = [rq EXCEPT ![w].pc = pc]
Leave(w) == rq' = [rq EXCEPT ![w] = Idle]

-----------------------------------------------------------------------------
\* Dispatcher.Register; a second handler for the surface is a conflict.
Register ==
    /\ ~registered
    /\ registered' = TRUE
    /\ UNCHANGED <<now, entries, claims, nextID, rq, doneAt>>

\* A request with a provider, a supported surface, a valid signature and an
\* idempotency key enters Store.Claim, which reads the clock.
Arrive(w, k) ==
    /\ rq[w].pc = "idle"
    /\ rq' = [rq EXCEPT ![w] = [pc |-> "claim", key |-> k, at |-> now, id |-> 0]]
    /\ UNCHANGED <<now, entries, claims, nextID, registered, doneAt>>

\* The complete entries whose window has passed at time t.
Evictable(t) == {k \in Keys : entries[k].status = "complete" /\ entries[k].lease <= t}

\* evictExpiredLocked: of the entries, and of their claim IDs.
EvictedEntries(t) == [k \in Keys |-> IF k \in Evictable(t) THEN Absent ELSE entries[k]]
EvictedClaims(t) == {c \in claims : \A k \in Evictable(t) : c[1] # entries[k].id}

\* Mutated form: the lease of a running claim is ignored.
Rejected_NoLease(e, t) ==
    \/ e.status = "complete" /\ t < e.lease
    \/ e.status = "retry_ready" /\ t < e.retryAt

\* The early returns of Claim.
Rejected(e, t) ==
    \/ e.status \in {"complete", "processing"} /\ t < e.lease
    \/ e.status = "retry_ready" /\ t < e.retryAt

\* Mutated form: the claim ID of the superseded claim stays in the index.
\* The claim IDs a new claim on the entry removes from the index.
Superseded(e) == IF e.status = "absent" THEN {} ELSE {e.id}

\* InMemoryClaimStore.Claim.  A rejected request is acknowledged as a duplicate.
Claim(w) ==
    /\ rq[w].pc = "claim"
    /\ LET k == rq[w].key
           t == rq[w].at
           kept == EvictedEntries(t)
           index == EvictedClaims(t)
       IN \/ /\ Rejected(kept[k], t)
             /\ entries' = kept
             /\ claims' = index
             /\ Leave(w)
             /\ UNCHANGED nextID
          \/ /\ ~Rejected(kept[k], t)
             /\ nextID < MaxClaims
             /\ nextID' = nextID + 1
             /\ entries' = [kept EXCEPT ![k] = [status |-> "processing",
                                id |-> nextID + 1, lease |-> t + KeyTTL,
                                retryAt |-> Zero]]
             /\ claims' = {c \in index : c[1] \notin Superseded(kept[k])}
                            \cup {<<nextID + 1, k>>}
             /\ rq' = [rq EXCEPT ![w] = [pc |-> "lookup", key |-> k, at |-> t,
                                         id |-> nextID + 1]]
    /\ UNCHANGED <<now, registered, doneAt>>

\* handlerFor: without a handler Dispatch returns, and the claim stays.
Lookup(w) ==
    /\ rq[w].pc = "lookup"
    /\ IF registered THEN Goto(w, "handle") ELSE Leave(w)
    /\ UNCHANGED <<now, entries, claims, nextID, registered, doneAt>>

\* The handler (the application's) accepts the request or fails, or panics and
\* takes the request with it.
Handle(w) ==
    /\ rq[w].pc = "handle"
    /\ Goto(w, "complete") \/ Goto(w, "fail") \/ Leave(w)
    /\ UNCHANGED <<now, entries, claims, nextID, registered, doneAt>>

-----------------------------------------------------------------------------
\* Whether Complete and Fail act on the entry that the index names.
IsCurrent(e, id) == e.id = id /\ e.status = "processing"

\* Complete and Fail: with a claim ID that is not in the index they do nothing;
\* otherwise they drop it, and settle the entry if it is still this claim's.
Settle(w, settled) ==
    LET live == \E k \in Keys : <<rq[w].id, k>> \in claims
        k == CHOOSE k \in Keys : <<rq[w].id, k>> \in claims
    IN  /\ claims' = {c \in claims : c[1] # rq[w].id}
        /\ entries' = IF live /\ IsCurrent(entries[k], rq[w].id)
                        THEN [entries EXCEPT ![k] = settled] ELSE entries
        /\ Leave(w)

\* Mutated forms: the status word of the webhook ledger; a window that starts
\* at the claim, not at completion.
CompletedEntry_OldLease(w) ==
    [status |-> "complete", id |-> rq[w].id, lease |-> rq[w].at + KeyTTL, retryAt |-> Zero]

\* What Complete writes: the entry is kept for another KeyTTL.
CompletedEntry(w) ==
    [status |-> "complete", id |-> rq[w].id, lease |-> now + KeyTTL, retryAt |-> Zero]

\* What Fail writes; Dispatch asks for a retry at once.
FailedEntry(w) ==
    [status |-> "retry_ready", id |-> rq[w].id, lease |-> Zero, retryAt |-> now]

Complete(w) ==
    /\ rq[w].pc = "complete"
    /\ Settle(w, CompletedEntry(w))
    /\ doneAt' = [k \in Keys |->
                    IF entries'[k].status = "complete" /\ entries[k].status = "processing"
                      THEN now ELSE doneAt[k]]
    /\ UNCHANGED <<now, nextID, registered>>

Fail(w) ==
    /\ rq[w].pc = "fail"
    /\ Settle(w, FailedEntry(w))
    /\ UNCHANGED <<now, nextID, registered, doneAt>>

Tick ==
    /\ now < MaxTime
    /\ now' = now + 1
    /\ UNCHANGED <<entries, claims, nextID, registered, rq, doneAt>>

InboundNext ==
    \/ Register
    \/ Tick
    \/ \E w \in Requests :
        \/ \E k \in Keys : Arrive(w, k)
        \/ Claim(w)
        \/ Lookup(w)
        \/ Handle(w)
        \/ Complete(w)
        \/ Fail(w)

InboundSpec == InboundInit /\ [][InboundNext]_vars

-----------------------------------------------------------------------------
\* Every variable has its type.
TypeOK ==
    /\ now \in Nat
    /\ entries \in [Keys -> Entry]
    /\ claims \in SUBSET (Nat \X Keys)
    /\ nextID \in Nat
    /\ registered \in BOOLEAN
    /\ rq \in [Requests -> Locals]
    /\ doneAt \in [Keys -> Times]

\* The claim index is exact: it names the running claim of every entry, and
\* nothing else, so it neither leaks IDs nor loses one.
ClaimIndexExact ==
    claims = {<<entries[k].id, k>> : k \in {k \in Keys : entries[k].status = "processing"}}

\* Two requests are past Claim on one key only if one has outlived its lease.
LeaseExclusion ==
    \A v, w \in Requests :
        v # w /\ Engaged(v) /\ Engaged(w) /\ rq[v].key = rq[w].key
        => LeaseOver(v) \/ LeaseOver(w)

\* A request that completes or fails within its lease settles its own entry,
\* whatever the other requests have done in the meantime.
WithinLeaseSettles ==
    [][\A w \in Requests :
          rq[w].pc \in {"complete", "fail"} /\ rq'[w].pc = "idle" /\ ~LeaseOver(w)
          => /\ entries[rq[w].key].status = "processing"
             /\ entries'[rq[w].key].id = rq[w].id
             /\ entries'[rq[w].key].status \in {"complete", "retry_ready"}]_vars

\* Idempotency: once a key is completed, nobody runs its handler under a current
\* claim before KeyTTL has passed, not even a claim with an old clock reading.
IdempotencyWindow ==
    \A w \in Requests :
        LET k == rq[w].key IN
        Engaged(w) /\ entries[k].id = rq[w].id /\ entries[k].status = "processing"
        => doneAt[k] = Never \/ now >= doneAt[k] + KeyTTL

=============================================================================
