--------------------------- MODULE WebhookDelivery ---------------------------
(***************************************************************************)
(* Webhook processing: Processor.Process (webhooks/processor.go) run by    *)
(* concurrent workers over the SQL delivery ledger                         *)
(* (store/sql/webhook_delivery_store.go) with the in-process burst         *)
(* controller (webhooks/burst_control.go).                                 *)
(*                                                                         *)
(* Each SQL statement is one step: the statements of Claim and of Fail are *)
(* not in a transaction, so another worker may run between them.           *)
(***************************************************************************)
EXTENDS Integers, FiniteSets

CONSTANTS
    Deliveries,     \* (provider_id, delivery_id) pairs a provider sends
    Workers,        \* goroutines that run Process
    Hosts,          \* processes; each has a burst controller of its own
    HostOf,         \* [Workers -> Hosts]
    Keys,           \* burst keys
    BurstKey,       \* [Deliveries -> Keys \cup {None}]: None if the extractor
                    \* finds no key in the request
    None,           \* no delivery, no key
    BurstMode,      \* "none", "coalesce" or "debounce"
    Window,         \* BurstOptions.Window
    MaxEntries,     \* BurstOptions.MaxEntries
    Lease,          \* Processor.ClaimLease
    MaxAttempts,    \* Processor.MaxAttempts
    InitialDelay,   \* ExponentialRetryPolicy.Initial
    MaxDelay,       \* ExponentialRetryPolicy.Max
    MaxTime         \* bound of the clock

ASSUME ConstantsAssumption ==
    /\ HostOf \in [Workers -> Hosts]
    /\ None \notin Keys \cup Deliveries
    /\ BurstKey \in [Deliveries -> Keys \cup {None}]
    /\ BurstMode \in {"none", "coalesce", "debounce"}
    /\ {Window, MaxEntries, Lease, MaxAttempts, InitialDelay, MaxDelay}
            \subseteq Nat \ {0}
    /\ MaxTime \in Nat

VARIABLES
    now,    \* the clock the processes and the database share
    row,    \* row[d]: the row of service_webhook_deliveries
    wk,     \* wk[w]: where worker w is in Process, and its local variables
    burst,  \* burst[h][k]: DefaultBurstController.entries of host h
    hist,   \* history: what has happened to a delivery (see History)
    crossed \* history: deliveries on which a worker read a foreign claim

vars == <<now, row, wk, burst, hist, crossed>>

-----------------------------------------------------------------------------
\* NULL timestamps, and absent burst entries; it is before every time.
Null == -1

Times == Nat \cup {Null}

Statuses ==
    {"none", "pending", "processing", "retry_ready", "processed", "dead"}

Row == [status : Statuses, attempts : Nat, next : Times]

NoRow == [status |-> "none", attempts |-> 0, next |-> Null]

\* The points at which a worker can be interrupted.
PCs == {"idle", "insert", "claim", "get", "burst", "handle",
        "complete", "failGet", "failUpdate"}

\* A worker's locals: the delivery, the `now` read at the top of Claim, the
\* attempt number in its claim ID, the retry time it will ask for.  granted is
\* history: the attempt number its own claiming UPDATE wrote.
Locals == [pc : PCs, d : Deliveries \cup {None}, at : Nat, claim : Nat,
           retryAt : Nat, granted : Nat]

Idle == [pc |-> "idle", d |-> None, at |-> 0, claim |-> 0,
         retryAt |-> 0, granted |-> 0]

\* What may have happened to a delivery so far.
History == {"passed", "coalesced", "ok", "failed"}

\* Workers between the claiming UPDATE and the end of Process.
Engaged(w) ==
    wk[w].pc \in {"get", "burst", "handle", "complete", "failGet", "failUpdate"}

\* Workers that have built their claim ID.
Holding(w) == Engaged(w) /\ wk[w].pc # "get"

LeaseOver(w) == now >= wk[w].at + Lease

-----------------------------------------------------------------------------
\* ExponentialRetryPolicy.NextDelay, attempt >= 1.
NextDelay(attempt) ==
    LET doubled == InitialDelay * 2^(attempt - 1)
    IN  IF doubled \in 0..MaxDelay THEN doubled ELSE MaxDelay

\* Mutated forms: the lease is not consulted.
Claimable_IgnoresLease(r, t) ==
    r.status \in {"pending", "retry_ready", "processing"}

\* The WHERE clause of the claiming UPDATE, for a claim that started at t.
Claimable(r, t) ==
    \/ r.status = "pending"
    \/ r.status \in {"retry_ready", "processing"} /\ r.next <= t

\* Mutated forms: one half of the WHERE clause is forgotten.
HoldsClaim_AnyAttempt(r, claim) == r.status = "processing"

\* The WHERE clause of Complete's and Fail's UPDATE.
HoldsClaim(r, claim) == r.status = "processing" /\ r.attempts = claim

\* Mutated form: the claim already marks the delivery processed.
GrantedRow_MarkedEarly(r, t) ==
    [status |-> "processed", attempts |-> r.attempts + 1, next |-> t + Lease]

\* What the claiming UPDATE, Complete and Fail write.
GrantedRow(r, t) ==
    [status |-> "processing", attempts |-> r.attempts + 1, next |-> t + Lease]

\* Mutated form: the status word of the inbound claim store.
CompletedRow(r) == [r EXCEPT !.status = "processed", !.next = Null]

\* Mutated forms: off by one, in either direction.
FailedRow_OneLate(r, claim, retryAt) ==
    IF claim > MaxAttempts
      THEN [r EXCEPT !.status = "dead", !.next = Null]
      ELSE [r EXCEPT !.status = "retry_ready", !.next = retryAt]

FailedRow(r, claim, retryAt) ==
    IF claim >= MaxAttempts
      THEN [r EXCEPT !.status = "dead", !.next = Null]
      ELSE [r EXCEPT !.status = "retry_ready", !.next = retryAt]

WebhookInit ==
    /\ now = 0
    /\ row = [d \in Deliveries |-> NoRow]
    /\ wk = [w \in Workers |-> Idle]
    /\ burst = [h \in Hosts |-> [k \in Keys |-> Null]]
    /\ hist = [d \in Deliveries |-> {}]
    /\ crossed = {}

-----------------------------------------------------------------------------
\* Worker w goes on to step pc, or leaves Process.
Goto(w, pc) == wk' = [wk EXCEPT ![w].pc = pc]
Leave(w) == wk' = [wk EXCEPT ![w] = Idle]

\* A request that passes verification and carries a delivery ID enters
\* Ledger.Claim, which reads the clock once.
Receive(w, d) ==
    /\ wk[w].pc = "idle"
    /\ wk' = [wk EXCEPT ![w] = [Idle EXCEPT !.pc = "insert", !.d = d, !.at = now]]
    /\ UNCHANGED <<now, row, burst, hist, crossed>>

\* INSERT ... ON CONFLICT DO NOTHING.
ClaimInsert(w) ==
    /\ wk[w].pc = "insert"
    /\ row' = IF row[wk[w].d].status = "none"
                THEN [row EXCEPT ![wk[w].d].status = "pending"]
                ELSE row
    /\ Goto(w, "claim")
    /\ UNCHANGED <<now, burst, hist, crossed>>

\* The claiming UPDATE; a worker it gives no row acknowledges a duplicate.
ClaimUpdate(w) ==
    /\ wk[w].pc = "claim"
    /\ LET d == wk[w].d IN
       \/ /\ Claimable(row[d], wk[w].at)
          /\ row' = [row EXCEPT ![d] = GrantedRow(row[d], wk[w].at)]
          /\ wk' = [wk EXCEPT ![w] =
                        [@ EXCEPT !.pc = "get", !.granted = row[d].attempts + 1]]
       \/ /\ ~Claimable(row[d], wk[w].at)
          /\ Leave(w)
          /\ UNCHANGED row
    /\ UNCHANGED <<now, burst, hist, crossed>>

\* Claim's trailing Get; buildDeliveryClaimID uses the attempts it reads.
ClaimGet(w) ==
    /\ wk[w].pc = "get"
    /\ LET d == wk[w].d IN
       /\ wk' = [wk EXCEPT ![w] = [@ EXCEPT !.pc = "burst", !.claim = row[d].attempts]]
       /\ crossed' = IF row[d].attempts = wk[w].granted
                        THEN crossed ELSE crossed \cup {d}
    /\ UNCHANGED <<now, row, burst, hist>>

-----------------------------------------------------------------------------
\* Mutated form: only the branch for a map below its limit.
Cleanup_NoLimit(entries) ==
    {[k \in Keys |-> IF now - entries[k] > 4 * Window THEN Null ELSE entries[k]]}

\* DefaultBurstController.cleanup: below the limit, entries older than four
\* windows go; above it, entries older than one window go, in map order, until
\* the limit is met or none is left.
Cleanup(entries) ==
    LET present == {k \in Keys : entries[k] # Null}
        older(age) == {k \in present : now - entries[k] > age}
        drop(S) == [k \in Keys |-> IF k \in S THEN Null ELSE entries[k]]
        spare == Cardinality(present \ older(Window))
    IN  IF Cardinality(present) <= MaxEntries
          THEN {drop(older(4 * Window))}
          ELSE {drop(S) : S \in {T \in SUBSET older(Window) :
                    Cardinality(present \ T) =
                        IF spare > MaxEntries THEN spare ELSE MaxEntries}}

\* Whether Allow lets through a request whose key was last seen at `last`.
LetsThrough(last) == last = Null \/ now - last >= Window

\* Burst.Allow, under the controller's mutex: the entry is refreshed whatever
\* the decision.  A suppressed delivery is completed without its handler.
BurstAllow(w) ==
    /\ wk[w].pc = "burst"
    /\ LET d == wk[w].d
           h == HostOf[w]
           k == BurstKey[d]
       IN \/ /\ BurstMode = "none" \/ k = None
             /\ Goto(w, "handle")
             /\ hist' = [hist EXCEPT ![d] = @ \cup {"passed"}]
             /\ UNCHANGED burst
          \/ /\ BurstMode # "none" /\ k # None
             /\ \E e \in Cleanup([burst[h] EXCEPT ![k] = now]) :
                    burst' = [burst EXCEPT ![h] = e]
             /\ IF LetsThrough(burst[h][k])
                  THEN /\ Goto(w, "handle")
                       /\ hist' = [hist EXCEPT ![d] = @ \cup {"passed"}]
                  ELSE /\ Goto(w, "complete")
                       /\ hist' = [hist EXCEPT ![d] = @ \cup {"coalesced"}]
    /\ UNCHANGED <<now, row, crossed>>

\* Handler.Handle returns (the handler is the application's).  An error, a
\* result that is not accepted, or a retryable 5xx is a failure.
Handle(w) ==
    /\ wk[w].pc = "handle"
    /\ \/ /\ Goto(w, "complete")
          /\ hist' = [hist EXCEPT ![wk[w].d] = @ \cup {"ok"}]
       \/ /\ wk' = [wk EXCEPT ![w] =
                    [@ EXCEPT !.pc = "failGet", !.retryAt = now + NextDelay(wk[w].claim)]]
          /\ hist' = [hist EXCEPT ![wk[w].d] = @ \cup {"failed"}]
    /\ UNCHANGED <<now, row, burst, crossed>>

\* Complete: one UPDATE; no row matched is no error.
Complete(w) ==
    /\ wk[w].pc = "complete"
    /\ LET d == wk[w].d IN
       row' = IF HoldsClaim(row[d], wk[w].claim)
                THEN [row EXCEPT ![d] = CompletedRow(row[d])]
                ELSE row
    /\ Leave(w)
    /\ UNCHANGED <<now, burst, hist, crossed>>

\* Fail first reads the row, and ignores a claim that is no longer current.
FailGet(w) ==
    /\ wk[w].pc = "failGet"
    /\ IF HoldsClaim(row[wk[w].d], wk[w].claim) THEN Goto(w, "failUpdate")
                                                 ELSE Leave(w)
    /\ UNCHANGED <<now, row, burst, hist, crossed>>

\* Then it updates the row, under the same condition.
FailUpdate(w) ==
    /\ wk[w].pc = "failUpdate"
    /\ LET d == wk[w].d IN
       row' = IF HoldsClaim(row[d], wk[w].claim)
                THEN [row EXCEPT ![d] =
                        FailedRow(row[d], wk[w].claim, wk[w].retryAt)]
                ELSE row
    /\ Leave(w)
    /\ UNCHANGED <<now, burst, hist, crossed>>

-----------------------------------------------------------------------------
\* A statement fails, or the request's context is cancelled: Process returns
\* the error and the row stays as it is.
StatementError(w) ==
    /\ wk[w].pc \in {"insert", "claim", "get", "complete", "failGet", "failUpdate"}
    /\ Leave(w)
    /\ UNCHANGED <<now, row, burst, hist, crossed>>

\* A process dies: its workers and its burst controller are gone.
Crash(h) ==
    /\ wk' = [w \in Workers |-> IF HostOf[w] = h THEN Idle ELSE wk[w]]
    /\ burst' = [burst EXCEPT ![h] = [k \in Keys |-> Null]]
    /\ UNCHANGED <<now, row, hist, crossed>>

Tick ==
    /\ now < MaxTime
    /\ now' = now + 1
    /\ UNCHANGED <<row, wk, burst, hist, crossed>>

Step(w) ==
    \/ \E d \in Deliveries : Receive(w, d)
    \/ ClaimInsert(w)
    \/ ClaimUpdate(w)
    \/ ClaimGet(w)
    \/ BurstAllow(w)
    \/ Handle(w)
    \/ Complete(w)
    \/ FailGet(w)
    \/ FailUpdate(w)
    \/ StatementError(w)

WebhookNext ==
    \/ \E w \in Workers : Step(w)
    \/ \E h \in Hosts : Crash(h)
    \/ Tick

WebhookSpec == WebhookInit /\ [][WebhookNext]_vars

-----------------------------------------------------------------------------
\* Every variable has its type.
TypeOK ==
    /\ now \in Nat
    /\ row \in [Deliveries -> Row]
    /\ wk \in [Workers -> Locals]
    /\ burst \in [Hosts -> [Keys -> Times]]
    /\ hist \in [Deliveries -> SUBSET History]
    /\ crossed \in SUBSET Deliveries

\* The lease excludes: two workers are past Claim on one delivery only if one
\* of them has outlived its lease.  Deliveries on which claims have crossed
\* (a stalled Claim read the attempts of a later one) are the exception, and
\* the only one.
LeaseExclusion ==
    \A w1, w2 \in Workers :
        /\ w1 # w2 /\ Engaged(w1) /\ Engaged(w2) /\ wk[w1].d = wk[w2].d
        /\ wk[w1].d \notin crossed
        => LeaseOver(w1) \/ LeaseOver(w2)

\* Claims first cross on a delivery only when the worker whose Get reads the
\* other's attempts stalled past its whole lease between Claim's two statements.
FirstCrossingAfterLapse ==
    [][\A d \in crossed' \ crossed :
          \E w \in Workers : wk[w].pc = "get" /\ wk[w].d = d /\ LeaseOver(w)]_vars

\* A processed or dead row is never written again, by a late Complete, a late
\* Fail or a redelivery; and attempts never goes back.
SettledForGood ==
    [][\A d \in Deliveries :
          /\ row[d].status \in {"processed", "dead"} => row'[d] = row[d]
          /\ row'[d].attempts >= row[d].attempts]_vars

\* Fencing: unless claims have crossed, a row leaves "processing" for an outcome
\* only on behalf of the worker that was granted its current attempt.
OnlyGrantHolderSettles ==
    [][\A d \in Deliveries \ crossed' :
          row[d].status = "processing" /\ row'[d].status # "processing"
          => \E w \in Workers : /\ wk[w].pc \in {"complete", "failUpdate"}
                                /\ wk[w].d = d
                                /\ wk[w].granted = row[d].attempts
                                /\ wk'[w].pc = "idle"]_vars

\* A delivery is marked processed only after its handler succeeded or the burst
\* controller suppressed it; never because of a crash, an error or a replay.
ProcessedWasHandled ==
    \A d \in Deliveries :
        row[d].status = "processed" => hist[d] \cap {"ok", "coalesced"} # {}

\* A delivery is dead-lettered only after a handler failure on a claim that
\* used up MaxAttempts; one that waits for a retry has attempts left.
DeadLetterEarned ==
    \A d \in Deliveries :
        /\ row[d].status = "dead" =>
              row[d].attempts >= MaxAttempts /\ "failed" \in hist[d]
        /\ row[d].status = "retry_ready" => row[d].attempts < MaxAttempts

\* The burst controller never suppresses a delivery unless it has let one with
\* the same key through to its handler.
CoalescedBehindPassed ==
    \A d \in Deliveries :
        "coalesced" \in hist[d] =>
            \E p \in Deliveries :
                BurstKey[p] = BurstKey[d] /\ "passed" \in hist[p]

\* The burst map exceeds MaxEntries only while every key in it was seen within
\* the window: cleanup drops the older ones first.
OverflowOnlyInsideWindow ==
    [][\A h \in Hosts :
          LET present == {k \in Keys : burst'[h][k] # Null} IN
          burst'[h] # burst[h] /\ Cardinality(present) > MaxEntries
          => \A k \in present : now - burst'[h][k] <= Window]_vars

\* The statements of the ledger, interleaved in any way, implement the
\* lifecycle of DeliveryLifecycle.
Lifecycle == INSTANCE DeliveryLifecycle WITH
    state <- [d \in Deliveries |-> row[d].status],
    grants <- [d \in Deliveries |-> row[d].attempts]

ImplementsLifecycle == Lifecycle!LifecycleSpec

\* A delivery whose handler has failed is marked processed only after its
\* handler has succeeded: a retry is never dropped.
RetriedUntilHandled ==
    \A d \in Deliveries :
        row[d].status = "processed" /\ "failed" \in hist[d] => "ok" \in hist[d]

=============================================================================
