--------------------------- MODULE LifecycleOutbox ---------------------------
(***************************************************************************)
(* The lifecycle outbox: the SQL outbox (store/sql/outbox_store.go),       *)
(* OutboxDispatcher (core/outbox_dispatcher.go) run by concurrent          *)
(* dispatchers, and the projectors it drives                               *)
(* (core/lifecycle_projectors.go): the activity projector over the SQL     *)
(* activity store and the notifications projector over its dispatch ledger *)
(* (store/sql/notification_dispatch_store.go).                             *)
(*                                                                         *)
(* Backoff is abstracted to "not due yet": nothing in the outbox compares  *)
(* two times except next_attempt_at with the clock.                        *)
(***************************************************************************)
EXTENDS Integers, Sequences, FiniteSets

CONSTANTS
    Events,         \* lifecycle event IDs (event_id is UNIQUE)
    Dispatchers,    \* concurrent callers of DispatchPending
    Recipients,     \* what the recipient resolver returns for an event
    Projectors,     \* registered handlers, in the registry's order
    MaxAttempts,    \* OutboxDispatcherConfig.MaxAttempts
    BatchSize,      \* the limit of a ClaimBatch
    OccurredAt,     \* [Events -> Nat]
    MaxFaults,      \* bound: how many crashes and lost writes are considered
    None            \* no event, no recipient

ASSUME OutboxAssumption ==
    /\ None \notin Events \cup Recipients
    /\ Projectors \in Seq({"activity", "notify"})
    /\ MaxAttempts \in Nat \ {0}
    /\ BatchSize \in Nat \ {0}
    /\ OccurredAt \in [Events -> Nat]
    /\ MaxFaults \in Nat

VARIABLES
    row,        \* row[e]: the row of service_lifecycle_outbox
    dp,         \* dp[x]: where dispatcher x is in DispatchPending
    activity,   \* the event IDs that are primary keys of the activity table
    ledger,     \* ledger[e][r]: the notification dispatch row, by its key
    sends,      \* history: how often Send succeeded, per event and recipient
    faults      \* history: how many faults have happened

vars == <<row, dp, activity, ledger, sends, faults>>

-----------------------------------------------------------------------------
Statuses == {"none", "pending", "processing", "delivered", "failed"}

\* due: next_attempt_at is NULL or has passed.
Row == [status : Statuses, attempts : Nat, due : BOOLEAN]

NoRow == [status |-> "none", attempts |-> 0, due |-> FALSE]

PCs == {"idle", "pick", "project", "notify", "send", "record", "ack", "retry"}

\* A dispatcher's locals: the claimed events still to do, the current one, the
\* attempts that ClaimBatch copied into their metadata, the position in the
\* projectors, the recipients still to do, the current one, the send's outcome.
Locals == [pc : PCs, batch : SUBSET Events, cur : Events \cup {None},
           snap : [Events -> Nat], idx : Nat, todo : SUBSET Recipients,
           rcpt : Recipients \cup {None}, sent : {"sent", "failed"}]

Idle == [pc |-> "idle", batch |-> {}, cur |-> None,
         snap |-> [e \in Events |-> 0], idx |-> 0, todo |-> {},
         rcpt |-> None, sent |-> "sent"]

\* Dispatcher x has claimed event e and not yet acknowledged or returned it.
Held(x, e) == e \in dp[x].batch \/ dp[x].cur = e

OutboxInit ==
    /\ row = [e \in Events |-> NoRow]
    /\ dp = [x \in Dispatchers |-> Idle]
    /\ activity = {}
    /\ ledger = [e \in Events |-> [r \in Recipients |-> "none"]]
    /\ sends = [e \in Events |-> [r \in Recipients |-> 0]]
    /\ faults = 0

\* Dispatcher x goes on with the locals l.
Goto(x, l) == dp' = [dp EXCEPT ![x] = l]

-----------------------------------------------------------------------------
\* ExecutePreCommitAndEnqueue, when the pre-commit hooks agree; a second insert
\* of an event ID violates the unique index.
Enqueue(e) ==
    /\ row[e].status = "none"
    /\ row' = [row EXCEPT ![e] = [status |-> "pending", attempts |-> 0, due |-> TRUE]]
    /\ UNCHANGED <<dp, activity, ledger, sends, faults>>

\* Time passes next_attempt_at.
BecomesDue(e) ==
    /\ row[e].status = "pending" /\ ~row[e].due
    /\ row' = [row EXCEPT ![e].due = TRUE]
    /\ UNCHANGED <<dp, activity, ledger, sends, faults>>

\* Mutated form: rows that are being processed are claimed as well.
Claimable_Processing(r) == r.status = "processing" \/ (r.status = "pending" /\ r.due)

\* The WHERE clause of the claiming statement.
Claimable(r) == r.status = "pending" /\ r.due

\* The batches ClaimBatch may return: the oldest due rows, up to the limit, and
\* fewer when a concurrent claim takes some of the rows it selected.
Batches ==
    LET due == {e \in Events : Claimable(row[e])} IN
    {S \in SUBSET due :
        /\ Cardinality(S) <= BatchSize
        /\ \A e \in S, f \in due \ S : OccurredAt[e] <= OccurredAt[f]}

\* One statement selects, marks and returns the batch.
ClaimBatch(x) ==
    /\ dp[x].pc = "idle"
    /\ \E S \in Batches \ {{}} :
        /\ row' = [e \in Events |->
                    IF e \in S THEN [row[e] EXCEPT !.status = "processing"]
                               ELSE row[e]]
        /\ Goto(x, [Idle EXCEPT
                    !.pc = "pick", !.batch = S,
                    !.snap = [e \in Events |-> IF e \in S THEN row[e].attempts ELSE 0]])
    /\ UNCHANGED <<activity, ledger, sends, faults>>

\* The loop over the batch, in the unspecified order of RETURNING.
Pick(x) ==
    /\ dp[x].pc = "pick"
    /\ \E e \in dp[x].batch :
        Goto(x, [dp[x] EXCEPT
                    !.cur = e, !.batch = @ \ {e}, !.idx = 1,
                    !.pc = IF Len(Projectors) = 0 THEN "retry" ELSE "project"])
    /\ UNCHANGED <<row, activity, ledger, sends, faults>>

\* Dispatcher x is done with its current event.
NextEvent(x) ==
    Goto(x, IF dp[x].batch = {} THEN Idle
            ELSE [Idle EXCEPT !.pc = "pick", !.batch = dp[x].batch,
                              !.snap = dp[x].snap])

\* The current handler returned nil, or an error.
HandlerDone(x) ==
    IF dp[x].idx < Len(Projectors)
    THEN Goto(x, [dp[x] EXCEPT !.pc = "project", !.idx = @ + 1])
    ELSE Goto(x, [dp[x] EXCEPT !.pc = "ack"])

\* Mutated form: a projector's error is logged and forgotten.
HandlerFailed(x) ==
    Goto(x, [dp[x] EXCEPT !.pc = "retry", !.todo = {}, !.rcpt = None])

-----------------------------------------------------------------------------
\* LifecycleActivityProjector.Handle: one INSERT with the event's ID as primary
\* key, which fails if the entry is there, or because the store does.
ProjectActivity(x) ==
    /\ dp[x].pc = "project" /\ Projectors[dp[x].idx] = "activity"
    /\ \/ /\ dp[x].cur \notin activity
          /\ activity' = activity \cup {dp[x].cur}
          /\ HandlerDone(x)
       \/ HandlerFailed(x) /\ UNCHANGED activity
    /\ UNCHANGED <<row, ledger, sends, faults>>

\* GoNotificationsProjector.Handle: the resolvers name the recipients (no
\* definition, or no recipient, is an empty set of them) or fail.
ProjectNotify(x) ==
    /\ dp[x].pc = "project" /\ Projectors[dp[x].idx] = "notify"
    /\ \/ Goto(x, [dp[x] EXCEPT !.pc = "notify", !.todo = Recipients])
       \/ HandlerFailed(x)
    /\ UNCHANGED <<row, activity, ledger, sends, faults>>

\* Mutated form: the ledger is not consulted.
Seen_Never(e, r) == FALSE

\* NotificationDispatchLedger.Seen: a row with the key exists, whatever its
\* status.
Seen(e, r) == ledger[e][r] # "none"

\* The loop over the recipients: skip those Seen, send to the others.
NotifyNext(x) ==
    /\ dp[x].pc = "notify"
    /\ \/ dp[x].todo = {} /\ HandlerDone(x)
       \/ \E r \in dp[x].todo :
            IF Seen(dp[x].cur, r)
              THEN Goto(x, [dp[x] EXCEPT !.todo = @ \ {r}])
              ELSE Goto(x, [dp[x] EXCEPT !.pc = "send", !.rcpt = r,
                                         !.todo = @ \ {r}])
       \/ dp[x].todo # {} /\ HandlerFailed(x)
    /\ UNCHANGED <<row, activity, ledger, sends, faults>>

\* NotificationSender.Send (the application's) succeeds or fails.
Send(x) ==
    /\ dp[x].pc = "send"
    /\ \/ /\ Goto(x, [dp[x] EXCEPT !.pc = "record", !.sent = "sent"])
          /\ sends' = [sends EXCEPT ![dp[x].cur][dp[x].rcpt] = @ + 1]
       \/ /\ Goto(x, [dp[x] EXCEPT !.pc = "record", !.sent = "failed"])
          /\ UNCHANGED sends
    /\ UNCHANGED <<row, activity, ledger, faults>>

\* Ledger.Record; the unique key makes a second record of it a no-op.  Then a
\* failed send fails the handler.
Record(x) ==
    /\ dp[x].pc = "record"
    /\ ledger' = IF Seen(dp[x].cur, dp[x].rcpt) THEN ledger
                 ELSE [ledger EXCEPT ![dp[x].cur][dp[x].rcpt] = dp[x].sent]
    /\ IF dp[x].sent = "failed"
         THEN HandlerFailed(x)
         ELSE Goto(x, [dp[x] EXCEPT !.pc = "notify", !.rcpt = None])
    /\ UNCHANGED <<row, activity, sends, faults>>

-----------------------------------------------------------------------------
\* OutboxStore.Ack.
AckedRow(r) == [status |-> "delivered", attempts |-> r.attempts, due |-> FALSE]

Ack(x) ==
    /\ dp[x].pc = "ack"
    /\ LET e == dp[x].cur IN row' = [row EXCEPT ![e] = AckedRow(row[e])]
    /\ NextEvent(x)
    /\ UNCHANGED <<activity, ledger, sends, faults>>

\* Mutated form: the limit is compared with the attempts already counted.
\* retryEvent: whether this was the last attempt.
Exhausted(attempt) == attempt + 1 >= MaxAttempts

\* Mutated forms: a retried event keeps its attempts; another store's word.
RetriedRow_NotCounted(r, attempt) ==
    [status |-> IF Exhausted(attempt) THEN "failed" ELSE "pending",
     attempts |-> r.attempts, due |-> FALSE]
\* OutboxStore.Retry, as retryEvent calls it: without a next attempt the event
\* is failed, and otherwise pending again after its backoff.
RetriedRow(r, attempt) ==
    [status |-> IF Exhausted(attempt) THEN "failed" ELSE "pending",
     attempts |-> r.attempts + 1, due |-> FALSE]

Retry(x) ==
    /\ dp[x].pc = "retry"
    /\ LET e == dp[x].cur IN
       row' = [row EXCEPT ![e] = RetriedRow(row[e], dp[x].snap[e])]
    /\ NextEvent(x)
    /\ UNCHANGED <<activity, ledger, sends, faults>>

-----------------------------------------------------------------------------
\* Faults.  Ack or Retry fails: DispatchPending goes on with the next event.
SettleError(x) ==
    /\ dp[x].pc \in {"ack", "retry"}
    /\ NextEvent(x)
    /\ UNCHANGED <<row, activity, ledger, sends>>

\* Ledger.Record fails: the handler fails, with nothing recorded.
RecordError(x) ==
    /\ dp[x].pc = "record"
    /\ HandlerFailed(x)
    /\ UNCHANGED <<row, activity, ledger, sends>>

\* The process dies with its batch.
Crash(x) ==
    /\ dp[x].pc # "idle"
    /\ Goto(x, Idle)
    /\ UNCHANGED <<row, activity, ledger, sends>>

Fault(x) ==
    /\ faults < MaxFaults
    /\ faults' = faults + 1
    /\ SettleError(x) \/ RecordError(x) \/ Crash(x)

Work(x) ==
    \/ ClaimBatch(x)
    \/ Pick(x)
    \/ ProjectActivity(x)
    \/ ProjectNotify(x)
    \/ NotifyNext(x)
    \/ Send(x)
    \/ Record(x)
    \/ Ack(x)
    \/ Retry(x)

OutboxNext ==
    \/ \E e \in Events : Enqueue(e) \/ BecomesDue(e)
    \/ \E x \in Dispatchers : Work(x) \/ Fault(x)

OutboxSpec == OutboxInit /\ [][OutboxNext]_vars

\* Dispatchers are scheduled again and again, their calls return, time passes.
Fairness ==
    /\ \A x \in Dispatchers : WF_vars(Work(x))
    /\ \A e \in Events : WF_vars(BecomesDue(e))

FairOutboxSpec == OutboxSpec /\ Fairness

-----------------------------------------------------------------------------
\* Every variable has its type.
TypeOK ==
    /\ row \in [Events -> Row]
    /\ dp \in [Dispatchers -> Locals]
    /\ activity \in SUBSET Events
    /\ ledger \in [Events -> [Recipients -> {"none", "sent", "failed"}]]
    /\ sends \in [Events -> [Recipients -> Nat]]
    /\ faults \in Nat

\* A claimed event has one owner, and its row stays "processing" with the
\* attempts the owner copied: what makes Ack and Retry safe, whose UPDATEs check
\* neither the status nor the owner.
SingleOwner ==
    \A x \in Dispatchers, e \in Events :
        Held(x, e) =>
            /\ row[e].status = "processing"
            /\ dp[x].snap[e] = row[e].attempts
            /\ \A y \in Dispatchers \ {x} : ~Held(y, e)

\* A delivered or failed row is never written again, though Ack and Retry write
\* whatever row has the event's ID.
SettledForGood ==
    [][\A e \in Events :
          row[e].status \in {"delivered", "failed"} => row'[e] = row[e]]_vars

\* An event is failed exactly when its MaxAttempts attempts are used up; one
\* that may be claimed again has some left.
FailedAtMaxAttempts ==
    \A e \in Events :
        /\ row[e].status = "failed" => row[e].attempts = MaxAttempts
        /\ row[e].status \in {"pending", "processing"} => row[e].attempts < MaxAttempts

\* The dispatch ledger prevents duplicates: across retries and dispatchers, a
\* recipient gets an event again only through a fault between Send and Record.
DuplicateSendsNeedFaults ==
    \A e \in Events, r \in Recipients : sends[e][r] <= 1 + faults

\* A delivered event has been through every registered projector: its activity
\* entry is stored, and a send to each recipient has been recorded.
DeliveredWasProjected ==
    \A e \in Events :
        row[e].status = "delivered" =>
            \A i \in 1..Len(Projectors) :
                /\ Projectors[i] = "activity" => e \in activity
                /\ Projectors[i] = "notify" => \A r \in Recipients : Seen(e, r)

\* Every enqueued event is delivered or failed in the end: DispatchPending,
\* called again and again, leaves none behind.
EventuallySettled ==
    \A e \in Events :
        row[e].status = "pending" ~> row[e].status \in {"delivered", "failed"}

\* A delivered event has been sent to every recipient.
NotifiedWhenDelivered ==
    \A e \in Events :
        row[e].status = "delivered" => \A r \in Recipients : sends[e][r] > 0

=============================================================================
