----------------------------- MODULE MCProgress -----------------------------
(***************************************************************************)
(* What must happen in the end, for TLC: lifecycle dispatch, refreshes,    *)
(* sync runs, provider operations and the activity sink, each with the     *)
(* fairness of its module. A behaviour takes the steps of one of them,     *)
(* chosen at the start, and the others keep their initial state; fairness  *)
(* is asked of the steps of that one. No symmetry.                         *)
(***************************************************************************)
EXTENDS TLC, Integers, Sequences

CONSTANTS x1, x2, v1, c1, e1, e2, r1, NoID, none

VARIABLES
    part,   \* the component whose steps this behaviour takes
    ob_row, ob_dp, ob_activity, ob_ledger, ob_sends, ob_faults, rf_lock,
    rf_conn, rf_creds, rf_token, rf_rf, rf_rv, rf_cb, rf_revokes, rf_stolen,
    rf_disturbed, sr_log, sr_latest, sr_saved, sr_run, sr_failed, sr_faults,
    po_provider, po_now, po_row, po_cache, po_at, po_faults, po_applied,
    po_ver, po_asked, po_disturbed, po_tainted, as_clock, as_queue, as_worker,
    as_stopped, as_closer, as_rows, as_fallback, as_faults, as_prune, as_list,
    as_accepted, as_lost

obVars == <<ob_row, ob_dp, ob_activity, ob_ledger, ob_sends, ob_faults>>
rfVars == <<rf_lock, rf_conn, rf_creds, rf_token, rf_rf, rf_rv, rf_cb,
            rf_revokes, rf_stolen, rf_disturbed>>
srVars == <<sr_log, sr_latest, sr_saved, sr_run, sr_failed, sr_faults>>
poVars == <<po_provider, po_now, po_row, po_cache, po_at, po_faults,
            po_applied, po_ver, po_asked, po_disturbed, po_tainted>>
asVars == <<as_clock, as_queue, as_worker, as_stopped, as_closer, as_rows,
            as_fallback, as_faults, as_prune, as_list, as_accepted, as_lost>>

Reply(status, headers, resetIn) ==
    [status |-> status, headers |-> headers, resetIn |-> resetIn]
TwoReplies ==
    {Reply(200, "x-ratelimit-remaining" :> 0, 2),
     Reply(429, [h \in {} |-> 0], -1)}

\* Two dispatchers, batches of one event, no faults.
Outbox == INSTANCE LifecycleOutbox WITH
    Events <- {e1, e2}, Dispatchers <- {x1, x2}, Recipients <- {r1},
    Projectors <- <<"activity", "notify">>, MaxAttempts <- 3, BatchSize <- 1,
    OccurredAt <- e1 :> 1 @@ e2 :> 2, MaxFaults <- 0, None <- none,
    row <- ob_row, dp <- ob_dp, activity <- ob_activity, ledger <- ob_ledger,
    sends <- ob_sends, faults <- ob_faults

\* One refresher beside a revoker, a callback and crashes.
Refresh == INSTANCE ConnectionRefresh WITH
    Refreshers <- {x1}, Revokers <- {v1}, Callbacks <- {c1}, MaxAttempts <- 2,
    None <- none, MaxToken <- 2, MaxRevokes <- 1,
    lock <- rf_lock, conn <- rf_conn, creds <- rf_creds, token <- rf_token,
    rf <- rf_rf, rv <- rf_rv, cb <- rf_cb, revokes <- rf_revokes,
    stolen <- rf_stolen, disturbed <- rf_disturbed

\* Two scheduled runners and a fault, batches of two changes.
Runs == INSTANCE SyncRun WITH
    Runners <- {x1, x2}, Feed <- <<"a", "b", "c", NoID>>, Limit <- 2,
    MaxRunFaults <- 1,
    log <- sr_log, latest <- sr_latest, saved <- sr_saved, run <- sr_run,
    failed <- sr_failed, runFaults <- sr_faults

\* Two operations; a refusal, and a success that exhausts the quota.
Calls == INSTANCE ProviderOperation WITH
    Ops <- {x1, x2}, Providers <- {"generic"}, Replies <- TwoReplies,
    HeaderForms <- {"absent"}, PolicyInitialBackoff <- 1,
    PolicyMaxBackoff <- 2, MaxAttempts <- 2, InitialBackoff <- 1,
    MaxBackoff <- 1, MaxClock <- 0, MaxFaults <- 0,
    provider <- po_provider, now <- po_now, row <- po_row, cache <- po_cache,
    at <- po_at, faults <- po_faults, applied <- po_applied, ver <- po_ver,
    asked <- po_asked, disturbed <- po_disturbed, tainted <- po_tainted

\* A queue of one, a fallback, failing writes and two callers of Close.
Sink == INSTANCE ActivitySink WITH
    Entries <- {1, 2, 3}, Invalid <- {3}, Closers <- {x1, x2},
    HasFallback <- TRUE, BufferSize <- 1, ActivityTTL <- 2, RowCap <- 2,
    PerPage <- 1, ActivityUnset <- none, MaxActivityClock <- 1,
    MaxActivityFaults <- 2, MaxPrunes <- 0, MaxLists <- 0,
    clock <- as_clock, queue <- as_queue, worker <- as_worker,
    stopped <- as_stopped, closer <- as_closer, activityRows <- as_rows,
    fallback <- as_fallback, activityFaults <- as_faults, prune <- as_prune,
    list <- as_list, accepted <- as_accepted, lost <- as_lost

-----------------------------------------------------------------------------
allVars == <<part, obVars, rfVars, srVars, poVars, asVars>>

ComposedInit ==
    /\ part \in {"outbox", "refresh", "runs", "calls", "sink"}
    /\ Outbox!OutboxInit
    /\ Refresh!RefreshInit
    /\ Runs!RunInit
    /\ Calls!Init
    /\ Sink!ActivityInit

OutboxOnly ==
    /\ part = "outbox"
    /\ UNCHANGED <<part, rfVars, srVars, poVars, asVars>>

RefreshOnly ==
    /\ part = "refresh"
    /\ UNCHANGED <<part, obVars, srVars, poVars, asVars>>

RunsOnly ==
    /\ part = "runs"
    /\ UNCHANGED <<part, obVars, rfVars, poVars, asVars>>

CallsOnly ==
    /\ part = "calls"
    /\ UNCHANGED <<part, obVars, rfVars, srVars, asVars>>

SinkOnly ==
    /\ part = "sink"
    /\ UNCHANGED <<part, obVars, rfVars, srVars, poVars>>

ComposedNext ==
    \/ OutboxOnly /\ Outbox!OutboxNext
    \/ RefreshOnly /\ Refresh!RefreshNext
    \/ RunsOnly /\ Runs!ScheduledNext
    \/ CallsOnly /\ Calls!Next
    \/ SinkOnly /\ Sink!ActivityNext

\* Dispatchers are scheduled again and again and time passes; goroutines go on
\* and calls return; a scheduler keeps planning sync runs; a closed channel
\* stays ready, so a select that keeps being offered it takes it in the end.
ComposedFairness ==
    /\ \A x \in {x1, x2} : WF_allVars(OutboxOnly /\ Outbox!Work(x))
    /\ \A e \in {e1, e2} : WF_allVars(OutboxOnly /\ Outbox!BecomesDue(e))
    /\ WF_allVars(RefreshOnly /\ Refresh!Step(x1))
    /\ \A r \in {x1, x2} :
          WF_allVars(RunsOnly /\ (\/ Runs!Plan(r, "apply", sr_latest)
                                  \/ Runs!Step(r)))
    /\ WF_allVars(CallsOnly /\ Calls!Tick)
    /\ \A o \in {x1, x2} : WF_allVars(CallsOnly /\ Calls!Step(o))
    /\ WF_allVars(SinkOnly /\ Sink!Take)
    /\ WF_allVars(SinkOnly /\ Sink!StoreRecord)
    /\ WF_allVars(SinkOnly /\ Sink!FallbackRecord)
    /\ SF_allVars(SinkOnly /\ Sink!Stop)
    /\ \A c \in {x1, x2} : WF_allVars(SinkOnly /\ Sink!Closed(c))

ComposedSpec ==
    ComposedInit /\ [][ComposedNext]_allVars /\ ComposedFairness

ASSUME InstancesAdmissible ==
    /\ Outbox!OutboxAssumption /\ Refresh!RefreshAssumption
    /\ Runs!SyncRunAssumption /\ Calls!ProviderOperationAssumption
    /\ Calls!RateLimitAssumption /\ Sink!ActivitySinkAssumption

-----------------------------------------------------------------------------
(* Properties. *)

\* Every enqueued event is delivered or failed in the end: DispatchPending,
\* called again and again, leaves none behind.
EventuallySettled == part = "outbox" => Outbox!EventuallySettled

\* A refresh, with all its retries, ends.
RefreshEnds == part = "refresh" => Refresh!RefreshEnds

\* As long as some runner goes on from the latest checkpoint and faults are
\* finite, every change is logged, up to the first one without an external
\* ID.
EventuallyLogged == part = "runs" => Runs!EventuallyLogged

\* Every provider operation returns: retries, throttling and backoff end.
Returns == part = "calls" => Calls!Returns

\* An accepted activity entry reaches a sink, or both refuse it, unless the
\* sink is closed first; and Close returns to every caller.
SinkSettles == part = "sink" => Sink!SinkSettles

=============================================================================
