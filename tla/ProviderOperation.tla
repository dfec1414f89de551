-------------------------- MODULE ProviderOperation -------------------------
(***************************************************************************)
(* ExecuteProviderOperation (core/provider_operation_runtime.go): each     *)
(* attempt asks the rate-limit policy, signs, calls the provider, records  *)
(* the reply with the policy and retries or returns.  The operations here  *)
(* run concurrently on one rate-limit key.  The policy's state is read and *)
(* written through the cached store                                        *)
(* (store/sql/cached_rate_limit_state_store.go): a read-through cache in   *)
(* front of the SQL row, emptied after every write.                        *)
(*                                                                         *)
(* The provider, the cache service and the database are modelled as the    *)
(* code uses them.  The provider applies an operation once per value of    *)
(* the Idempotency-Key header.                                             *)
(***************************************************************************)
EXTENDS RateLimit

CONSTANTS
    Ops,                \* concurrent operations
    Providers,          \* whose normalizers ProviderOperationRequest.Normalize may be
    Replies,            \* what the provider may answer: [status, headers, resetIn]
    HeaderForms,        \* how the request spells Idempotency-Key, if at all
    MaxAttempts,        \* ProviderOperationRetryPolicy.MaxAttempts
    InitialBackoff,     \* ProviderOperationRetryPolicy.InitialBackoff
    MaxBackoff,         \* ProviderOperationRetryPolicy.MaxBackoff
    MaxClock,           \* bound: how far the clock runs on its own
    MaxFaults           \* bound: how many calls to a store, cache or provider fail

ASSUME ProviderOperationAssumption ==
    /\ MaxAttempts \in Nat \ {0}
    /\ InitialBackoff \in Nat \ {0} /\ MaxBackoff \in Nat \ {0}
    /\ MaxClock \in Nat /\ MaxFaults \in Nat
    /\ HeaderForms \subseteq {"absent", "canonical", "lowercase"}
    /\ \A r \in Replies : /\ r.status \in Nat /\ r.resetIn \in Int
                          /\ \A h \in DOMAIN r.headers : r.headers[h] \in Int

VARIABLES
    provider,   \* the provider of the operations
    now,        \* the clock
    row,        \* the service_rate_limit_state row, as a set of at most one
    cache,      \* the cached state, as a set of at most one [state, ver]
    at,         \* at[o]: where operation o is
    faults,     \* how many calls have failed
    applied,    \* applied[o]: the keys under which the provider applied o
    ver,        \* history: how many times the row has been written
    asked,      \* history: until when recorded replies asked callers to wait
    disturbed,  \* history: since `asked' was passed, two attempts have overlapped
                \* or the cache was tainted
    tainted     \* history: the cache holds what a late fill or failed delete left

vars == <<provider, now, row, cache, at, faults, applied, ver, asked, disturbed,
          tainted>>

-----------------------------------------------------------------------------
RetryableStatusCodes == {429, 500, 502, 503, 504}

NoMeta == [status |-> 0, headers |-> NoHeaders, retryAfter |-> None]

\* An operation's locals.  `hook' is the policy call in progress, `state' and
\* `read' what its Get returned and at which version, `start' the policy's now.
Idle == [pc |-> "idle", header |-> "absent", attempt |-> 1, hook |-> "before",
         meta |-> NoMeta, start |-> 0, state |-> NewState, read |-> 0,
         wake |-> 0, result |-> "none"]

Init ==
    /\ provider \in Providers
    /\ now = 0 /\ row = {} /\ cache = {}
    /\ at = [o \in Ops |-> Idle]
    /\ faults = 0 /\ applied = [o \in Ops |-> {}]
    /\ ver = 0 /\ asked = 0 /\ disturbed = FALSE /\ tainted = FALSE

Active(o) == at[o].pc \notin {"idle", "sleep", "done"}

\* Every step of an operation records whether another attempt is under way and
\* whether the cache can be trusted.
Goto(o, locals) ==
    /\ at' = [at EXCEPT ![o] = locals]
    /\ disturbed' = (disturbed \/ tainted \/ \E p \in Ops \ {o} : Active(p))

Return(o, result) ==
    Goto(o, [Idle EXCEPT !.pc = "done", !.result = result, !.header = at[o].header])

Fault == faults < MaxFaults /\ faults' = faults + 1

\* resolveProviderOperationRequest: the key is the caller's or a digest of the
\* request, fixed before the first attempt.
Begin(o, header) ==
    /\ at[o].pc = "idle"
    /\ Goto(o, [Idle EXCEPT !.pc = "get", !.header = header])
    /\ UNCHANGED <<provider, now, row, cache, faults, applied, ver, asked, tainted>>

\* defaultRetryDelayForAttempt.
RetryDelay(attempt, meta) ==
    IF meta.retryAfter > 0 THEN meta.retryAfter
    ELSE Backoff(InitialBackoff, MaxBackoff, attempt)

\* shouldRetryProviderOperation with the default policy, and what follows it:
\* sleep and go round, or return.
RetryOr(o, retryable, meta, result) ==
    IF at[o].attempt < MaxAttempts /\ retryable
    THEN Goto(o, [Idle EXCEPT !.pc = "sleep", !.header = at[o].header,
                              !.attempt = at[o].attempt,
                              !.wake = now + RetryDelay(at[o].attempt, meta)])
    ELSE Return(o, result)

\* sleepProviderRetry returns: the next attempt.
Wake(o) ==
    /\ at[o].pc = "sleep" /\ now >= at[o].wake
    /\ Goto(o, [Idle EXCEPT !.pc = "get", !.header = at[o].header,
                            !.attempt = at[o].attempt + 1])
    /\ UNCHANGED <<provider, now, row, cache, faults, applied, ver, asked, tainted>>

\* The context is cancelled while the operation sleeps or calls.
Cancel(o) ==
    /\ at[o].pc \in {"sleep", "send"}
    /\ Fault
    /\ Return(o, "cancelled")
    /\ UNCHANGED <<provider, now, row, cache, applied, ver, asked, tainted>>

-----------------------------------------------------------------------------
(* The policy's Get, through the cache.                                     *)

\* What BeforeCall or AfterCall does with the state it got; with no state,
\* BeforeCall lets the call through and AfterCall starts from NewState.
Loaded_Polls(o, state, read) ==
    IF at[o].hook = "after"
    THEN Goto(o, [at[o] EXCEPT !.pc = "write", !.read = read,
                               !.state = AfterCall(state, at[o].meta, at[o].start)])
    ELSE IF read > 0 /\ Blocked(state, now)
    THEN Goto(o, [at[o] EXCEPT !.pc = "get"])
    ELSE Goto(o, [at[o] EXCEPT !.pc = "send", !.state = NewState, !.read = 0])

Loaded(o, state, read) ==
    IF at[o].hook = "after"
    THEN Goto(o, [at[o] EXCEPT !.pc = "write", !.read = read,
                               !.state = AfterCall(state, at[o].meta, at[o].start)])
    ELSE IF read > 0 /\ Blocked(state, now)
    THEN RetryOr(o, TRUE, NoMeta, "throttled")
    ELSE Goto(o, [at[o] EXCEPT !.pc = "send", !.state = NewState, !.read = 0])

GetHit(o) ==
    /\ at[o].pc = "get"
    /\ \E entry \in cache : Loaded(o, entry.state, entry.ver)
    /\ UNCHANGED <<provider, now, row, cache, faults, applied, ver, asked, tainted>>

\* A miss reads the row; ErrStateNotFound is not cached.
GetMiss(o) ==
    /\ at[o].pc = "get" /\ cache = {}
    /\ \/ row = {} /\ Loaded(o, NewState, 0)
       \/ \E r \in row : Goto(o, [at[o] EXCEPT !.pc = "fill", !.state = toDomain(r),
                                               !.read = ver])
    /\ UNCHANGED <<provider, now, row, cache, faults, applied, ver, asked, tainted>>

\* The cache service stores what it fetched, whatever happened meanwhile.
Fill(o) ==
    /\ at[o].pc = "fill"
    /\ cache' = {[state |-> at[o].state, ver |-> at[o].read]}
    /\ tainted' = (at[o].read # ver)
    /\ Loaded(o, at[o].state, at[o].read)
    /\ UNCHANGED <<provider, now, row, faults, applied, ver, asked>>

GetFails(o) ==
    /\ at[o].pc = "get"
    /\ Fault
    /\ RetryOr(o, TRUE, IF at[o].hook = "after" THEN at[o].meta ELSE NoMeta, "failed")
    /\ UNCHANGED <<provider, now, row, cache, applied, ver, asked, tainted>>

-----------------------------------------------------------------------------
(* The call.                                                                *)

\* What reaches the provider as Idempotency-Key.  The runtime adds its key under
\* the canonical name unless that exact name is present; net/http folds the
\* spellings together, and the one the map yields last wins.
WireKeys_PerAttempt(o) ==
    IF at[o].header = "absent" THEN {<<"digest", at[o].attempt>>}
    ELSE {<<"header", 1>>}

WireKeys(o) ==
    CASE at[o].header = "absent" -> {<<"digest", 1>>}
      [] at[o].header = "canonical" -> {<<"header", 1>>}
      [] at[o].header = "lowercase" -> {<<"digest", 1>>, <<"header", 1>>}

\* signProviderTransportRequest fails: no retry.
SignFails(o) ==
    /\ at[o].pc = "send"
    /\ Fault
    /\ Return(o, "failed")
    /\ UNCHANGED <<provider, now, row, cache, applied, ver, asked, tainted>>

\* The provider applies the operation and succeeds, or fails after or before
\* applying it; a throttled or refused call is not applied.
MayApply(status) ==
    IF status < 400 THEN {TRUE} ELSE IF status >= 500 THEN {TRUE, FALSE} ELSE {FALSE}

ReplyAt(reply) ==
    [status |-> reply.status,
     headers |-> IF reply.resetIn = None THEN reply.headers
                 ELSE Set(Header("x-ratelimit-reset", now + reply.resetIn), reply.headers)]

Do(o, reply) ==
    /\ at[o].pc = "send"
    /\ \E key \in WireKeys(o), apply \in MayApply(reply.status) :
          applied' = [applied EXCEPT ![o] = IF apply THEN @ \union {key} ELSE @]
    /\ Goto(o, [at[o] EXCEPT !.pc = "get", !.hook = "after", !.start = now,
                             !.meta = Normalize(provider, ReplyAt(reply))])
    /\ UNCHANGED <<provider, now, row, cache, faults, ver, asked, tainted>>

\* The adapter's error: the request or the reply was lost.
DoFails(o) ==
    /\ at[o].pc = "send"
    /\ Fault
    /\ \E key \in WireKeys(o), apply \in BOOLEAN :
          applied' = [applied EXCEPT ![o] = IF apply THEN @ \union {key} ELSE @]
    /\ RetryOr(o, TRUE, NoMeta, "failed")
    /\ UNCHANGED <<provider, now, row, cache, ver, asked, tainted>>

-----------------------------------------------------------------------------
(* AfterCall's write, through the cache.                                    *)

\* Until when a reply asks callers to wait, by its own words: a 429 or an
\* exhausted quota with a delay or a reset time.
Asks(o) ==
    LET meta == at[o].meta
        exhausted == HeaderOr(meta.headers, "x-ratelimit-remaining", 1) = 0
        waits == {t \in {at[o].start + HeaderOr(meta.headers, "retry-after", 0),
                         IF exhausted THEN HeaderOr(meta.headers, "x-ratelimit-reset", 0)
                                      ELSE 0,
                         IF meta.status = 429 THEN at[o].start + 1 ELSE 0} : t > 0}
    IN  IF meta.status = 429 \/ (exhausted /\ meta.status < 500)
        THEN CHOOSE t \in waits \union {0} : \A u \in waits : u <= t ELSE 0

\* RateLimitStateStore.Upsert: one row per key, the last write wins.
Upsert(o) ==
    /\ at[o].pc = "write"
    /\ row' = {rateLimitStateFromDomain(at[o].state)}
    /\ ver' = ver + 1
    /\ asked' = IF Asks(o) > asked THEN Asks(o) ELSE asked
    /\ Goto(o, [at[o] EXCEPT !.pc = "invalidate", !.state = NewState, !.read = 0, !.start = 0])
    /\ UNCHANGED <<provider, now, cache, faults, applied, tainted>>

\* The last decision of an attempt, on the reply's status.
Decide(o) ==
    RetryOr(o, at[o].meta.status \in RetryableStatusCodes, at[o].meta,
            IF at[o].meta.status >= 400 THEN "failed" ELSE "ok")

\* CachedRateLimitStateStore.Upsert deletes the entry after the write.
Invalidate(o) ==
    /\ at[o].pc = "invalidate"
    /\ cache' = {} /\ tainted' = FALSE
    /\ Decide(o)
    /\ UNCHANGED <<provider, now, row, faults, applied, ver, asked>>

\* The write or the delete fails: AfterCall returns the error, and the attempt is
\* made again whatever the reply was.
AfterFails(o) ==
    /\ at[o].pc \in {"write", "invalidate"}
    /\ Fault
    /\ tainted' = (tainted \/ (at[o].pc = "invalidate" /\ cache # {}))
    /\ RetryOr(o, TRUE, at[o].meta, "failed")
    /\ UNCHANGED <<provider, now, row, cache, applied, ver, asked>>

-----------------------------------------------------------------------------
\* The cache entry's time to live runs out.
Expire ==
    /\ cache # {} /\ cache' = {} /\ tainted' = FALSE
    /\ UNCHANGED <<provider, now, row, at, faults, applied, ver, asked, disturbed>>

\* Time passes, up to the bound or as long as someone sleeps.
Tick ==
    /\ now < MaxClock \/ \E o \in Ops : at[o].pc = "sleep" /\ now < at[o].wake
    /\ now' = now + 1
    /\ disturbed' = (disturbed /\ ~(/\ now' >= asked /\ ~tainted
                                       /\ \A o \in Ops : ~Active(o)))
    /\ UNCHANGED <<provider, row, cache, at, faults, applied, ver, asked, tainted>>

Step(o) ==
    \/ \E header \in HeaderForms : Begin(o, header)
    \/ Wake(o) \/ GetHit(o) \/ GetMiss(o) \/ Fill(o)
    \/ \E reply \in Replies : Do(o, reply)
    \/ Upsert(o) \/ Invalidate(o)

Fails(o) == Cancel(o) \/ GetFails(o) \/ SignFails(o) \/ DoFails(o) \/ AfterFails(o)

\* Every operation has returned.
Finished == (\A o \in Ops : at[o].pc = "done") /\ UNCHANGED vars

Next == (\E o \in Ops : Step(o) \/ Fails(o)) \/ Expire \/ Tick \/ Finished

Spec == Init /\ [][Next]_vars

\* Every operation's goroutine keeps running, the provider's client has a timeout
\* (transport/rest_adapter.go), and time passes.
FairSpec == Spec /\ WF_vars(Tick) /\ \A o \in Ops : WF_vars(Step(o))

-----------------------------------------------------------------------------
(* Properties.                                                              *)

\* The cache holds an outdated state only between a write and its delete, or
\* after a fill that overtook one or a delete that failed.
CacheFresh ==
    \A entry \in cache :
       entry.ver # ver => tainted \/ \E o \in Ops : at[o].pc = "invalidate"

\* BeforeCall and AfterCall keep a provider's word: as long as attempts do not
\* overlap and no cache delete fails, no call goes out before the time that
\* recorded replies asked for, whatever the order of replies, retries, cache hits,
\* misses and expiries.  The cache is outdated only in named cases.
SerialCallsWait ==
    [][/\ \A o \in Ops : (at[o].pc = "get" \/ at[o].pc = "fill") /\ at'[o].pc = "send"
                         /\ ~disturbed' => now >= asked
       /\ CacheFresh']_vars

\* The provider applies an operation at most once, however often it is retried
\* after lost replies, server errors and failed bookkeeping, unless the caller
\* spelled the header in another case.
AppliedOnce ==
    \A o \in Ops : at[o].header # "lowercase" => \A x, y \in applied[o] : x = y

\* An operation that the provider has answered with success goes to sleep for
\* another attempt only in a step in which a call of the policy's store failed.
AgainByFault ==
    \A o \in Ops :
       at[o].hook = "after" /\ at[o].meta.status < 400 /\ at'[o].pc = "sleep"
          => faults' > faults

\* shouldRetryProviderOperation counts: no attempt beyond MaxAttempts is begun.
WithinAttempts == \A o \in Ops : at[o].attempt <= MaxAttempts

\* An operation that the provider has answered with success is sent again only
\* because recording the reply failed, it returns within the attempts it was
\* given, and however often it was sent it is applied once.
RetriesEnd == [][AgainByFault /\ WithinAttempts' /\ AppliedOnce']_vars

\* Every operation returns: retries, throttling and backoff end.
Returns == \A o \in Ops : (at[o].pc # "idle") ~> (at[o].pc = "done")
=============================================================================
