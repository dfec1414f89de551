------------------------------ MODULE RateLimit -----------------------------
(***************************************************************************)
(* The adaptive rate-limit policy (ratelimit/policy.go) as a function from *)
(* the stored state and a provider's reply to the next stored state, the   *)
(* row the SQL store makes of a state and reads back                       *)
(* (store/sql/rate_limit_state_store.go), and the response normalizers of  *)
(* the providers (providers/*/ratelimit.go), which put the headers the     *)
(* policy looks for into a reply and a default delay into a 429.           *)
(*                                                                         *)
(* Headers are a function from lower-case names to numbers; a header that  *)
(* is absent, or that the code cannot parse, is outside its domain.  Times *)
(* are instants of one clock, delays are differences of them.              *)
(***************************************************************************)
EXTENDS Integers

CONSTANTS
    PolicyInitialBackoff,   \* AdaptivePolicy.InitialBackoff
    PolicyMaxBackoff        \* AdaptivePolicy.MaxBackoff

ASSUME RateLimitAssumption ==
    PolicyInitialBackoff \in Nat \ {0} /\ PolicyMaxBackoff \in Nat \ {0}

-----------------------------------------------------------------------------
None == -1          \* a nil pointer

NoHeaders == [h \in {} |-> 0]

Header(name, value) == [h \in {name} |-> value]

\* The headers `base' after those of `set' were written into it.
Set(set, base) ==
    [h \in DOMAIN set \union DOMAIN base |-> IF h \in DOMAIN set THEN set[h] ELSE base[h]]

\* The doubling backoff that the policy and the provider runtime share: the
\* delay doubles with every attempt after the first and stops at the maximum.
Backoff(initial, maximum, attempt) ==
    LET capped(d) == IF d >= maximum THEN maximum ELSE d
        delay[n \in Nat] == IF n = 0 THEN initial ELSE capped(2 * delay[n - 1])
    IN  capped(delay[attempt - 1])

nextBackoff(attempt) ==
    IF attempt <= 0 THEN PolicyInitialBackoff
    ELSE Backoff(PolicyInitialBackoff, PolicyMaxBackoff, attempt)

\* parseHeaderInt, parseHeaderResetAt and headerValue: whether there is a value
\* and what it is.
Has(headers, name) == name \in DOMAIN headers

HeaderOr(headers, name, default) == IF Has(headers, name) THEN headers[name] ELSE default

\* parseRetryAfter: what the normalizer found, or the header, if positive.
parseRetryAfter(meta) ==
    IF meta.retryAfter > 0 THEN meta.retryAfter
    ELSE IF HeaderOr(meta.headers, "retry-after", 0) > 0 THEN meta.headers["retry-after"]
    ELSE None

\* A state as the policy sees it, and the one it starts from when the store
\* knows none: State{Key: key}, with remaining zero.
NewState == [remaining |-> 0, resetAt |-> None, retryAfter |-> None,
             attempts |-> 0, throttledUntil |-> None]

-----------------------------------------------------------------------------
(* The policy.                                                              *)

\* BeforeCall's two refusals.
Blocked(state, now) ==
    \/ state.throttledUntil # None /\ now < state.throttledUntil
    \/ state.remaining = 0 /\ state.resetAt # None /\ now < state.resetAt

\* isThrottledResponse; remaining is the stored value when the reply has none.
isThrottledResponse(meta, remaining) ==
    \/ meta.status = 429
    \/ /\ meta.status < 500
       /\ remaining = 0
       /\ \/ \E h \in {"x-ratelimit-remaining", "x-ratelimit-reset", "x-ratelimit-limit"} :
                Has(meta.headers, h)
          \/ parseRetryAfter(meta) # None

\* AfterCall between its read and its write.
AfterCall(state, meta, now) ==
    LET remaining == HeaderOr(meta.headers, "x-ratelimit-remaining", state.remaining)
        retryAfter == parseRetryAfter(meta)
        throttled == isThrottledResponse(meta, remaining)
        attempts == IF throttled THEN state.attempts + 1 ELSE 0
        delay == IF retryAfter # None THEN retryAfter ELSE nextBackoff(attempts)
    IN  [remaining |-> remaining,
         resetAt |-> HeaderOr(meta.headers, "x-ratelimit-reset", state.resetAt),
         retryAfter |-> retryAfter,
         attempts |-> attempts,
         throttledUntil |-> IF throttled THEN now + delay ELSE None]

-----------------------------------------------------------------------------
(* The SQL row: attempts and the window live in the metadata column, under  *)
(* keys that are absent when there is nothing to store.                     *)

composeRateLimitMetadata(state) ==
    Set(IF state.attempts > 0 THEN Header("_attempts", state.attempts) ELSE NoHeaders,
        IF state.throttledUntil # None
        THEN Header("_throttled_until", state.throttledUntil) ELSE NoHeaders)

rateLimitStateFromDomain(state) ==
    [remaining |-> state.remaining, resetAt |-> state.resetAt,
     retryAfter |-> IF state.retryAfter > 0 THEN state.retryAfter ELSE None,
     metadata |-> composeRateLimitMetadata(state)]

toDomain_OtherKey(row) ==
    [remaining |-> row.remaining, resetAt |-> row.resetAt,
     retryAfter |-> row.retryAfter,
     attempts |-> HeaderOr(row.metadata, "_attempts", 0),
     throttledUntil |-> HeaderOr(row.metadata, "throttled_until", None)]

toDomain(row) ==
    [remaining |-> row.remaining, resetAt |-> row.resetAt,
     retryAfter |-> row.retryAfter,
     attempts |-> HeaderOr(row.metadata, "_attempts", 0),
     throttledUntil |-> HeaderOr(row.metadata, "_throttled_until", None)]

-----------------------------------------------------------------------------
(* The normalizers: a reply [status, headers] becomes                       *)
(* [status, headers, retryAfter].                                           *)

\* normalizeProviderOperationResponse without a normalizer.
NormalizeDefault(reply) ==
    [status |-> reply.status, headers |-> reply.headers,
     retryAfter |-> IF HeaderOr(reply.headers, "retry-after", 0) > 0
                    THEN reply.headers["retry-after"] ELSE None]

\* A reply with the headers a provider adds and its default delay for the
\* statuses that it treats as throttling.
WithDefault(reply, extra, statuses, default) ==
    LET meta == NormalizeDefault([reply EXCEPT !.headers = Set(extra, @)])
    IN  [meta EXCEPT !.retryAfter =
            IF @ = None /\ reply.status \in statuses THEN default ELSE @]

\* The call-limit header says used/limit; what remains is never negative.
NormalizeAdminAPIResponse(reply) ==
    LET used == HeaderOr(reply.headers, "shopify-used", None)
        limit == HeaderOr(reply.headers, "shopify-limit", 0)
        extra == IF used >= 0 /\ limit > 0
                 THEN Set(Header("x-ratelimit-limit", limit),
                          Header("x-ratelimit-remaining",
                                 IF used > limit THEN 0 ELSE limit - used))
                 ELSE NoHeaders
    IN  WithDefault(reply, extra, {429}, 2)

\* Amazon's limits may be fractions (counted in tenths here); the policy parses
\* integers, so that a fraction is as good as no header.
NormalizeAmazon(reply) ==
    LET whole(from, to) ==
            IF Has(reply.headers, from) /\ reply.headers[from] % 10 = 0
            THEN Header(to, reply.headers[from] \div 10) ELSE NoHeaders
        quota == Set(whole("x-amzn-ratelimit-limit", "x-ratelimit-limit"),
                     whole("x-amzn-ratelimit-remaining", "x-ratelimit-remaining"))
        reset == IF Has(reply.headers, "x-amzn-ratelimit-reset")
                 THEN Header("x-ratelimit-reset", reply.headers["x-amzn-ratelimit-reset"])
                 ELSE NoHeaders
    IN  WithDefault(reply, Set(quota, reset), {429, 503}, 2)

NormalizeTikTok(reply) == WithDefault(reply, NoHeaders, {429}, 3)

NormalizePinterest(reply) == WithDefault(reply, NoHeaders, {429}, 5)

NormalizeGoogleShopping(reply) == WithDefault(reply, NoHeaders, {429}, 5)

Normalize(provider, reply) ==
    CASE provider = "shopify" -> NormalizeAdminAPIResponse(reply)
      [] provider = "amazon" -> NormalizeAmazon(reply)
      [] provider = "tiktok" -> NormalizeTikTok(reply)
      [] provider = "pinterest" -> NormalizePinterest(reply)
      [] provider = "google_shopping" -> NormalizeGoogleShopping(reply)
      [] OTHER -> NormalizeDefault(reply)
=============================================================================
