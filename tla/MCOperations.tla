---------------------------- MODULE MCOperations ----------------------------
(***************************************************************************)
(* The outgoing side for TLC: module ProviderOperation twice, and module   *)
(* Capability. No state is shared between the three, so a behaviour takes  *)
(* the steps of one of them, chosen at the start, and the others keep      *)
(* their initial state.                                                    *)
(***************************************************************************)
EXTENDS TLC, ProviderOperation, Capability

CONSTANTS o1, o2, o3, k1, k2, k3, p1, p2, s1, s2, read, export, g1, g2

VARIABLES
    part,   \* the component whose steps this behaviour takes
    calls_provider, calls_now, calls_row, calls_cache, calls_at, calls_faults,
    calls_applied, calls_ver, calls_asked, calls_disturbed, calls_tainted

callsVars == <<calls_provider, calls_now, calls_row, calls_cache, calls_at,
               calls_faults, calls_applied, calls_ver, calls_asked,
               calls_disturbed, calls_tainted>>

Answer(status, headers, resetIn) ==
    [status |-> status, headers |-> headers, resetIn |-> resetIn]

\* Success, a 429 with and without a delay, and a quota exhausted until a reset
\* time in the words of the standard headers and of Shopify's.
SharedReplies ==
    {Answer(200, NoHeaders, None),
     Answer(200, "x-ratelimit-remaining" :> 0, 2),
     Answer(200, "shopify-used" :> 3 @@ "shopify-limit" :> 2, 2),
     Answer(429, "retry-after" :> 2, None),
     Answer(429, NoHeaders, None)}

\* For the others: their own headers, left-over quota, and server errors.
ManyReplies ==
    {Answer(200, NoHeaders, None), Answer(404, NoHeaders, None),
     Answer(503, NoHeaders, None), Answer(429, "retry-after" :> 1, None),
     Answer(200, "x-ratelimit-remaining" :> 1, 1),
     Answer(503, "x-ratelimit-remaining" :> 0, 1),
     Answer(200, "x-amzn-ratelimit-limit" :> 5
                  @@ "x-amzn-ratelimit-remaining" :> 0, 1)}

Normalizers ==
    {"generic", "amazon", "tiktok", "pinterest", "google_shopping"}

MCProviderOf == [k \in {k1, k2, k3} |-> IF k = k3 THEN p2 ELSE p1]
MCScopeOf == [k \in {k1, k2, k3} |-> IF k = k3 THEN s2 ELSE s1]

Desc(R, O, deg) == [required |-> R, optional |-> O, degrades |-> deg]

MCDescriptors ==
    (p1 :> (read :> Desc({g1, g2}, {}, FALSE)
              @@ export :> Desc({g1}, {g2}, TRUE)))
    @@ (p2 :> (export :> Desc({g1}, {g2}, TRUE)))

\* Beside one operation with faults and retries: two operations on one
\* rate-limit key, the cache between them.
Calls == INSTANCE ProviderOperation WITH
    Ops <- {o1, o2}, Providers <- {"shopify"}, Replies <- SharedReplies,
    HeaderForms <- {"absent"}, PolicyInitialBackoff <- 1,
    PolicyMaxBackoff <- 2, MaxAttempts <- 2, InitialBackoff <- 1,
    MaxBackoff <- 1, MaxClock <- 1, MaxFaults <- 0,
    provider <- calls_provider, now <- calls_now, row <- calls_row,
    cache <- calls_cache, at <- calls_at, faults <- calls_faults,
    applied <- calls_applied, ver <- calls_ver, asked <- calls_asked,
    disturbed <- calls_disturbed, tainted <- calls_tainted

-----------------------------------------------------------------------------
allVars == <<part, callsVars, vars, invokeVars>>

ComposedInit ==
    /\ part \in {"calls", "retries", "capability"}
    /\ Calls!Init
    /\ Init /\ (part # "retries" => provider = "generic")
    /\ InvokeInit

ComposedNext ==
    \/ /\ part = "calls" /\ Calls!Next
       /\ UNCHANGED <<part, vars, invokeVars>>
    \/ /\ part = "retries" /\ Next
       /\ UNCHANGED <<part, callsVars, invokeVars>>
    \/ /\ part = "capability" /\ InvokeNext
       /\ UNCHANGED <<part, callsVars, vars>>

ComposedSpec == ComposedInit /\ [][ComposedNext]_allVars

ASSUME InstancesAdmissible ==
    Calls!ProviderOperationAssumption /\ Calls!RateLimitAssumption

Symmetry == Permutations({o1, o2}) \cup Permutations({k1, k2})

-----------------------------------------------------------------------------
(* Properties. *)

\* While attempts do not overlap and no delete fails, no call goes out before
\* the time recorded replies asked for (BeforeCall, AfterCall), and the cache
\* in front of the rate-limit rows is outdated only in named cases.
SharedCallsWait == Calls!SerialCallsWait

=============================================================================
