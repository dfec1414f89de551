----------------------------- MODULE Capability -----------------------------
(***************************************************************************)
(* A capability operation, from the request to the moment it is put on     *)
(* the wire: Service.InvokeCapabilityOperation                             *)
(* (core/capability_operation_runtime.go), the connection resolution and   *)
(* the permission decision of Service.InvokeCapability (core/service.go,   *)
(* core/inheritance.go, core/permission_evaluator.go), the operation       *)
(* resolvers of the Salesforce and Workday packages, and the connection    *)
(* and credential lookups that ExecuteProviderOperation makes first        *)
(* (core/provider_operation_runtime.go).  What it does after that is       *)
(* module ProviderOperation.                                               *)
(*                                                                         *)
(* The connection, its grants and its credential are read at four          *)
(* different moments, and every other handler of the service may write     *)
(* them in between.  A call writes none of them, so one caller stands for  *)
(* any number.  The service has its grant evaluator and uses the strict    *)
(* isolation policy: an inheritance policy is the application's.           *)
(***************************************************************************)
EXTENDS Naturals

CONSTANTS Connections,    \* connection ids
          ProviderOf,      \* Connection.ProviderID
          ScopeOf,         \* Connection.ScopeType and ScopeID
          InvokeProviders, \* provider ids a request may name
          InvokeScopes,    \* scopes a request may name
          Descriptors,     \* provider -> capability -> [required, optional,
                           \*   degrades]; its domain is the registry
          Resolving,       \* providers that implement
                           \*   CapabilityOperationResolver
          CarriesToken,    \* providers whose resolver supplies the credential
                           \*   itself (runtimeCredential of the two packages)
          Capabilities, Grants,
          Nothing,         \* no connection, no scope, no operation
          MaxWrites        \* bound: writes by the other handlers

ASSUME CapabilityAssumption ==
    /\ ProviderOf \in [Connections -> InvokeProviders]
    /\ ScopeOf \in [Connections -> InvokeScopes]
    /\ DOMAIN Descriptors \subseteq InvokeProviders
    /\ \A p \in DOMAIN Descriptors : \A c \in DOMAIN Descriptors[p] :
         Descriptors[p][c] \in [required : SUBSET Grants, optional : SUBSET Grants,
                                degrades : BOOLEAN]
    /\ CarriesToken \subseteq Resolving /\ Resolving \subseteq InvokeProviders
    /\ Nothing \notin Connections \cup InvokeScopes
    /\ MaxWrites \in Nat

VARIABLES
    db,       \* connection -> [active, credential, granted]: status is
              \*   active, an active credential exists, latest snapshot
    call,     \* the call's locals
    sent,     \* the operation put on the wire by this call, or Nothing
    revoking, \* connection between the two writes of Revoke, or Nothing
    writes,   \* writes so far
    during    \* history: what held at some instant of this call

invokeVars == <<db, call, sent, revoking, writes, during>>

InvokeIdle == [pc |-> "idle"]

InvokeRequests == [provider: InvokeProviders, scope: InvokeScopes \cup {Nothing},
                   conn: Connections \cup {Nothing}, capability: Capabilities]

NoInstant == [active |-> {}, only |-> {}, required |-> {}, optional |-> {}]

InvokeInit ==
    /\ db = [k \in Connections |->
               [active |-> TRUE, credential |-> TRUE, granted |-> Grants]]
    /\ call = InvokeIdle /\ sent = Nothing /\ revoking = Nothing /\ writes = 0
    /\ during = NoInstant

-----------------------------------------------------------------------------
(* The decision *)

\* The connections FindByScope lists that are active.
ActiveInScope(d, p, s) ==
    {k \in Connections : ProviderOf[k] = p /\ ScopeOf[k] = s /\ d[k].active}

\* StrictIsolationPolicy.ResolveConnection: the scope's only active
\* connection; none, several and an invalid scope all come back as Nothing.
StrictPolicy(p, s) ==
    LET active == ActiveInScope(db, p, s)
    IN  IF s # Nothing /\ \E k \in active : active = {k}
        THEN CHOOSE k \in active : TRUE ELSE Nothing

\* missingGrants, against the latest snapshot.
Missing(wanted, k) == wanted \ db[k].granted

InvokeDecide_Any(k, d) ==
    [allowed |-> d.required = {} \/ d.required \cap db[k].granted # {},
     missing |-> Missing(d.optional, k), degrade |-> d.degrades]

\* EvaluateCapability: a missing required grant blocks; a missing optional
\* one only makes a degradable capability degrade.
InvokeDecide(k, d) ==
    [allowed |-> Missing(d.required, k) = {},
     missing |-> IF d.degrades THEN Missing(d.optional, k) ELSE {},
     degrade |-> d.degrades]

\* Degrading takes the mode and a missing grant: a degradable capability
\* whose grants are all there is served in full.
shouldDegrade(decision) == decision.degrade /\ decision.missing # {}

\* ResolveCapabilityOperation: the operation is for the connection of the
\* decision, in its reduced or its full form, with the package's own
\* credential or with none.
ResolveCapabilityOperation(p, k, decision) ==
    [conn |-> k, form |-> IF shouldDegrade(decision) THEN "degraded" ELSE "full",
     credential |-> p \in CarriesToken]

-----------------------------------------------------------------------------
(* The call *)

InvokeKeep == UNCHANGED <<db, revoking, writes>>

InvokeReturn ==
    /\ call' = InvokeIdle /\ sent' = Nothing

\* resolveProvider and findCapabilityDescriptor: an unknown provider or
\* capability is an error before anything is read.
InvokeBegin(r) ==
    /\ call.pc = "idle"
    /\ r.provider \in DOMAIN Descriptors
    /\ r.capability \in DOMAIN Descriptors[r.provider]
    /\ call' = [pc |-> "resolve", req |-> r]
    /\ UNCHANGED sent /\ InvokeKeep

\* A named connection is used only while it is active.
NamedConnection(r) == IF db[r.conn].active THEN r.conn ELSE Nothing

\* The named connection, which has to be the provider's and, if the request
\* names a scope, that scope's; else the policy's choice.  No connection is
\* a blocked result, a mismatch an error: both end the call.
Resolve ==
    /\ call.pc = "resolve"
    /\ LET r == call.req
           mismatch == /\ r.conn # Nothing
                       /\ \/ ProviderOf[r.conn] # r.provider
                          \/ r.scope \notin {Nothing, ScopeOf[r.conn]}
           k == IF mismatch THEN Nothing
                ELSE IF r.conn # Nothing THEN NamedConnection(r)
                ELSE StrictPolicy(r.provider, r.scope)
       IN  \/ k = Nothing /\ InvokeReturn
           \/ /\ k # Nothing
              /\ call' = [pc |-> "evaluate", req |-> r, conn |-> k]
              /\ UNCHANGED sent
    /\ InvokeKeep

\* The grants are read for the connection resolved before.
Evaluate ==
    /\ call.pc = "evaluate"
    /\ LET d == Descriptors[call.req.provider][call.req.capability]
       IN  call' = [pc |-> "prepare", req |-> call.req, conn |-> call.conn,
                    decision |-> InvokeDecide(call.conn, d)]
    /\ UNCHANGED sent /\ InvokeKeep

\* InvokeCapabilityOperation returns a blocked decision; else the provider
\* builds the operation, if it can.
Prepare ==
    /\ call.pc = "prepare"
    /\ \/ /\ ~call.decision.allowed \/ call.req.provider \notin Resolving
          /\ InvokeReturn
       \/ /\ call.decision.allowed /\ call.req.provider \in Resolving
          /\ call' = [pc |-> "credential", req |-> call.req,
                      op |-> ResolveCapabilityOperation(call.req.provider,
                               call.conn, call.decision)]
          /\ UNCHANGED sent
    /\ InvokeKeep

\* resolveProviderOperationRequest loads the connection again: it has to be
\* the provider's, its status is not looked at.
ConnectionMatches(op, p) == ProviderOf[op.conn] = p

\* The credential is the operation's, or the stored active one; without one
\* the operation is an error.
LoadCredential ==
    /\ call.pc = "credential"
    /\ LET ok == /\ ConnectionMatches(call.op, call.req.provider)
                 /\ call.op.credential \/ db[call.op.conn].credential
       IN  \/ /\ ok
              /\ call' = [call EXCEPT !.pc = "send"]
              /\ UNCHANGED sent
           \/ ~ok /\ InvokeReturn
    /\ InvokeKeep

\* The transport adapter is given the request.
Send ==
    /\ call.pc = "send"
    /\ sent' = [conn |-> call.op.conn, form |-> call.op.form]
    /\ call' = [call EXCEPT !.pc = "sent"]
    /\ InvokeKeep

Reply ==
    /\ call.pc = "sent"
    /\ InvokeReturn /\ InvokeKeep

-----------------------------------------------------------------------------
(* The other handlers *)

Write(k, row) ==
    /\ writes < MaxWrites /\ writes' = writes + 1
    /\ db' = [db EXCEPT ![k] = row]
    /\ UNCHANGED <<call, sent>>

\* Revoke, its first write: RevokeActive.
RevokeCredential(k) ==
    /\ revoking = Nothing /\ revoking' = k
    /\ Write(k, [db[k] EXCEPT !.credential = FALSE])

\* Revoke, its second write, after which it has succeeded.
RevokeStatus(k) ==
    /\ revoking = k /\ revoking' = Nothing
    /\ Write(k, [db[k] EXCEPT !.active = FALSE])

\* Revoke, its second write fails: the caller gets the error.
RevokeFails ==
    /\ revoking # Nothing /\ revoking' = Nothing
    /\ UNCHANGED <<db, call, sent, writes>>

\* ConnectionStore.UpdateStatus by a callback or a refresh.
UpdateStatus(k, active) ==
    /\ db[k].active # active
    /\ Write(k, [db[k] EXCEPT !.active = active])
    /\ UNCHANGED revoking

\* CredentialStore.SaveNewVersion by a callback or a refresh.
SaveCredential(k) ==
    /\ ~db[k].credential
    /\ Write(k, [db[k] EXCEPT !.credential = TRUE])
    /\ UNCHANGED revoking

\* GrantStore.SaveSnapshot: a newer snapshot replaces the latest.
SaveSnapshot(k, G) ==
    /\ db[k].granted # G
    /\ Write(k, [db[k] EXCEPT !.granted = G])
    /\ UNCHANGED revoking

\* History: what holds now, for the request being served.
Instant(d, r) ==
    LET desc == Descriptors[r.provider][r.capability]
    IN  [active   |-> {k \in Connections : d[k].active},
         only     |-> {k \in Connections :
                         ActiveInScope(d, r.provider, r.scope) = {k}},
         required |-> {k \in Connections : desc.required \subseteq d[k].granted},
         optional |-> {k \in Connections : desc.optional \subseteq d[k].granted}]

Observe ==
    during' = IF call'.pc = "idle" THEN NoInstant
              ELSE [f \in DOMAIN NoInstant |->
                      during[f] \cup Instant(db', call'.req)[f]]

InvokeNext ==
    /\ \/ \E r \in InvokeRequests : InvokeBegin(r)
       \/ Resolve \/ Evaluate \/ Prepare \/ LoadCredential \/ Send \/ Reply
       \/ \E k \in Connections :
            \/ RevokeCredential(k) \/ RevokeStatus(k)
            \/ \E a \in BOOLEAN : UpdateStatus(k, a)
            \/ SaveCredential(k)
            \/ \E G \in SUBSET Grants : SaveSnapshot(k, G)
       \/ RevokeFails
    /\ Observe

InvokeSpec == InvokeInit /\ [][InvokeNext]_invokeVars

-----------------------------------------------------------------------------
(* Properties *)

\* Whatever is written while a call runs, an operation goes out only on a
\* connection that held every required grant at some instant of that call,
\* and the full form of a degradable capability only if it then also held the
\* optional ones (EvaluateCapability and the resolvers' shouldDegrade).
SentWasGranted ==
    sent # Nothing =>
        /\ sent.conn \in during.required
        /\ sent.form = "full"
             /\ Descriptors[call.req.provider][call.req.capability].degrades
             => sent.conn \in during.optional

\* An operation goes out on the connection the request names or, if it names
\* none, on one that was at some instant of the call the only active
\* connection of its provider and scope: a choice between accounts is never
\* made for the caller (StrictIsolationPolicy, InvokeCapability).
NeverPicksAnAccount ==
    sent # Nothing =>
        /\ ProviderOf[sent.conn] = call.req.provider
        /\ call.req.scope \in {Nothing, ScopeOf[sent.conn]}
        /\ IF call.req.conn = Nothing THEN sent.conn \in during.only
           ELSE sent.conn = call.req.conn

\* Once Revoke has succeeded, or the status has left active for another
\* reason, no call that starts afterwards reaches the provider on that
\* connection unless it is set active again, also where the provider package
\* supplies the credential and the stored one, revoked first, is never read.
RevokedStaysOut == sent # Nothing => sent.conn \in during.active

\* What is sent was allowed, on a connection the caller may mean.
SentWasAllowed == SentWasGranted /\ NeverPicksAnAccount /\ RevokedStaysOut
=============================================================================
