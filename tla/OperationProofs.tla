-------------------------- MODULE OperationProofs ---------------------------
(***************************************************************************)
(* Proofs about the calls that go out: whom an invocation is sent for      *)
(* (Capability), how an operation is retried and when its calls may go out *)
(* (ProviderOperation, RateLimit), for any connections, grants, callers,   *)
(* attempts, replies and faults.                                           *)
(***************************************************************************)
EXTENDS Capability, ProviderOperation, WellFoundedInduction, TLAPS

-----------------------------------------------------------------------------
(* Capability invocations.  What a call knows held at some instant of it.  *)

Decision == [allowed : BOOLEAN, missing : SUBSET Grants, degrade : BOOLEAN]
InvokeOp == [conn : Connections, form : {"full", "degraded"}, credential : BOOLEAN]

CallShapes ==
    [pc : {"idle"}] \cup [pc : {"resolve"}, req : InvokeRequests]
    \cup [pc : {"evaluate"}, req : InvokeRequests, conn : Connections]
    \cup [pc : {"prepare"}, req : InvokeRequests, conn : Connections, decision : Decision]
    \cup [pc : {"credential", "send", "sent"}, req : InvokeRequests, op : InvokeOp]

Descriptor(r) == Descriptors[r.provider][r.capability]

\* Connection k is one the request r may mean, given what held during the call.
Meant(k, r, seen) ==
    /\ k \in Connections /\ k \in seen.active
    /\ ProviderOf[k] = r.provider
    /\ r.scope \in {Nothing, ScopeOf[k]}
    /\ IF r.conn = Nothing THEN k \in seen.only ELSE k = r.conn

FullyGranted(k, r, seen) == Descriptor(r).degrades => k \in seen.optional

\* What a call in progress knows was true at some instant of it.
CallSound(l, seen) ==
    /\ l.pc # "idle" =>
         /\ l.req.provider \in DOMAIN Descriptors
         /\ l.req.capability \in DOMAIN Descriptors[l.req.provider]
    /\ l.pc \in {"evaluate", "prepare"} => Meant(l.conn, l.req, seen)
    /\ l.pc = "prepare" =>
         /\ l.decision.allowed => l.conn \in seen.required
         /\ ~shouldDegrade(l.decision) => FullyGranted(l.conn, l.req, seen)
    /\ l.pc \in {"credential", "send", "sent"} =>
         /\ Meant(l.op.conn, l.req, seen)
         /\ l.op.conn \in seen.required
         /\ l.op.form = "full" => FullyGranted(l.op.conn, l.req, seen)

Instants == [active : SUBSET Connections, only : SUBSET Connections,
             required : SUBSET Connections, optional : SUBSET Connections]

InvokeInv ==
    /\ db \in [Connections -> [active : BOOLEAN, credential : BOOLEAN, granted : SUBSET Grants]]
    /\ call \in CallShapes
    /\ during \in Instants
    /\ CallSound(call, during)
    /\ sent # Nothing =>
         /\ call.pc = "sent"
         /\ sent.conn = call.op.conn /\ sent.form = call.op.form

\* With no call in progress nothing is known and nothing was sent.
LEMMA InvokeInitInv == InvokeInit => InvokeInv
  BY DEF InvokeInit, InvokeInv, CallShapes, InvokeIdle, Instants, NoInstant, CallSound

\* What a call knows when it sends is what SentWasAllowed asks for.
LEMMA InvokeInvSafe == InvokeInv => SentWasAllowed
  BY Zenon DEF InvokeInv, SentWasAllowed, SentWasGranted, NeverPicksAnAccount, RevokedStaysOut,
         CallSound, Meant, FullyGranted, Descriptor

\* seen2 has all of seen1.
Grown(s1, s2) == /\ s1.active \subseteq s2.active /\ s1.only \subseteq s2.only
                 /\ s1.required \subseteq s2.required /\ s1.optional \subseteq s2.optional

\* What holds at an instant is a set of connections for each question.
LEMMA InstantType ==
  ASSUME NEW d, NEW r PROVE Instant(d, r) \in Instants
  BY Zenon DEF Instant, Instants

\* While a call runs, what held at some instant of it only grows, and includes
\* what holds now.
LEMMA Observed ==
  ASSUME Observe, during \in Instants, call'.pc # "idle"
  PROVE  /\ during' \in Instants /\ Grown(during, during')
         /\ Grown(Instant(db', call'.req), during')
<1> DEFINE instant == Instant(db', call'.req)
<1>1. instant \in Instants
  BY InstantType, Zenon
<1>2. during' = [f \in DOMAIN NoInstant |-> during[f] \cup instant[f]]
  BY Zenon DEF Observe
<1>3. DOMAIN NoInstant = {"active", "only", "required", "optional"}
  BY Zenon DEF NoInstant
<1> HIDE DEF instant
<1>4. during' =
        [active |-> during.active \cup instant.active, only |-> during.only \cup instant.only,
                 required |-> during.required \cup instant.required,
                 optional |-> during.optional \cup instant.optional]
  BY <1>2, <1>3, Zenon
<1>5. QED
  BY <1>1, <1>4, Zenon DEF Instants, Grown, instant

\* What a call knows stays known as more instants are seen.
LEMMA SoundGrows ==
  ASSUME NEW l, NEW s1, NEW s2, CallSound(l, s1), Grown(s1, s2) PROVE CallSound(l, s2)
  BY Zenon DEF CallSound, Grown, Meant, FullyGranted

\* A step that keeps the call's locals and their result: the other handlers.
LEMMA OthersKeepInv ==
  ASSUME InvokeInv, UNCHANGED <<call, sent>>, Observe,
         db' \in [Connections -> [active : BOOLEAN, credential : BOOLEAN, granted : SUBSET Grants]]
  PROVE  InvokeInv'
<1>1. CASE call.pc = "idle"
  <2>1. during' = NoInstant
    BY <1>1, Zenon DEF Observe
  <2>2. NoInstant \in Instants
    BY Zenon DEF NoInstant, Instants
  <2>3. CallSound(call, during')
    BY <1>1, Zenon DEF CallSound
  <2>4. QED
    BY <2>1, <2>2, <2>3, Zenon DEF InvokeInv
<1>2. CASE call.pc # "idle"
  <2>1. during' \in Instants /\ Grown(during, during')
    BY <1>2, Observed, Zenon DEF InvokeInv
  <2>2. CallSound(call, during')
    BY <2>1, SoundGrows, Zenon DEF InvokeInv
  <2>3. QED
    BY <2>1, <2>2, Zenon DEF InvokeInv
<1>3. QED
  BY <1>1, <1>2, Zenon

\* A step of the call that returns.
LEMMA ReturnKeepsInv ==
  ASSUME InvokeInv, InvokeReturn, InvokeKeep, Observe PROVE InvokeInv'
<1>1. call' = InvokeIdle /\ sent' = Nothing /\ db' = db
  BY Zenon DEF InvokeReturn, InvokeKeep
<1>2. call'.pc = "idle" /\ call' \in CallShapes
  BY <1>1, Zenon DEF InvokeIdle, CallShapes
<1>3. during' = NoInstant
  BY <1>2, Zenon DEF Observe
<1>4. during' \in Instants
  BY <1>3, Zenon DEF NoInstant, Instants
<1>5. CallSound(call', during')
  BY <1>2, Zenon DEF CallSound
<1>6. QED
  BY <1>1, <1>2, <1>4, <1>5, Zenon DEF InvokeInv

\* A step of the call that goes on: it is enough that its locals are sound for
\* what was known together with what holds at this instant.
LEMMA CallKeepsInv ==
  ASSUME InvokeInv, InvokeKeep, Observe,
         call' \in CallShapes, call'.pc # "idle",
         \A seen \in Instants :
            Grown(during, seen) /\ Grown(Instant(db, call'.req), seen) => CallSound(call', seen),
         sent' # Nothing => /\ call'.pc = "sent"
                            /\ sent'.conn = call'.op.conn /\ sent'.form = call'.op.form
  PROVE  InvokeInv'
<1>1. db' = db
  BY Zenon DEF InvokeKeep
<1>2. during' \in Instants /\ Grown(during, during') /\ Grown(Instant(db, call'.req), during')
  BY <1>1, Observed, Zenon DEF InvokeInv
<1>3. QED
  BY <1>1, <1>2, Zenon DEF InvokeInv

\* A call begins for a provider and capability that are registered.
LEMMA BeginInv ==
  ASSUME InvokeInv, NEW r \in InvokeRequests, InvokeBegin(r), Observe PROVE InvokeInv'
<1>1. call' = [pc |-> "resolve", req |-> r] /\ sent' = sent /\ InvokeKeep /\ call.pc = "idle"
      /\ r.provider \in DOMAIN Descriptors /\ r.capability \in DOMAIN Descriptors[r.provider]
  BY Zenon DEF InvokeBegin
<1>2. call' \in CallShapes /\ call'.pc = "resolve" /\ call'.req = r
  BY <1>1, Zenon DEF CallShapes
<1>3. sent' = Nothing
  BY <1>1, Zenon DEF InvokeInv
<1>4. \A seen \in Instants : CallSound(call', seen)
  BY <1>1, <1>2, Zenon DEF CallSound
<1>5. QED
  BY <1>1, <1>2, <1>3, <1>4, CallKeepsInv, Zenon

\* The strict policy names a connection only when it is the one active
\* connection of the provider in the scope.
LEMMA OnlyActive ==
  ASSUME db \in [Connections -> [active : BOOLEAN, credential : BOOLEAN, granted : SUBSET Grants]],
         NEW p, NEW s, NEW k, k = StrictPolicy(p, s), k # Nothing
  PROVE  ActiveInScope(db, p, s) = {k} /\ s # Nothing
<1> DEFINE active == ActiveInScope(db, p, s)
<1>1. s # Nothing /\ (\E x \in active : active = {x}) /\ k = CHOOSE x \in active : TRUE
  BY Zenon DEF StrictPolicy
<1>2. PICK x \in active : active = {x}
  BY <1>1, Zenon
<1>3. k = x
  BY <1>1, <1>2, Zenon
<1>4. QED
  BY <1>1, <1>2, <1>3, Zenon

\* resolveInvokeConnection yields a connection the request may mean.
LEMMA ResolveInv ==
  ASSUME InvokeInv, Resolve, Observe PROVE InvokeInv'
<1> DEFINE r == call.req
           mismatch == /\ r.conn # Nothing
                       /\ \/ ProviderOf[r.conn] # r.provider
                          \/ r.scope \notin {Nothing, ScopeOf[r.conn]}
           k == IF mismatch THEN Nothing
                ELSE IF r.conn # Nothing THEN NamedConnection(r)
                ELSE StrictPolicy(r.provider, r.scope)
<1>1. call.pc = "resolve" /\ InvokeKeep
      /\ \/ k = Nothing /\ InvokeReturn
         \/ /\ k # Nothing
            /\ call' = [pc |-> "evaluate", req |-> r, conn |-> k]
            /\ UNCHANGED sent
  BY Zenon DEF Resolve
<1>2. call \in [pc : {"resolve"}, req : InvokeRequests]
  BY <1>1, Zenon DEF InvokeInv, CallShapes
<1>3. r \in InvokeRequests /\ r.provider \in DOMAIN Descriptors
      /\ r.capability \in DOMAIN Descriptors[r.provider]
  BY <1>1, <1>2, Zenon DEF InvokeInv, CallSound
<1>4. CASE k = Nothing /\ InvokeReturn
  BY <1>1, <1>4, ReturnKeepsInv, Zenon
<1>5. CASE k # Nothing /\ call' = [pc |-> "evaluate", req |-> r, conn |-> k] /\ UNCHANGED sent
  <2>1. ~mismatch
    BY <1>5, Zenon
  <2>2. k \in Connections /\ ProviderOf[k] = r.provider /\ r.scope \in {Nothing, ScopeOf[k]}
        /\ db[k].active
        /\ IF r.conn = Nothing THEN ActiveInScope(db, r.provider, r.scope) = {k} ELSE k = r.conn
    <3>1. CASE r.conn # Nothing
      <4>1. k = NamedConnection(r)
        BY <2>1, <3>1, Zenon
      <4>2. k = r.conn /\ db[r.conn].active
        BY <4>1, <1>5, Zenon DEF NamedConnection
      <4>3. r.conn \in Connections
        BY <1>3, <3>1, Zenon DEF InvokeRequests
      <4>4. ProviderOf[r.conn] = r.provider /\ r.scope \in {Nothing, ScopeOf[r.conn]}
        BY <2>1, <3>1, Zenon
      <4>5. QED
        BY <3>1, <4>2, <4>3, <4>4, Zenon
    <3>2. CASE r.conn = Nothing
      <4>1. k = StrictPolicy(r.provider, r.scope)
        BY <3>2, ZenonT(40)
      <4>2. ActiveInScope(db, r.provider, r.scope) = {k}
        BY <4>1, <1>5, OnlyActive, SMTT(20) DEF InvokeInv
      <4>3. k \in Connections /\ ProviderOf[k] = r.provider /\ ScopeOf[k] = r.scope /\ db[k].active
        BY <4>2, Zenon DEF ActiveInScope
      <4>4. QED
        BY <3>2, <4>2, <4>3, Zenon
    <3>3. QED
      BY <3>1, <3>2, Zenon
  <2> HIDE DEF k, mismatch
  <2>3. call' \in CallShapes /\ call'.pc = "evaluate" /\ call'.req = r /\ call'.conn = k
    BY <1>3, <1>5, <2>2, Zenon DEF CallShapes
  <2>4. k \in Instant(db, r).active
        /\ (ActiveInScope(db, r.provider, r.scope) = {k} => k \in Instant(db, r).only)
    BY <2>2, Zenon DEF Instant
  <2>5. ASSUME NEW seen \in Instants, Grown(Instant(db, r), seen) PROVE Meant(k, r, seen)
    <3>1. k \in seen.active
      BY <2>4, <2>5, Zenon DEF Grown
    <3>2. r.conn = Nothing => k \in seen.only
      BY <2>2, <2>4, <2>5, Zenon DEF Grown
    <3>3. r.conn # Nothing => k = r.conn
      BY <2>2, Zenon
    <3>4. QED
      BY <2>2, <3>1, <3>2, <3>3, Zenon DEF Meant
  <2>6. \A seen \in Instants : Grown(Instant(db, call'.req), seen) => CallSound(call', seen)
    BY <1>3, <2>3, <2>5, Zenon DEF CallSound
  <2>7. sent' = Nothing
    BY <1>1, <1>5, Zenon DEF InvokeInv
  <2>8. QED
    BY <1>1, <2>3, <2>6, <2>7, CallKeepsInv, Zenon
<1>6. QED
  BY <1>1, <1>4, <1>5, Zenon

\* evaluateCapability allows what the snapshot read at this instant grants.
LEMMA EvaluateInv ==
  ASSUME InvokeInv, Evaluate, Observe PROVE InvokeInv'
<1> DEFINE r == call.req
           k == call.conn
           d == Descriptors[r.provider][r.capability]
           e == InvokeDecide(k, d)
<1>1. call.pc = "evaluate" /\ sent' = sent /\ InvokeKeep
      /\ call' = [pc |-> "prepare", req |-> r, conn |-> k, decision |-> e]
  BY Zenon DEF Evaluate
<1>2. call \in [pc : {"evaluate"}, req : InvokeRequests, conn : Connections]
  BY <1>1, Zenon DEF InvokeInv, CallShapes
<1>3. r \in InvokeRequests /\ k \in Connections /\ r.provider \in DOMAIN Descriptors
      /\ r.capability \in DOMAIN Descriptors[r.provider] /\ Meant(k, r, during)
  BY <1>1, <1>2, Zenon DEF InvokeInv, CallSound
<1>4. d \in [required : SUBSET Grants, optional : SUBSET Grants, degrades : BOOLEAN]
  BY <1>3, CapabilityAssumption, Zenon
<1>5. db[k].granted \in SUBSET Grants
  BY <1>3, Zenon DEF InvokeInv
<1> HIDE DEF d
<1>6. e \in Decision /\ e.allowed = (d.required \ db[k].granted = {}) /\ e.degrade = d.degrades
      /\ e.missing = IF d.degrades THEN d.optional \ db[k].granted ELSE {}
  BY <1>4, <1>5, Zenon DEF InvokeDecide, Decision, Missing
<1> HIDE DEF e
<1>7. call' \in CallShapes /\ call'.pc = "prepare" /\ call'.req = r /\ call'.conn = k
      /\ call'.decision = e
  BY <1>1, <1>3, <1>6, Zenon DEF CallShapes
<1>8. e.allowed => k \in Instant(db, r).required
  BY <1>3, <1>4, <1>5, <1>6, Zenon DEF Instant, d
<1>9. ~shouldDegrade(e) /\ Descriptor(r).degrades => k \in Instant(db, r).optional
  BY <1>3, <1>4, <1>5, <1>6, Zenon DEF Instant, d, shouldDegrade, Descriptor
<1>10. ASSUME NEW seen \in Instants, Grown(during, seen), Grown(Instant(db, r), seen)
       PROVE  /\ Meant(k, r, seen)
              /\ e.allowed => k \in seen.required
              /\ ~shouldDegrade(e) => FullyGranted(k, r, seen)
  BY <1>3, <1>8, <1>9, <1>10, Zenon DEF Meant, Grown, FullyGranted
<1>11. \A seen \in Instants :
          Grown(during, seen) /\ Grown(Instant(db, call'.req), seen) => CallSound(call', seen)
  BY <1>3, <1>7, <1>10, Zenon DEF CallSound
<1>12. sent' = Nothing
  BY <1>1, Zenon DEF InvokeInv
<1>13. QED
  BY <1>1, <1>7, <1>11, <1>12, CallKeepsInv, Zenon

\* An operation is prepared in full only for a decision that grants all of it.
LEMMA PrepareInv ==
  ASSUME InvokeInv, Prepare, Observe PROVE InvokeInv'
<1> DEFINE r == call.req
           k == call.conn
           e == call.decision
           op == ResolveCapabilityOperation(r.provider, k, e)
<1>1. call.pc = "prepare" /\ InvokeKeep
      /\ \/ InvokeReturn
         \/ /\ e.allowed /\ call' = [pc |-> "credential", req |-> r, op |-> op]
            /\ UNCHANGED sent
  BY Zenon DEF Prepare
<1>2. call \in [pc : {"prepare"}, req : InvokeRequests, conn : Connections, decision : Decision]
  BY <1>1, Zenon DEF InvokeInv, CallShapes
<1>3. r \in InvokeRequests /\ k \in Connections /\ e \in Decision
        /\ r.provider \in DOMAIN Descriptors
      /\ r.capability \in DOMAIN Descriptors[r.provider] /\ Meant(k, r, during)
      /\ (e.allowed => k \in during.required)
      /\ (~shouldDegrade(e) => FullyGranted(k, r, during))
  BY <1>1, <1>2, Zenon DEF InvokeInv, CallSound
<1>4. op \in InvokeOp /\ op.conn = k /\ (op.form = "full" => ~shouldDegrade(e))
  <2>1. ASSUME NEW b \in BOOLEAN, NEW f \in {"full", "degraded"}
        PROVE  [conn |-> k, form |-> f, credential |-> b] \in InvokeOp
    BY <1>3, <2>1, Zenon DEF InvokeOp
  <2>2. (r.provider \in CarriesToken) \in BOOLEAN
    OBVIOUS
  <2>3. op \in InvokeOp
    BY <2>1, <2>2, Zenon DEF ResolveCapabilityOperation
  <2>4. op.conn = k /\ (op.form = "full" => ~shouldDegrade(e))
    BY Zenon DEF ResolveCapabilityOperation
  <2>5. QED
    BY <2>3, <2>4, Zenon
<1> HIDE DEF op
<1>5. CASE InvokeReturn
  BY <1>1, <1>5, ReturnKeepsInv, Zenon
<1>6. CASE e.allowed /\ call' = [pc |-> "credential", req |-> r, op |-> op] /\ UNCHANGED sent
  <2>a. call' = [pc |-> "credential", req |-> r, op |-> op]
    BY <1>6, Zenon
  <2>1. call' \in CallShapes /\ call'.pc = "credential" /\ call'.req = r /\ call'.op = op
    BY <1>3, <1>4, <2>a, Zenon DEF CallShapes
  <2>2. CallSound(call', during)
    BY <1>3, <1>4, <1>6, <2>1, Zenon DEF CallSound
  <2>3. \A seen \in Instants : Grown(during, seen) => CallSound(call', seen)
    BY <2>2, SoundGrows, Zenon
  <2>4. sent' = Nothing
    BY <1>1, <1>6, Zenon DEF InvokeInv
  <2>5. QED
    BY <1>1, <2>1, <2>3, <2>4, CallKeepsInv, Zenon
<1>7. QED
  BY <1>1, <1>5, <1>6, Zenon

\* Loading the credential and sending keep the connection and the form.
LEMMA SendInv ==
  ASSUME InvokeInv, LoadCredential \/ Send, Observe PROVE InvokeInv'
<1> DEFINE from == [pc : {"credential", "send", "sent"}, req : InvokeRequests, op : InvokeOp]
<1>1. call.pc \in {"credential", "send"} /\ InvokeKeep
      /\ \/ InvokeReturn
         \/ call' = [call EXCEPT !.pc = "send"] /\ UNCHANGED sent
         \/ call' = [call EXCEPT !.pc = "sent"]
            /\ sent' = [conn |-> call.op.conn, form |-> call.op.form]
  BY Zenon DEF LoadCredential, Send
<1>2. call \in from
  BY <1>1, Zenon DEF InvokeInv, CallShapes
<1>3. CASE InvokeReturn
  BY <1>1, <1>3, ReturnKeepsInv, Zenon
<1>4. ASSUME NEW p \in {"send", "sent"}, call' = [call EXCEPT !.pc = p],
             sent' # Nothing => p = "sent" /\ sent'.conn = call.op.conn /\ sent'.form = call.op.form
      PROVE  InvokeInv'
  <2>1. call' \in from /\ call'.pc = p /\ call'.req = call.req /\ call'.op = call.op
    BY <1>2, <1>4, Zenon
  <2>2. call' \in CallShapes
    BY <2>1, Zenon DEF CallShapes
  <2>3. CallSound(call', during)
    BY <1>1, <2>1, Zenon DEF InvokeInv, CallSound
  <2>4. \A seen \in Instants : Grown(during, seen) => CallSound(call', seen)
    BY <2>3, SoundGrows, Zenon
  <2>5. QED
    BY <1>1, <1>4, <2>1, <2>2, <2>4, CallKeepsInv, Zenon
<1>5. sent = Nothing
  BY <1>1, Zenon DEF InvokeInv
<1>6. QED
  BY <1>1, <1>3, <1>4, <1>5

\* The invariant is inductive: the call, and grants, credentials and revocations
\* that change under it.
LEMMA InvokeNextInv == InvokeInv /\ [InvokeNext]_invokeVars => InvokeInv'
<1> SUFFICES ASSUME InvokeInv, [InvokeNext]_invokeVars PROVE InvokeInv'
  BY Zenon
<1> DEFINE Db == [Connections -> [active : BOOLEAN, credential : BOOLEAN, granted : SUBSET Grants]]
<1>1. CASE UNCHANGED invokeVars
  BY <1>1, Zenon DEF InvokeInv, invokeVars
<1>2. ASSUME Observe, NEW k \in Connections, NEW written, Write(k, written),
             written \in [active : BOOLEAN, credential : BOOLEAN, granted : SUBSET Grants]
      PROVE InvokeInv'
  <2>1. db' = [db EXCEPT ![k] = written] /\ UNCHANGED <<call, sent>>
    BY <1>2, Zenon DEF Write
  <2>2. db' \in Db
    BY <1>2, <2>1, Zenon DEF InvokeInv
  <2>3. QED
    BY <1>2, <2>1, <2>2, OthersKeepInv, Zenon
<1>3. ASSUME Observe, NEW k \in Connections,
             \/ RevokeCredential(k) \/ RevokeStatus(k) \/ \E a \in BOOLEAN : UpdateStatus(k, a)
             \/ SaveCredential(k) \/ \E G \in SUBSET Grants : SaveSnapshot(k, G)
      PROVE InvokeInv'
  <2>1. db[k] \in [active : BOOLEAN, credential : BOOLEAN, granted : SUBSET Grants]
    BY Zenon DEF InvokeInv
  <2>2. \E written \in [active : BOOLEAN, credential : BOOLEAN, granted : SUBSET Grants] :
          Write(k, written)
    <3>1. CASE RevokeCredential(k)
      BY <2>1, <3>1, Zenon DEF RevokeCredential
    <3>2. CASE RevokeStatus(k)
      BY <2>1, <3>2, Zenon DEF RevokeStatus
    <3>3. CASE \E a \in BOOLEAN : UpdateStatus(k, a)
      BY <2>1, <3>3, Zenon DEF UpdateStatus
    <3>4. CASE SaveCredential(k)
      BY <2>1, <3>4, Zenon DEF SaveCredential
    <3>5. CASE \E G \in SUBSET Grants : SaveSnapshot(k, G)
      BY <2>1, <3>5, Zenon DEF SaveSnapshot
    <3>6. QED
      BY <1>3, <3>1, <3>2, <3>3, <3>4, <3>5, Zenon
  <2>3. QED
    BY <1>2, <1>3, <2>2, Zenon
<1>4. CASE RevokeFails /\ Observe
  <2>1. UNCHANGED <<call, sent>> /\ db' \in Db
    BY <1>4, Zenon DEF RevokeFails, InvokeInv
  <2>2. QED
    BY <1>4, <2>1, OthersKeepInv, Zenon
<1>5. CASE Reply /\ Observe
  BY <1>5, ReturnKeepsInv, Zenon DEF Reply
<1>6. QED
  BY <1>1, <1>3, <1>4, <1>5, BeginInv, ResolveInv, EvaluateInv, PrepareInv, SendInv, Zenon
     DEF InvokeNext

\* Whatever is revoked, disconnected or granted while InvokeOperation runs, the
\* operation it sends is for a connection the request may mean, that was active
\* and had the grants it needs at some instant of the call, and never for one of
\* several accounts picked at random.
THEOREM OperationsAllowed == InvokeSpec => []SentWasAllowed
<1>1. InvokeInit => InvokeInv
  BY InvokeInitInv, Zenon
<1>2. InvokeInv /\ [InvokeNext]_invokeVars => InvokeInv'
  BY InvokeNextInv, Zenon
<1>3. InvokeInv => SentWasAllowed
  BY InvokeInvSafe, Zenon
<1>4. QED
  BY <1>1, <1>2, <1>3, PTL DEF InvokeSpec

-----------------------------------------------------------------------------
(* Provider operations.  The attempts an operation has made, and what the  *)
(* provider has applied for it.                                            *)

OpSound(l, keys) ==
    /\ DOMAIN l = DOMAIN Idle
    /\ l.attempt \in 1 .. MaxAttempts
    /\ l.header \in {"absent", "canonical", "lowercase"}
    /\ l.pc = "sleep" => l.attempt < MaxAttempts
    /\ l.pc \in {"write", "invalidate"} => l.hook = "after"
    /\ l.hook = "after" => l.pc \in {"get", "fill", "write", "invalidate"}
    /\ l.pc = "idle" => keys = {}
    /\ l.header = "absent" => keys \subseteq {<<"digest", 1>>}
    /\ l.header = "canonical" => keys \subseteq {<<"header", 1>>}

OpInv ==
    /\ at = [o \in Ops |-> at[o]]
    /\ applied = [o \in Ops |-> applied[o]]
    /\ faults \in Nat
    /\ \A o \in Ops : OpSound(at[o], applied[o])

\* No operation has begun and no provider has applied any.
LEMMA OpInitInv == Init => OpInv
<1> SUFFICES ASSUME Init PROVE OpInv
  BY Zenon
<1>1. OpSound(Idle, {})
  BY ProviderOperationAssumption DEF OpSound, Idle
<1>2. QED
  BY <1>1, Zenon DEF Init, OpInv

\* One operation moves to sound locals, and the provider may have applied it.
LEMMA OneOpSteps ==
  ASSUME OpInv, NEW o \in Ops, NEW l, NEW keys, OpSound(l, keys),
         at' = [at EXCEPT ![o] = l], applied' = [applied EXCEPT ![o] = keys],
         faults' = faults \/ faults' = faults + 1
  PROVE  OpInv'
<1>1. at' = [p \in Ops |-> IF p = o THEN l ELSE at[p]]
  BY Zenon DEF OpInv
<1>2. applied' = [p \in Ops |-> IF p = o THEN keys ELSE applied[p]]
  BY Zenon DEF OpInv
<1>3. at' = [p \in Ops |-> at'[p]] /\ applied' = [p \in Ops |-> applied'[p]]
  BY <1>1, <1>2, Zenon
<1>4. \A p \in Ops : OpSound(at'[p], applied'[p])
  BY <1>1, <1>2, Zenon DEF OpInv
<1>5. faults' \in Nat
  BY DEF OpInv
<1>6. QED
  BY <1>3, <1>4, <1>5, Zenon DEF OpInv

\* One operation moves to sound locals and the provider applies nothing.
LEMMA OneOpStepsAlone ==
  ASSUME OpInv, NEW o \in Ops, NEW l, OpSound(l, applied[o]),
         at' = [at EXCEPT ![o] = l], applied' = applied,
         faults' = faults \/ faults' = faults + 1
  PROVE  OpInv'
<1>1. applied' = [applied EXCEPT ![o] = applied[o]]
  BY Zenon DEF OpInv
<1>2. QED
  BY <1>1, OneOpSteps, Zenon

\* The fields of an operation's locals.
LEMMA IdleDomain ==
  DOMAIN Idle =
    {"pc", "header", "attempt", "hook", "meta", "start", "state", "read", "wake", "result"}
  BY Zenon DEF Idle

\* The locals of an operation that has returned.
LEMMA ReturnSound ==
  ASSUME NEW o \in Ops, NEW keys, NEW result, OpSound(at[o], keys)
  PROVE  OpSound([Idle EXCEPT !.pc = "done", !.result = result, !.header = at[o].header], keys)
  BY ProviderOperationAssumption DEF OpSound, Idle

\* The locals of an operation that sleeps before a further attempt.
LEMMA SleepSound ==
  ASSUME NEW o \in Ops, NEW keys, NEW wake, OpSound(at[o], keys), at[o].pc # "idle",
         at[o].attempt < MaxAttempts
  PROVE  OpSound([Idle EXCEPT !.pc = "sleep", !.header = at[o].header,
                              !.attempt = at[o].attempt, !.wake = wake], keys)
  BY ProviderOperationAssumption, Zenon DEF OpSound, Idle

\* A retry decision either sleeps, which takes a retryable failure, or returns.
LEMMA RetrySound ==
  ASSUME NEW o \in Ops, NEW keys, NEW retryable, NEW meta, NEW result, OpSound(at[o], keys),
         at[o].pc # "idle", RetryOr(o, retryable, meta, result)
  PROVE  /\ \E l : OpSound(l, keys) /\ at' = [at EXCEPT ![o] = l]
                  /\ (l.pc = "sleep" => retryable)
<1> DEFINE s == [Idle EXCEPT !.pc = "sleep", !.header = at[o].header, !.attempt = at[o].attempt,
                             !.wake = now + RetryDelay(at[o].attempt, meta)]
           d == [Idle EXCEPT !.pc = "done", !.result = result, !.header = at[o].header]
<1>1. (at[o].attempt < MaxAttempts /\ retryable /\ at' = [at EXCEPT ![o] = s])
      \/ at' = [at EXCEPT ![o] = d]
  BY Zenon DEF RetryOr, Goto, Return
<1>2. OpSound(d, keys) /\ d.pc = "done"
  BY ReturnSound, Zenon DEF Idle
<1>3. at[o].attempt < MaxAttempts => OpSound(s, keys)
  BY SleepSound, Zenon
<1> HIDE DEF s, d
<1>4. QED
  BY <1>1, <1>2, <1>3, Zenon

\* A step of operation o keeps OpInv, and after success only a fault sends it
\* to sleep.
OpStepOK(o) == OpInv' /\ (at[o].hook = "after" /\ at[o].meta.status < 400 /\ at'[o].pc = "sleep"
                             => faults' > faults)

\* An operation begins with its first attempt.
LEMMA OpBegin ==
  ASSUME OpInv, NEW o \in Ops, NEW h \in HeaderForms, Begin(o, h) PROVE OpStepOK(o)
<1> DEFINE l == [Idle EXCEPT !.pc = "get", !.header = h]
<1>1. at[o].pc = "idle" /\ at' = [at EXCEPT ![o] = l] /\ applied' = applied /\ faults' = faults
  BY Zenon DEF Begin, Goto
<1>2. OpSound(at[o], applied[o])
  BY Zenon DEF OpInv
<1>3. applied[o] = {} /\ at[o].hook # "after"
  BY <1>1, <1>2, Zenon DEF OpSound
<1>4. OpSound(l, {})
  BY ProviderOperationAssumption DEF OpSound, Idle
<1> HIDE DEF l
<1>5. OpInv'
  BY <1>1, <1>3, <1>4, OneOpStepsAlone, Zenon
<1>6. QED
  BY <1>3, <1>5, Zenon DEF OpStepOK

\* An operation that wakes makes the next attempt, within the limit.
LEMMA OpWake ==
  ASSUME OpInv, NEW o \in Ops, Wake(o) PROVE OpStepOK(o)
<1> DEFINE l == [Idle EXCEPT !.pc = "get", !.header = at[o].header, !.attempt = at[o].attempt + 1]
<1>1. at[o].pc = "sleep" /\ at' = [at EXCEPT ![o] = l] /\ applied' = applied /\ faults' = faults
  BY Zenon DEF Wake, Goto
<1>2. OpSound(at[o], applied[o])
  BY Zenon DEF OpInv
<1>3. at[o].hook # "after"
  BY <1>1, <1>2, Zenon DEF OpSound
<1>4. OpSound(l, applied[o])
  BY <1>1, <1>2, ProviderOperationAssumption DEF OpSound, Idle
<1> HIDE DEF l
<1>5. OpInv'
  BY <1>1, <1>4, OneOpStepsAlone, Zenon
<1>6. QED
  BY <1>3, <1>5, Zenon DEF OpStepOK

\* A retry that a failed call of a store, the cache or the provider causes.
LEMMA OpRetryFault ==
  ASSUME OpInv, NEW o \in Ops, at[o].pc # "idle", NEW keys, OpSound(at[o], keys), Fault,
         NEW meta, NEW result, RetryOr(o, TRUE, meta, result),
         applied' = [applied EXCEPT ![o] = keys]
  PROVE  OpStepOK(o)
<1>1. PICK l : OpSound(l, keys) /\ at' = [at EXCEPT ![o] = l]
  BY RetrySound, Zenon
<1>2. faults' = faults + 1
  BY Zenon DEF Fault
<1>3. OpInv'
  BY <1>1, <1>2, OneOpSteps, Zenon
<1>4. faults' > faults
  BY <1>2 DEF OpInv
<1>5. QED
  BY <1>3, <1>4, Zenon DEF OpStepOK

\* A step in which the provider applies nothing leaves the keys.
LEMMA KeysUnchanged ==
  ASSUME OpInv, NEW o \in Ops, applied' = applied
  PROVE  applied' = [applied EXCEPT ![o] = applied[o]] /\ OpSound(at[o], applied[o])
  BY Zenon DEF OpInv

\* A failure that ends the operation.
LEMMA OpReturns ==
  ASSUME OpInv, NEW o \in Ops, NEW result, Return(o, result), applied' = applied,
         faults' = faults \/ faults' = faults + 1
  PROVE  OpStepOK(o)
<1> DEFINE d == [Idle EXCEPT !.pc = "done", !.result = result, !.header = at[o].header]
<1>1. at' = [at EXCEPT ![o] = d]
  BY Zenon DEF Return, Goto
<1>2. OpSound(d, applied[o]) /\ d.pc = "done"
  BY ReturnSound, Zenon DEF Idle, OpInv
<1> HIDE DEF d
<1>3. OpInv'
  BY <1>1, <1>2, OneOpStepsAlone, Zenon
<1>4. at'[o].pc = "done"
  BY <1>1, <1>2, Zenon DEF OpInv
<1>5. QED
  BY <1>3, <1>4, Zenon DEF OpStepOK

\* A failed call of the store, the cache or the transport is a fault.
LEMMA OpFails ==
  ASSUME OpInv, NEW o \in Ops, Fails(o) PROVE OpStepOK(o)
<1>1. CASE Cancel(o)
  BY <1>1, OpReturns, Zenon DEF Cancel, Fault
<1>2. CASE SignFails(o)
  BY <1>2, OpReturns, Zenon DEF SignFails, Fault
<1>3. CASE GetFails(o)
  BY <1>3, OpRetryFault, KeysUnchanged, Zenon DEF GetFails
<1>4. CASE AfterFails(o)
  BY <1>4, OpRetryFault, KeysUnchanged, Zenon DEF AfterFails
<1>5. CASE DoFails(o)
  <2>1. PICK key \in WireKeys(o), apply \in BOOLEAN :
           applied' = [applied EXCEPT ![o] = IF apply THEN @ \union {key} ELSE @]
    BY <1>5, Zenon DEF DoFails
  <2> DEFINE keys == IF apply THEN applied[o] \union {key} ELSE applied[o]
  <2>2. applied' = [applied EXCEPT ![o] = keys]
    BY <2>1, Zenon
  <2>3. OpSound(at[o], applied[o]) /\ at[o].pc = "send"
    BY <1>5, Zenon DEF OpInv, DoFails
  <2>4. OpSound(at[o], keys)
    BY <2>3, Zenon DEF OpSound, WireKeys
  <2> HIDE DEF keys
  <2>5. QED
    BY <1>5, <2>2, <2>3, <2>4, OpRetryFault, Zenon DEF DoFails
<1>6. QED
  BY <1>1, <1>2, <1>3, <1>4, <1>5, Zenon DEF Fails

\* A step of operation o to locals that are sound and not asleep.
LEMMA OpGoes ==
  ASSUME OpInv, NEW o \in Ops, NEW l, OpSound(l, applied[o]), l.pc # "sleep",
         at' = [at EXCEPT ![o] = l], applied' = applied, faults' = faults
  PROVE  OpStepOK(o)
<1>1. OpInv'
  BY OneOpStepsAlone, Zenon
<1>2. at'[o] = l
  BY Zenon DEF OpInv
<1>3. QED
  BY <1>1, <1>2, Zenon DEF OpStepOK

\* BeforeCall and AfterCall go on from the state they loaded.
LEMMA OpLoaded ==
  ASSUME OpInv, NEW o \in Ops, at[o].pc \in {"get", "fill"}, NEW state, NEW read,
         Loaded(o, state, read), applied' = applied, faults' = faults
  PROVE  OpStepOK(o)
<1> DEFINE new == AfterCall(state, at[o].meta, at[o].start)
           w == [at[o] EXCEPT !.pc = "write", !.read = read, !.state = new]
           s == [at[o] EXCEPT !.pc = "send", !.state = NewState, !.read = 0]
<1>1. OpSound(at[o], applied[o])
  BY Zenon DEF OpInv
<1>2. CASE at[o].hook = "after"
  <2>1. at' = [at EXCEPT ![o] = w]
    BY <1>2, Zenon DEF Loaded, Goto
  <2> HIDE DEF new
  <2>2. DOMAIN w = DOMAIN Idle /\ w.pc = "write" /\ w.hook = "after" /\ w.attempt = at[o].attempt
        /\ w.header = at[o].header
    BY <1>1, <1>2, IdleDomain, Zenon DEF OpSound
  <2> HIDE DEF w
  <2>3. OpSound(w, applied[o])
    BY <1>1, <2>2, Zenon DEF OpSound
  <2>4. QED
    BY <2>1, <2>2, <2>3, OpGoes, Zenon
<1>3. CASE at[o].hook # "after" /\ RetryOr(o, TRUE, NoMeta, "throttled")
  <2>1. PICK l : OpSound(l, applied[o]) /\ at' = [at EXCEPT ![o] = l]
    BY <1>1, <1>3, RetrySound, Zenon
  <2>2. OpInv'
    BY <2>1, OneOpStepsAlone, Zenon
  <2>3. QED
    BY <1>3, <2>2, Zenon DEF OpStepOK
<1>4. CASE at[o].hook # "after" /\ Goto(o, s)
  <2>1. at' = [at EXCEPT ![o] = s]
    BY <1>4, Zenon DEF Goto
  <2>2. DOMAIN s = DOMAIN Idle /\ s.pc = "send" /\ s.hook = at[o].hook /\ s.attempt = at[o].attempt
        /\ s.header = at[o].header
    BY <1>1, IdleDomain, Zenon DEF OpSound
  <2> HIDE DEF s
  <2>3. OpSound(s, applied[o])
    BY <1>1, <1>4, <2>2, Zenon DEF OpSound
  <2>4. QED
    BY <2>1, <2>2, <2>3, OpGoes, Zenon
<1>5. QED
  BY <1>2, <1>3, <1>4, Zenon DEF Loaded

\* Reading the state through the cache.
LEMMA OpGets ==
  ASSUME OpInv, NEW o \in Ops, GetHit(o) \/ GetMiss(o) \/ Fill(o) PROVE OpStepOK(o)
<1>1. CASE GetHit(o)
  BY <1>1, OpLoaded, Zenon DEF GetHit
<1>2. CASE Fill(o)
  BY <1>2, OpLoaded, Zenon DEF Fill
<1>3. CASE GetMiss(o)
  <2>1. at[o].pc = "get" /\ applied' = applied /\ faults' = faults
    BY <1>3, Zenon DEF GetMiss
  <2>2. CASE Loaded(o, NewState, 0)
    BY <2>1, <2>2, OpLoaded, Zenon
  <2>3. ASSUME NEW r \in row,
               Goto(o, [at[o] EXCEPT !.pc = "fill", !.state = toDomain(r), !.read = ver])
        PROVE  OpStepOK(o)
    <3> DEFINE st == toDomain(r)
               f == [at[o] EXCEPT !.pc = "fill", !.state = st, !.read = ver]
    <3>1. at' = [at EXCEPT ![o] = f]
      BY <2>3, Zenon DEF Goto
    <3> HIDE DEF st
    <3>2. OpSound(at[o], applied[o])
      BY Zenon DEF OpInv
    <3>3. DOMAIN f = DOMAIN Idle /\ f.pc = "fill" /\ f.hook = at[o].hook
          /\ f.attempt = at[o].attempt /\ f.header = at[o].header
      BY <3>2, IdleDomain, Zenon DEF OpSound
    <3> HIDE DEF f
    <3>4. OpSound(f, applied[o])
      BY <2>1, <3>2, <3>3, Zenon DEF OpSound
    <3>5. QED
      BY <2>1, <3>1, <3>3, <3>4, OpGoes, Zenon
  <2>4. QED
    BY <1>3, <2>2, <2>3, Zenon DEF GetMiss
<1>4. QED
  BY <1>1, <1>2, <1>3, Zenon

\* The provider answers, and applies the operation under its idempotency key.
LEMMA OpDo ==
  ASSUME OpInv, NEW o \in Ops, NEW reply, Do(o, reply) PROVE OpStepOK(o)
<1> DEFINE m == Normalize(provider, ReplyAt(reply))
           l == [at[o] EXCEPT !.pc = "get", !.hook = "after", !.start = now, !.meta = m]
<1>1. at[o].pc = "send" /\ faults' = faults /\ at' = [at EXCEPT ![o] = l]
  BY Zenon DEF Do, Goto
<1> HIDE DEF m
<1>2. PICK key \in WireKeys(o), apply \in MayApply(reply.status) :
         applied' = [applied EXCEPT ![o] = IF apply THEN @ \union {key} ELSE @]
  BY Zenon DEF Do
<1> DEFINE keys == IF apply THEN applied[o] \union {key} ELSE applied[o]
<1>3. applied' = [applied EXCEPT ![o] = keys]
  BY <1>2, Zenon
<1>4. OpSound(at[o], applied[o])
  BY Zenon DEF OpInv
<1>5. OpSound(at[o], keys)
  BY <1>1, <1>4, Zenon DEF OpSound, WireKeys
<1> HIDE DEF keys
<1>6. DOMAIN l = DOMAIN Idle /\ l.pc = "get" /\ l.hook = "after" /\ l.attempt = at[o].attempt
      /\ l.header = at[o].header
  BY <1>4, IdleDomain, Zenon DEF OpSound
<1> HIDE DEF l
<1>7. OpSound(l, keys)
  BY <1>5, <1>6, Zenon DEF OpSound
<1>8. OpInv'
  BY <1>1, <1>3, <1>7, OneOpSteps, Zenon
<1>9. at'[o].pc = "get"
  BY <1>1, <1>6, Zenon DEF OpInv
<1>10. QED
  BY <1>8, <1>9, Zenon DEF OpStepOK

\* AfterCall writes the state it computed from the reply.
LEMMA OpUpsert ==
  ASSUME OpInv, NEW o \in Ops, Upsert(o) PROVE OpStepOK(o)
<1> DEFINE l == [at[o] EXCEPT !.pc = "invalidate", !.state = NewState, !.read = 0, !.start = 0]
<1>1. at[o].pc = "write" /\ faults' = faults /\ applied' = applied /\ at' = [at EXCEPT ![o] = l]
  BY Zenon DEF Upsert, Goto
<1>2. OpSound(at[o], applied[o])
  BY Zenon DEF OpInv
<1>3. DOMAIN l = DOMAIN Idle /\ l.pc = "invalidate" /\ l.hook = at[o].hook
      /\ l.attempt = at[o].attempt /\ l.header = at[o].header
  BY <1>2, IdleDomain, Zenon DEF OpSound
<1> HIDE DEF l
<1>4. OpSound(l, applied[o])
  BY <1>1, <1>2, <1>3, Zenon DEF OpSound
<1>5. QED
  BY <1>1, <1>3, <1>4, OpGoes, Zenon

\* AfterCall drops the cached state, and the reply decides on a retry.
LEMMA OpInvalidate ==
  ASSUME OpInv, NEW o \in Ops, Invalidate(o) PROVE OpStepOK(o)
<1> DEFINE retryable == at[o].meta.status \in RetryableStatusCodes
           result == IF at[o].meta.status >= 400 THEN "failed" ELSE "ok"
<1>1. at[o].pc = "invalidate" /\ faults' = faults /\ applied' = applied
      /\ RetryOr(o, retryable, at[o].meta, result)
  BY Zenon DEF Invalidate, Decide
<1>2. OpSound(at[o], applied[o])
  BY Zenon DEF OpInv
<1>3. retryable => ~(at[o].meta.status < 400)
  BY DEF RetryableStatusCodes
<1> HIDE DEF retryable, result
<1>4. PICK l : OpSound(l, applied[o]) /\ at' = [at EXCEPT ![o] = l] /\ (l.pc = "sleep" => retryable)
  BY <1>1, <1>2, RetrySound, Zenon
<1>5. OpInv'
  BY <1>1, <1>4, OneOpStepsAlone, Zenon
<1>6. at'[o] = l
  BY <1>4, Zenon DEF OpInv
<1>7. QED
  BY <1>3, <1>4, <1>5, <1>6, Zenon DEF OpStepOK

\* The other operations do not move.
LEMMA OthersStay ==
  ASSUME OpInv, NEW o \in Ops, Step(o) \/ Fails(o)
  PROVE  \A p \in Ops \ {o} : at'[p] = at[p]
<1>1. \E l : at' = [at EXCEPT ![o] = l]
  BY Zenon DEF Step, Fails, Begin, Wake, GetHit, GetMiss, Fill, Do, Upsert, Invalidate, Cancel,
         GetFails,
         SignFails, DoFails, AfterFails, Loaded, Decide, RetryOr, Return, Goto
<1>2. QED
  BY <1>1, Zenon DEF OpInv

\* The invariant is inductive, and after a reply below 400 only a fault leads
\* to another attempt.
LEMMA OpNext ==
  ASSUME OpInv, Next PROVE OpInv' /\ AgainByFault
<1>1. CASE \E o \in Ops : Step(o) \/ Fails(o)
  <2>1. PICK o \in Ops : Step(o) \/ Fails(o)
    BY <1>1, Zenon
  <2>2. OpStepOK(o)
    BY <2>1, OpBegin, OpWake, OpGets, OpDo, OpUpsert, OpInvalidate, OpFails, Zenon DEF Step
  <2>3. \A p \in Ops : at[p].hook = "after" => at[p].pc # "sleep"
    BY Zenon DEF OpInv, OpSound
  <2>4. QED
    BY <2>1, <2>2, <2>3, OthersStay DEF OpStepOK, AgainByFault
<1>2. CASE Expire \/ Tick \/ Finished
  <2>1. at' = at /\ applied' = applied /\ faults' = faults
    BY <1>2, Zenon DEF Expire, Tick, Finished, vars
  <2>2. \A p \in Ops : at[p].hook = "after" => at[p].pc # "sleep"
    BY Zenon DEF OpInv, OpSound
  <2>3. QED
    BY <2>1, <2>2, Zenon DEF OpInv, AgainByFault
<1>3. QED
  BY <1>1, <1>2, Zenon DEF Next

\* Sound locals are within the attempts, and one key was applied.
LEMMA OpInvSafe == OpInv => WithinAttempts /\ AppliedOnce
<1> SUFFICES ASSUME OpInv PROVE WithinAttempts /\ AppliedOnce
  BY Zenon
<1>1. WithinAttempts
  BY DEF OpInv, OpSound, WithinAttempts
<1>2. ASSUME NEW o \in Ops, at[o].header # "lowercase" PROVE \A x, y \in applied[o] : x = y
  <2>1. PICK x : applied[o] \subseteq {x}
    BY <1>2, Zenon DEF OpInv, OpSound
  <2>2. QED
    BY <2>1, Zenon
<1>3. QED
  BY <1>1, <1>2, Zenon DEF AppliedOnce

\* RunProviderOperation makes at most MaxAttempts attempts, tries again after a
\* reply below 400 only when a call of its rate limit policy failed, and keeps one
\* idempotency key over its attempts unless the caller spelt the header so that
\* it is not recognised.
THEOREM RetriesBounded == Spec => RetriesEnd
<1>1. Init => OpInv
  BY OpInitInv, Zenon
<1>2. OpInv /\ [Next]_vars => OpInv'
  <2>1. OpInv /\ UNCHANGED vars => OpInv'
    BY Zenon DEF OpInv, vars
  <2>2. QED
    BY <2>1, OpNext, Zenon
<1>3. OpInv /\ Next => AgainByFault
  BY OpNext, Zenon
<1>4. OpInv => WithinAttempts /\ AppliedOnce
  BY OpInvSafe, Zenon
<1>5. QED
  BY <1>1, <1>2, <1>3, <1>4, PTL DEF Spec, RetriesEnd

-----------------------------------------------------------------------------
(* Rate limits.  What a recorded reply asked for is covered by the row, a  *)
(* current cache entry or fill is the row, and so BeforeCall lets nobody   *)
(* through in between.  The delay that AfterCall computes without a header *)
(* is a recursive function, which takes an induction: over the least       *)
(* counterexample.                                                         *)

\* A set of natural numbers that is not empty has a least element.
LEMMA LeastExists ==
    ASSUME NEW S, S \subseteq Nat, S # {}
    PROVE  \E m \in S : \A y \in S : m <= y
<1> DEFINE R == OpToRel(<, Nat)
<1>1. PICK m \in S : \A y \in S : ~(<<y, m>> \in R)
  <2> HIDE DEF R
  <2>1. IsWellFoundedOn(R, Nat)
    BY NatLessThanWellFounded, Zenon DEF R
  <2> QED BY <2>1, WFMin, Zenon
<1>2. \A y \in S : ~(y < m)
  BY <1>1, Zenon DEF OpToRel
<1> QED
  BY <1>2

\* The delay after n doublings, as far as some number of doublings.
Doubled(d, maximum) == IF 2 * d >= maximum THEN maximum ELSE 2 * d

Delays(g, n, initial, maximum) ==
    /\ g \in [0 .. n -> Nat \ {0}]
    /\ g[0] = initial
    /\ \A i \in 1 .. n : g[i] = Doubled(g[i - 1], maximum)

\* A set of natural numbers with 0 and the successors of its members has all.
LEMMA Inductive ==
    ASSUME NEW S, 0 \in S, \A n \in Nat : n \in S => n + 1 \in S
    PROVE  Nat \subseteq S
<1> SUFFICES ASSUME Nat \ S # {} PROVE FALSE
  BY Zenon
<1>1. PICK m \in Nat \ S : \A y \in Nat \ S : m <= y
  BY LeastExists, Zenon
<1>2. m # 0
  BY <1>1, Zenon
<1>3. m - 1 \in Nat /\ ~(m <= m - 1) /\ (m - 1) + 1 = m
  BY <1>1, <1>2
<1>4. m - 1 \in S
  BY <1>1, <1>3, Zenon
<1> QED
  BY <1>1, <1>3, <1>4, Zenon

\* However many doublings, the delays up to there exist.
LEMMA DelaysExist ==
    ASSUME NEW initial \in Nat \ {0}, NEW maximum \in Nat \ {0}
    PROVE  \A n \in Nat : \E g : Delays(g, n, initial, maximum)
<1> DEFINE S == {n \in Nat : \E g : Delays(g, n, initial, maximum)}
<1>1. 0 \in S
  <2>1. Delays([i \in 0 .. 0 |-> initial], 0, initial, maximum)
    BY DEF Delays
  <2> QED
    BY <2>1
<1>2. ASSUME NEW n \in Nat, n \in S PROVE n + 1 \in S
  <2>1. PICK g : Delays(g, n, initial, maximum)
    BY <1>2, Zenon
  <2> DEFINE h == [i \in 0 .. n + 1 |-> IF i = n + 1 THEN Doubled(g[n], maximum) ELSE g[i]]
  <2>2. Doubled(g[n], maximum) \in Nat \ {0}
    <3>1. g[n] \in Nat \ {0}
      BY <2>1 DEF Delays
    <3> QED
      BY <3>1 DEF Doubled
  <2>3. h \in [0 .. n + 1 -> Nat \ {0}] /\ h[0] = initial
    BY <2>1, <2>2 DEF Delays
  <2>4. ASSUME NEW i \in 1 .. n + 1 PROVE h[i] = Doubled(h[i - 1], maximum)
    <3>1. CASE i = n + 1
      BY <3>1
    <3>2. CASE i # n + 1
      <4>1. i \in 1 .. n /\ i \in 0 .. n + 1 /\ i - 1 \in 0 .. n + 1 /\ i - 1 # n + 1
        BY <3>2
      <4>2. h[i] = g[i] /\ h[i - 1] = g[i - 1]
        BY <3>2, <4>1, Zenon
      <4> QED
        BY <2>1, <4>1, <4>2, Zenon DEF Delays
    <3> QED
      BY <3>1, <3>2, Zenon
  <2> HIDE DEF h
  <2>5. Delays(h, n + 1, initial, maximum)
    BY <2>3, <2>4, Zenon DEF Delays
  <2>6. n + 1 \in Nat
    OBVIOUS
  <2> QED
    BY <2>5, <2>6, Zenon
<1> HIDE DEF S
<1>3. Nat \subseteq S
  BY <1>1, <1>2, Inductive, Zenon
<1> QED
  BY <1>3, Zenon DEF S

\* Two such sequences of delays agree as far as both go.
LEMMA DelaysAgree ==
    ASSUME NEW initial, NEW maximum, NEW n \in Nat, NEW m \in Nat, n <= m,
           NEW g, Delays(g, n, initial, maximum), NEW h, Delays(h, m, initial, maximum)
    PROVE  \A i \in 0 .. n : g[i] = h[i]
<1> DEFINE S == {i \in Nat : i <= n => g[i] = h[i]}
<1>1. 0 \in S
  BY Zenon DEF Delays
<1>2. ASSUME NEW i \in Nat, i \in S PROVE i + 1 \in S
  <2> SUFFICES ASSUME i + 1 <= n PROVE g[i + 1] = h[i + 1]
    OBVIOUS
  <2>1. i <= n /\ i + 1 \in 1 .. n /\ i + 1 \in 1 .. m /\ (i + 1) - 1 = i
    OBVIOUS
  <2>2. g[i] = h[i]
    BY <1>2, <2>1, Zenon
  <2> QED
    BY <2>1, <2>2 DEF Delays
<1> HIDE DEF S
<1>3. Nat \subseteq S
  BY <1>1, <1>2, Inductive, Zenon
<1>4. \A i \in 0 .. n : i \in Nat /\ i <= n
  OBVIOUS
<1> QED
  BY <1>3, <1>4, Zenon DEF S

\* So the delay that Backoff computes is never zero.
LEMMA BackoffPositive ==
    ASSUME NEW initial \in Nat \ {0}, NEW maximum \in Nat \ {0}, NEW attempt \in Nat \ {0}
    PROVE  Backoff(initial, maximum, attempt) \in Nat \ {0}
<1> DEFINE capped(d) == IF d >= maximum THEN maximum ELSE d
           Delay(f) == f = [n \in Nat |-> IF n = 0 THEN initial ELSE capped(2 * f[n - 1])]
           G(n) == CHOOSE g : Delays(g, n, initial, maximum)
           F == [n \in Nat |-> G(n)[n]]
<1>1. \A n \in Nat : Delays(G(n), n, initial, maximum)
  BY DelaysExist, Zenon
<1> HIDE DEF G
<1>2. ASSUME NEW n \in Nat PROVE F[n] = IF n = 0 THEN initial ELSE capped(2 * F[n - 1])
  <2>1. CASE n = 0
    BY <1>1, <2>1, Zenon DEF Delays
  <2>2. CASE n # 0
    <3>1. n - 1 \in Nat /\ n - 1 <= n /\ n \in 1 .. n /\ n - 1 \in 0 .. n - 1
      BY <2>2
    <3>2. G(n)[n] = Doubled(G(n)[n - 1], maximum)
      BY <1>1, <3>1, Zenon DEF Delays
    <3>3. G(n - 1)[n - 1] = G(n)[n - 1]
      <4>1. Delays(G(n - 1), n - 1, initial, maximum) /\ Delays(G(n), n, initial, maximum)
        BY <1>1, <3>1, Zenon
      <4>2. \A i \in 0 .. n - 1 : G(n - 1)[i] = G(n)[i]
        BY <3>1, <4>1, DelaysAgree
      <4> QED
        BY <3>1, <4>2, Zenon
    <3>4. F[n] = G(n)[n] /\ F[n - 1] = G(n - 1)[n - 1]
      BY <3>1, Zenon
    <3> QED
      BY <2>2, <3>2, <3>3, <3>4, Zenon DEF Doubled
  <2> QED
    BY <2>1, <2>2, Zenon
<1>3. Delay(F)
  BY <1>2, Zenon
<1> HIDE DEF F
<1> DEFINE delay == CHOOSE f : Delay(f)
<1>4. Delay(delay)
  BY <1>3, Zenon
<1>5. Backoff(initial, maximum, attempt) = capped(delay[attempt - 1])
  BY Zenon DEF Backoff
<1> HIDE DEF delay
<1>6. \A n \in Nat : delay[n] = IF n = 0 THEN initial ELSE capped(2 * delay[n - 1])
  BY <1>4, Zenon
<1> DEFINE S == {n \in Nat : delay[n] \in Nat \ {0}}
<1>7. 0 \in S
  BY <1>6, Zenon
<1>8. ASSUME NEW n \in Nat, n \in S PROVE n + 1 \in S
  <2>1. n + 1 \in Nat /\ n + 1 # 0 /\ (n + 1) - 1 = n
    OBVIOUS
  <2>2. delay[n + 1] = capped(2 * delay[n])
    BY <1>6, <2>1, Zenon
  <2>3. \A d \in Nat \ {0} : capped(2 * d) \in Nat \ {0}
    OBVIOUS
  <2> QED
    BY <1>8, <2>1, <2>2, <2>3, Zenon
<1> HIDE DEF S
<1>9. Nat \subseteq S
  BY <1>7, <1>8, Inductive, Zenon
<1>10. attempt - 1 \in Nat
  OBVIOUS
<1>11. delay[attempt - 1] \in Nat \ {0}
  BY <1>9, <1>10, Zenon DEF S
<1>12. \A d \in Nat \ {0} : capped(d) \in Nat \ {0}
  OBVIOUS
<1> QED
  BY <1>5, <1>11, <1>12, Zenon

HeadersOK(headers) == \A h \in DOMAIN headers : headers[h] \in Int

\* What the policy is told of a reply: a delay in the headers is not forgotten.
MetaOK(m) ==
    /\ m.status \in Nat /\ m.retryAfter \in Int /\ HeadersOK(m.headers)
    /\ HeaderOr(m.headers, "retry-after", 0) > 0 => m.retryAfter = m.headers["retry-after"]

StateOK(s) ==
    /\ s.remaining \in Int /\ s.resetAt \in Int /\ s.throttledUntil \in Int
    /\ s.attempts \in Nat

\* State s makes BeforeCall wait until t.
Covers(s, t) ==
    \/ s.throttledUntil # None /\ t <= s.throttledUntil
    \/ s.remaining = 0 /\ s.resetAt # None /\ t <= s.resetAt

\* A header that is looked up is a number.
LEMMA HeaderInt ==
    ASSUME NEW headers, HeadersOK(headers), NEW name, NEW default \in Int
    PROVE  HeaderOr(headers, name, default) \in Int
  BY Zenon DEF HeadersOK, HeaderOr, Has

\* Headers that are added to others stay numbers.
LEMMA HeadersMerged ==
    ASSUME NEW f, NEW g, HeadersOK(f), HeadersOK(g) PROVE HeadersOK(Set(f, g))
  BY Zenon DEF HeadersOK, Set

\* So are the headers of one number,
LEMMA HeaderSingle ==
    ASSUME NEW name, NEW value \in Int PROVE HeadersOK(Header(name, value))
  BY Zenon DEF HeadersOK, Header

\* and no headers at all.
LEMMA HeadersNone == HeadersOK(NoHeaders)
  BY Zenon DEF HeadersOK, NoHeaders

\* What any normalizer tells the policy is such.
LEMMA DefaultOK ==
    ASSUME NEW status \in Nat, NEW headers, HeadersOK(headers)
    PROVE  MetaOK(NormalizeDefault([status |-> status, headers |-> headers]))
<1> DEFINE m == NormalizeDefault([status |-> status, headers |-> headers])
<1>1. m.status = status /\ m.headers = headers
      /\ m.retryAfter = IF HeaderOr(headers, "retry-after", 0) > 0
                        THEN headers["retry-after"] ELSE None
  BY Zenon DEF NormalizeDefault
<1>2. HeaderOr(headers, "retry-after", 0) \in Int
  BY HeaderInt
<1>3. HeaderOr(headers, "retry-after", 0) # 0 => headers["retry-after"] \in Int
  BY <1>2, Zenon DEF HeaderOr
<1>4. None \in Int
  BY DEF None
<1>5. HeaderOr(headers, "retry-after", 0) > 0 => HeaderOr(headers, "retry-after", 0) # 0
  BY <1>2
<1> HIDE DEF m
<1> QED
  BY <1>1, <1>3, <1>4, <1>5, Zenon DEF MetaOK, m

\* So is what a provider's normalizer tells it, which adds headers and a delay of its
\* own for some statuses,
LEMMA WithDefaultOK ==
    ASSUME NEW status \in Nat, NEW headers, HeadersOK(headers), NEW extra, HeadersOK(extra),
           NEW statuses, NEW default \in Int
    PROVE  MetaOK(WithDefault([status |-> status, headers |-> headers], extra, statuses, default))
<1> DEFINE r == [status |-> status, headers |-> headers]
           both == Set(extra, headers)
           m == NormalizeDefault([status |-> status, headers |-> both])
           w == WithDefault(r, extra, statuses, default)
<1>1. [r EXCEPT !.headers = Set(extra, @)] = [status |-> status, headers |-> both]
  OBVIOUS
<1>2. HeadersOK(both)
  BY HeadersMerged, Zenon
<1> HIDE DEF both
<1>3. MetaOK(m)
  BY <1>2, DefaultOK, Zenon
<1>4. w = [m EXCEPT !.retryAfter =
              IF @ = None /\ r.status \in statuses THEN default ELSE @]
  BY <1>1, Zenon DEF WithDefault
<1>5. DOMAIN m = {"status", "headers", "retryAfter"}
  BY Zenon DEF NormalizeDefault
<1> HIDE DEF m, w, r
<1>6. /\ w.status = m.status /\ w.headers = m.headers
      /\ w.retryAfter = m.retryAfter \/ (m.retryAfter = None /\ w.retryAfter = default)
  BY <1>4, <1>5, Zenon
<1>7. m.retryAfter = None => ~(HeaderOr(m.headers, "retry-after", 0) > 0)
  <2>1. None = -1
    BY Zenon DEF None
  <2>2. HeaderOr(m.headers, "retry-after", 0) > 0
           => HeaderOr(m.headers, "retry-after", 0) = m.headers["retry-after"]
    <3>1. ~(0 > 0)
      OBVIOUS
    <3> QED
      BY <3>1, Zenon DEF HeaderOr
  <2>3. \A x : x = -1 => ~(x > 0)
    OBVIOUS
  <2> QED
    BY <1>3, <2>1, <2>2, <2>3, Zenon DEF MetaOK
<1> QED
  BY <1>3, <1>6, <1>7, Zenon DEF MetaOK, w, r

\* and so for every provider that Normalize knows.
LEMMA NormalizeOK ==
    ASSUME NEW p, NEW status \in Nat, NEW headers, HeadersOK(headers)
    PROVE  MetaOK(Normalize(p, [status |-> status, headers |-> headers]))
<1> DEFINE r == [status |-> status, headers |-> headers]
<1>1. r.headers = headers
  BY Zenon
<1>2. \A e, st, d : HeadersOK(e) /\ d \in Int => MetaOK(WithDefault(r, e, st, d))
  BY WithDefaultOK, Zenon
<1>3. MetaOK(NormalizeDefault(r))
  BY DefaultOK, Zenon
<1> HIDE DEF r
<1>4. 2 \in Int /\ 3 \in Int /\ 5 \in Int
  OBVIOUS
<1>5. /\ MetaOK(NormalizeTikTok(r)) /\ MetaOK(NormalizePinterest(r))
      /\ MetaOK(NormalizeGoogleShopping(r))
  <2>1. \A st : MetaOK(WithDefault(r, NoHeaders, st, 3)) /\ MetaOK(WithDefault(r, NoHeaders, st, 5))
    BY <1>2, <1>4, HeadersNone, Zenon
  <2> QED
    BY <2>1, Zenon DEF NormalizeTikTok, NormalizePinterest, NormalizeGoogleShopping
<1>6. MetaOK(NormalizeAdminAPIResponse(r))
  <2> DEFINE used == HeaderOr(r.headers, "shopify-used", None)
             limit == HeaderOr(r.headers, "shopify-limit", 0)
             left == IF used > limit THEN 0 ELSE limit - used
             extra == IF used >= 0 /\ limit > 0
                      THEN Set(Header("x-ratelimit-limit", limit),
                               Header("x-ratelimit-remaining", left))
                      ELSE NoHeaders
  <2>1. used \in Int /\ limit \in Int
    <3>1. 0 \in Int /\ None \in Int
      BY DEF None
    <3> QED
      BY <1>1, <3>1, HeaderInt
  <2>2. left \in Int
    <3> HIDE DEF used, limit
    <3> QED BY <2>1
  <2> HIDE DEF left
  <2>3. HeadersOK(extra)
    <3>1. /\ HeadersOK(Header("x-ratelimit-limit", limit))
          /\ HeadersOK(Header("x-ratelimit-remaining", left))
      BY <2>1, <2>2, HeaderSingle, Zenon
    <3> HIDE DEF used, limit
    <3> QED
      BY <3>1, HeadersMerged, HeadersNone, Zenon
  <2>4. NormalizeAdminAPIResponse(r) = WithDefault(r, extra, {429}, 2)
    BY Zenon DEF NormalizeAdminAPIResponse, left
  <2> HIDE DEF extra
  <2>5. MetaOK(WithDefault(r, extra, {429}, 2))
    BY <1>2, <1>4, <2>3, Zenon
  <2> QED
    BY <2>4, <2>5
<1>7. MetaOK(NormalizeAmazon(r))
  <2> DEFINE whole(from, to) ==
               IF Has(r.headers, from) /\ r.headers[from] % 10 = 0
               THEN Header(to, r.headers[from] \div 10) ELSE NoHeaders
             reset == IF Has(r.headers, "x-amzn-ratelimit-reset")
                      THEN Header("x-ratelimit-reset", r.headers["x-amzn-ratelimit-reset"])
                      ELSE NoHeaders
             a == whole("x-amzn-ratelimit-limit", "x-ratelimit-limit")
             b == whole("x-amzn-ratelimit-remaining", "x-ratelimit-remaining")
             extra == Set(Set(a, b), reset)
  <2>1. \A from, to : HeadersOK(whole(from, to))
    <3>1. \A x \in Int : x \div 10 \in Int
      OBVIOUS
    <3>2. \A from : Has(r.headers, from) => r.headers[from] \in Int
      BY <1>1, Zenon DEF HeadersOK, Has
    <3> QED
      BY <3>1, <3>2, HeaderSingle, HeadersNone, Zenon
  <2>2. HeadersOK(reset)
    BY <1>1, HeaderSingle, HeadersNone, Zenon DEF HeadersOK, Has
  <2>3. HeadersOK(a) /\ HeadersOK(b)
    BY <2>1, Zenon
  <2>4. NormalizeAmazon(r) = WithDefault(r, extra, {429, 503}, 2)
    BY Zenon DEF NormalizeAmazon
  <2> HIDE DEF a, b, reset, whole
  <2>5. HeadersOK(extra)
    BY <2>2, <2>3, HeadersMerged, Zenon
  <2> HIDE DEF extra
  <2>6. MetaOK(WithDefault(r, extra, {429, 503}, 2))
    BY <1>2, <1>4, <2>5
  <2> QED
    BY <2>4, <2>6
<1>8. MetaOK(Normalize(p, r))
  BY <1>3, <1>5, <1>6, <1>7, Zenon DEF Normalize
<1> QED
  BY <1>8, Zenon DEF r

\* The row of a state reads back as that state, but for the delay.
LEMMA RowReadsBack ==
    ASSUME NEW s, StateOK(s)
    PROVE  LET t == toDomain(rateLimitStateFromDomain(s)) IN
           /\ t.remaining = s.remaining /\ t.resetAt = s.resetAt
           /\ t.attempts = s.attempts /\ t.throttledUntil = s.throttledUntil
<1> DEFINE a == IF s.attempts > 0 THEN Header("_attempts", s.attempts) ELSE NoHeaders
           w == IF s.throttledUntil # None
                THEN Header("_throttled_until", s.throttledUntil) ELSE NoHeaders
           m == Set(a, w)
           t == toDomain(rateLimitStateFromDomain(s))
<1>1. /\ t.remaining = s.remaining /\ t.resetAt = s.resetAt
      /\ t.attempts = HeaderOr(m, "_attempts", 0)
      /\ t.throttledUntil = HeaderOr(m, "_throttled_until", None)
  BY Zenon DEF toDomain, rateLimitStateFromDomain, composeRateLimitMetadata
<1>2. s.attempts > 0 \/ s.attempts = 0
  BY DEF StateOK
<1>3. DOMAIN a \subseteq {"_attempts"} /\ DOMAIN w \subseteq {"_throttled_until"}
  BY Zenon DEF Header, NoHeaders
<1>4. HeaderOr(a, "_attempts", 0) = s.attempts
  <2>1. CASE s.attempts > 0
    BY <2>1, Zenon DEF HeaderOr, Has, Header
  <2>2. CASE ~(s.attempts > 0)
    BY <1>2, <2>2, Zenon DEF HeaderOr, Has, NoHeaders
  <2> QED
    BY <2>1, <2>2, Zenon
<1>5. HeaderOr(w, "_throttled_until", None) = s.throttledUntil
  BY Zenon DEF HeaderOr, Has, Header, NoHeaders
<1> HIDE DEF a, w, t
<1>6. HeaderOr(m, "_attempts", 0) = HeaderOr(a, "_attempts", 0)
  BY <1>3, Zenon DEF HeaderOr, Has, Set
<1>7. HeaderOr(m, "_throttled_until", None) = HeaderOr(w, "_throttled_until", None)
  BY <1>3, Zenon DEF HeaderOr, Has, Set
<1> QED
  BY <1>1, <1>4, <1>5, <1>6, <1>7 DEF t

\* A delay that the policy takes from a reply is positive, and it is the one of
\* the header, if that has one.
LEMMA RetryAfterPositive ==
    ASSUME NEW m, MetaOK(m)
    PROVE  LET d == parseRetryAfter(m) IN
           /\ d = None \/ d \in Nat \ {0}
           /\ HeaderOr(m.headers, "retry-after", 0) > 0
                 => d = HeaderOr(m.headers, "retry-after", 0)
<1> DEFINE h == HeaderOr(m.headers, "retry-after", 0)
           d == parseRetryAfter(m)
<1>1. h \in Int /\ m.retryAfter \in Int
  BY HeaderInt DEF MetaOK
<1>2. h > 0 => h = m.headers["retry-after"] /\ m.retryAfter = h
  <2>1. ~(0 > 0)
    OBVIOUS
  <2> QED
    BY <2>1, Zenon DEF MetaOK, HeaderOr
<1>3. d = IF m.retryAfter > 0 THEN m.retryAfter
          ELSE IF h > 0 THEN m.headers["retry-after"] ELSE None
  BY Zenon DEF parseRetryAfter
<1> HIDE DEF h, d
<1>4. \A x \in Int : x > 0 => x \in Nat \ {0}
  OBVIOUS
<1>5. d = None \/ d \in Nat \ {0}
  BY <1>1, <1>2, <1>3, <1>4, Zenon
<1>6. h > 0 => d = h
  BY <1>2, <1>3, Zenon
<1> QED
  BY <1>5, <1>6, Zenon DEF h, d

\* AfterCall makes a state of a state, in which a throttled reply has a window.
LEMMA AfterCallOK ==
    ASSUME NEW s, StateOK(s), NEW m, MetaOK(m), NEW start \in Nat
    PROVE  LET n == AfterCall(s, m, start)
               d == parseRetryAfter(m)
           IN  /\ StateOK(n)
               /\ n.remaining = HeaderOr(m.headers, "x-ratelimit-remaining", s.remaining)
               /\ n.resetAt = HeaderOr(m.headers, "x-ratelimit-reset", s.resetAt)
               /\ isThrottledResponse(m, n.remaining) =>
                     /\ n.throttledUntil \in Nat /\ n.throttledUntil > start
                     /\ d # None => n.throttledUntil = start + d
<1> DEFINE remaining == HeaderOr(m.headers, "x-ratelimit-remaining", s.remaining)
           resetAt == HeaderOr(m.headers, "x-ratelimit-reset", s.resetAt)
           d == parseRetryAfter(m)
           throttled == isThrottledResponse(m, remaining)
           attempts == IF throttled THEN s.attempts + 1 ELSE 0
           delay == IF d # None THEN d ELSE nextBackoff(attempts)
           n == AfterCall(s, m, start)
<1>1. /\ n.remaining = remaining /\ n.resetAt = resetAt /\ n.attempts = attempts
      /\ n.throttledUntil = IF throttled THEN start + delay ELSE None
  BY Zenon DEF AfterCall
<1>2. remaining \in Int /\ resetAt \in Int
  BY HeaderInt, Zenon DEF MetaOK, StateOK
<1>3. d = None \/ d \in Nat \ {0}
  BY RetryAfterPositive, Zenon
<1> HIDE DEF remaining, resetAt, d, throttled, n
<1>4. attempts \in Nat /\ (throttled => attempts \in Nat \ {0})
  BY DEF StateOK
<1>5. throttled => delay \in Nat \ {0}
  <2> HIDE DEF attempts
  <2> SUFFICES ASSUME throttled, d = None PROVE nextBackoff(attempts) \in Nat \ {0}
    BY <1>3, Zenon
  <2>1. ~(attempts <= 0)
    BY <1>4
  <2>2. nextBackoff(attempts) = Backoff(PolicyInitialBackoff, PolicyMaxBackoff, attempts)
    BY <2>1, Zenon DEF nextBackoff
  <2>3. Backoff(PolicyInitialBackoff, PolicyMaxBackoff, attempts) \in Nat \ {0}
    BY <1>4, RateLimitAssumption, BackoffPositive, Zenon
  <2> QED
    BY <2>2, <2>3
<1> HIDE DEF attempts, delay
<1>6. throttled => start + delay \in Nat /\ start + delay > start /\ start + delay \in Int
  BY <1>5
<1>7. None \in Int
  BY DEF None
<1>8. StateOK(n)
  BY <1>1, <1>2, <1>4, <1>6, <1>7, Zenon DEF StateOK
<1>9. throttled /\ d # None => n.throttledUntil = start + d
  BY <1>1, Zenon DEF delay
<1>10. throttled => n.throttledUntil \in Nat /\ n.throttledUntil > start
  BY <1>1, <1>6
<1> QED
  BY <1>1, <1>8, <1>9, <1>10 DEF remaining, resetAt, d, throttled, n

\* Of three times and zero there is a latest one.
LEMMA LatestExists ==
    ASSUME NEW a \in Int, NEW b \in Int, NEW c \in Int,
           NEW W, W = {t \in {a, b, c} : t > 0}
    PROVE  \E t \in W \union {0} : \A u \in W : u <= t
<1>1. \A u \in W : (u = a \/ u = b \/ u = c) /\ u > 0
  BY Zenon
<1>2. (a > 0 => a \in W) /\ (b > 0 => b \in W) /\ (c > 0 => c \in W) /\ 0 \in W \union {0}
  BY Zenon
<1>3. W \subseteq W \union {0}
  BY Zenon
<1> SUFFICES ASSUME NEW T, W \subseteq T, 0 \in T PROVE \E t \in T : \A u \in W : u <= t
  BY <1>2, <1>3, Zenon
<1>4. CASE a > 0 /\ b <= a /\ c <= a
  <2>1. a \in T /\ \A u \in W : u <= a
    BY <1>1, <1>2, <1>4
  <2> QED BY <2>1, Zenon
<1>5. CASE b > 0 /\ a <= b /\ c <= b
  <2>1. b \in T /\ \A u \in W : u <= b
    BY <1>1, <1>2, <1>5
  <2> QED BY <2>1, Zenon
<1>6. CASE c > 0 /\ a <= c /\ b <= c
  <2>1. c \in T /\ \A u \in W : u <= c
    BY <1>1, <1>2, <1>6
  <2> QED BY <2>1, Zenon
<1>7. CASE a <= 0 /\ b <= 0 /\ c <= 0
  <2>1. \A u \in W : u <= 0
    BY <1>1, <1>7
  <2> QED BY <2>1, Zenon
<1> QED
  BY <1>4, <1>5, <1>6, <1>7

\* The state that AfterCall makes of a reply covers what the reply asks for,
\* unless that lies before the reply itself.
LEMMA AsksCovered ==
    ASSUME NEW o \in Ops, MetaOK(at[o].meta), at[o].start \in Nat, NEW s, StateOK(s)
    PROVE  /\ Asks(o) \in Nat
           /\ \/ Asks(o) <= at[o].start
              \/ Covers(AfterCall(s, at[o].meta, at[o].start), Asks(o))
<1> DEFINE m == at[o].meta
           start == at[o].start
           h == HeaderOr(m.headers, "retry-after", 0)
           q == HeaderOr(m.headers, "x-ratelimit-remaining", 1)
           reset == HeaderOr(m.headers, "x-ratelimit-reset", 0)
           a == start + h
           b == IF q = 0 THEN reset ELSE 0
           c == IF m.status = 429 THEN start + 1 ELSE 0
           waits == {t \in {a, b, c} : t > 0}
           asking == m.status = 429 \/ (q = 0 /\ m.status < 500)
           n == AfterCall(s, m, start)
           asks == Asks(o)
<1>1. asks = IF asking THEN CHOOSE t \in waits \union {0} : \A u \in waits : u <= t ELSE 0
  BY Zenon DEF Asks
<1>2. h \in Int /\ q \in Int /\ reset \in Int /\ start \in Nat /\ MetaOK(m)
  BY HeaderInt DEF MetaOK
<1>3. /\ q = 0 => n.remaining = 0 /\ Has(m.headers, "x-ratelimit-remaining")
      /\ reset > 0 => n.resetAt = reset
  <2>1. /\ n.remaining = HeaderOr(m.headers, "x-ratelimit-remaining", s.remaining)
        /\ n.resetAt = HeaderOr(m.headers, "x-ratelimit-reset", s.resetAt)
    BY <1>2, AfterCallOK, Zenon
  <2>2. ~(0 > 0) /\ 1 # 0
    OBVIOUS
  <2> HIDE DEF n, m
  <2> QED
    BY <2>1, <2>2, Zenon DEF HeaderOr
<1>4. isThrottledResponse(m, n.remaining) =>
         /\ n.throttledUntil \in Nat /\ n.throttledUntil > start
         /\ h > 0 => n.throttledUntil = a
  <2>1. isThrottledResponse(m, n.remaining) =>
         /\ n.throttledUntil \in Nat /\ n.throttledUntil > start
         /\ parseRetryAfter(m) # None => n.throttledUntil = start + parseRetryAfter(m)
    <3> HIDE DEF m, start, h
    <3> QED
      BY <1>2, AfterCallOK, Zenon
  <2>2. h > 0 => parseRetryAfter(m) = h
    BY <1>2, RetryAfterPositive, Zenon
  <2>3. \A x \in Int : x > 0 => x # None
    BY DEF None
  <2> HIDE DEF n, m, h, start
  <2>4. h > 0 => parseRetryAfter(m) # None /\ start + parseRetryAfter(m) = a
    BY <1>2, <2>2, <2>3, Zenon
  <2> QED
    BY <2>1, <2>4, Zenon
<1>5. asking => isThrottledResponse(m, n.remaining)
  <2> HIDE DEF n
  <2> QED
    BY <1>3, Zenon DEF isThrottledResponse
<1>6. a \in Int /\ b \in Int /\ c \in Int
  <2> HIDE DEF h, q, reset, start, m
  <2> QED BY <1>2
<1> HIDE DEF h, q, reset, start, m, n, asks
<1>7. asks = 0 \/ (asking /\ asks \in {a, b, c} /\ asks > 0)
  <2> HIDE DEF a, b, c, asking
  <2>1. \E t \in waits \union {0} : \A u \in waits : u <= t
    BY <1>6, LatestExists, Zenon
  <2>2. asking => asks \in waits \union {0}
    BY <1>1, <2>1, Zenon
  <2> QED
    BY <1>1, <2>2, Zenon
<1>8. asks \in Nat
  BY <1>6, <1>7
<1>9. CASE asks = 0
  BY <1>2, <1>9 DEF asks, start
<1>10. CASE asking /\ asks = a
  <2>1. CASE h > 0
    <3>1. n.throttledUntil \in Nat /\ asks = n.throttledUntil
      BY <1>4, <1>5, <1>10, <2>1, Zenon
    <3>2. n.throttledUntil # None /\ asks <= n.throttledUntil
      BY <3>1 DEF None
    <3> QED
      BY <1>8, <3>2, Zenon DEF Covers, asks, n, m, start
  <2>2. CASE ~(h > 0)
    <3>1. asks <= start
      BY <1>2, <1>10, <2>2
    <3> QED
      BY <1>8, <3>1, Zenon DEF asks, start
  <2> QED
    BY <2>1, <2>2, Zenon
<1>11. CASE asking /\ asks = b /\ asks > 0
  <2>1. q = 0 /\ asks = reset
    BY <1>11
  <2>2. n.remaining = 0 /\ n.resetAt = asks
    BY <1>3, <1>11, <2>1
  <2>3. n.resetAt # None /\ asks <= n.resetAt
    BY <1>8, <1>11, <2>2 DEF None
  <2> QED
    BY <1>8, <2>2, <2>3, Zenon DEF Covers, asks, n, m, start
<1>12. CASE asking /\ asks = c /\ asks > 0
  <2>1. asks = start + 1
    BY <1>12
  <2>2. n.throttledUntil \in Nat /\ n.throttledUntil > start
    BY <1>4, <1>5, <1>12, Zenon
  <2>3. n.throttledUntil # None /\ asks <= n.throttledUntil
    BY <1>2, <2>1, <2>2 DEF None
  <2> QED
    BY <1>8, <2>3, Zenon DEF Covers, asks, n, m, start
<1> QED
  BY <1>7, <1>9, <1>10, <1>11, <1>12, Zenon

\* A state that was read as version v of the row, in the cache or on its way.
EntrySound(state, v, rows, current) ==
    /\ StateOK(state) /\ v \in Nat /\ v # 0 /\ v <= current
    /\ v = current => \E r \in rows : toDomain(r) = state

\* What an operation has learned from the policy's store and the provider.
WaitLocal(l, rows, current, t) ==
    /\ l.hook = "after" /\ l.pc \in {"get", "fill", "write"} =>
          MetaOK(l.meta) /\ l.start \in Nat /\ l.start <= t
    /\ l.pc = "fill" => EntrySound(l.state, l.read, rows, current)
    /\ l.pc = "write" => \E s : StateOK(s) /\ l.state = AfterCall(s, l.meta, l.start)

\* The policy has let the call through and its reply is not recorded yet.
Calling(l) == l.pc = "send" \/ (l.hook = "after" /\ l.pc \in {"get", "fill", "write"})

RowWaits(rows, t, until) == \A r \in rows : until <= t \/ Covers(toDomain(r), until)

\* What holds of the locals while no attempts overlap.
InTime(l, current, t, until) == /\ l.pc = "fill" => l.read = current
                                /\ Calling(l) => until <= t

WaitInv ==
    /\ now \in Nat /\ asked \in Nat /\ ver \in Nat
    /\ row = {} => asked = 0
    /\ row # {} => ver # 0
    /\ \A r \in row : StateOK(toDomain(r))
    /\ \A e \in cache : EntrySound(e.state, e.ver, row, ver)
    /\ \A o \in Ops : WaitLocal(at[o], row, ver, now)
    /\ ~disturbed => /\ RowWaits(row, now, asked)
                     /\ \A o \in Ops : InTime(at[o], ver, now, asked)
    /\ CacheFresh

\* The invariant holds before the first operation.
LEMMA WaitInitInv == Init => WaitInv
<1> SUFFICES ASSUME Init PROVE WaitInv
  BY Zenon
<1>1. \A o \in Ops : at[o].pc = "idle" /\ at[o].hook = "before"
  BY Zenon DEF Init, Idle
<1>2. \A o \in Ops : WaitLocal(at[o], row, ver, now) /\ InTime(at[o], ver, now, asked)
  BY <1>1, Zenon DEF WaitLocal, InTime, Calling
<1>3. now \in Nat /\ asked \in Nat /\ ver \in Nat /\ asked = 0
  BY DEF Init
<1>4. row = {} /\ cache = {}
  BY Zenon DEF Init
<1> QED
  BY <1>2, <1>3, <1>4, Zenon DEF WaitInv, RowWaits, CacheFresh

\* If the step of an operation leaves the history undisturbed, the operation is
\* alone and the cache can be trusted.
Alone(o) == ~disturbed' => ~disturbed /\ ~tainted /\ \A p \in Ops \ {o} : ~Active(p)

\* An operation that moves is the only active one, or the history is disturbed.
LEMMA GotoAlone == ASSUME NEW o \in Ops, NEW l, Goto(o, l) PROVE Alone(o)
  BY Zenon DEF Goto, Alone

\* Operations that are not active have nothing that could be out of time.
LEMMA InactiveInTime ==
    ASSUME NEW o \in Ops, ~Active(o), NEW current, NEW t, NEW until
    PROVE  InTime(at[o], current, t, until)
  BY Zenon DEF Active, InTime, Calling

\* One operation moves, and the row stays.
LEMMA WaitStep ==
    ASSUME OpInv, WaitInv, NEW o \in Ops, NEW l, at' = [at EXCEPT ![o] = l], Alone(o),
           row' = row, ver' = ver, asked' = asked, now' = now,
           WaitLocal(l, row, ver, now), ~disturbed' => InTime(l, ver, now, asked),
           \A e \in cache' : EntrySound(e.state, e.ver, row, ver), CacheFresh'
    PROVE  WaitInv'
<1>1. at' = [p \in Ops |-> IF p = o THEN l ELSE at[p]]
  BY Zenon DEF OpInv
<1>2. ASSUME NEW p \in Ops PROVE WaitLocal(at'[p], row, ver, now)
  BY <1>1, Zenon DEF WaitInv
<1>3. ASSUME NEW p \in Ops, ~disturbed' PROVE InTime(at'[p], ver, now, asked)
  BY <1>1, <1>3, Zenon DEF WaitInv, Alone
<1>4. ~disturbed' => RowWaits(row, now, asked)
  BY Zenon DEF WaitInv, Alone
<1> QED
  BY <1>2, <1>3, <1>4, Zenon DEF WaitInv

\* The cache stays as trustworthy as it was, unless an operation leaves the
\* invalidation.
LEMMA FreshKept ==
    ASSUME OpInv, CacheFresh, NEW o \in Ops, NEW l, at' = [at EXCEPT ![o] = l],
           at[o].pc # "invalidate", cache' = cache, ver' = ver, tainted' = tainted
    PROVE  CacheFresh'
<1>1. \A p \in Ops : p # o => at'[p] = at[p]
  BY Zenon DEF OpInv
<1> QED
  BY <1>1, Zenon DEF CacheFresh

\* A retry decision and a return leave an operation that has learned nothing.
Resting(l) == l.hook = "before" /\ l.pc \in {"get", "sleep", "done"}

\* A resting operation holds nothing that the invariant speaks of.
LEMMA RestingOK ==
    ASSUME NEW l, Resting(l), NEW rows, NEW current, NEW t, NEW until
    PROVE  WaitLocal(l, rows, current, t) /\ InTime(l, current, t, until)
  BY Zenon DEF Resting, WaitLocal, InTime, Calling

\* RetryOr leaves the operation resting, asleep or back with its caller.
LEMMA RetryRests ==
    ASSUME NEW o \in Ops, NEW retryable, NEW meta, NEW result, RetryOr(o, retryable, meta, result)
    PROVE  Alone(o) /\ \E l : Resting(l) /\ at' = [at EXCEPT ![o] = l]
<1> DEFINE w == now + RetryDelay(at[o].attempt, meta)
           s == [Idle EXCEPT !.pc = "sleep", !.header = at[o].header, !.attempt = at[o].attempt,
                             !.wake = w]
           d == [Idle EXCEPT !.pc = "done", !.result = result, !.header = at[o].header]
<1>1. Goto(o, s) \/ Goto(o, d)
  BY Zenon DEF RetryOr, Return
<1> HIDE DEF w
<1>2. Resting(s) /\ Resting(d)
  BY Zenon DEF Resting, Idle
<1> HIDE DEF s, d
<1>3. Alone(o)
  BY <1>1, GotoAlone, Zenon
<1> QED
  BY <1>1, <1>2, <1>3, Zenon DEF Goto

\* So does an error that ends the operation.
LEMMA ReturnRests ==
    ASSUME NEW o \in Ops, NEW result, Return(o, result)
    PROVE  Alone(o) /\ \E l : Resting(l) /\ at' = [at EXCEPT ![o] = l]
<1> DEFINE d == [Idle EXCEPT !.pc = "done", !.result = result, !.header = at[o].header]
<1>1. Goto(o, d)
  BY Zenon DEF Return
<1>2. Resting(d)
  BY Zenon DEF Resting, Idle
<1> HIDE DEF d
<1> QED
  BY <1>1, <1>2, GotoAlone, Zenon DEF Goto

\* A step after which the operation rests.
LEMMA WaitRests ==
    ASSUME OpInv, WaitInv, NEW o \in Ops, Alone(o), NEW l, Resting(l), at' = [at EXCEPT ![o] = l],
           row' = row, ver' = ver, asked' = asked, now' = now,
           cache' = {} \/ cache' = cache, CacheFresh'
    PROVE  WaitInv'
<1>1. WaitLocal(l, row, ver, now) /\ InTime(l, ver, now, asked)
  BY RestingOK, Zenon
<1>2. \A e \in cache' : EntrySound(e.state, e.ver, row, ver)
  BY Zenon DEF WaitInv
<1> QED
  BY <1>1, <1>2, WaitStep, Zenon

\* A state that covers a time and no longer blocks lets nobody through too early.
LEMMA Unblocked ==
    ASSUME NEW s, StateOK(s), NEW t \in Nat, NEW until \in Nat, ~Blocked(s, t), Covers(s, until)
    PROVE  until <= t
<1>1. CASE s.throttledUntil # None /\ until <= s.throttledUntil
  <2>1. ~(t < s.throttledUntil)
    BY <1>1, Zenon DEF Blocked
  <2> QED
    BY <1>1, <2>1 DEF StateOK
<1>2. CASE s.remaining = 0 /\ s.resetAt # None /\ until <= s.resetAt
  <2>1. ~(t < s.resetAt)
    BY <1>2, Zenon DEF Blocked
  <2> QED
    BY <1>2, <2>1 DEF StateOK
<1> QED
  BY <1>1, <1>2, Zenon DEF Covers

\* BeforeCall with the current row lets a call through only in time.
LEMMA CurrentInTime ==
    ASSUME WaitInv, ~disturbed, NEW state, NEW v, EntrySound(state, v, row, ver), v = ver,
           ~(v > 0 /\ Blocked(state, now))
    PROVE  asked <= now
<1>1. v > 0
  BY DEF EntrySound
<1>2. PICK r \in row : toDomain(r) = state
  BY Zenon DEF EntrySound
<1>3. StateOK(state) /\ ~Blocked(state, now) /\ now \in Nat /\ asked \in Nat
  BY <1>1, Zenon DEF EntrySound, WaitInv
<1>4. asked <= now \/ Covers(toDomain(r), asked)
  BY <1>2, Zenon DEF WaitInv, RowWaits
<1>5. asked <= now \/ Covers(state, asked)
  BY <1>2, <1>4
<1> QED
  BY <1>3, <1>5, Unblocked, Zenon

\* BeforeCall and AfterCall go on from the state they loaded.
LEMMA WaitLoaded ==
    ASSUME OpInv, WaitInv, NEW o \in Ops, at[o].pc \in {"get", "fill"}, NEW state, NEW v,
           Loaded(o, state, v), StateOK(state),
           ~disturbed' /\ ~(v > 0 /\ Blocked(state, now)) => asked <= now,
           row' = row, ver' = ver, asked' = asked, now' = now,
           \A e \in cache' : EntrySound(e.state, e.ver, row, ver), CacheFresh'
    PROVE  WaitInv'
<1> DEFINE new == AfterCall(state, at[o].meta, at[o].start)
           w == [at[o] EXCEPT !.pc = "write", !.read = v, !.state = new]
           s == [at[o] EXCEPT !.pc = "send", !.state = NewState, !.read = 0]
<1>1. WaitLocal(at[o], row, ver, now) /\ DOMAIN at[o] = DOMAIN Idle
  BY Zenon DEF WaitInv, OpInv, OpSound
<1>2. CASE at[o].hook = "after"
  <2>1. Goto(o, w)
    BY <1>2, Zenon DEF Loaded
  <2>2. MetaOK(at[o].meta) /\ at[o].start \in Nat /\ at[o].start <= now
    BY <1>1, <1>2, Zenon DEF WaitLocal
  <2> HIDE DEF new
  <2>3. /\ w.pc = "write" /\ w.hook = "after" /\ w.meta = at[o].meta
        /\ w.start = at[o].start /\ w.state = new
    BY <1>1, <1>2, IdleDomain, Zenon
  <2> HIDE DEF w
  <2>4. w.state = AfterCall(state, w.meta, w.start)
    BY <2>3 DEF new
  <2>5. WaitLocal(w, row, ver, now)
    BY <2>2, <2>3, <2>4, Zenon DEF WaitLocal
  <2>6. Alone(o) /\ at' = [at EXCEPT ![o] = w]
    BY <2>1, GotoAlone, Zenon DEF Goto
  <2>7. ~disturbed' => InTime(w, ver, now, asked)
    <3>1. Calling(at[o])
      BY <1>2, Zenon DEF Calling
    <3>2. ~disturbed' => asked <= now
      BY <2>6, <3>1, Zenon DEF Alone, WaitInv, InTime
    <3> QED
      BY <2>3, <3>2, Zenon DEF InTime
  <2> QED
    BY <2>5, <2>6, <2>7, WaitStep, Zenon
<1>3. CASE at[o].hook # "after" /\ RetryOr(o, TRUE, NoMeta, "throttled")
  <2>1. PICK l : Alone(o) /\ Resting(l) /\ at' = [at EXCEPT ![o] = l]
    BY <1>3, RetryRests, Zenon
  <2>2. WaitLocal(l, row, ver, now) /\ InTime(l, ver, now, asked)
    BY <2>1, RestingOK, Zenon
  <2> QED
    BY <2>1, <2>2, WaitStep, Zenon
<1>4. CASE at[o].hook # "after" /\ ~(v > 0 /\ Blocked(state, now)) /\ Goto(o, s)
  <2>1. s.pc = "send" /\ s.hook = at[o].hook
    BY <1>1, IdleDomain, Zenon
  <2> HIDE DEF s
  <2>2. WaitLocal(s, row, ver, now)
    BY <1>4, <2>1, Zenon DEF WaitLocal
  <2>3. ~disturbed' => InTime(s, ver, now, asked)
    BY <1>4, <2>1, Zenon DEF InTime
  <2> QED
    BY <1>4, <2>2, <2>3, WaitStep, GotoAlone, Zenon DEF Goto
<1> QED
  BY <1>2, <1>3, <1>4, Zenon DEF Loaded

\* A step of Loaded is alone or disturbs.
LEMMA LoadedAlone ==
    ASSUME NEW o \in Ops, NEW state, NEW v, Loaded(o, state, v)
    PROVE  Alone(o) /\ \E l : at' = [at EXCEPT ![o] = l]
<1>1. (\E l : Goto(o, l)) \/ RetryOr(o, TRUE, NoMeta, "throttled")
  BY Zenon DEF Loaded
<1> QED
  BY <1>1, GotoAlone, RetryRests, Zenon DEF Goto

\* Reading the state through the cache.
LEMMA WaitHit == ASSUME OpInv, WaitInv, NEW o \in Ops, GetHit(o) PROVE WaitInv'
<1>1. PICK entry \in cache : Loaded(o, entry.state, entry.ver)
  BY Zenon DEF GetHit
<1>2. EntrySound(entry.state, entry.ver, row, ver) /\ CacheFresh
  BY Zenon DEF WaitInv
<1>3. Alone(o) /\ \E l : at' = [at EXCEPT ![o] = l]
  BY <1>1, LoadedAlone, Zenon
<1>4. at[o].pc = "get" /\ row' = row /\ ver' = ver /\ asked' = asked /\ now' = now
      /\ cache' = cache /\ tainted' = tainted
  BY Zenon DEF GetHit
<1>5. CacheFresh'
  BY <1>2, <1>3, <1>4, FreshKept, Zenon
<1>6. ~disturbed' => ~disturbed /\ entry.ver = ver
  <2>1. ~disturbed' => \A p \in Ops : at[p].pc # "invalidate"
    BY <1>3, <1>4, Zenon DEF Alone, Active
  <2> QED
    BY <1>2, <1>3, <2>1, Zenon DEF Alone, CacheFresh
<1>7. ~disturbed' /\ ~(entry.ver > 0 /\ Blocked(entry.state, now)) => asked <= now
  BY <1>2, <1>6, CurrentInTime, Zenon
<1>8. \A e \in cache' : EntrySound(e.state, e.ver, row, ver)
  BY <1>4, Zenon DEF WaitInv
<1>9. StateOK(entry.state)
  BY <1>2, Zenon DEF EntrySound
<1> QED
  BY <1>1, <1>4, <1>5, <1>7, <1>8, <1>9, WaitLoaded, Zenon

\* The state that was read is put in the cache, however late, and used.
LEMMA WaitFill == ASSUME OpInv, WaitInv, NEW o \in Ops, Fill(o) PROVE WaitInv'
<1> DEFINE state == at[o].state
           v == at[o].read
<1>1. at[o].pc = "fill" /\ Loaded(o, state, v) /\ row' = row /\ ver' = ver /\ asked' = asked
      /\ cache' = {[state |-> state, ver |-> v]} /\ tainted' = (v # ver)
  BY Zenon DEF Fill
<1>2. now' = now
  BY Zenon DEF Fill
<1>3. EntrySound(state, v, row, ver) /\ (~disturbed => v = ver)
  BY <1>1, Zenon DEF WaitInv, WaitLocal, InTime
<1>4. Alone(o)
  BY <1>1, LoadedAlone, Zenon
<1> HIDE DEF state, v
<1>5. ~disturbed' /\ ~(v > 0 /\ Blocked(state, now)) => asked <= now
  BY <1>3, <1>4, CurrentInTime, Zenon DEF Alone
<1>6. ASSUME NEW e \in cache' PROVE e.state = state /\ e.ver = v
  <2>1. e = [state |-> state, ver |-> v]
    BY <1>1, <1>6, Zenon
  <2> QED
    BY <2>1
<1>7. \A e \in cache' : EntrySound(e.state, e.ver, row, ver)
  BY <1>3, <1>6
<1>8. CacheFresh'
  BY <1>1, <1>6, Zenon DEF CacheFresh
<1>9. StateOK(state)
  BY <1>3, Zenon DEF EntrySound
<1> QED
  BY <1>1, <1>2, <1>5, <1>7, <1>8, <1>9, WaitLoaded, Zenon

\* The state the policy starts from.
LEMMA NewStateOK == StateOK(NewState)
  BY DEF StateOK, NewState, None

\* Reading the state from the database: the row, or that there is none.
LEMMA WaitMiss == ASSUME OpInv, WaitInv, NEW o \in Ops, GetMiss(o) PROVE WaitInv'
<1>1. at[o].pc = "get" /\ cache = {} /\ cache' = cache /\ tainted' = tainted
      /\ row' = row /\ ver' = ver /\ asked' = asked /\ now' = now
  BY Zenon DEF GetMiss
<1>2. (\A e \in cache' : EntrySound(e.state, e.ver, row, ver)) /\ CacheFresh'
  BY <1>1, Zenon DEF CacheFresh
<1>3. CASE row = {} /\ Loaded(o, NewState, 0)
  <2>1. asked <= now
    BY <1>3 DEF WaitInv
  <2> QED
    BY <1>1, <1>2, <1>3, <2>1, NewStateOK, WaitLoaded, Zenon
<1>4. ASSUME NEW r \in row,
             Goto(o, [at[o] EXCEPT !.pc = "fill", !.state = toDomain(r), !.read = ver])
      PROVE  WaitInv'
  <2> DEFINE st == toDomain(r)
             f == [at[o] EXCEPT !.pc = "fill", !.state = st, !.read = ver]
  <2>1. Alone(o) /\ at' = [at EXCEPT ![o] = f]
    BY <1>4, GotoAlone, Zenon DEF Goto
  <2>2. EntrySound(st, ver, row, ver)
    <3>1. StateOK(st) /\ ver \in Nat /\ ver # 0
      BY <1>4, Zenon DEF WaitInv
    <3>2. ver <= ver
      BY <3>1
    <3> QED
      BY <3>1, <3>2, Zenon DEF EntrySound
  <2> HIDE DEF st
  <2>3. WaitLocal(at[o], row, ver, now) /\ DOMAIN at[o] = DOMAIN Idle
    BY Zenon DEF WaitInv, OpInv, OpSound
  <2>4. /\ f.pc = "fill" /\ f.hook = at[o].hook /\ f.meta = at[o].meta
        /\ f.start = at[o].start /\ f.state = st /\ f.read = ver
    BY <2>3, IdleDomain, Zenon
  <2> HIDE DEF f
  <2>5. WaitLocal(f, row, ver, now)
    BY <1>1, <2>2, <2>3, <2>4 DEF WaitLocal
  <2>6. ~disturbed' => InTime(f, ver, now, asked)
    <3>1. Calling(f) => Calling(at[o])
      BY <1>1, <2>4, Zenon DEF Calling
    <3> QED
      BY <2>1, <2>4, <3>1, Zenon DEF InTime, WaitInv, Alone
  <2> QED
    BY <1>1, <1>2, <2>1, <2>5, <2>6, WaitStep, Zenon
<1> QED
  BY <1>3, <1>4, Zenon DEF GetMiss

\* The provider answers, and the policy is to be told.
LEMMA WaitDo ==
    ASSUME OpInv, WaitInv, NEW o \in Ops, NEW reply \in Replies, Do(o, reply) PROVE WaitInv'
<1> DEFINE m == Normalize(provider, ReplyAt(reply))
           l == [at[o] EXCEPT !.pc = "get", !.hook = "after", !.start = now, !.meta = m]
<1>1. at[o].pc = "send" /\ Goto(o, l) /\ cache' = cache /\ tainted' = tainted
      /\ row' = row /\ ver' = ver /\ asked' = asked /\ now' = now
  BY Zenon DEF Do
<1>2. MetaOK(m)
  <2> DEFINE reset == Header("x-ratelimit-reset", now + reply.resetIn)
             h == IF reply.resetIn = None THEN reply.headers ELSE Set(reset, reply.headers)
  <2>1. ReplyAt(reply) = [status |-> reply.status, headers |-> h]
    BY Zenon DEF ReplyAt
  <2>2. reply.status \in Nat /\ reply.resetIn \in Int /\ HeadersOK(reply.headers)
    BY ProviderOperationAssumption, Zenon DEF HeadersOK
  <2>3. now + reply.resetIn \in Int
    BY <2>2 DEF WaitInv
  <2>4. HeadersOK(reset)
    BY <2>3, HeaderSingle, Zenon
  <2> HIDE DEF reset
  <2>5. HeadersOK(h)
    BY <2>2, <2>4, HeadersMerged, Zenon
  <2> HIDE DEF h
  <2>6. MetaOK(Normalize(provider, [status |-> reply.status, headers |-> h]))
    BY <2>2, <2>5, NormalizeOK, Zenon
  <2> QED
    BY <2>1, <2>6
<1> HIDE DEF m
<1>3. DOMAIN at[o] = DOMAIN Idle
  BY Zenon DEF OpInv, OpSound
<1>4. l.pc = "get" /\ l.hook = "after" /\ l.start = now /\ l.meta = m
  BY <1>3, IdleDomain, Zenon
<1> HIDE DEF l
<1>5. Alone(o) /\ at' = [at EXCEPT ![o] = l]
  BY <1>1, GotoAlone, Zenon DEF Goto
<1>6. now \in Nat /\ now <= now
  BY DEF WaitInv
<1>7. WaitLocal(l, row, ver, now)
  BY <1>2, <1>4, <1>6 DEF WaitLocal
<1>8. ~disturbed' => InTime(l, ver, now, asked)
  <2>1. Calling(at[o])
    BY <1>1, Zenon DEF Calling
  <2>2. ~disturbed' => asked <= now
    BY <1>5, <2>1, Zenon DEF Alone, WaitInv, InTime
  <2> QED
    BY <1>4, <2>2, Zenon DEF InTime
<1>9. CacheFresh'
  BY <1>1, <1>5, FreshKept, Zenon DEF WaitInv
<1>10. \A e \in cache' : EntrySound(e.state, e.ver, row, ver)
  BY <1>1, Zenon DEF WaitInv
<1> QED
  BY <1>1, <1>5, <1>7, <1>8, <1>9, <1>10, WaitStep, Zenon

\* What was read before a write is an older version after it.
LEMMA EntryAges ==
    ASSUME ver \in Nat, NEW state, NEW v, EntrySound(state, v, row, ver), NEW rows
    PROVE  EntrySound(state, v, rows, ver + 1)
<1>1. v <= ver + 1 /\ v # ver + 1
  BY DEF EntrySound
<1> QED
  BY <1>1, Zenon DEF EntrySound

\* AfterCall writes a state that covers what its reply asked for.
LEMMA WaitUpsert == ASSUME OpInv, WaitInv, NEW o \in Ops, Upsert(o) PROVE WaitInv'
<1> DEFINE n == at[o].state
           R == rateLimitStateFromDomain(n)
           l == [at[o] EXCEPT !.pc = "invalidate", !.state = NewState, !.read = 0, !.start = 0]
<1>1. /\ at[o].pc = "write" /\ row' = {R} /\ ver' = ver + 1
      /\ asked' = IF Asks(o) > asked THEN Asks(o) ELSE asked
      /\ Goto(o, l) /\ now' = now /\ cache' = cache
  BY Zenon DEF Upsert
<1>2. /\ now \in Nat /\ asked \in Nat /\ ver \in Nat
      /\ WaitLocal(at[o], row, ver, now) /\ OpSound(at[o], applied[o])
  BY Zenon DEF WaitInv, OpInv
<1>3. /\ at[o].hook = "after" /\ MetaOK(at[o].meta) /\ at[o].start \in Nat /\ at[o].start <= now
      /\ \E s : StateOK(s) /\ n = AfterCall(s, at[o].meta, at[o].start)
  BY <1>1, <1>2, Zenon DEF WaitLocal, OpSound
<1>4. PICK s : StateOK(s) /\ n = AfterCall(s, at[o].meta, at[o].start)
  BY <1>3, Zenon
<1>5. StateOK(n)
  <2>1. StateOK(AfterCall(s, at[o].meta, at[o].start))
    BY <1>3, <1>4, AfterCallOK, Zenon
  <2> QED
    BY <1>4, <2>1
<1>6. Asks(o) \in Nat /\ (Asks(o) <= at[o].start \/ Covers(n, Asks(o)))
  <2>1. /\ Asks(o) \in Nat
        /\ Asks(o) <= at[o].start \/ Covers(AfterCall(s, at[o].meta, at[o].start), Asks(o))
    BY <1>3, <1>4, AsksCovered, Zenon
  <2> QED
    BY <1>4, <2>1
<1>7. Asks(o) <= now \/ Covers(n, Asks(o))
  <2>1. \A a, b, c \in Nat : a <= b /\ b <= c => a <= c
    OBVIOUS
  <2> QED
    BY <1>2, <1>3, <1>6, <2>1, Zenon
<1>8. DOMAIN at[o] = DOMAIN Idle
  BY <1>2, Zenon DEF OpSound
<1>9. l.pc = "invalidate"
  BY <1>8, IdleDomain, Zenon
<1> HIDE DEF l, n
<1> DEFINE t == toDomain(R)
<1>10. /\ t.remaining = n.remaining /\ t.resetAt = n.resetAt
       /\ t.attempts = n.attempts /\ t.throttledUntil = n.throttledUntil
  BY <1>5, RowReadsBack, Zenon
<1> HIDE DEF t
<1>11. StateOK(t)
  BY <1>5, <1>10 DEF StateOK
<1>12. \A until : Covers(n, until) => Covers(t, until)
  BY <1>10 DEF Covers
<1>13. Alone(o) /\ at' = [p \in Ops |-> IF p = o THEN l ELSE at[p]]
  BY <1>1, GotoAlone, Zenon DEF Goto, OpInv
<1>14. ver' \in Nat /\ ver' # 0 /\ asked' \in Nat
  BY <1>1, <1>2, <1>6
<1>15. \A r \in row' : StateOK(toDomain(r))
  BY <1>1, <1>11, Zenon DEF t
<1>16. \A e \in cache' : EntrySound(e.state, e.ver, row', ver')
  BY <1>1, <1>2, EntryAges DEF WaitInv
<1>17. ASSUME NEW p \in Ops PROVE WaitLocal(at'[p], row', ver', now')
  <2>1. CASE p = o
    BY <1>9, <1>13, <2>1, Zenon DEF WaitLocal
  <2>2. CASE p # o
    <3>1. at'[p] = at[p]
      BY <1>13, <2>2, Zenon
    <3>2. WaitLocal(at[p], row, ver, now)
      BY Zenon DEF WaitInv
    <3>3. WaitLocal(at[p], row', ver', now')
      BY <1>1, <1>2, <3>2, EntryAges DEF WaitLocal
    <3> QED
      BY <3>1, <3>3
  <2> QED
    BY <2>1, <2>2, Zenon
<1>18. ASSUME ~disturbed' PROVE RowWaits(row', now', asked')
  <2>1. asked <= now
    <3>1. Calling(at[o])
      BY <1>1, <1>3, Zenon DEF Calling
    <3> QED
      BY <1>13, <1>18, <3>1, Zenon DEF Alone, WaitInv, InTime
  <2>2. asked' <= now \/ Covers(t, asked')
    BY <1>1, <1>7, <1>12, <2>1, Zenon
  <2> QED
    BY <1>1, <2>2, Zenon DEF RowWaits, t
<1>19. ASSUME ~disturbed', NEW p \in Ops PROVE InTime(at'[p], ver', now', asked')
  <2>1. CASE p = o
    BY <1>9, <1>13, <2>1, Zenon DEF InTime, Calling
  <2>2. CASE p # o
    <3>1. at'[p] = at[p] /\ ~Active(p)
      BY <1>13, <1>19, <2>2, Zenon DEF Alone
    <3>2. InTime(at[p], ver', now', asked')
      BY <3>1, InactiveInTime, Zenon
    <3> QED
      BY <3>1, <3>2
  <2> QED
    BY <2>1, <2>2, Zenon
<1>20. CacheFresh'
  BY <1>9, <1>13, Zenon DEF CacheFresh
<1>21. row' # {} /\ now' \in Nat
  BY <1>1, <1>2, Zenon
<1> QED
  BY <1>14, <1>15, <1>16, <1>17, <1>18, <1>19, <1>20, <1>21, Zenon DEF WaitInv

\* The steps after which an operation rests: it begins, wakes, fails or decides.
LEMMA WaitOthers ==
    ASSUME OpInv, WaitInv, NEW o \in Ops,
           \/ \E header \in HeaderForms : Begin(o, header)
           \/ Wake(o) \/ Invalidate(o) \/ Fails(o)
    PROVE  WaitInv'
<1>1. Alone(o) /\ \E l : Resting(l) /\ at' = [at EXCEPT ![o] = l]
  <2>1. ASSUME NEW header \in HeaderForms, Begin(o, header)
        PROVE  Alone(o) /\ \E l : Resting(l) /\ at' = [at EXCEPT ![o] = l]
    <3> DEFINE l == [Idle EXCEPT !.pc = "get", !.header = header]
    <3>1. Goto(o, l) /\ Resting(l)
      BY <2>1, Zenon DEF Begin, Resting, Idle
    <3> HIDE DEF l
    <3> QED
      BY <3>1, GotoAlone, Zenon DEF Goto
  <2>2. CASE Wake(o)
    <3> DEFINE l == [Idle EXCEPT !.pc = "get", !.header = at[o].header,
                                 !.attempt = at[o].attempt + 1]
    <3>1. Goto(o, l) /\ Resting(l)
      BY <2>2, Zenon DEF Wake, Resting, Idle
    <3> HIDE DEF l
    <3> QED
      BY <3>1, GotoAlone, Zenon DEF Goto
  <2>3. CASE Cancel(o) \/ SignFails(o)
    BY <2>3, ReturnRests, Zenon DEF Cancel, SignFails
  <2>4. CASE Invalidate(o) \/ GetFails(o) \/ DoFails(o) \/ AfterFails(o)
    BY <2>4, RetryRests, Zenon DEF Invalidate, Decide, GetFails, DoFails, AfterFails
  <2> QED
    BY <2>1, <2>2, <2>3, <2>4, Zenon DEF Fails
<1>2. row' = row /\ ver' = ver /\ asked' = asked /\ now' = now
  BY Zenon DEF Begin, Wake, Invalidate, Fails, Cancel, GetFails, SignFails, DoFails, AfterFails
<1>3. CacheFresh /\ (cache' = {} \/ cache' = cache)
  BY Zenon DEF WaitInv, Begin, Wake, Invalidate, Fails, Cancel, GetFails, SignFails, DoFails,
               AfterFails
<1>4. CacheFresh'
  <2>1. CASE Invalidate(o)
    BY <2>1, Zenon DEF Invalidate, CacheFresh
  <2>2. CASE AfterFails(o)
    <3>1. cache' = cache /\ tainted' = (tainted \/ (at[o].pc = "invalidate" /\ cache # {}))
      BY <2>2, Zenon DEF AfterFails
    <3>2. \A p \in Ops : p # o => at'[p] = at[p]
      BY <1>1, Zenon DEF OpInv
    <3> QED
      BY <1>2, <1>3, <3>1, <3>2, Zenon DEF CacheFresh
  <2>3. CASE ~Invalidate(o) /\ ~AfterFails(o)
    <3>1. at[o].pc # "invalidate" /\ cache' = cache /\ tainted' = tainted
      BY <2>3, Zenon DEF Begin, Wake, Fails, Cancel, GetFails, SignFails, DoFails
    <3> QED
      BY <1>1, <1>2, <1>3, <3>1, FreshKept, Zenon
  <2> QED
    BY <2>1, <2>2, <2>3, Zenon
<1> QED
  BY <1>1, <1>2, <1>3, <1>4, WaitRests, Zenon

\* Time passes.  When the history is taken for undisturbed again, what was asked
\* for has passed and nobody is active.
LEMMA WaitTick == ASSUME WaitInv, Tick PROVE WaitInv'
<1>1. /\ now' = now + 1 /\ row' = row /\ cache' = cache /\ at' = at /\ ver' = ver
      /\ asked' = asked /\ tainted' = tainted
  BY Zenon DEF Tick
<1>2. now \in Nat /\ asked \in Nat
  BY Zenon DEF WaitInv
<1>3. now' \in Nat /\ \A x \in Nat : x <= now => x <= now'
  BY <1>1, <1>2
<1>4. ~disturbed' => \/ ~disturbed
                     \/ asked <= now' /\ \A o \in Ops : ~Active(o)
  <2>1. \A t, u \in Nat : t >= u => u <= t
    OBVIOUS
  <2>2. now' >= asked => asked <= now'
    BY <1>2, <1>3, <2>1, Zenon
  <2> QED
    BY <2>2, Zenon DEF Tick
<1>5. ASSUME NEW o \in Ops PROVE WaitLocal(at'[o], row', ver', now')
  <2>1. WaitLocal(at[o], row, ver, now)
    BY Zenon DEF WaitInv
  <2>2. WaitLocal(at[o], row, ver, now')
    BY <1>3, <2>1, Zenon DEF WaitLocal
  <2> QED
    BY <1>1, <2>2, Zenon
<1>6. ASSUME ~disturbed', ~disturbed
      PROVE  RowWaits(row', now', asked') /\ \A o \in Ops : InTime(at'[o], ver', now', asked')
  <2>1. asked <= now => asked <= now'
    BY <1>2, <1>3, Zenon
  <2>2. RowWaits(row, now', asked)
    BY <1>6, <2>1, Zenon DEF WaitInv, RowWaits
  <2>3. \A o \in Ops : InTime(at[o], ver, now', asked)
    BY <1>6, <2>1, Zenon DEF WaitInv, InTime
  <2> QED
    BY <1>1, <2>2, <2>3, Zenon
<1>7. ASSUME asked <= now', \A o \in Ops : ~Active(o)
      PROVE  RowWaits(row', now', asked') /\ \A o \in Ops : InTime(at'[o], ver', now', asked')
  <2>1. RowWaits(row, now', asked)
    BY <1>7, Zenon DEF RowWaits
  <2>2. \A o \in Ops : InTime(at[o], ver, now', asked)
    BY <1>7, InactiveInTime, Zenon
  <2> QED
    BY <1>1, <2>1, <2>2, Zenon
<1>8. CacheFresh'
  BY <1>1, Zenon DEF WaitInv, CacheFresh
<1>9. /\ row' = {} => asked' = 0
      /\ row' # {} => ver' # 0
      /\ \A r \in row' : StateOK(toDomain(r))
      /\ \A e \in cache' : EntrySound(e.state, e.ver, row', ver')
      /\ asked' \in Nat /\ ver' \in Nat
  BY <1>1, Zenon DEF WaitInv
<1> QED
  BY <1>3, <1>4, <1>5, <1>6, <1>7, <1>8, <1>9, Zenon DEF WaitInv

\* Every step keeps the invariant.
LEMMA WaitNext == ASSUME OpInv, WaitInv, Next PROVE WaitInv'
<1>1. ASSUME NEW o \in Ops, Step(o) \/ Fails(o) PROVE WaitInv'
  BY <1>1, WaitHit, WaitMiss, WaitFill, WaitDo, WaitUpsert, WaitOthers, Zenon DEF Step
<1>2. CASE Expire
  BY <1>2, Zenon DEF Expire, WaitInv, CacheFresh
<1>3. CASE Finished
  BY <1>3, Zenon DEF Finished, vars, WaitInv, CacheFresh
<1> QED
  BY <1>1, <1>2, <1>3, WaitTick, Zenon DEF Next

\* No step moves an operation and the clock, and a wait is not shortened.
LEMMA WaitGrows ==
    ASSUME WaitInv, WaitInv', Next
    PROVE  (at' = at \/ now' = now) /\ asked <= asked'
<1>1. asked \in Nat /\ asked' \in Nat
  BY Zenon DEF WaitInv
<1>2. asked' = asked \/ asked' > asked
  BY Zenon DEF Next, Step, Fails, Begin, Wake, GetHit, GetMiss, Fill, Do, Upsert, Invalidate,
               Cancel, GetFails, SignFails, DoFails, AfterFails, Expire, Tick, Finished, vars
<1>3. at' = at \/ now' = now
  BY Zenon DEF Next, Step, Fails, Begin, Wake, GetHit, GetMiss, Fill, Do, Upsert, Invalidate,
               Cancel, GetFails, SignFails, DoFails, AfterFails, Expire, Tick, Finished, vars
<1> QED
  BY <1>1, <1>2, <1>3

\* As long as attempts do not overlap and no cache delete fails, no call goes out
\* before the time that recorded replies asked for, whatever the replies, the
\* providers' normalizers, the retries, and the cache's hits, misses, late fills
\* and expiries; and the cache is outdated only in the named cases.
THEOREM CallsWait == Spec => SerialCallsWait
<1>1. OpInv /\ WaitInv /\ [Next]_vars => OpInv' /\ WaitInv'
  <2>1. OpInv /\ UNCHANGED vars => OpInv'
    BY Zenon DEF OpInv, vars
  <2>2. ASSUME WaitInv, UNCHANGED vars PROVE WaitInv'
    BY <2>2, Zenon DEF WaitInv, CacheFresh, vars
  <2> QED
    BY <2>1, <2>2, OpNext, WaitNext, Zenon
<1>2. ASSUME WaitInv, WaitInv', Next, NEW o \in Ops,
             at[o].pc = "get" \/ at[o].pc = "fill", at'[o].pc = "send", ~disturbed'
      PROVE  now >= asked
  <2>1. at' # at
    BY <1>2, Zenon
  <2>2. now' = now /\ asked <= asked'
    BY <1>2, <2>1, WaitGrows, Zenon
  <2>3. asked' <= now'
    BY <1>2, Zenon DEF WaitInv, InTime, Calling
  <2>4. now \in Nat /\ asked \in Nat /\ asked' \in Nat
    BY <1>2, Zenon DEF WaitInv
  <2> QED
    BY <2>2, <2>3, <2>4
<1>3. WaitInv' => CacheFresh'
  BY Zenon DEF WaitInv
<1>4. WaitInv /\ WaitInv' /\ [Next]_vars =>
        [/\ \A o \in Ops : (at[o].pc = "get" \/ at[o].pc = "fill") /\ at'[o].pc = "send"
                           /\ ~disturbed' => now >= asked
         /\ CacheFresh']_vars
  BY <1>2, <1>3, Zenon
<1> QED
  BY OpInitInv, WaitInitInv, <1>1, <1>4, PTL DEF Spec, SerialCallsWait

=============================================================================
