-------------------------- MODULE IdentityBindings --------------------------
(***************************************************************************)
(* IdentityBindingReconciler (core/identity_binding_reconciler.go): binds  *)
(* an external record of a sync binding to one of the internal candidates. *)
(* The store is external; the schema keeps one row per external id, which  *)
(* Upsert writes.  Confidences are percentages here.                       *)
(***************************************************************************)
EXTENDS Integers

CONSTANTS
    Calls,         \* concurrent ReconcileIdentity calls for one external id
    Candidates,    \* [id, confidence]; the id stands for type and id, 0 if blank
    MaxCandidates, \* bound: candidates in a request
    Exact, Confident, Delta, \* the thresholds, in percent
    BindingUnset   \* an absent value

ASSUME IdentityBindingsAssumption ==
    /\ {Exact, Confident, Delta} \subseteq 0..100
    /\ MaxCandidates \in Nat
    /\ \A c \in Candidates : c.id \in Nat /\ c.confidence \in Int

VARIABLES
    bindingRow, \* the stored binding, or Unset
    bindingAt,  \* bindingAt[c]: where call c is
    blind       \* history: the calls that found no binding when they looked

bindingVars == <<bindingRow, bindingAt, blind>>

BindingIdle == [pc |-> "idle", candidates |-> <<>>, got |-> BindingUnset]

BindingInit == bindingRow = BindingUnset /\ bindingAt = [c \in Calls |-> BindingIdle] /\ blind = {}

-----------------------------------------------------------------------------
Usable(c) == c.id # 0 /\ c.confidence \in 0..100

\* normalizeCandidates, what it keeps: the places of the candidates in a request
\* that are neither blank nor out of range.
normalizeCandidates(raw) == {i \in DOMAIN raw : Usable(raw[i])}

\* normalizeCandidates, its order: the most confident first, then by type and id.
Before(a, b) ==
    a.confidence > b.confidence \/ (a.confidence = b.confidence /\ a.id < b.id)

\* The place whose candidate the sort puts before those of the other places.
First(raw, places) ==
    CHOOSE i \in places : \A j \in places : ~Before(raw[j], raw[i])

\* resolveMatchKind, on the first two candidates in order.
resolveMatchKind_ThresholdFirst(raw) ==
    LET kept   == normalizeCandidates(raw)
        top    == First(raw, kept)
        second == First(raw, kept \ {top})
    IN  IF kept = {} THEN "unresolved"
        ELSE IF raw[top].confidence >= Exact THEN "exact"
        ELSE IF kept # {top} /\ raw[top].confidence - raw[second].confidence <= Delta
             THEN "ambiguous"
        ELSE IF raw[top].confidence >= Confident THEN "confident" ELSE "unresolved"

resolveMatchKind(raw) ==
    LET kept   == normalizeCandidates(raw)
        top    == First(raw, kept)
        second == First(raw, kept \ {top})
    IN  IF kept = {} THEN "unresolved"
        ELSE IF kept # {top} /\ raw[top].confidence - raw[second].confidence <= Delta
             THEN "ambiguous"
        ELSE IF raw[top].confidence >= Exact THEN "exact"
        ELSE IF raw[top].confidence >= Confident THEN "confident" ELSE "unresolved"

\* The binding ReconcileIdentity builds.
Binding(raw) ==
    LET top  == raw[First(raw, normalizeCandidates(raw))]
        kind == resolveMatchKind(raw)
    IN  [kind |-> kind,
         id |-> IF kind \in {"exact", "confident"} THEN top.id ELSE 0,
         confidence |-> IF kind = "unresolved" THEN 0 ELSE top.confidence]

-----------------------------------------------------------------------------
\* ReconcileIdentity up to GetByExternalID: an existing binding is the answer.
BindingLook(c, raw) ==
    /\ bindingAt[c].pc = "idle"
    /\ IF bindingRow # BindingUnset
       THEN /\ bindingAt' = [bindingAt EXCEPT ![c] = [BindingIdle EXCEPT !.pc = "done", !.got = bindingRow]]
            /\ UNCHANGED blind
       ELSE /\ bindingAt' = [bindingAt EXCEPT ![c] = [pc |-> "save", candidates |-> raw, got |-> BindingUnset]]
            /\ blind' = blind \cup {c}
    /\ UNCHANGED bindingRow

\* Upsert, which may fail.
Upsert(c) ==
    /\ bindingAt[c].pc = "save"
    /\ \/ /\ bindingRow' = Binding(bindingAt[c].candidates)
          /\ bindingAt' = [bindingAt EXCEPT ![c].pc = "done", ![c].got = bindingRow']
       \/ /\ bindingAt' = [bindingAt EXCEPT ![c] = BindingIdle]
          /\ UNCHANGED bindingRow
    /\ blind' = blind \ {c}

Again(c) == bindingAt[c].pc = "done" /\ bindingAt' = [bindingAt EXCEPT ![c] = BindingIdle] /\ UNCHANGED <<bindingRow, blind>>

\* The candidates of a request, a sequence.
CandidateLists == UNION {[1 .. n -> Candidates] : n \in 0 .. MaxCandidates}

BindingNext ==
    \E c \in Calls :
        \/ \E raw \in CandidateLists : BindingLook(c, raw)
        \/ Upsert(c) \/ Again(c)

BindingSpec == BindingInit /\ [][BindingNext]_bindingVars

-----------------------------------------------------------------------------
\* A record is bound only to a candidate that stands out: confident enough and
\* further ahead than the ambiguity margin of every other usable candidate.
BoundStandsOut ==
    \A c \in Calls : bindingAt[c].pc = "save" /\ Binding(bindingAt[c].candidates).id # 0 =>
        \E i \in DOMAIN bindingAt[c].candidates :
            LET win == bindingAt[c].candidates[i] IN
            /\ Usable(win) /\ win.id = Binding(bindingAt[c].candidates).id
            /\ win.confidence >= Confident \/ win.confidence >= Exact
            /\ \A j \in DOMAIN bindingAt[c].candidates \ {i} :
                  Usable(bindingAt[c].candidates[j]) =>
                      win.confidence > bindingAt[c].candidates[j].confidence + Delta

\* The orders of a list: the permutations of its places.
Orders(places) ==
    {p \in [places -> places] : \A j \in places : \E i \in places :
                                   p[i] = j /\ \A k \in places : p[k] = j => k = i}

\* The order in which the candidates are given does not matter.
OrderIrrelevant ==
    \A c \in Calls : bindingAt[c].pc = "save" =>
        LET raw == bindingAt[c].candidates IN
        \A p \in Orders(DOMAIN raw) :
            Binding([i \in DOMAIN raw |-> raw[p[i]]]) = Binding(raw)

\* A record is bound to a candidate that stands out, in whatever order they are
\* given, and once stored a binding is changed only by a call that had looked
\* before there was one: reconciling again returns the existing binding, also an
\* unresolved one.
BoundForGood ==
    [][/\ bindingRow # BindingUnset /\ bindingRow' # bindingRow => \E c \in blind : bindingAt[c].pc = "save"
       /\ BoundStandsOut' /\ OrderIrrelevant']_bindingVars
=============================================================================
