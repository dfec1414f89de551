---------------------------- MODULE RecordProofs ----------------------------
(***************************************************************************)
(* Proofs about what is stored: mapping specs (MappingSpecs), the          *)
(* connections that accounts are linked to (AccountLinking), encrypted     *)
(* credentials (SecretProviders) and the bindings of external records      *)
(* (IdentityBindings), for any callers, users, deployments, candidates and *)
(* faults.                                                                 *)
(***************************************************************************)
EXTENDS MappingSpecs, AccountLinking, SecretProviders, IdentityBindings,
        WellFoundedInduction, TLAPS

-----------------------------------------------------------------------------
(* The mapping specs.  Of the versions no two calls have worked on at once,*)
(* each has at most one caller, which writes only what the row it read     *)
(* still allows; a validated row holds a content that was validated.       *)

MappingOps == {"create", "update", "validate", "publish"}

MappingRows == [content : Contents, status : {"draft", "validated", "published"}]

MappingLocals == [pc : {"idle", "latest", "exists", "get", "write", "announce"},
                  op : MappingOps \cup {MappingUnset}, v : 0..MaxVersion,
                  content : Contents \cup {MappingUnset}]

\* What a caller holds at each step of its operation.
CallSound(l, rw) ==
    /\ l.pc \in {"idle", "latest"} => l.v = 0
    /\ l.pc \notin {"idle", "latest"} => l.v \in Versions
    /\ l.pc # "idle" => l.op \in MappingOps
    /\ l.pc \in {"latest", "exists"} => l.op = "create"
    /\ l.pc = "get" => l.op # "create"
    /\ l.pc # "idle" /\ l.op \in {"create", "update"} => l.content \in Contents
    /\ l.pc = "write" /\ l.op # "create" => rw[l.v] # MappingUnset

\* The caller's decision still stands.
DecisionStands(l, rw, over) ==
    l.pc = "write" /\ l.op # "create" /\ l.v \notin over =>
        Allowed(l.op, rw[l.v].status, l.content)

OneCaller(locals, over) ==
    \A c, d \in MappingCallers :
        locals[c].v = locals[d].v /\ locals[c].v \in Versions \ over => c = d

ValidatedPassed(rw, ps, over) ==
    \A v \in Versions : rw[v] # MappingUnset =>
        /\ rw[v].status = "validated" => rw[v].content \in ps[v]
        /\ rw[v].status = "published" /\ v \notin over => rw[v].content \in ps[v]

\* Some caller is about to announce the publishing of version v.
Announcing(v, locals) ==
    \E c \in MappingCallers :
        locals[c].pc = "announce" /\ locals[c].op = "publish" /\ locals[c].v = v

PublishedTold(rw, locals, faults, ann) ==
    faults = 0 =>
        \A v \in Versions : rw[v] # MappingUnset /\ rw[v].status = "published" =>
            v \in ann \/ Announcing(v, locals)

MappingTypeOK ==
    /\ rows \in [Versions -> MappingRows \cup {MappingUnset}]
    /\ mappingAt \in [MappingCallers -> MappingLocals]
    /\ passed \in [Versions -> SUBSET Contents]
    /\ mappingFaults \in Nat

MappingInv ==
    /\ MappingTypeOK
    /\ \A c \in MappingCallers :
          CallSound(mappingAt[c], rows) /\ DecisionStands(mappingAt[c], rows, mappingOverlapped)
    /\ OneCaller(mappingAt, mappingOverlapped)
    /\ ValidatedPassed(rows, passed, mappingOverlapped)
    /\ PublishedTold(rows, mappingAt, mappingFaults, announced)

\* A set of numbers bounded by n that is not empty has a greatest element, which
\* is what Max chooses.
LEMMA MaxExists ==
    ASSUME NEW n \in Nat, NEW S, S \subseteq 0..n, S # {}
    PROVE  Max(S) \in S /\ \A y \in S : Max(S) >= y
<1> DEFINE T == {n - x : x \in S}
<1>1. T \subseteq Nat /\ T # {}
  <2>1. \A x \in S : n - x \in Nat
    OBVIOUS
  <2>2. \A t \in T : t \in Nat
    BY <2>1, Zenon
  <2>3. PICK x \in S : TRUE
    BY Zenon
  <2>4. n - x \in T
    BY <2>3, Zenon
  <2> QED BY <2>2, <2>4, Zenon
<1> DEFINE R == OpToRel(<, Nat)
<1>2. PICK m \in T : \A y \in T : ~(<<y, m>> \in R)
  <2> HIDE DEF T, R
  <2>1. IsWellFoundedOn(R, Nat)
    BY NatLessThanWellFounded, Zenon DEF R
  <2> QED BY <1>1, <2>1, WFMin, Zenon
<1> HIDE DEF R
<1>3. PICK x \in S : m = n - x
  BY Zenon
<1>4. \A y \in S : x >= y
  <2> TAKE y \in S
  <2>1. n - y \in T /\ n - y \in Nat /\ n - x \in Nat
    OBVIOUS
  <2>2. ~(n - y < n - x)
    BY <1>2, <1>3, <2>1, Zenon DEF R, OpToRel
  <2> QED BY <2>2
<1> QED BY <1>4, Zenon DEF Max

\* The invariant holds of an empty table of specs.
LEMMA MappingInitInv == MappingInit => MappingInv
<1> SUFFICES ASSUME MappingInit PROVE MappingInv
  BY Zenon
<1>1. MappingIdle \in MappingLocals /\ MappingIdle.pc = "idle" /\ MappingIdle.v = 0
  BY MappingSpecsAssumption DEF MappingIdle, MappingLocals
<1> QED BY <1>1 DEF MappingInit, MappingInv, MappingTypeOK, CallSound, DecisionStands, OneCaller,
                    ValidatedPassed, PublishedTold, Versions

\* One caller steps and the rows stay as they are.
LEMMA MappingStepInv ==
    ASSUME MappingInv, NEW c \in MappingCallers, NEW l \in MappingLocals,
           mappingAt' = [mappingAt EXCEPT ![c] = l], UNCHANGED <<rows, passed>>,
           CallSound(l, rows), DecisionStands(l, rows, mappingOverlapped'),
           mappingOverlapped \subseteq mappingOverlapped',
           l.v \in Versions \ mappingOverlapped' =>
              \A d \in MappingCallers \ {c} : mappingAt[d].v # l.v,
           mappingFaults' \in Nat, announced \subseteq announced',
           mappingFaults' = 0 =>
              mappingFaults = 0
                /\ (Announcing(mappingAt[c].v, mappingAt) /\ mappingAt[c].pc = "announce"
                                    /\ mappingAt[c].op = "publish" => mappingAt[c].v \in announced')
    PROVE  MappingInv'
<1>1. mappingAt \in [MappingCallers -> MappingLocals]
  BY Zenon DEF MappingInv, MappingTypeOK
<1>2. mappingAt'[c] = l /\ \A d \in MappingCallers \ {c} : mappingAt'[d] = mappingAt[d]
  BY <1>1, Zenon
<1>3. MappingTypeOK'
  BY <1>1, Zenon DEF MappingInv, MappingTypeOK
<1>4. ASSUME NEW d \in MappingCallers
      PROVE  CallSound(mappingAt'[d], rows)
        /\ DecisionStands(mappingAt'[d], rows, mappingOverlapped')
  <2>1. CallSound(mappingAt[d], rows) /\ DecisionStands(mappingAt[d], rows, mappingOverlapped)
    BY Zenon DEF MappingInv
  <2>2. DecisionStands(mappingAt[d], rows, mappingOverlapped')
    BY <2>1, Zenon DEF DecisionStands
  <2> QED BY <1>2, <2>1, <2>2, Zenon
<1>5. OneCaller(mappingAt', mappingOverlapped')
  <2>1. OneCaller(mappingAt, mappingOverlapped)
    BY Zenon DEF MappingInv
  <2> SUFFICES ASSUME NEW x \in MappingCallers, NEW y \in MappingCallers,
                      mappingAt'[x].v = mappingAt'[y].v,
                      mappingAt'[x].v \in Versions \ mappingOverlapped'
               PROVE  x = y
    BY Zenon DEF OneCaller
  <2> QED BY <1>2, <2>1 DEF OneCaller
<1>6. ValidatedPassed(rows, passed, mappingOverlapped')
  BY Zenon DEF MappingInv, ValidatedPassed
<1>7. PublishedTold(rows, mappingAt', mappingFaults', announced')
  <2> SUFFICES ASSUME mappingFaults' = 0, NEW v \in Versions, rows[v] # MappingUnset,
                      rows[v].status = "published", v \notin announced'
               PROVE  Announcing(v, mappingAt')
    BY Zenon DEF PublishedTold
  <2>1. Announcing(v, mappingAt)
    BY Zenon DEF MappingInv, PublishedTold
  <2> QED BY <1>2, <2>1, Zenon DEF Announcing
<1> QED BY <1>3, <1>4, <1>5, <1>6, <1>7, Zenon DEF MappingInv

\* A call that begins, or learns its version, notes whether another is at it.
LEMMA TurnsNotes ==
    ASSUME NEW c \in MappingCallers, NEW v \in Nat, Turns(c, v)
    PROVE  /\ mappingOverlapped \subseteq mappingOverlapped'
           /\ v \in Versions \ mappingOverlapped' =>
                 \A d \in MappingCallers \ {c} : mappingAt[d].v # v
BY DEF Turns, Versions

\* A call begins.
LEMMA MappingBeginInv ==
    ASSUME MappingInv, NEW c \in MappingCallers, NEW pc \in {"latest", "exists", "get"},
           NEW op \in MappingOps, NEW v \in 0..MaxVersion, NEW content \in Contents
             \cup {MappingUnset},
           pc = "latest" <=> v = 0, pc = "get" <=> op # "create",
           op \in {"create", "update"} => content \in Contents,
           MappingBegin(c, pc, op, v, content)
    PROVE  MappingInv'
<1> DEFINE l == [pc |-> pc, op |-> op, v |-> v, content |-> content]
<1>1. /\ mappingAt[c].pc = "idle" /\ mappingAt' = [mappingAt EXCEPT ![c] = l] /\ Turns(c, v)
      /\ UNCHANGED <<rows, mappingFaults, passed, announced>>
  BY Zenon DEF MappingBegin
<1>2. l \in MappingLocals /\ l.v = v /\ l.pc # "write"
  BY Zenon DEF MappingLocals
<1>3. CallSound(l, rows)
  BY DEF CallSound, Versions
<1>4. DecisionStands(l, rows, mappingOverlapped')
  BY <1>2, Zenon DEF DecisionStands
<1>5. v \in Nat /\ mappingFaults \in Nat
  BY DEF MappingInv, MappingTypeOK
<1>6. /\ mappingOverlapped \subseteq mappingOverlapped'
      /\ v \in Versions \ mappingOverlapped' =>
            \A d \in MappingCallers \ {c} : mappingAt[d].v # v
  BY <1>1, <1>5, TurnsNotes, Zenon
<1> HIDE DEF l
<1> QED BY <1>1, <1>2, <1>3, <1>4, <1>5, <1>6, MappingStepInv, Zenon

\* A caller moves on at its version, or returns.
LEMMA MappingMoveInv ==
    ASSUME MappingInv, NEW c \in MappingCallers, mappingAt[c].pc # "announce",
           UNCHANGED <<rows, passed, announced, mappingOverlapped>>,
           mappingFaults' \in Nat, mappingFaults' = 0 => mappingFaults = 0,
           \/ Return(c)
           \/ /\ MappingGoto(c, "write") /\ mappingAt[c].pc \in {"exists", "get"}
              /\ mappingAt[c].op # "create" =>
                    /\ rows[mappingAt[c].v] # MappingUnset
                    /\ Allowed(mappingAt[c].op, rows[mappingAt[c].v].status, mappingAt[c].content)
    PROVE  MappingInv'
<1>1. mappingAt \in [MappingCallers -> MappingLocals] /\ mappingAt[c] \in MappingLocals
  BY Zenon DEF MappingInv, MappingTypeOK
<1>2. CASE Return(c)
  <2>1. /\ MappingIdle \in MappingLocals /\ MappingIdle.pc = "idle" /\ MappingIdle.v = 0
        /\ 0 \notin Versions
    BY MappingSpecsAssumption DEF MappingIdle, MappingLocals, Versions
  <2>2. CallSound(MappingIdle, rows) /\ DecisionStands(MappingIdle, rows, mappingOverlapped')
    BY <2>1, Zenon DEF CallSound, DecisionStands
  <2>3. mappingAt' = [mappingAt EXCEPT ![c] = MappingIdle]
    BY <1>2, Zenon DEF Return
  <2> QED BY <2>1, <2>2, <2>3, MappingStepInv, Zenon
<1>3. CASE ~Return(c)
  <2> DEFINE l == [mappingAt[c] EXCEPT !.pc = "write"]
  <2>1. mappingAt' = [mappingAt EXCEPT ![c] = l]
    BY <1>1, <1>3, Zenon DEF MappingGoto
  <2>2. /\ l \in MappingLocals /\ l.pc = "write" /\ l.op = mappingAt[c].op
        /\ l.v = mappingAt[c].v /\ l.content = mappingAt[c].content
    BY <1>1, Zenon DEF MappingLocals
  <2>3. CallSound(mappingAt[c], rows)
    BY Zenon DEF MappingInv
  <2>4. CallSound(l, rows)
    BY <1>3, <2>2, <2>3, Zenon DEF CallSound
  <2>5. DecisionStands(l, rows, mappingOverlapped')
    BY <1>3, <2>2, Zenon DEF DecisionStands
  <2>6. l.v \in Versions \ mappingOverlapped' =>
           \A d \in MappingCallers \ {c} : mappingAt[d].v # l.v
    BY <2>2, Zenon DEF MappingInv, OneCaller
  <2> HIDE DEF l
  <2> QED BY <2>1, <2>2, <2>4, <2>5, <2>6, MappingStepInv, Zenon
<1> QED BY <1>2, <1>3, Zenon

\* What Write puts in the row of a caller's version.
LEMMA WrittenFacts ==
    ASSUME NEW op \in MappingOps, NEW row \in MappingRows \cup {MappingUnset},
           NEW content, op \in {"create", "update"} => content \in Contents,
           op \in {"validate", "publish"} => row # MappingUnset
    PROVE  /\ Written(op, row, content) \in MappingRows
           /\ op \in {"create", "update"} => Written(op, row, content).status = "draft"
           /\ op = "validate" => /\ Written(op, row, content).status = "validated"
                                 /\ Written(op, row, content).content = row.content
           /\ op = "publish" => /\ Written(op, row, content).status = "published"
                                /\ Written(op, row, content).content = row.content
BY Zenon DEF Written, MappingOps, MappingRows

\* The store takes a caller's write.
LEMMA MappingWriteInv ==
    ASSUME MappingInv, NEW c \in MappingCallers, mappingAt[c].pc = "write",
           NEW v, v = mappingAt[c].v, NEW row,
             row = Written(mappingAt[c].op, rows[v], mappingAt[c].content),
           mappingAt[c].op = "create" => rows[v] = MappingUnset,
           rows' = [rows EXCEPT ![v] = row],
           passed' = IF mappingAt[c].op = "validate"
                     THEN [passed EXCEPT ![v] = @ \cup {rows[v].content}] ELSE passed,
           MappingGoto(c, "announce"), UNCHANGED <<mappingFaults, announced, mappingOverlapped>>
    PROVE  MappingInv'
<1> DEFINE me == mappingAt[c]
           l == [me EXCEPT !.pc = "announce"]
<1>1. /\ rows \in [Versions -> MappingRows \cup {MappingUnset}]
      /\ mappingAt \in [MappingCallers -> MappingLocals] /\ me \in MappingLocals
      /\ passed \in [Versions -> SUBSET Contents]
  BY Zenon DEF MappingInv, MappingTypeOK
<1>2. CallSound(me, rows) /\ DecisionStands(me, rows, mappingOverlapped)
  BY Zenon DEF MappingInv
<1>3. /\ v \in Versions /\ me.op \in MappingOps
      /\ me.op \in {"create", "update"} => me.content \in Contents
      /\ me.op # "create" => rows[v] # MappingUnset
  BY <1>2, Zenon DEF CallSound
<1>4. rows[v] \in MappingRows \cup {MappingUnset}
  BY <1>1, <1>3, Zenon
<1>5. /\ row \in MappingRows
      /\ me.op \in {"create", "update"} => row.status = "draft"
      /\ me.op = "validate" => row.status = "validated" /\ row.content = rows[v].content
      /\ me.op = "publish" => row.status = "published" /\ row.content = rows[v].content
  <2>1. me.op \in {"validate", "publish"} => rows[v] # MappingUnset
    BY <1>3, Zenon
  <2> DEFINE new == Written(me.op, rows[v], me.content)
  <2>2. /\ new \in MappingRows
        /\ me.op \in {"create", "update"} => new.status = "draft"
        /\ me.op = "validate" => new.status = "validated" /\ new.content = rows[v].content
        /\ me.op = "publish" => new.status = "published" /\ new.content = rows[v].content
    <3> HIDE DEF me
    <3> QED BY <1>3, <1>4, <2>1, WrittenFacts
  <2>3. row = new
    BY Zenon
  <2> HIDE DEF new, me
  <2> QED BY <2>2, <2>3, Zenon
<1>6. row # MappingUnset
  BY <1>5, MappingSpecsAssumption, Zenon DEF MappingRows
<1>7. rows'[v] = row /\ \A w \in Versions : w # v => rows'[w] = rows[w]
  BY <1>1, <1>3, Zenon
<1>8. /\ mappingAt' = [mappingAt EXCEPT ![c] = l] /\ mappingAt'[c] = l
      /\ \A d \in MappingCallers : d # c => mappingAt'[d] = mappingAt[d]
  BY <1>1, Zenon DEF MappingGoto
<1>9. l \in MappingLocals /\ l.pc = "announce" /\ l.op = me.op /\ l.v = v /\ l.content = me.content
  BY <1>1, Zenon DEF MappingLocals
<1>10. \A w \in Versions : passed[w] \subseteq passed'[w] /\ passed'[w] \subseteq Contents
  <2>1. me.op = "validate" => rows[v].content \in Contents
    BY <1>3, <1>4, Zenon DEF MappingRows
  <2> QED BY <1>1, <1>3, <2>1, Zenon
<1>11. me.op = "validate" => rows[v].content \in passed'[v]
  BY <1>1, <1>3, Zenon
<1>12. passed' \in [Versions -> SUBSET Contents]
  <2>1. me.op = "validate" => rows[v].content \in Contents
    BY <1>3, <1>4, Zenon DEF MappingRows
  <2> QED BY <1>1, <1>3, <2>1, Zenon
<1>13. MappingTypeOK'
  <2>1. rows' \in [Versions -> MappingRows \cup {MappingUnset}]
    BY <1>1, <1>3, <1>5, Zenon
  <2> HIDE DEF l
  <2>2. mappingAt' \in [MappingCallers -> MappingLocals]
    BY <1>1, <1>8, <1>9, Zenon
  <2> QED BY <1>12, <2>1, <2>2, Zenon DEF MappingInv, MappingTypeOK
<1> HIDE DEF l
<1>14. ASSUME NEW d \in MappingCallers
       PROVE  CallSound(mappingAt'[d], rows')
         /\ DecisionStands(mappingAt'[d], rows', mappingOverlapped)
  <2>1. CASE d = c
    BY <1>2, <1>3, <1>8, <1>9, <2>1, Zenon DEF CallSound, DecisionStands
  <2>2. CASE d # c
    <3>1. CallSound(mappingAt[d], rows) /\ DecisionStands(mappingAt[d], rows, mappingOverlapped)
      BY Zenon DEF MappingInv
    <3>2. \A w \in Versions : rows[w] # MappingUnset => rows'[w] # MappingUnset
      BY <1>6, <1>7, Zenon
    <3>3. CallSound(mappingAt[d], rows')
      BY <3>1, <3>2, Zenon DEF CallSound
    <3>4. mappingAt[d].pc = "write" /\ mappingAt[d].v \notin mappingOverlapped =>
             rows'[mappingAt[d].v] = rows[mappingAt[d].v]
      BY <1>3, <1>7, <2>2, <3>1, Zenon DEF MappingInv, OneCaller, CallSound
    <3>5. DecisionStands(mappingAt[d], rows', mappingOverlapped)
      BY <3>1, <3>4, Zenon DEF DecisionStands
    <3> QED BY <1>8, <2>2, <3>3, <3>5, Zenon
  <2> QED BY <2>1, <2>2, Zenon
<1>15. OneCaller(mappingAt', mappingOverlapped)
  <2>1. \A d \in MappingCallers : mappingAt'[d].v = mappingAt[d].v
    BY <1>8, <1>9, Zenon
  <2> QED BY <2>1, Zenon DEF MappingInv, OneCaller
<1>16. ValidatedPassed(rows', passed', mappingOverlapped)
  <2>0. ValidatedPassed(rows, passed, mappingOverlapped)
    BY Zenon DEF MappingInv
  <2> SUFFICES ASSUME NEW w \in Versions, rows'[w] # MappingUnset
               PROVE  /\ rows'[w].status = "validated" => rows'[w].content \in passed'[w]
                      /\ rows'[w].status = "published" /\ w \notin mappingOverlapped =>
                            rows'[w].content \in passed'[w]
    BY Zenon DEF ValidatedPassed
  <2>1. CASE w # v
    BY <1>7, <1>10, <2>0, <2>1, Zenon DEF ValidatedPassed
  <2>2. CASE w = v
    <3>1. me.op = "publish" /\ v \notin mappingOverlapped => rows[v].content \in passed[v]
      <4> SUFFICES ASSUME me.op = "publish", v \notin mappingOverlapped
                   PROVE  rows[v].content \in passed[v]
        BY Zenon
      <4>1. rows[v].status = "validated" /\ rows[v] # MappingUnset
        BY <1>2, <1>3, Zenon DEF DecisionStands, Allowed
      <4> QED BY <1>3, <2>0, <4>1, Zenon DEF ValidatedPassed
    <3>2. CASE me.op \in {"create", "update"}
      BY <1>5, <1>7, <2>2, <3>2, Zenon
    <3>3. CASE me.op = "validate"
      BY <1>5, <1>7, <1>11, <2>2, <3>3, Zenon
    <3>4. CASE me.op = "publish"
      <4>1. rows'[w].status = "published" /\ rows'[w].content = rows[v].content
        BY <1>5, <1>7, <2>2, <3>4, Zenon
      <4>2. w \notin mappingOverlapped => rows[v].content \in passed'[w]
        BY <1>10, <2>2, <3>1, <3>4, Zenon
      <4> QED BY <4>1, <4>2, Zenon
    <3> QED BY <1>3, <3>2, <3>3, <3>4, Zenon DEF MappingOps
  <2> QED BY <2>1, <2>2, Zenon
<1>17. PublishedTold(rows', mappingAt', mappingFaults, announced)
  <2> SUFFICES ASSUME mappingFaults = 0, NEW w \in Versions, rows'[w] # MappingUnset,
                      rows'[w].status = "published", w \notin announced
               PROVE  Announcing(w, mappingAt')
    BY Zenon DEF PublishedTold
  <2>1. CASE w = v
    <3>1. me.op = "publish"
      BY <1>3, <1>5, <1>7, <2>1, Zenon DEF MappingOps
    <3> QED BY <1>8, <1>9, <2>1, <3>1, Zenon DEF Announcing
  <2>2. CASE w # v
    <3>1. Announcing(w, mappingAt)
      BY <1>7, <2>2, Zenon DEF MappingInv, PublishedTold
    <3> QED BY <1>8, <2>2, <3>1, Zenon DEF Announcing
  <2> QED BY <2>1, <2>2, Zenon
<1> QED BY <1>13, <1>14, <1>15, <1>16, <1>17, Zenon DEF MappingInv

\* The latest version leads to the one after it, within the bound.
LEMMA LatestInv == ASSUME MappingInv, NEW c \in MappingCallers, Latest(c) PROVE MappingInv'
<1> DEFINE newest == IF Existing = {} THEN 0 ELSE Max(Existing)
           l == [mappingAt[c] EXCEPT !.pc = "exists", !.v = newest + 1]
<1>1. /\ mappingAt \in [MappingCallers -> MappingLocals] /\ mappingAt[c] \in MappingLocals
      /\ CallSound(mappingAt[c], rows) /\ mappingFaults \in Nat
  BY Zenon DEF MappingInv, MappingTypeOK
<1>2. /\ mappingAt[c].pc = "latest" /\ UNCHANGED <<rows, passed, announced, mappingFaults>>
      /\ mappingAt[c].op = "create" /\ mappingAt[c].content \in Contents
  BY <1>1, Zenon DEF Latest, NoFault, CallSound
<1>3. newest \in 0..MaxVersion
  <2>1. Existing \subseteq 0..MaxVersion /\ MaxVersion \in Nat
    BY MappingSpecsAssumption DEF Existing, Versions
  <2>2. Existing # {} => Max(Existing) \in Existing
    BY <2>1, MaxExists, Zenon
  <2>3. CASE Existing = {}
    BY <2>1, <2>3
  <2>4. CASE Existing # {}
    BY <2>1, <2>2, <2>4, Zenon
  <2> QED BY <2>3, <2>4, Zenon
<1> HIDE DEF newest
<1>4. CASE Return(c) /\ UNCHANGED mappingOverlapped
  BY <1>1, <1>2, <1>4, MappingMoveInv, Zenon
<1>5. CASE /\ newest = 0 \/ newest < MaxVersion
           /\ mappingAt' = [mappingAt EXCEPT ![c].pc = "exists", ![c].v = newest + 1]
           /\ Turns(c, newest + 1)
  <2>1. newest + 1 \in Versions /\ newest + 1 \in Nat
    BY <1>3, <1>5, MappingSpecsAssumption DEF Versions
  <2>2. mappingAt' = [mappingAt EXCEPT ![c] = l]
    BY <1>1, <1>5, Zenon
  <2>3. /\ l \in MappingLocals /\ l.pc = "exists" /\ l.op = "create" /\ l.v = newest + 1
        /\ l.content \in Contents
    <3>1. newest + 1 \in 0..MaxVersion
      BY <2>1, MappingSpecsAssumption DEF Versions
    <3> QED BY <1>1, <1>2, <3>1, Zenon DEF MappingLocals
  <2> HIDE DEF l
  <2>4. CallSound(l, rows) /\ DecisionStands(l, rows, mappingOverlapped')
    BY <2>1, <2>3, Zenon DEF CallSound, DecisionStands, MappingOps
  <2>5. /\ mappingOverlapped \subseteq mappingOverlapped'
        /\ newest + 1 \in Versions \ mappingOverlapped' =>
              \A d \in MappingCallers \ {c} : mappingAt[d].v # newest + 1
    BY <1>5, <2>1, TurnsNotes, Zenon
  <2> QED BY <1>1, <1>2, <2>2, <2>3, <2>4, <2>5, MappingStepInv, Zenon
<1> QED BY <1>4, <1>5, Zenon DEF Latest, newest

\* Every step of every call keeps the invariant.
LEMMA MappingNextInv == MappingInv /\ [MappingNext]_mappingVars => MappingInv'
<1> SUFFICES ASSUME MappingInv, [MappingNext]_mappingVars PROVE MappingInv'
  BY Zenon
<1>1. /\ mappingFaults \in Nat
      /\ \A v \in Versions : v \in 0..MaxVersion /\ v # 0
  BY DEF MappingInv, MappingTypeOK, Versions
<1>2. ASSUME NEW c \in MappingCallers, NEW v \in Versions \cup {0}, NEW content \in Contents,
             CreateDraft(c, v, content)
      PROVE  MappingInv'
  <2> DEFINE pc == IF v = 0 THEN "latest" ELSE "exists"
  <2>1. /\ pc \in {"latest", "exists", "get"} /\ (pc = "latest" <=> v = 0) /\ pc # "get"
        /\ v \in 0..MaxVersion /\ "create" \in MappingOps
    BY <1>1, MappingSpecsAssumption DEF MappingOps
  <2>2. MappingBegin(c, pc, "create", v, content)
    BY <1>2, Zenon DEF CreateDraft
  <2> HIDE DEF pc
  <2> QED BY <2>1, <2>2, MappingBeginInv, Zenon
<1>3. ASSUME NEW c \in MappingCallers, NEW v \in Versions, NEW content \in Contents,
             UpdateDraft(c, v, content)
      PROVE  MappingInv'
  BY <1>1, <1>3, MappingBeginInv, Zenon DEF UpdateDraft, MappingOps
<1>4. ASSUME NEW c \in MappingCallers, NEW v \in Versions, MarkValidated(c, v) PROVE MappingInv'
  BY <1>1, <1>4, MappingBeginInv, Zenon DEF MarkValidated, MappingOps
<1>5. ASSUME NEW c \in MappingCallers, NEW v \in Versions, MappingPublish(c, v) PROVE MappingInv'
  BY <1>1, <1>5, MappingBeginInv, Zenon DEF MappingPublish, MappingOps
<1>6. ASSUME NEW c \in MappingCallers, Exists(c) PROVE MappingInv'
  <2>1. mappingAt[c].op = "create"
    BY <1>6, Zenon DEF Exists, MappingInv, CallSound
  <2> QED BY <1>1, <1>6, <2>1, MappingMoveInv, Zenon DEF Exists, NoFault
<1>7. ASSUME NEW c \in MappingCallers, Get(c) PROVE MappingInv'
  BY <1>1, <1>7, MappingMoveInv, Zenon DEF Get, NoFault
<1>8. ASSUME NEW c \in MappingCallers, Write(c) PROVE MappingInv'
  <2>1. CASE Return(c) /\ UNCHANGED <<rows, passed>>
    <3>1. mappingAt[c].pc = "write" /\ UNCHANGED <<announced, mappingOverlapped>>
      BY <1>8, Zenon DEF Write
    <3>2. mappingFaults' \in Nat /\ (mappingFaults' = 0 => mappingFaults = 0)
      BY <1>1, <1>8 DEF Write, NoFault, MappingFault
    <3> QED BY <2>1, <3>1, <3>2, MappingMoveInv, Zenon
  <2>2. CASE ~(Return(c) /\ UNCHANGED <<rows, passed>>)
    BY <1>8, <2>2, MappingWriteInv, Zenon DEF Write, NoFault
  <2> QED BY <2>1, <2>2, Zenon
<1>9. ASSUME NEW c \in MappingCallers, Announce(c) PROVE MappingInv'
  <2>1. /\ MappingIdle \in MappingLocals /\ MappingIdle.pc = "idle" /\ MappingIdle.v = 0
        /\ 0 \notin Versions
    BY MappingSpecsAssumption DEF MappingIdle, MappingLocals, Versions
  <2>2. CallSound(MappingIdle, rows) /\ DecisionStands(MappingIdle, rows, mappingOverlapped')
    BY <2>1, Zenon DEF CallSound, DecisionStands
  <2>3. /\ mappingAt' = [mappingAt EXCEPT ![c] = MappingIdle]
        /\ UNCHANGED <<rows, passed, mappingOverlapped>>
    BY <1>9, Zenon DEF Announce, Return
  <2>4. /\ mappingFaults' \in Nat /\ announced \subseteq announced'
        /\ mappingFaults' = 0 => /\ mappingFaults = 0
                                 /\ mappingAt[c].op = "publish" => mappingAt[c].v \in announced'
    BY <1>1, <1>9 DEF Announce, NoFault, MappingFault
  <2> QED BY <2>1, <2>2, <2>3, <2>4, MappingStepInv, Zenon
<1>10. CASE UNCHANGED mappingVars
  BY <1>10, Zenon DEF mappingVars, MappingInv, MappingTypeOK
<1> QED BY <1>2, <1>3, <1>4, <1>5, <1>6, <1>7, <1>8, <1>9, <1>10, LatestInv, Zenon DEF MappingNext

\* Published mapping specs are for good, for any number of versions, callers,
\* contents and faults: no operation changes a published version two calls have
\* not worked on at once, what is published was validated, and it gets announced
\* unless a call of the store or the bus failed.
THEOREM PublishedSpecsStay == MappingSpec => PublishedForGood
<1>1. MappingInv => PublishedWasValidated /\ AnnouncedUnlessFailed
  BY Zenon DEF MappingInv, ValidatedPassed, PublishedTold, Announcing, PublishedWasValidated,
         AnnouncedUnlessFailed, Existing
<1>2. MappingInv /\ MappingNext => PublishedStays
  <2> SUFFICES ASSUME MappingInv, MappingNext, NEW v \in Versions, v \notin mappingOverlapped',
                      rows[v] # MappingUnset, rows[v].status = "published", rows'[v] # rows[v]
               PROVE  FALSE
    BY Zenon DEF PublishedStays
  <2>1. PICK c \in MappingCallers : Write(c)
    BY DEF MappingNext, CreateDraft, UpdateDraft, MarkValidated, MappingPublish, MappingBegin,
           Latest, Exists, Get, Announce
  <2>2. /\ mappingAt[c].pc = "write" /\ mappingOverlapped' = mappingOverlapped
        /\ \E row : rows' = [rows EXCEPT ![mappingAt[c].v] = row]
        /\ mappingAt[c].op = "create" => rows[mappingAt[c].v] = MappingUnset
    BY <2>1, Zenon DEF Write
  <2>3. mappingAt[c].v = v
    BY <2>2, Zenon DEF MappingInv, MappingTypeOK
  <2>4. mappingAt[c].op \in {"update", "validate", "publish"}
    BY <2>2, <2>3, Zenon DEF MappingInv, CallSound, MappingOps
  <2>5. Allowed(mappingAt[c].op, rows[v].status, mappingAt[c].content)
    BY <2>2, <2>3, <2>4, Zenon DEF MappingInv, DecisionStands
  <2> QED BY <2>4, <2>5, Zenon DEF Allowed
<1>3. MappingSpec => []MappingInv
  BY MappingInitInv, MappingNextInv, PTL DEF MappingSpec
<1> QED BY <1>1, <1>2, <1>3, PTL DEF MappingSpec, PublishedForGood

-----------------------------------------------------------------------------
(* Account linking.  Where a provider's configuration leaves one account id*)
(* per user, whichever source a callback came with, a connection row stands*)
(* for one user, and a callback ends at the row of its own user.           *)

\* The account id that a setup gives to a user.
AccountKey(s, u) ==
    IF s.explicit THEN <<"explicit", u>>
    ELSE IF Issuer(s) = AccountUnset THEN <<u.sub>> ELSE <<Issuer(s), u.sub>>

AccountKeys == {AccountKey(s, u) : s \in Setups, u \in Users}

AccountLocals == [pc : {"idle", "find", "create", "update"}, user : Users \cup {AccountUnset},
                  account : AccountKeys \cup {AccountUnset}, target : Nat, conn : Nat]

\* A callback under way has its user's account, and has found a row of it.
LinkSound(l, s, table) ==
    /\ l.pc # "idle" =>
          l.user \in Users /\ l.account = AccountKey(s, l.user) /\ l.target \in 0..Len(table)
    /\ l.pc = "update" => l.conn \in 1..Len(table) /\ table[l.conn] = l.account

LinkedSound(links, s, table) ==
    \A x \in links : x.user \in Users /\ x.conn \in 1..Len(table)
                     /\ table[x.conn] = AccountKey(s, x.user)

AccountInv ==
    /\ setup \in Setups /\ conns \in Seq(AccountKeys) /\ begun \in Nat
    /\ accountAt \in [AccountCallbacks -> AccountLocals]
    /\ \A c \in AccountCallbacks : LinkSound(accountAt[c], setup, conns)
    /\ LinkedSound(linked, setup, conns)
    /\ OneRowPerAccount

\* firstNonEmpty of two and of three options.
LEMMA FirstOfTwo ==
    ASSUME NEW a, NEW b
    PROVE  firstNonEmpty(<<a, b>>) = IF a # AccountUnset THEN a ELSE b
<1> DEFINE o == <<a, b>>
           S == {i \in DOMAIN o : o[i] # AccountUnset}
<1>1. DOMAIN o = {1, 2} /\ o[1] = a /\ o[2] = b
  OBVIOUS
<1>2. firstNonEmpty(o) = IF S = {} THEN AccountUnset ELSE o[CHOOSE i \in S : \A j \in S : i <= j]
  BY Zenon DEF firstNonEmpty
<1> HIDE DEF o
<1>3. CASE a # AccountUnset
  <2>1. 1 \in S /\ \A i \in S : (\A j \in S : i <= j) <=> i = 1
    BY <1>1, <1>3
  <2>2. (CHOOSE i \in S : \A j \in S : i <= j) = 1
    BY <2>1, Zenon
  <2> QED BY <1>1, <1>2, <1>3, <2>1, <2>2, Zenon DEF o
<1>4. CASE a = AccountUnset /\ b # AccountUnset
  <2>1. S = {2}
    BY <1>1, <1>4, Zenon
  <2>2. (CHOOSE i \in S : \A j \in S : i <= j) = 2
    BY <2>1
  <2> QED BY <1>1, <1>2, <1>4, <2>1, <2>2, Zenon DEF o
<1>5. CASE a = AccountUnset /\ b = AccountUnset
  BY <1>1, <1>2, <1>5 DEF o
<1> QED BY <1>3, <1>4, <1>5, Zenon

\* firstNonEmpty of three is the first when it is set, and else firstNonEmpty of
\* the other two.
LEMMA FirstOfThree ==
    ASSUME NEW a, NEW b, NEW d
    PROVE  firstNonEmpty(<<a, b, d>>) =
               IF a # AccountUnset THEN a ELSE firstNonEmpty(<<b, d>>)
<1> DEFINE o == <<a, b, d>>
           S == {i \in DOMAIN o : o[i] # AccountUnset}
           m == CHOOSE i \in S : \A j \in S : i <= j
<1>1. DOMAIN o = {1, 2, 3} /\ o[1] = a /\ o[2] = b /\ o[3] = d
  OBVIOUS
<1>2. firstNonEmpty(o) = IF S = {} THEN AccountUnset ELSE o[m]
  BY Zenon DEF firstNonEmpty
<1>0. firstNonEmpty(<<b, d>>) = IF b # AccountUnset THEN b ELSE d
  BY FirstOfTwo, Zenon
<1> HIDE DEF o
<1>3. CASE a # AccountUnset
  <2>1. 1 \in S /\ \A i \in S : (\A j \in S : i <= j) <=> i = 1
    BY <1>1, <1>3
  <2>2. m = 1
    BY <2>1, Zenon
  <2> QED BY <1>1, <1>2, <1>3, <2>1, <2>2, Zenon DEF o
<1>4. CASE a = AccountUnset /\ b # AccountUnset
  <2>1. 2 \in S /\ \A i \in S : (\A j \in S : i <= j) <=> i = 2
    BY <1>1, <1>4
  <2>2. m = 2
    BY <2>1, Zenon
  <2> QED BY <1>0, <1>1, <1>2, <1>4, <2>1, <2>2, Zenon DEF o
<1>5. CASE a = AccountUnset /\ b = AccountUnset /\ d # AccountUnset
  <2>1. S = {3}
    BY <1>1, <1>5, Zenon
  <2>2. m = 3
    BY <2>1
  <2> QED BY <1>0, <1>1, <1>2, <1>5, <2>1, <2>2, Zenon DEF o
<1>6. CASE a = AccountUnset /\ b = AccountUnset /\ d = AccountUnset
  <2>1. S = {}
    BY <1>1, <1>6, Zenon
  <2> QED BY <1>0, <1>2, <1>6, <2>1, Zenon DEF o
<1> QED BY <1>3, <1>4, <1>5, <1>6, Zenon

\* A steady setup gives two users two accounts.
LEMMA AccountsApart ==
    ASSUME NEW s, Steady(s), NEW u \in Users, NEW v \in Users, AccountKey(s, u) = AccountKey(s, v)
    PROVE  u = v
<1>1. CASE s.explicit
  BY <1>1, Zenon DEF AccountKey
<1>2. CASE ~s.explicit
  <2>1. u.sub = v.sub
    BY <1>2, Zenon DEF AccountKey
  <2>2. CASE s.github
    BY <1>2, <2>1, <2>2, Zenon DEF Steady
  <2>3. CASE ~s.github
    <3>1. u.issuer = v.issuer
      BY <1>2, <2>3, Zenon DEF Steady
    <3> QED BY <2>1, <3>1, AccountLinkingAssumption, Zenon
  <2> QED BY <2>2, <2>3, Zenon
<1> QED BY <1>1, <1>2, Zenon

\* The profile of a user, whichever source it comes from.
LEMMA ProfileSteady ==
    ASSUME Steady(setup), ~setup.explicit, NEW user \in Users, NEW src \in Sources(user)
    PROVE  Resolve(src) \in {AccountUnset, [issuer |-> Issuer(setup), subject |-> user.sub]}
<1> DEFINE p == [issuer |-> Issuer(setup), subject |-> user.sub]
           issuer3 == firstNonEmpty(<<src.reply.iss, setup.issuer, setup.default>>)
<1>1. user.issuer # AccountUnset /\ user.sub # AccountUnset
  BY AccountLinkingAssumption, Zenon
<1>2. profileFromIDToken(src) \in {AccountUnset, p}
  <2>1. CASE src.idToken = AccountUnset
    BY <2>1, Zenon DEF profileFromIDToken
  <2>2. CASE src.idToken # AccountUnset
    <3>1. ~setup.github /\ src.idToken = AccountClaims(user)
      BY <2>2, Zenon DEF Sources
    <3>2. Issuer(setup) = user.issuer
      BY <3>1, Zenon DEF Steady
    <3>3. firstNonEmpty(<<src.idToken.iss, setup.default>>) = user.issuer
            /\ src.idToken.sub = user.sub
      BY <1>1, <3>1, FirstOfTwo DEF AccountClaims
    <3> QED BY <3>2, <3>3, Zenon DEF profileFromIDToken, normalizeOIDCProfile
  <2> QED BY <2>1, <2>2, Zenon
<1>3. profileFromUserInfo(src) \in {AccountUnset, p}
  <2>1. CASE src.reply = AccountUnset
    BY <2>1, Zenon DEF profileFromUserInfo
  <2>2. CASE src.reply # AccountUnset /\ setup.github
    <3>1. PICK l \in {"old", "new"} :
             src.reply = [iss |-> AccountUnset, sub |-> AccountUnset, id |-> user.sub, login |-> l]
      BY <2>2, Zenon DEF Sources, Payloads
    <3>2. issuer3 = Issuer(setup)
      BY <3>1, FirstOfThree DEF Issuer
    <3>3. firstNonEmpty(<<src.reply.id, src.reply.login>>) = user.sub
      BY <1>1, <3>1, FirstOfTwo
    <3> QED BY <2>2, <3>2, <3>3, Zenon DEF profileFromUserInfo, normalizeGitHubProfile
  <2>3. CASE src.reply # AccountUnset /\ ~setup.github
    <3>1. src.reply \in {[AccountClaims(user) EXCEPT !.iss = AccountUnset], AccountClaims(user)}
      BY <2>3, Zenon DEF Sources, Payloads
    <3>2. src.reply.iss \in {AccountUnset, user.issuer} /\ src.reply.sub = user.sub
      BY <3>1 DEF AccountClaims
    <3>3. Issuer(setup) = user.issuer
      BY <2>3, Zenon DEF Steady
    <3>4. issuer3 = Issuer(setup)
      BY <3>2, <3>3, FirstOfThree DEF Issuer
    <3> QED BY <2>3, <3>2, <3>4, Zenon DEF profileFromUserInfo, normalizeOIDCProfile
  <2> QED BY <2>1, <2>2, <2>3, Zenon
<1> HIDE DEF p
<1> QED BY <1>2, <1>3, Zenon DEF Resolve, p

\* A callback of a user has the user's account or none.
LEMMA AccountSteady ==
    ASSUME Steady(setup), NEW user \in Users, NEW src \in Sources(user)
    PROVE  Account(user, src) \in {AccountUnset, AccountKey(setup, user)}
<1>1. CASE setup.explicit
  BY <1>1, Zenon DEF Account, AccountKey
<1>2. CASE ~setup.explicit
  <2> DEFINE p == [issuer |-> Issuer(setup), subject |-> user.sub]
  <2>1. Resolve(src) \in {AccountUnset, p}
    BY <1>2, ProfileSteady, Zenon
  <2>2. ExternalAccountID(p) = AccountKey(setup, user)
    BY <1>2, Zenon DEF ExternalAccountID, AccountKey
  <2> HIDE DEF p
  <2> QED BY <1>2, <2>1, <2>2, Zenon DEF Account
<1> QED BY <1>1, <1>2, Zenon

\* An idle callback is sound.
LEMMA AccountIdleSound ==
    ASSUME NEW s, NEW table
    PROVE  AccountIdle \in AccountLocals /\ AccountIdle.pc = "idle"
      /\ LinkSound(AccountIdle, s, table)
BY Zenon DEF AccountIdle, AccountLocals, LinkSound

\* The invariant holds before the first callback.
LEMMA AccountInitInv == AccountInit => AccountInv
<1> SUFFICES ASSUME AccountInit PROVE AccountInv
  BY Zenon
<1>1. conns = <<>> /\ conns \in Seq(AccountKeys) /\ DOMAIN conns = {}
  BY DEF AccountInit
<1> QED BY <1>1, AccountIdleSound, Zenon DEF AccountInit, AccountInv, LinkedSound, OneRowPerAccount

\* One callback steps and the rows and links stay as they are.
LEMMA AccountStepInv ==
    ASSUME AccountInv, NEW c \in AccountCallbacks, NEW l \in AccountLocals,
           LinkSound(l, setup, conns), accountAt' = [accountAt EXCEPT ![c] = l], begun' \in Nat,
           UNCHANGED <<setup, conns, linked>>
    PROVE  AccountInv'
BY Zenon DEF AccountInv, OneRowPerAccount

\* One callback ends at connection n, the row of its user's account.
LEMMA AccountLinkInv ==
    ASSUME AccountInv, NEW c \in AccountCallbacks, NEW n, Completed(c, n),
           accountAt[c].user \in Users, conns' \in Seq(AccountKeys), Len(conns) <= Len(conns'),
           \A i \in 1..Len(conns) : conns'[i] = conns[i],
           n \in 1..Len(conns'), conns'[n] = AccountKey(setup, accountAt[c].user),
           OneRowPerAccount', UNCHANGED <<setup, begun>>
    PROVE  AccountInv'
<1>1. /\ accountAt \in [AccountCallbacks -> AccountLocals] /\ Len(conns) \in Nat
           /\ Len(conns') \in Nat
      /\ accountAt' = [accountAt EXCEPT ![c] = AccountIdle]
      /\ linked' = linked \cup {[user |-> accountAt[c].user, conn |-> n]}
  BY DEF AccountInv, Completed
<1>2. AccountIdle \in AccountLocals /\ LinkSound(AccountIdle, setup, conns')
  BY AccountIdleSound, Zenon
<1>3. ASSUME NEW d \in AccountCallbacks PROVE LinkSound(accountAt'[d], setup, conns')
  <2>1. LinkSound(accountAt[d], setup, conns)
    BY Zenon DEF AccountInv
  <2>2. LinkSound(accountAt[d], setup, conns')
    BY <1>1, <2>1 DEF LinkSound
  <2> QED BY <1>1, <1>2, <2>2, Zenon
<1>4. LinkedSound(linked', setup, conns')
  <2> SUFFICES ASSUME NEW x \in linked'
               PROVE  x.user \in Users /\ x.conn \in 1..Len(conns')
                      /\ conns'[x.conn] = AccountKey(setup, x.user)
    BY Zenon DEF LinkedSound
  <2>1. CASE x \in linked
    <3>1. x.user \in Users /\ x.conn \in 1..Len(conns) /\ conns[x.conn] = AccountKey(setup, x.user)
      BY <2>1, Zenon DEF AccountInv, LinkedSound
    <3> QED BY <1>1, <3>1
  <2>2. CASE x = [user |-> accountAt[c].user, conn |-> n]
    BY <2>2, Zenon
  <2> QED BY <1>1, <2>1, <2>2, Zenon
<1> QED BY <1>1, <1>2, <1>3, <1>4, Zenon DEF AccountInv

\* Every step of the callbacks keeps the invariant.
LEMMA AccountNextInv ==
    ASSUME \A s \in Setups : Steady(s)
    PROVE  AccountInv /\ [AccountNext]_accountVars => AccountInv'
<1> SUFFICES ASSUME AccountInv, [AccountNext]_accountVars PROVE AccountInv'
  BY Zenon
<1>1. /\ setup \in Setups /\ Steady(setup) /\ conns \in Seq(AccountKeys) /\ Len(conns) \in Nat
      /\ DOMAIN conns = 1..Len(conns) /\ begun \in Nat /\ OneRowPerAccount
      /\ accountAt \in [AccountCallbacks -> AccountLocals]
      /\ \A c \in AccountCallbacks : LinkSound(accountAt[c], setup, conns)
  BY DEF AccountInv
<1>2. \A user \in Users : AccountKey(setup, user) \in AccountKeys
  BY <1>1 DEF AccountKeys
<1>3. AccountIdle \in AccountLocals /\ LinkSound(AccountIdle, setup, conns)
  BY AccountIdleSound, Zenon
<1>4. ASSUME NEW c \in AccountCallbacks, NEW user \in Users, NEW target \in {0} \cup DOMAIN conns,
             NEW src \in Sources(user), Complete(c, user, src, target)
      PROVE  AccountInv'
  <2> DEFINE l == [pc |-> "find", user |-> user, target |-> target,
                   account |-> Account(user, src), conn |-> 0]
  <2>1. begun' \in Nat /\ UNCHANGED <<setup, conns, linked>>
    BY <1>1, <1>4 DEF Complete
  <2>2. CASE Account(user, src) = AccountUnset
    <3>1. accountAt' = accountAt
      BY <1>4, <2>2, Zenon DEF Complete
    <3> QED BY <2>1, <3>1, Zenon DEF AccountInv, OneRowPerAccount
  <2>3. CASE Account(user, src) # AccountUnset
    <3>1. accountAt' = [accountAt EXCEPT ![c] = l]
      BY <1>4, <2>3, Zenon DEF Complete
    <3>2. Account(user, src) = AccountKey(setup, user)
      BY <1>1, <2>3, AccountSteady, Zenon
    <3>3. target \in 0..Len(conns) /\ target \in Nat
      BY <1>1
    <3>4. l \in AccountLocals
      BY <1>2, <3>2, <3>3, Zenon DEF AccountLocals
    <3>5. LinkSound(l, setup, conns)
      BY <3>2, <3>3, Zenon DEF LinkSound
    <3> HIDE DEF l
    <3> QED BY <2>1, <3>1, <3>4, <3>5, AccountStepInv, Zenon
  <2> QED BY <2>2, <2>3, Zenon
<1>5. ASSUME NEW c \in AccountCallbacks, findCallbackConnection(c) PROVE AccountInv'
  <2> DEFINE me == accountAt[c]
             l == Found(me)
  <2>1. /\ me.pc = "find" /\ accountAt' = [accountAt EXCEPT ![c] = l]
        /\ UNCHANGED <<setup, conns, begun, linked>>
    BY <1>5, Zenon DEF findCallbackConnection
  <2>2. /\ me \in AccountLocals /\ me.user \in Users /\ me.account = AccountKey(setup, me.user)
        /\ me.target \in 0..Len(conns)
    BY <1>1, <2>1, Zenon DEF LinkSound
  <2> HIDE DEF me
  <2>3. CASE l = AccountIdle
    BY <1>1, <1>3, <2>1, <2>3, AccountStepInv, Zenon
  <2>4. CASE l = [me EXCEPT !.pc = "create"]
    <3>1. /\ l \in AccountLocals /\ l.pc = "create" /\ l.user = me.user /\ l.account = me.account
          /\ l.target = me.target
      BY <2>2, <2>4, Zenon DEF AccountLocals
    <3> HIDE DEF l
    <3>2. LinkSound(l, setup, conns)
      BY <2>2, <3>1, Zenon DEF LinkSound
    <3> QED BY <1>1, <2>1, <3>1, <3>2, AccountStepInv, Zenon
  <2>5. ASSUME NEW i \in DOMAIN conns, conns[i] = me.account,
               l = [me EXCEPT !.pc = "update", !.conn = i]
        PROVE  AccountInv'
    <3>1. i \in Nat /\ i \in 1..Len(conns)
      BY <1>1
    <3>2. /\ l \in AccountLocals /\ l.pc = "update" /\ l.user = me.user /\ l.account = me.account
          /\ l.target = me.target /\ l.conn = i
      BY <2>2, <2>5, <3>1, Zenon DEF AccountLocals
    <3> HIDE DEF l
    <3>3. LinkSound(l, setup, conns)
      BY <2>2, <2>5, <3>1, <3>2, Zenon DEF LinkSound
    <3> QED BY <1>1, <2>1, <3>2, <3>3, AccountStepInv, Zenon
  <2>6. CASE me.target # 0
    <3>1. me.target \in DOMAIN conns
      BY <1>1, <2>2, <2>6
    <3>2. CASE conns[me.target] = me.account
      BY <2>5, <2>6, <3>1, <3>2, Zenon DEF Found
    <3>3. CASE conns[me.target] # me.account
      BY <2>3, <2>6, <3>3, Zenon DEF Found
    <3> QED BY <3>2, <3>3, Zenon
  <2>7. CASE me.target = 0 /\ Rows(me.account) = {}
    BY <2>4, <2>7, Zenon DEF Found
  <2>8. CASE me.target = 0 /\ Rows(me.account) # {}
    <3> DEFINE i == CHOOSE j \in Rows(me.account) : TRUE
    <3>1. i \in Rows(me.account)
      BY <2>8, Zenon
    <3>2. l = [me EXCEPT !.pc = "update", !.conn = i]
      BY <2>8, Zenon DEF Found
    <3> HIDE DEF i, l
    <3> QED BY <2>5, <3>1, <3>2, Zenon DEF Rows
  <2> QED BY <2>6, <2>7, <2>8, Zenon
<1>6. ASSUME NEW c \in AccountCallbacks, AccountUpdateStatus(c) PROVE AccountInv'
  <2>1. /\ accountAt[c].pc = "update" /\ Completed(c, accountAt[c].conn)
        /\ UNCHANGED <<setup, conns, begun>>
    BY <1>6, Zenon DEF AccountUpdateStatus
  <2>2. /\ accountAt[c].user \in Users /\ accountAt[c].conn \in 1..Len(conns)
        /\ conns[accountAt[c].conn] = AccountKey(setup, accountAt[c].user)
    BY <1>1, <2>1, Zenon DEF LinkSound
  <2>3. OneRowPerAccount'
    BY <1>1, <2>1, Zenon DEF OneRowPerAccount
  <2> QED BY <1>1, <2>1, <2>2, <2>3, AccountLinkInv
<1>7. ASSUME NEW c \in AccountCallbacks, Create(c) PROVE AccountInv'
  <2>1. /\ accountAt[c].pc = "create" /\ accountAt[c].user \in Users
        /\ accountAt[c].account = AccountKey(setup, accountAt[c].user)
    BY <1>1, <1>7, Zenon DEF Create, LinkSound
  <2>2. CASE Rows(accountAt[c].account) # {}
    BY <1>1, <1>3, <1>7, <2>2, AccountStepInv, Zenon DEF Create
  <2>3. CASE Rows(accountAt[c].account) = {}
    <3> DEFINE a == AccountKey(setup, accountAt[c].user)
    <3>1. conns' = Append(conns, a) /\ Completed(c, Len(conns')) /\ UNCHANGED <<setup, begun>>
      BY <1>7, <2>1, <2>3, Zenon DEF Create
    <3>2. a \in AccountKeys
      BY <1>2, <2>1, Zenon
    <3>3. \A i \in 1..Len(conns) : conns[i] # a
      BY <1>1, <2>1, <2>3, Zenon DEF Rows
    <3> HIDE DEF a
    <3>4. /\ conns' \in Seq(AccountKeys) /\ Len(conns') = Len(conns) + 1 /\ conns'[Len(conns')] = a
          /\ \A i \in 1..Len(conns) : conns'[i] = conns[i]
          /\ DOMAIN conns' = 1..(Len(conns) + 1)
      BY <1>1, <3>1, <3>2
    <3>5. OneRowPerAccount'
      <4> SUFFICES ASSUME NEW i \in DOMAIN conns', NEW j \in DOMAIN conns', conns'[i] = conns'[j]
                   PROVE  i = j
        BY Zenon DEF OneRowPerAccount
      <4>1. \A x \in DOMAIN conns' : x \in 1..Len(conns) \/ x = Len(conns) + 1
        BY <1>1, <3>4
      <4>2. \A x \in 1..Len(conns) : x \in DOMAIN conns
        BY <1>1, Zenon
      <4> QED BY <1>1, <3>3, <3>4, <4>1, <4>2, Zenon DEF OneRowPerAccount
    <3>6. Len(conns') \in 1..Len(conns') /\ Len(conns) <= Len(conns')
      BY <1>1, <3>4
    <3> QED BY <2>1, <3>1, <3>4, <3>5, <3>6, AccountLinkInv, Zenon DEF a
  <2> QED BY <2>2, <2>3, Zenon
<1>8. CASE UNCHANGED accountVars
  BY <1>8, Zenon DEF accountVars, AccountInv, OneRowPerAccount
<1> QED BY <1>4, <1>5, <1>6, <1>7, <1>8, Zenon DEF AccountNext

\* Whatever users a provider has and however their callbacks race, with every
\* setup steady a user has one connection and shares it with nobody.
THEOREM UsersHaveConnections ==
    (\A s \in Setups : Steady(s)) /\ AccountSpec => []UsersKeepConnections
<1> SUFFICES ASSUME \A s \in Setups : Steady(s) PROVE AccountSpec => []UsersKeepConnections
  BY Zenon
<1>1. AccountInv => UsersKeepConnections
  <2> SUFFICES ASSUME AccountInv PROVE SameUserSameConnection /\ UsersApart
    BY Zenon DEF AccountInv, UsersKeepConnections
  <2>1. \A x \in linked : /\ x.user \in Users /\ x.conn \in DOMAIN conns
                          /\ conns[x.conn] = AccountKey(setup, x.user)
    BY DEF AccountInv, LinkedSound
  <2>2. SameUserSameConnection
    BY <2>1 DEF AccountInv, OneRowPerAccount, SameUserSameConnection
  <2>3. UsersApart
    <3> SUFFICES ASSUME NEW x \in linked, NEW y \in linked, x.conn = y.conn PROVE x.user = y.user
      BY Zenon DEF UsersApart
    <3>1. AccountKey(setup, x.user) = AccountKey(setup, y.user)
      BY <2>1, Zenon
    <3>2. Steady(setup)
      BY Zenon DEF AccountInv
    <3> QED BY <2>1, <3>1, <3>2, AccountsApart, Zenon
  <2> QED BY <2>2, <2>3, Zenon
<1> QED BY <1>1, AccountInitInv, AccountNextInv, PTL DEF AccountSpec

-----------------------------------------------------------------------------
(* The secret providers.  An instance is not replaced while it encrypts, so*)
(* what a writer stores was encrypted by a provider of the deployment the  *)
(* row names; and lastEncryption is the writer's own unless it is raced.   *)

Providers == UNION {{Deployments[n].primary, Deployments[n].fallback} : n \in DOMAIN Deployments}

EncryptLocals == [pc : {"idle", "primary", "fallback", "record", "save"},
                  inst : Instances \cup {SecretUnset}, by : Providers \cup {SecretUnset},
                  env : {encodeEnvelope(p) : p \in Providers} \cup {SecretUnset}, raced : BOOLEAN]

EncryptSound(l, dp, lst) ==
    /\ l.pc # "idle" => l.inst \in Instances
    /\ l.pc = "fallback" => Deployments[dp[l.inst]].fallback \in Encryptors(dp[l.inst])
    /\ l.pc \in {"record", "save"} => l.by \in Encryptors(dp[l.inst])
         /\ l.env = encodeEnvelope(l.by)
    /\ l.pc = "save" /\ ~l.raced => lst[l.inst] = Metadata(l.by)

StoredSound(row) ==
    /\ row.dep \in DOMAIN Deployments
    /\ \E p \in Encryptors(row.dep) : row.env = encodeEnvelope(p)
    /\ ~row.raced => row.key = row.env.key /\ row.ver = row.env.ver

ReadSound(r) ==
    /\ r.row \in LegacyRows \/ StoredSound(r.row)
    /\ r.dep \in DOMAIN Deployments
    /\ FailoverDecrypt(Deployments[r.dep], r.row.env, r.at) => r.ok

SecretInv ==
    /\ dep \in [Instances -> DOMAIN Deployments]
    /\ last = [i \in Instances |-> last[i]]
    /\ secretAt \in [Writers -> EncryptLocals]
    /\ \A w \in Writers : EncryptSound(secretAt[w], dep, last)
    /\ \A row \in secretRows : row \in LegacyRows \/ StoredSound(row)
    /\ read # SecretUnset => ReadSound(read)

\* A writer that is idle is sound.
LEMMA SecretIdleSound ==
    ASSUME NEW dp, NEW lst
    PROVE  SecretIdle \in EncryptLocals /\ EncryptSound(SecretIdle, dp, lst)
BY Zenon DEF SecretIdle, EncryptLocals, EncryptSound

\* The invariant holds with the legacy rows and the first deployment.
LEMMA SecretInitInv == SecretInit => SecretInv
<1> SUFFICES ASSUME SecretInit PROVE SecretInv
  BY Zenon
<1>1. 1 \in DOMAIN Deployments
  BY SecretProvidersAssumption
<1> QED BY <1>1, SecretIdleSound, Zenon DEF SecretInit, SecretInv

\* A writer steps; deployments, metadata and rows stay as they are.
LEMMA WriterStepInv ==
    ASSUME SecretInv, NEW w \in Writers, NEW l \in EncryptLocals, EncryptSound(l, dep, last),
           secretAt' = [secretAt EXCEPT ![w] = l], UNCHANGED <<dep, last, secretRows, read>>
    PROVE  SecretInv'
<1>1. /\ secretAt' \in [Writers -> EncryptLocals] /\ secretAt'[w] = l
      /\ \A v \in Writers : v # w => secretAt'[v] = secretAt[v]
  BY Zenon DEF SecretInv
<1>2. \A v \in Writers : EncryptSound(secretAt'[v], dep, last)
  BY <1>1, Zenon DEF SecretInv
<1> QED BY <1>1, <1>2, Zenon DEF SecretInv

\* A provider of the instance's deployment has encrypted for the writer.
LEMMA EncryptedInv ==
    ASSUME SecretInv, NEW w \in Writers, secretAt[w].pc # "idle",
           NEW p \in Encryptors(dep[secretAt[w].inst]), Encrypted(w, p),
           UNCHANGED <<dep, last, secretRows, read>>
    PROVE  SecretInv'
<1> DEFINE me == secretAt[w]
           e == encodeEnvelope(p)
           l == [me EXCEPT !.pc = "record", !.by = p, !.env = e]
<1>1. secretAt' = [secretAt EXCEPT ![w] = l]
  BY Zenon DEF Encrypted, SecretInv
<1>2. me \in EncryptLocals /\ EncryptSound(me, dep, last)
  BY Zenon DEF SecretInv
<1>3. me.inst \in Instances /\ dep[me.inst] \in DOMAIN Deployments
  BY <1>2, Zenon DEF EncryptSound, SecretInv
<1>4. p \in Providers
  BY <1>3 DEF Encryptors, Providers
<1>5. e \in {encodeEnvelope(x) : x \in Providers}
  BY <1>4, Zenon
<1> HIDE DEF e, me
<1>6. l \in EncryptLocals /\ l.pc = "record" /\ l.inst = me.inst /\ l.by = p /\ l.env = e
  BY <1>2, <1>4, <1>5, Zenon DEF EncryptLocals
<1> HIDE DEF l
<1>7. EncryptSound(l, dep, last)
  BY <1>3, <1>6, Zenon DEF EncryptSound, e, me
<1> QED BY <1>1, <1>6, <1>7, WriterStepInv, Zenon

\* Every step of writers, readers and deployments keeps the invariant.
LEMMA SecretNextInv == SecretInv /\ [SecretNext]_secretVars => SecretInv'
<1> SUFFICES ASSUME SecretInv, [SecretNext]_secretVars PROVE SecretInv'
  BY Zenon
<1>1. CASE SecretTick \/ UNCHANGED secretVars
  BY <1>1, Zenon DEF SecretTick, secretVars, SecretInv
<1>2. ASSUME NEW i \in Instances, Deploy(i) PROVE SecretInv'
  <2>1. /\ dep[i] < Len(Deployments) /\ \A w \in Writers : secretAt[w].inst # i
        /\ dep' = [dep EXCEPT ![i] = @ + 1]
        /\ last' = [last EXCEPT ![i] = Metadata(Deployments[dep[i] + 1].primary)]
        /\ UNCHANGED <<secretAt, secretRows, read>>
    BY <1>2, Zenon DEF Deploy
  <2>2. DOMAIN Deployments = 1..Len(Deployments) /\ Len(Deployments) \in Nat
    BY SecretProvidersAssumption
  <2>3. dep[i] + 1 \in DOMAIN Deployments
    BY <2>1, <2>2 DEF SecretInv
  <2>4. /\ dep' \in [Instances -> DOMAIN Deployments] /\ last' = [j \in Instances |-> last'[j]]
        /\ \A j \in Instances : j # i => dep'[j] = dep[j] /\ last'[j] = last[j]
    BY <2>1, <2>3, Zenon DEF SecretInv
  <2>5. ASSUME NEW w \in Writers PROVE EncryptSound(secretAt[w], dep', last')
    <3>1. EncryptSound(secretAt[w], dep, last) /\ secretAt[w].inst # i
      BY <2>1, Zenon DEF SecretInv
    <3> QED BY <2>4, <3>1, Zenon DEF EncryptSound
  <2> QED BY <2>1, <2>4, <2>5, Zenon DEF SecretInv
<1>3. ASSUME NEW i \in Instances, NEW row \in secretRows, Read(i, row) PROVE SecretInv'
  <2> DEFINE ok == FailoverDecrypt(Deployments[dep[i]], row.env, secretClock)
             r == [row |-> row, dep |-> dep[i], at |-> secretClock, ok |-> ok]
  <2>1. read' = r /\ UNCHANGED <<dep, last, secretAt, secretRows>>
    BY <1>3, Zenon DEF Read
  <2>2. row \in LegacyRows \/ StoredSound(row)
    BY Zenon DEF SecretInv
  <2>3. r.row = row /\ r.dep = dep[i] /\ r.at = secretClock /\ (ok => r.ok)
    <3> HIDE DEF ok
    <3> QED BY Zenon
  <2>4. dep[i] \in DOMAIN Deployments
    BY Zenon DEF SecretInv
  <2> HIDE DEF r
  <2>5. ReadSound(r)
    BY <2>2, <2>3, <2>4, Zenon DEF ReadSound
  <2> QED BY <2>1, <2>5, Zenon DEF SecretInv
<1>4. ASSUME NEW w \in Writers, NEW i \in Instances, Begin(w, i) PROVE SecretInv'
  <2> DEFINE l == [SecretIdle EXCEPT !.pc = "primary", !.inst = i]
  <2>1. secretAt' = [secretAt EXCEPT ![w] = l] /\ UNCHANGED <<dep, last, secretRows, read>>
    BY <1>4, Zenon DEF Begin
  <2>2. l \in EncryptLocals /\ l.pc = "primary" /\ l.inst = i
    BY Zenon DEF SecretIdle, EncryptLocals
  <2> HIDE DEF l
  <2>3. EncryptSound(l, dep, last)
    BY <2>2, Zenon DEF EncryptSound
  <2> QED BY <2>1, <2>2, <2>3, WriterStepInv, Zenon
<1>5. ASSUME NEW w \in Writers, Primary(w) PROVE SecretInv'
  <2> DEFINE me == secretAt[w]
             d == Deployments[dep[me.inst]]
             l == [me EXCEPT !.pc = "fallback"]
  <2>1. me.pc = "primary" /\ UNCHANGED <<dep, last, secretRows, read>>
    BY <1>5, Zenon DEF Primary
  <2>2. me \in EncryptLocals /\ EncryptSound(me, dep, last)
    BY Zenon DEF SecretInv
  <2>3. CASE Encrypted(w, d.primary)
    BY <2>1, <2>3, EncryptedInv, Zenon DEF Encryptors
  <2>4. CASE secretAt' = [secretAt EXCEPT ![w] = SecretIdle]
    BY <2>1, <2>4, SecretIdleSound, WriterStepInv, Zenon
  <2>5. CASE /\ secretAt' = [secretAt EXCEPT ![w] = [secretAt[w] EXCEPT !.pc = "fallback"]]
             /\ d.policy # "strict_fail" /\ d.fallback # SecretUnset
    <3>1. d.fallback \in Encryptors(dep[me.inst])
      BY <2>5, Zenon DEF Encryptors
    <3>2. secretAt' = [secretAt EXCEPT ![w] = l]
      BY <2>5, Zenon
    <3>3. l \in EncryptLocals /\ l.pc = "fallback" /\ l.inst = me.inst
      <4> HIDE DEF me
      <4> QED BY <2>2, Zenon DEF EncryptLocals
    <3> HIDE DEF l
    <3>4. EncryptSound(l, dep, last)
      BY <2>1, <2>2, <3>1, <3>3, Zenon DEF EncryptSound
    <3> QED BY <2>1, <3>2, <3>3, <3>4, WriterStepInv, Zenon
  <2> QED BY <1>5, <2>3, <2>4, <2>5, Zenon DEF Primary
<1>6. ASSUME NEW w \in Writers, Fallback(w) PROVE SecretInv'
  <2> DEFINE p == Deployments[dep[secretAt[w].inst]].fallback
  <2>1. /\ secretAt[w].pc = "fallback" /\ UNCHANGED <<dep, last, secretRows, read>>
        /\ Encrypted(w, p) \/ secretAt' = [secretAt EXCEPT ![w] = SecretIdle]
    BY <1>6, Zenon DEF Fallback
  <2>2. p \in Encryptors(dep[secretAt[w].inst])
    BY <2>1, Zenon DEF SecretInv, EncryptSound
  <2> HIDE DEF p
  <2> QED BY <2>1, <2>2, EncryptedInv, SecretIdleSound, WriterStepInv, Zenon
<1>7. ASSUME NEW w \in Writers, RecordMetadata(w) PROVE SecretInv'
  <2> DEFINE me == secretAt[w]
  <2>1. /\ me.pc = "record" /\ last' = [last EXCEPT ![me.inst] = Metadata(me.by)]
        /\ secretAt' = [u \in Writers |->
              IF u = w THEN [me EXCEPT !.pc = "save"]
              ELSE IF secretAt[u].pc = "save" /\ secretAt[u].inst = me.inst
              THEN [secretAt[u] EXCEPT !.raced = TRUE] ELSE secretAt[u]]
        /\ UNCHANGED <<dep, secretRows, read>>
    BY <1>7, Zenon DEF RecordMetadata, Recorded
  <2>2. EncryptSound(me, dep, last) /\ me.inst \in Instances
    BY <2>1, Zenon DEF SecretInv, EncryptSound
  <2>3. /\ last' = [j \in Instances |-> last'[j]] /\ last'[me.inst] = Metadata(me.by)
        /\ \A j \in Instances : j # me.inst => last'[j] = last[j]
    BY <2>1, <2>2, Zenon DEF SecretInv
  <2>4. ASSUME NEW u \in Writers
        PROVE  secretAt'[u] \in EncryptLocals /\ EncryptSound(secretAt'[u], dep, last')
    <3> DEFINE x == secretAt[u]
    <3>0. x \in EncryptLocals /\ EncryptSound(x, dep, last)
      BY Zenon DEF SecretInv
    <3>1. CASE u = w
      <4> DEFINE l == [x EXCEPT !.pc = "save"]
      <4>1. secretAt'[u] = l
        BY <2>1, <3>1, Zenon
      <4>2. l \in EncryptLocals /\ l.pc = "save" /\ l.inst = x.inst /\ l.by = x.by /\ l.env = x.env
        <5> HIDE DEF x
        <5> QED BY <3>0, Zenon DEF EncryptLocals
      <4> HIDE DEF l
      <4>3. EncryptSound(l, dep, last')
        BY <2>1, <2>2, <2>3, <3>0, <3>1, <4>2, Zenon DEF EncryptSound
      <4> QED BY <4>1, <4>2, <4>3, Zenon
    <3>2. CASE u # w /\ x.pc = "save" /\ x.inst = me.inst
      <4> DEFINE l == [x EXCEPT !.raced = TRUE]
      <4>1. secretAt'[u] = l
        BY <2>1, <3>2, Zenon
      <4>2. /\ l \in EncryptLocals /\ l.pc = x.pc /\ l.inst = x.inst /\ l.by = x.by /\ l.env = x.env
            /\ l.raced
        <5> HIDE DEF x
        <5> QED BY <3>0, Zenon DEF EncryptLocals
      <4> HIDE DEF l
      <4>3. EncryptSound(l, dep, last')
        BY <3>0, <3>2, <4>2, Zenon DEF EncryptSound
      <4> QED BY <4>1, <4>2, <4>3, Zenon
    <3>3. CASE u # w /\ ~(x.pc = "save" /\ x.inst = me.inst)
      <4>1. secretAt'[u] = x
        BY <2>1, <3>3, Zenon
      <4>2. EncryptSound(x, dep, last')
        BY <2>3, <3>0, <3>3, Zenon DEF EncryptSound
      <4> QED BY <3>0, <4>1, <4>2, Zenon
    <3> QED BY <3>1, <3>2, <3>3, Zenon
  <2>5. secretAt' \in [Writers -> EncryptLocals]
    <3>1. secretAt' = [u \in Writers |-> secretAt'[u]]
      BY <2>1, Zenon
    <3> QED BY <2>4, <3>1, Zenon
  <2> QED BY <2>1, <2>3, <2>4, <2>5, Zenon DEF SecretInv
<1>8. ASSUME NEW w \in Writers, SecretSave(w) PROVE SecretInv'
  <2> DEFINE me == secretAt[w]
             row == [env |-> me.env, key |-> last[me.inst][1], ver |-> last[me.inst][2],
                     dep |-> dep[me.inst], raced |-> me.raced]
  <2>1. /\ me.pc = "save" /\ secretRows' = secretRows \cup {row}
        /\ secretAt' = [secretAt EXCEPT ![w] = SecretIdle] /\ UNCHANGED <<dep, last, read>>
    BY <1>8, Zenon DEF SecretSave
  <2>2. EncryptSound(me, dep, last)
    BY Zenon DEF SecretInv
  <2>3. /\ me.inst \in Instances /\ me.by \in Encryptors(dep[me.inst])
        /\ me.env = encodeEnvelope(me.by)
        /\ ~me.raced => last[me.inst] = Metadata(me.by)
    BY <2>1, <2>2, Zenon DEF EncryptSound
  <2>4. dep[me.inst] \in DOMAIN Deployments
    BY <2>3, Zenon DEF SecretInv
  <2>5. me.env.key = me.by.key /\ me.env.ver = me.by.ver
    BY <2>3 DEF encodeEnvelope
  <2>6. ~me.raced => last[me.inst][1] = me.by.key /\ last[me.inst][2] = me.by.ver
    BY <2>3 DEF Metadata
  <2> HIDE DEF me
  <2>7. /\ row.env = me.env /\ row.key = last[me.inst][1] /\ row.ver = last[me.inst][2]
        /\ row.dep = dep[me.inst] /\ row.raced = me.raced
    BY Zenon
  <2> HIDE DEF row
  <2>8. StoredSound(row)
    BY <2>3, <2>4, <2>5, <2>6, <2>7, Zenon DEF StoredSound
  <2>9. /\ secretAt' \in [Writers -> EncryptLocals]
        /\ \A v \in Writers : EncryptSound(secretAt'[v], dep, last)
    BY <2>1, SecretIdleSound, Zenon DEF SecretInv
  <2> QED BY <2>1, <2>8, <2>9, Zenon DEF SecretInv
<1> QED BY <1>1, <1>2, <1>3, <1>4, <1>5, <1>6, <1>7, <1>8, Zenon DEF SecretNext

\* A provider that knows the key of another decrypts its envelopes, unless it
\* has a rotation window for the version and the window is closed.
LEMMA KnownKeyDecrypts ==
    ASSUME NEW p, NEW q, KnowsKey(q, p), p.key # SecretUnset, p.ver > 0, NEW when
    PROVE  \/ Decrypts(q, encodeEnvelope(p), when)
           \/ p.ver \in DOMAIN q.windows
              /\ ~(q.windows[p.ver].from <= when /\ when <= q.windows[p.ver].to)
<1> DEFINE e == encodeEnvelope(p)
<1>1. e.prefix = TRUE /\ e.alg = p.alg /\ e.key = p.key /\ e.ver = p.ver /\ e.aad = TRUE
  BY Zenon DEF encodeEnvelope
<1> HIDE DEF e
<1>2. CASE q.alg = "aes-256-gcm"
  <2>1. AppKeyDecrypt(q, e)
    BY <1>1, <1>2, Zenon DEF KnowsKey, AppKeyDecrypt
  <2> QED BY <1>2, <2>1, Zenon DEF KnowsKey, Decrypts, e
<1>3. CASE q.alg # "aes-256-gcm"
  <2>1. rotationWindowAllows(q, e.ver, when) => ManagedDecrypt(q, e, when)
    BY <1>1, <1>3, Zenon DEF KnowsKey, ManagedDecrypt
  <2>2. rotationWindowAllows(q, e.ver, when) => Decrypts(q, e, when)
    BY <1>3, <2>1, Zenon DEF KnowsKey, Decrypts
  <2> QED BY <1>1, <2>2, Zenon DEF rotationWindowAllows, Allows, e
<1> QED BY <1>2, <1>3, Zenon

\* Where deployments keep their keys, every stored credential stays readable to
\* the instances of its own and of later deployments until a rotation window
\* closes, and names the key it is encrypted with, for any number of instances,
\* writers and deployments.
THEOREM StoredReadable == KeysKept /\ SecretSpec => []StoredStaysReadable
<1> SUFFICES ASSUME KeysKept PROVE SecretSpec => []StoredStaysReadable
  BY Zenon
<1>1. SecretInv => StoredStaysReadable
  <2> SUFFICES ASSUME SecretInv PROVE StillDecrypts /\ RecordedKeyMatches
    BY Zenon DEF StoredStaysReadable
  <2>1. RecordedKeyMatches
    BY Zenon DEF SecretInv, StoredSound, RecordedKeyMatches
  <2>2. StillDecrypts
    <3> DEFINE n == read.dep
               env == read.row.env
               Ps == {Deployments[n].primary, Deployments[n].fallback}
    <3> SUFFICES ASSUME read # SecretUnset, read.dep >= read.row.dep, ~read.ok
                 PROVE  \E p \in Ps :
                           /\ p # SecretUnset /\ p.alg = env.alg /\ env.ver \in DOMAIN p.windows
                           /\ ~(p.windows[env.ver].from <= read.at
                                /\ read.at <= p.windows[env.ver].to)
      BY Zenon DEF StillDecrypts
    <3>1. ReadSound(read) /\ n \in DOMAIN Deployments
      BY Zenon DEF SecretInv, ReadSound
    <3>2. ASSUME NEW q \in Decryptors(n) PROVE ~Decrypts(q, env, read.at) /\ q \in Ps
      BY <3>1, Zenon DEF ReadSound, FailoverDecrypt, Decryptors
    <3>3. CASE read.row \in LegacyRows
      <4>1. PICK q \in Decryptors(n) :
               q # SecretUnset /\ q.alg = "aes-256-gcm" /\ AppKeyDecrypt(q, env)
        BY <3>1, <3>3, Zenon DEF KeysKept
      <4> QED BY <3>2, <4>1, Zenon DEF Decrypts
    <3>4. CASE StoredSound(read.row)
      <4>1. PICK p \in Encryptors(read.row.dep) : env = encodeEnvelope(p)
        BY <3>4, Zenon DEF StoredSound
      <4>2. PICK q \in Decryptors(n) : p.key # SecretUnset /\ p.ver > 0 /\ KnowsKey(q, p)
        BY <3>1, <3>4, <4>1, Zenon DEF KeysKept, StoredSound
      <4>3. q \in Ps /\ ~Decrypts(q, env, read.at) /\ q # SecretUnset /\ q.alg = p.alg
        BY <3>2, <4>2, Zenon DEF KnowsKey
      <4>4. env.alg = p.alg /\ env.ver = p.ver
        BY <4>1 DEF encodeEnvelope
      <4>5. /\ p.ver \in DOMAIN q.windows
            /\ ~(q.windows[p.ver].from <= read.at /\ read.at <= q.windows[p.ver].to)
        BY <4>1, <4>2, <4>3, KnownKeyDecrypts, Zenon
      <4> QED BY <4>3, <4>4, <4>5, Zenon
    <3> QED BY <3>1, <3>3, <3>4, Zenon DEF ReadSound
  <2> QED BY <2>1, <2>2, Zenon
<1> QED BY <1>1, SecretInitInv, SecretNextInv, PTL DEF SecretSpec

-----------------------------------------------------------------------------
(* Identity bindings.  The sort puts a best candidate first, and what is   *)
(* decided depends on the first two only by values that any order gives.   *)

\* A set of natural numbers that is not empty has a least element.
LEMMA LeastExists ==
    ASSUME NEW S, S \subseteq Nat, S # {}
    PROVE  \E m \in S : \A y \in S : m <= y
<1> DEFINE R == OpToRel(<, Nat)
<1>1. PICK m \in S : \A y \in S : ~(<<y, m>> \in R)
  <2> HIDE DEF R
  <2>1. IsWellFoundedOn(R, Nat)
    BY NatLessThanWellFounded, Zenon DEF R
  <2> QED BY <2>1, WFMin, Zenon
<1>2. \A y \in S : ~(y < m)
  BY <1>1, Zenon DEF OpToRel
<1> QED
  BY <1>2

\* Percentages and natural numbers are integers.
LEMMA InRange == (\A x \in 0..100 : x \in Int) /\ (\A x \in Nat : x \in Int)
  OBVIOUS

\* Of two integers, that one is not above the other says which is the lower.
LEMMA NotBelow ==
    \A a, b \in Int : /\ ~(a > b) <=> a <= b
                      /\ ~(a < b) <=> b <= a
                      /\ a <= b /\ b <= a => a = b
  OBVIOUS

\* The candidates at some places of a list, once they have passed the filter.
Ranked(raw, places) ==
    \A i \in places : raw[i].confidence \in 0..100 /\ raw[i].id \in Nat

\* The order has a first element in any set of places that is not empty.
LEMMA FirstExists ==
    ASSUME NEW raw, NEW places, Ranked(raw, places), places # {}
    PROVE  /\ First(raw, places) \in places
           /\ \A j \in places : ~Before(raw[j], raw[First(raw, places)])
<1> DEFINE lacks == {100 - raw[i].confidence : i \in places}
<1>1. \A i \in places : raw[i].confidence \in 0..100 /\ raw[i].id \in Nat
  BY Zenon DEF Ranked
<1>2. PICK x : x \in places
  BY Zenon
<1>3. lacks \subseteq Nat /\ lacks # {}
  BY <1>1, <1>2
<1>4. PICK m \in lacks : \A y \in lacks : m <= y
  <2> HIDE DEF lacks
  <2> QED BY <1>3, LeastExists, Zenon
<1>5. PICK i \in places : m = 100 - raw[i].confidence
  BY <1>4, Zenon
<1>6. ASSUME NEW j \in places PROVE raw[j].confidence <= raw[i].confidence
  <2>1. m <= 100 - raw[j].confidence
    BY <1>4, <1>6, Zenon
  <2>2. \A a, b \in Int : 100 - a <= 100 - b => b <= a
    OBVIOUS
  <2>3. raw[i].confidence \in Int /\ raw[j].confidence \in Int
    BY <1>1, <1>6, InRange, Zenon
  <2> QED
    BY <1>5, <2>1, <2>2, <2>3, Zenon
<1> DEFINE peers == {j \in places : raw[j].confidence = raw[i].confidence}
           ids == {raw[j].id : j \in peers}
<1>7. ids \subseteq Nat /\ ids # {}
  <2>1. i \in peers
    BY Zenon
  <2> QED BY <1>1, <2>1, Zenon
<1>8. PICK d \in ids : \A y \in ids : d <= y
  <2> HIDE DEF ids
  <2> QED BY <1>7, LeastExists, Zenon
<1>9. PICK k \in peers : d = raw[k].id
  BY <1>8, Zenon
<1>10. ASSUME NEW j \in places PROVE ~Before(raw[j], raw[k])
  <2>1. raw[k].confidence = raw[i].confidence /\ k \in places
    BY <1>9, Zenon
  <2>2. raw[j].confidence <= raw[k].confidence
    BY <1>6, <1>10, <2>1, Zenon
  <2>3. raw[j].confidence = raw[k].confidence => raw[k].id <= raw[j].id
    BY <1>8, <1>9, <1>10, <2>1, Zenon
  <2>4. /\ raw[j].confidence \in Int /\ raw[j].id \in Int
        /\ raw[k].confidence \in Int /\ raw[k].id \in Int
    BY <1>1, <1>10, <2>1, InRange, Zenon
  <2> QED
    BY <2>2, <2>3, <2>4, NotBelow, Zenon DEF Before
<1>11. \E f \in places : \A j \in places : ~Before(raw[j], raw[f])
  BY <1>9, <1>10, Zenon
<1> QED
  BY <1>11, Zenon DEF First

\* What comes first has the highest confidence, and of those the lowest id.
LEMMA FirstIsBest ==
    ASSUME NEW raw, NEW places, Ranked(raw, places), NEW i \in places,
           \A j \in places : ~Before(raw[j], raw[i])
    PROVE  \A j \in places : /\ raw[j].confidence <= raw[i].confidence
                             /\ raw[j].confidence = raw[i].confidence => raw[i].id <= raw[j].id
<1> SUFFICES ASSUME NEW j \in places
             PROVE  /\ raw[j].confidence <= raw[i].confidence
                    /\ raw[j].confidence = raw[i].confidence => raw[i].id <= raw[j].id
  BY Zenon
<1>1. /\ raw[i].confidence \in Int /\ raw[i].id \in Int
      /\ raw[j].confidence \in Int /\ raw[j].id \in Int
  BY InRange, Zenon DEF Ranked
<1>2. ~Before(raw[j], raw[i])
  BY Zenon
<1> QED
  BY <1>1, <1>2, NotBelow, Zenon DEF Before

\* Both facts about the place that First chooses.
LEMMA FirstBest ==
    ASSUME NEW raw, NEW places, Ranked(raw, places), places # {}
    PROVE  LET f == First(raw, places) IN
           /\ f \in places
           /\ \A j \in places : /\ raw[j].confidence <= raw[f].confidence
                                /\ raw[j].confidence = raw[f].confidence => raw[f].id <= raw[j].id
<1> DEFINE f == First(raw, places)
<1>1. f \in places /\ \A j \in places : ~Before(raw[j], raw[f])
  BY FirstExists, Zenon
<1> HIDE DEF f
<1>2. \A j \in places : /\ raw[j].confidence <= raw[f].confidence
                        /\ raw[j].confidence = raw[f].confidence => raw[f].id <= raw[j].id
  BY <1>1, FirstIsBest, Zenon
<1> QED
  BY <1>1, <1>2, Zenon DEF f

\* The candidates a request keeps can be ranked.
LEMMA KeptRanked ==
    ASSUME NEW raw \in CandidateLists
    PROVE  /\ Ranked(raw, normalizeCandidates(raw))
           /\ \A T \in SUBSET normalizeCandidates(raw) : Ranked(raw, T)
<1>1. \A i \in DOMAIN raw : raw[i] \in Candidates
  BY Zenon DEF CandidateLists
<1>2. \A i \in normalizeCandidates(raw) : raw[i].confidence \in 0..100 /\ raw[i].id \in Nat
  BY <1>1, IdentityBindingsAssumption, Zenon DEF normalizeCandidates, Usable
<1> QED
  BY <1>2, Zenon DEF Ranked

\* The candidate a binding names stands out among those of its request.
LEMMA BindingStandsOut ==
    ASSUME NEW raw \in CandidateLists, Binding(raw).id # 0
    PROVE  \E i \in DOMAIN raw :
              /\ Usable(raw[i]) /\ raw[i].id = Binding(raw).id
              /\ raw[i].confidence >= Confident \/ raw[i].confidence >= Exact
              /\ \A j \in DOMAIN raw \ {i} :
                    Usable(raw[j]) => raw[i].confidence > raw[j].confidence + Delta
<1> DEFINE kept == normalizeCandidates(raw)
           top == First(raw, kept)
           rest == kept \ {top}
           second == First(raw, rest)
           kind == resolveMatchKind(raw)
<1>1. kind \in {"exact", "confident"} /\ Binding(raw).id = raw[top].id
  BY Zenon DEF Binding
<1>2. /\ kept # {}
      /\ kept # {top} => ~(raw[top].confidence - raw[second].confidence <= Delta)
      /\ raw[top].confidence >= Confident \/ raw[top].confidence >= Exact
  BY <1>1, Zenon DEF resolveMatchKind
<1>3. Ranked(raw, kept) /\ Ranked(raw, rest)
  BY KeptRanked, Zenon
<1>4. top \in kept
  BY <1>2, <1>3, FirstBest, Zenon
<1>5. ASSUME NEW j \in DOMAIN raw \ {top}, Usable(raw[j])
      PROVE  raw[top].confidence > raw[j].confidence + Delta
  <2>1. j \in rest
    BY <1>5, Zenon DEF normalizeCandidates
  <2>2. second \in rest /\ raw[j].confidence <= raw[second].confidence
    BY <1>3, <2>1, FirstBest, Zenon
  <2>3. ~(raw[top].confidence - raw[second].confidence <= Delta)
    BY <1>2, <2>1, Zenon
  <2>4. /\ raw[top].confidence \in 0..100 /\ raw[second].confidence \in 0..100
        /\ raw[j].confidence \in 0..100 /\ Delta \in 0..100
    BY <1>3, <1>4, <2>1, <2>2, IdentityBindingsAssumption, Zenon DEF Ranked
  <2>5. \A a, b, c, d \in Int : c <= b /\ ~(a - b <= d) => a > c + d
    OBVIOUS
  <2> QED
    BY <2>2, <2>3, <2>4, <2>5, InRange, Zenon
<1>6. top \in DOMAIN raw /\ Usable(raw[top])
  BY <1>4, Zenon DEF normalizeCandidates
<1> QED
  BY <1>1, <1>2, <1>5, <1>6, Zenon

\* Two orders of the candidates put first, among places that correspond, two
\* candidates of the same rank.
LEMMA SameFirst ==
    ASSUME NEW raw, NEW other, NEW S, NEW T, S # {}, T # {}, Ranked(raw, S), Ranked(other, T),
           \A i \in S : \E j \in T : other[j] = raw[i],
           \A j \in T : \E i \in S : other[j] = raw[i]
    PROVE  /\ other[First(other, T)].confidence = raw[First(raw, S)].confidence
           /\ other[First(other, T)].id = raw[First(raw, S)].id
<1> DEFINE f == First(raw, S)
           g == First(other, T)
<1>1. f \in S /\ \A j \in S : /\ raw[j].confidence <= raw[f].confidence
                              /\ raw[j].confidence = raw[f].confidence => raw[f].id <= raw[j].id
  BY FirstBest, Zenon
<1>2. g \in T /\ \A j \in T : /\ other[j].confidence <= other[g].confidence
                              /\ other[j].confidence = other[g].confidence
                                    => other[g].id <= other[j].id
  BY FirstBest, Zenon
<1> HIDE DEF f, g
<1>3. /\ raw[f].confidence \in Int /\ raw[f].id \in Int
      /\ other[g].confidence \in Int /\ other[g].id \in Int
  BY <1>1, <1>2, InRange, Zenon DEF Ranked
<1>4. PICK j \in T : other[j] = raw[f]
  BY <1>1, Zenon
<1>5. PICK i \in S : other[g] = raw[i]
  BY <1>2, Zenon
<1>6. raw[f].confidence <= other[g].confidence /\ other[g].confidence <= raw[f].confidence
  BY <1>1, <1>2, <1>4, <1>5, Zenon
<1>7. other[g].confidence = raw[f].confidence
  BY <1>3, <1>6, NotBelow
<1>8. other[g].id <= raw[f].id /\ raw[f].id <= other[g].id
  BY <1>1, <1>2, <1>4, <1>5, <1>7, Zenon
<1>9. other[g].id = raw[f].id
  BY <1>3, <1>8, NotBelow
<1> QED
  BY <1>7, <1>9, Zenon DEF f, g

\* A place of the same rank as the first one, left among the others, makes the
\* second as confident as the first.
LEMMA TiedSecond ==
    ASSUME NEW raw, NEW S, Ranked(raw, S), S # {}, NEW t \in S \ {First(raw, S)},
           raw[t].confidence = raw[First(raw, S)].confidence
    PROVE  raw[First(raw, S \ {First(raw, S)})].confidence = raw[First(raw, S)].confidence
<1> DEFINE f == First(raw, S)
           R == S \ {f}
           g == First(raw, R)
<1>1. f \in S /\ \A j \in S : raw[j].confidence <= raw[f].confidence
  BY FirstBest, Zenon
<1>2. Ranked(raw, R) /\ t \in R
  BY Zenon DEF Ranked
<1>3. g \in R /\ raw[t].confidence <= raw[g].confidence
  BY <1>2, FirstBest, Zenon
<1>4. raw[g].confidence <= raw[f].confidence /\ raw[f].confidence <= raw[g].confidence
  BY <1>1, <1>3, Zenon
<1>5. raw[g].confidence \in Int /\ raw[f].confidence \in Int
  BY <1>1, <1>3, InRange, Zenon DEF Ranked
<1> HIDE DEF f, g
<1>6. raw[g].confidence = raw[f].confidence
  BY <1>4, <1>5, NotBelow
<1> QED
  BY <1>6, Zenon DEF f, g

\* The binding is the same in any order of the candidates.
LEMMA BindingOrder ==
    ASSUME NEW raw \in CandidateLists, NEW p \in Orders(DOMAIN raw)
    PROVE  Binding([i \in DOMAIN raw |-> raw[p[i]]]) = Binding(raw)
<1> DEFINE D == DOMAIN raw
           other == [i \in D |-> raw[p[i]]]
           S == normalizeCandidates(raw)
           T == normalizeCandidates(other)
           f == First(raw, S)
           g == First(other, T)
<1>1. /\ p \in [D -> D]
      /\ \A j \in D : \E i \in D : p[i] = j /\ \A k \in D : p[k] = j => k = i
  BY Zenon DEF Orders
<1>2. DOMAIN other = D /\ \A i \in D : other[i] = raw[p[i]]
  BY Zenon
<1> HIDE DEF D, other
<1>3. /\ \A i \in T : i \in D /\ p[i] \in S
      /\ \A j \in S : \E i \in T : p[i] = j
      /\ \A i, k \in T : p[i] = p[k] => i = k
  <2>1. /\ S = {j \in D : Usable(raw[j])}
        /\ T = {i \in D : Usable(other[i])}
    BY <1>2, Zenon DEF normalizeCandidates, D
  <2>2. \A i \in D : p[i] \in D /\ (i \in T <=> p[i] \in S)
    BY <1>1, <1>2, <2>1
  <2>3. \A i \in T : i \in D
    BY <2>1, Zenon
  <2>4. \A j \in S : j \in D
    BY <2>1, Zenon
  <2> HIDE DEF S, T
  <2>5. \A j \in S : \E i \in T : p[i] = j
    BY <1>1, <2>2, <2>4, Zenon
  <2>6. \A i, k \in T : p[i] = p[k] => i = k
    BY <1>1, <2>2, <2>3, Zenon
  <2> QED
    BY <2>2, <2>3, <2>5, <2>6, Zenon
<1>4. S = {} <=> T = {}
  BY <1>3, Zenon
<1>5. Ranked(raw, S) /\ Ranked(raw, S \ {f})
  BY KeptRanked, Zenon
<1>6. Ranked(other, T) /\ Ranked(other, T \ {g})
  <2> HIDE DEF S, T, f, g
  <2>1. \A i \in T : other[i] = raw[p[i]] /\ p[i] \in S
    BY <1>2, <1>3, Zenon
  <2>2. Ranked(other, T)
    BY <1>5, <2>1 DEF Ranked
  <2> QED
    BY <2>2, Zenon DEF Ranked
<1>7. CASE S = {}
  <2>1. resolveMatchKind(raw) = "unresolved" /\ resolveMatchKind(other) = "unresolved"
    BY <1>4, <1>7, Zenon DEF resolveMatchKind
  <2> QED
    BY <2>1, Zenon DEF Binding, other, D
<1>8. CASE S # {}
  <2>1. f \in S /\ g \in T /\ p[g] \in S
    BY <1>3, <1>4, <1>5, <1>6, <1>8, FirstBest, Zenon
  <2>2. other[g].confidence = raw[f].confidence /\ other[g].id = raw[f].id
    <3>1. \A i \in S : \E j \in T : other[j] = raw[i]
      BY <1>2, <1>3
    <3>2. \A j \in T : \E i \in S : other[j] = raw[i]
      BY <1>2, <1>3, Zenon
    <3> QED
      BY <1>4, <1>5, <1>6, <1>8, <3>1, <3>2, SameFirst
  <2>3. S = {f} <=> T = {g}
    BY <1>3, <2>1
  <2>4. ASSUME S # {f}
        PROVE  other[First(other, T \ {g})].confidence = raw[First(raw, S \ {f})].confidence
    <3>1. CASE p[g] = f
      <4>1. \A i \in S \ {f} : \E j \in T \ {g} : other[j] = raw[i]
        BY <1>2, <1>3, <3>1
      <4>2. \A j \in T \ {g} : \E i \in S \ {f} : other[j] = raw[i]
        BY <1>2, <1>3, <2>1, <3>1, Zenon
      <4>3. S \ {f} # {} /\ T \ {g} # {}
        BY <2>1, <2>3, <2>4, Zenon
      <4> QED
        BY <1>5, <1>6, <4>1, <4>2, <4>3, SameFirst
    <3>2. CASE p[g] # f
      <4>1. p[g] \in S \ {f} /\ raw[p[g]].confidence = raw[f].confidence
        BY <1>2, <1>3, <2>1, <2>2, <3>2, Zenon
      <4>2. raw[First(raw, S \ {f})].confidence = raw[f].confidence
        BY <1>5, <1>8, <4>1, TiedSecond, Zenon
      <4>3. PICK u \in T : p[u] = f
        BY <1>3, <2>1, Zenon
      <4>4. u \in T \ {g} /\ other[u].confidence = other[g].confidence
        BY <1>2, <1>3, <2>2, <3>2, <4>3
      <4>5. other[First(other, T \ {g})].confidence = other[g].confidence
        BY <1>4, <1>6, <1>8, <4>4, TiedSecond, Zenon
      <4> QED
        BY <2>2, <4>2, <4>5, Zenon
    <3> QED
      BY <3>1, <3>2, Zenon
  <2>5. resolveMatchKind(other) = resolveMatchKind(raw)
    BY <1>4, <1>8, <2>2, <2>3, <2>4, Zenon DEF resolveMatchKind
  <2>6. Binding(other) = Binding(raw)
    BY <2>2, <2>5, Zenon DEF Binding
  <2> QED
    BY <2>6, Zenon DEF other, D
<1> QED
  BY <1>7, <1>8, Zenon

\* A call about to save has found no binding, and holds the candidates of its
\* request.
BindingSound(l, c, seen) ==
    /\ DOMAIN l = DOMAIN BindingIdle
    /\ l.pc = "save" => c \in seen /\ l.candidates \in CandidateLists

BindingInv ==
    /\ bindingAt = [c \in Calls |-> bindingAt[c]]
    /\ \A c \in Calls : BindingSound(bindingAt[c], c, blind)

\* The invariant holds before the first call.
LEMMA BindingInitInv == BindingInit => BindingInv
<1>1. BindingIdle.pc # "save"
  BY Zenon DEF BindingIdle
<1>2. \A c, seen : BindingSound(BindingIdle, c, seen)
  BY <1>1, Zenon DEF BindingSound
<1> QED
  BY <1>2, Zenon DEF BindingInit, BindingInv

\* One call moves, and the other calls stay among those that found no binding.
LEMMA OneCallBinds ==
    ASSUME BindingInv, NEW c \in Calls, NEW l, bindingAt' = [bindingAt EXCEPT ![c] = l],
           BindingSound(l, c, blind'), blind \ {c} \subseteq blind'
    PROVE  BindingInv'
<1>1. bindingAt' = [d \in Calls |-> IF d = c THEN l ELSE bindingAt[d]]
  BY DEF BindingInv
<1>2. bindingAt' = [d \in Calls |-> bindingAt'[d]]
  BY <1>1, Zenon
<1>3. ASSUME NEW d \in Calls PROVE BindingSound(bindingAt'[d], d, blind')
  <2>1. CASE d = c
    BY <1>1, <2>1, Zenon
  <2>2. CASE d # c
    BY <1>1, <2>2, Zenon DEF BindingInv, BindingSound
  <2> QED
    BY <2>1, <2>2, Zenon
<1> QED
  BY <1>2, <1>3, Zenon DEF BindingInv

\* Every step keeps the invariant, and only a call that found no binding writes.
LEMMA BindingNextInv ==
    ASSUME BindingInv, BindingNext
    PROVE  /\ BindingInv'
           /\ bindingRow' # bindingRow => \E c \in blind : bindingAt[c].pc = "save"
<1>1. PICK c \in Calls : \/ \E raw \in CandidateLists : BindingLook(c, raw)
                         \/ Upsert(c) \/ Again(c)
  BY Zenon DEF BindingNext
<1>2. BindingSound(bindingAt[c], c, blind)
  BY Zenon DEF BindingInv
<1>3. ASSUME NEW raw \in CandidateLists, BindingLook(c, raw)
      PROVE  BindingInv' /\ bindingRow' = bindingRow
  <2> DEFINE done == [BindingIdle EXCEPT !.pc = "done", !.got = bindingRow]
             save == [pc |-> "save", candidates |-> raw, got |-> BindingUnset]
  <2>1. /\ \/ bindingAt' = [bindingAt EXCEPT ![c] = done] /\ blind' = blind
           \/ bindingAt' = [bindingAt EXCEPT ![c] = save] /\ blind' = blind \cup {c}
        /\ bindingRow' = bindingRow
    BY <1>3, Zenon DEF BindingLook
  <2>2. BindingSound(done, c, blind) /\ BindingSound(save, c, blind \cup {c})
    BY Zenon DEF BindingSound, BindingIdle
  <2> HIDE DEF done, save
  <2> QED
    BY <2>1, <2>2, OneCallBinds, Zenon
<1>4. ASSUME Upsert(c)
      PROVE  BindingInv' /\ (bindingRow' # bindingRow => c \in blind /\ bindingAt[c].pc = "save")
  <2> DEFINE done == [bindingAt[c] EXCEPT !.pc = "done", !.got = bindingRow']
  <2>1. bindingAt[c].pc = "save" /\ blind' = blind \ {c}
    BY <1>4, Zenon DEF Upsert
  <2>2. \/ bindingAt' = [bindingAt EXCEPT ![c] = done]
        \/ bindingAt' = [bindingAt EXCEPT ![c] = BindingIdle]
    BY <1>4 DEF Upsert, BindingInv
  <2>3. ASSUME NEW l, DOMAIN l = DOMAIN BindingIdle, l.pc # "save"
        PROVE  BindingSound(l, c, blind')
    BY <2>3, Zenon DEF BindingSound
  <2>4. bindingAt' = [bindingAt EXCEPT ![c] = done] => BindingInv'
    <3>1. DOMAIN done = DOMAIN BindingIdle /\ done.pc # "save"
      BY <1>2 DEF BindingSound, BindingIdle
    <3> HIDE DEF done
    <3> QED
      BY <2>1, <2>3, <3>1, OneCallBinds, Zenon
  <2>5. bindingAt' = [bindingAt EXCEPT ![c] = BindingIdle] => BindingInv'
    <3>1. BindingIdle.pc # "save"
      BY Zenon DEF BindingIdle
    <3> QED
      BY <2>1, <2>3, <3>1, OneCallBinds, Zenon
  <2> HIDE DEF done
  <2> QED
    BY <1>2, <2>1, <2>2, <2>4, <2>5, Zenon DEF BindingSound
<1>5. ASSUME Again(c) PROVE BindingInv' /\ bindingRow' = bindingRow
  <2>1. BindingSound(BindingIdle, c, blind)
    BY Zenon DEF BindingSound, BindingIdle
  <2> QED
    BY <1>5, <2>1, OneCallBinds, Zenon DEF Again
<1> QED
  BY <1>1, <1>3, <1>4, <1>5, Zenon

\* The invariant gives the two facts about the candidates a call holds.
LEMMA BindingInvSafe == BindingInv => BoundStandsOut /\ OrderIrrelevant
<1> SUFFICES ASSUME BindingInv PROVE BoundStandsOut /\ OrderIrrelevant
  BY Zenon
<1>1. \A c \in Calls : bindingAt[c].pc = "save" => bindingAt[c].candidates \in CandidateLists
  BY Zenon DEF BindingInv, BindingSound
<1>2. BoundStandsOut
  BY <1>1, BindingStandsOut, Zenon DEF BoundStandsOut
<1>3. OrderIrrelevant
  BY <1>1, BindingOrder, Zenon DEF OrderIrrelevant
<1> QED
  BY <1>2, <1>3, Zenon

\* However ReconcileIdentity calls interleave, a record is bound only to a
\* candidate that stands out, whatever their order, and a stored binding is
\* changed only by a call that had looked before there was one.
THEOREM BindingsStand == BindingSpec => BoundForGood
<1>1. BindingInv /\ [BindingNext]_bindingVars => BindingInv'
  <2>1. BindingInv /\ UNCHANGED bindingVars => BindingInv'
    BY Zenon DEF BindingInv, bindingVars
  <2> QED
    BY <2>1, BindingNextInv, Zenon
<1>2. BindingInv' => BoundStandsOut' /\ OrderIrrelevant'
  BY BindingInvSafe, PTL
<1>3. BindingInv /\ BindingInv' /\ [BindingNext]_bindingVars =>
        [/\ bindingRow # BindingUnset /\ bindingRow' # bindingRow
               => \E c \in blind : bindingAt[c].pc = "save"
         /\ BoundStandsOut' /\ OrderIrrelevant']_bindingVars
  BY <1>2, BindingNextInv, Zenon
<1> QED
  BY BindingInitInv, <1>1, <1>3, PTL DEF BindingSpec, BoundForGood

=============================================================================
