------------------------ MODULE WebhookDeliveryProofs ------------------------
(***************************************************************************)
(* Proofs about WebhookDelivery for every number of workers, deliveries,   *)
(* hosts and keys, every lease, window and limit, and an unbounded clock   *)
(* (MaxTime is any natural number).                                        *)
(***************************************************************************)
EXTENDS WebhookDelivery, FiniteSetTheorems, TLAPS

\* A retry delay is a time whatever the attempt: the doubling is capped.
LEMMA NextDelayType == \A a : NextDelay(a) \in Nat
  BY ConstantsAssumption DEF NextDelay

\* Cleanup only ever drops entries.
LEMMA CleanupDrops ==
  ASSUME NEW entries \in [Keys -> Times], NEW e \in Cleanup(entries)
  PROVE  /\ e \in [Keys -> Times]
         /\ \A k \in Keys : e[k] # Null => e[k] = entries[k]
<1> DEFINE present == {k \in Keys : entries[k] # Null}
           older(age) == {k \in present : now - entries[k] > age}
           drop(S) == [k \in Keys |-> IF k \in S THEN Null ELSE entries[k]]
<1>1. \E S : e = drop(S)
  BY Zenon DEF Cleanup
<1> QED
  BY <1>1, Zenon DEF Times

\* The writes of the ledger's statements are rows.
LEMMA GrantedRowType ==
  ASSUME NEW r \in Row, NEW t \in Nat PROVE GrantedRow(r, t) \in Row
  BY ConstantsAssumption DEF GrantedRow, Row, Statuses, Times

\* Complete leaves a row.
LEMMA CompletedRowType == ASSUME NEW r \in Row PROVE CompletedRow(r) \in Row
  BY Zenon DEF CompletedRow, Row, Statuses, Times

\* Fail leaves a row, whichever attempt failed.
LEMMA FailedRowType ==
  ASSUME NEW r \in Row, NEW c \in Nat, NEW t \in Nat PROVE FailedRow(r, c, t) \in Row
  BY Zenon DEF FailedRow, Row, Statuses, Times

-----------------------------------------------------------------------------
\* A worker in Process has a delivery, and read the clock in the past.
WorkerOK ==
    \A w \in Workers : wk[w].pc # "idle" => wk[w].d \in Deliveries /\ wk[w].at <= now

Typed == TypeOK /\ WorkerOK

\* A worker's locals stay locals when it moves on and changes one of them.
LEMMA LocalsUpdate ==
  ASSUME NEW l \in Locals, NEW pc \in PCs, NEW n \in Nat
  PROVE  /\ [l EXCEPT !.pc = pc, !.granted = n] \in Locals
         /\ [l EXCEPT !.pc = pc, !.claim = n] \in Locals
         /\ [l EXCEPT !.pc = pc, !.retryAt = n] \in Locals
         /\ [l EXCEPT !.pc = pc] \in Locals
  BY Zenon DEF Locals

\* One worker's step keeps the workers as they should be.
LEMMA WorkerUpdate ==
  ASSUME Typed, NEW w \in Workers, NEW l \in Locals,
         wk' = [wk EXCEPT ![w] = l], now' = now,
         l.d \in Deliveries, l.at <= now
  PROVE  wk' \in [Workers -> Locals] /\ WorkerOK'
<1>1. wk' \in [Workers -> Locals]
  BY Zenon DEF Typed, TypeOK
<1>2. wk'[w] = l /\ \A v \in Workers : v # w => wk'[v] = wk[v]
  BY Zenon DEF Typed, TypeOK
<1> QED
  BY <1>1, <1>2, Zenon DEF Typed, WorkerOK

\* Typed holds at first, and every step preserves it.
LEMMA TypedInductive ==
  /\ WebhookInit => Typed
  /\ Typed /\ [WebhookNext]_vars => Typed'
<1> USE DEF Typed
<1>1. WebhookInit => Typed
  BY ConstantsAssumption
     DEF WebhookInit, TypeOK, WorkerOK, Row, NoRow, Statuses, Times, Null, Locals,
         PCs, Idle, History
<1>2. Typed /\ [WebhookNext]_vars => Typed'
  <2> SUFFICES ASSUME Typed, [WebhookNext]_vars PROVE Typed'
    BY Zenon
  <2> USE DEF TypeOK, WorkerOK
  <2>1. ASSUME NEW w \in Workers, NEW d \in Deliveries, Receive(w, d) PROVE Typed'
    <3>1. [Idle EXCEPT !.pc = "insert", !.d = d, !.at = now] \in Locals
      BY Zenon DEF Locals, Idle, PCs
    <3> QED
      BY <2>1, <3>1 DEF Receive, Idle
  <2>2. ASSUME NEW w \in Workers, ClaimInsert(w) PROVE Typed'
    <3>1. wk' \in [Workers -> Locals] /\ WorkerOK'
      BY <2>2 DEF ClaimInsert, Goto, Locals, PCs
    <3>2. row' \in [Deliveries -> Row]
      <4>1. \A r \in Row : [r EXCEPT !.status = "pending"] \in Row
        BY Zenon DEF Row, Statuses
      <4>2. CASE row' = row
        BY <4>2, Zenon
      <4>3. CASE row' = [row EXCEPT ![wk[w].d].status = "pending"]
        BY <4>1, <4>3, Zenon
      <4> QED
        BY <2>2, <4>2, <4>3, Zenon DEF ClaimInsert
    <3> QED
      BY <2>2, <3>1, <3>2, Zenon DEF ClaimInsert
  <2>3. ASSUME NEW w \in Workers, ClaimUpdate(w) PROVE Typed'
    <3>1. wk[w].d \in Deliveries /\ row[wk[w].d] \in Row /\ wk[w].at \in Nat
      BY <2>3, Zenon DEF ClaimUpdate, Locals
    <3>2. row' \in [Deliveries -> Row]
      BY <2>3, <3>1, GrantedRowType DEF ClaimUpdate
    <3>3. wk' \in [Workers -> Locals] /\ WorkerOK'
      <4>1. CASE Leave(w)
        BY <2>3, <4>1, Zenon DEF ClaimUpdate, Leave, Locals, Idle, PCs
      <4>2. CASE wk' = [wk EXCEPT ![w] =
                  [@ EXCEPT !.pc = "get", !.granted = row[wk[w].d].attempts + 1]]
        <5>1. row[wk[w].d].attempts + 1 \in Nat
          BY <3>1 DEF Row
        <5>2. wk[w] \in Locals /\ wk[w].at <= now /\ now' = now /\ "get" \in PCs
          BY <2>3, Zenon DEF ClaimUpdate, PCs
        <5> DEFINE l == [wk[w] EXCEPT !.pc = "get", !.granted = row[wk[w].d].attempts + 1]
        <5>3. l \in Locals
          BY <5>1, <5>2, LocalsUpdate, Zenon
        <5>4. l.d = wk[w].d /\ l.at = wk[w].at
          BY <5>2, Zenon DEF Locals
        <5>5. wk' = [wk EXCEPT ![w] = l]
          BY <4>2, Zenon
        <5> HIDE DEF l
        <5> QED
          BY <3>1, <5>2, <5>3, <5>4, <5>5, WorkerUpdate, Zenon
      <4> QED
        BY <2>3, <4>1, <4>2, Zenon DEF ClaimUpdate
    <3> QED
      BY <2>3, <3>2, <3>3, Zenon DEF ClaimUpdate
  <2>4. ASSUME NEW w \in Workers, ClaimGet(w) PROVE Typed'
    <3>1. wk[w].d \in Deliveries /\ row[wk[w].d].attempts \in Nat
      BY <2>4, Zenon DEF ClaimGet, Locals, Row
    <3>2. wk[w] \in Locals /\ wk[w].at <= now /\ now' = now /\ "burst" \in PCs
      BY <2>4, Zenon DEF ClaimGet, PCs
    <3>3. wk' \in [Workers -> Locals] /\ WorkerOK'
      <4> DEFINE l == [wk[w] EXCEPT !.pc = "burst", !.claim = row[wk[w].d].attempts]
      <4>1. l \in Locals
        BY <3>1, <3>2, LocalsUpdate, Zenon
      <4>2. l.d = wk[w].d /\ l.at = wk[w].at
        BY <3>2, Zenon DEF Locals
      <4>3. wk' = [wk EXCEPT ![w] = l]
        BY <2>4, Zenon DEF ClaimGet
      <4> HIDE DEF l
      <4> QED
        BY <3>1, <3>2, <4>1, <4>2, <4>3, WorkerUpdate, Zenon
    <3> QED
      BY <2>4, <3>1, <3>3, Zenon DEF ClaimGet
  <2>5. ASSUME NEW w \in Workers, BurstAllow(w) PROVE Typed'
    <3>1. wk' \in [Workers -> Locals] /\ WorkerOK'
      <4>1. PICK pc \in PCs : wk' = [wk EXCEPT ![w].pc = pc]
        BY <2>5, Zenon DEF BurstAllow, Goto, PCs
      <4>2. /\ wk[w] \in Locals /\ wk[w].d \in Deliveries /\ wk[w].at <= now
            /\ now' = now
        BY <2>5, Zenon DEF BurstAllow
      <4> DEFINE l == [wk[w] EXCEPT !.pc = pc]
      <4>3. l \in Locals /\ l.d = wk[w].d /\ l.at = wk[w].at
        BY <4>2, LocalsUpdate, Zenon DEF Locals
      <4>4. wk' = [wk EXCEPT ![w] = l]
        BY <4>1, Zenon
      <4> HIDE DEF l
      <4> QED
        BY <4>2, <4>3, <4>4, WorkerUpdate, Zenon
    <3>2. burst' \in [Hosts -> [Keys -> Times]]
      <4> DEFINE h == HostOf[w]
                 k == BurstKey[wk[w].d]
      <4>1. CASE burst' = burst
        BY <4>1, Zenon
      <4>2. CASE \E e \in Cleanup([burst[h] EXCEPT ![k] = now]) : burst' = [burst EXCEPT ![h] = e]
        <5>1. PICK e \in Cleanup([burst[h] EXCEPT ![k] = now]) : burst' = [burst EXCEPT ![h] = e]
          BY <4>2, Zenon
        <5>2. [burst[h] EXCEPT ![k] = now] \in [Keys -> Times]
          BY ConstantsAssumption, Zenon DEF Times
        <5>3. e \in [Keys -> Times]
          BY <5>2, CleanupDrops, Zenon
        <5> QED
          BY <5>1, <5>3, Zenon
      <4> QED
        BY <2>5, <4>1, <4>2, Zenon DEF BurstAllow
    <3>3. hist' \in [Deliveries -> SUBSET History]
      BY <2>5 DEF BurstAllow, History
    <3> QED
      BY <2>5, <3>1, <3>2, <3>3, Zenon DEF BurstAllow
  <2>6. ASSUME NEW w \in Workers, Handle(w) PROVE Typed'
    <3>1. now + NextDelay(wk[w].claim) \in Nat
      BY NextDelayType
    <3>2. wk' \in [Workers -> Locals] /\ WorkerOK'
      <4>1. CASE Goto(w, "complete")
        BY <2>6, <4>1 DEF Handle, Goto, Locals, PCs
      <4>2. CASE wk' = [wk EXCEPT ![w] =
                  [@ EXCEPT !.pc = "failGet", !.retryAt = now + NextDelay(wk[w].claim)]]
        <5>1. /\ wk[w] \in Locals /\ wk[w].d \in Deliveries /\ wk[w].at <= now
              /\ now' = now /\ "failGet" \in PCs
          BY <2>6, Zenon DEF Handle, PCs
        <5> DEFINE l == [wk[w] EXCEPT !.pc = "failGet", !.retryAt = now + NextDelay(wk[w].claim)]
        <5>2. l \in Locals
          BY <3>1, <5>1, LocalsUpdate, Zenon
        <5>3. l.d = wk[w].d /\ l.at = wk[w].at
          BY <5>1, Zenon DEF Locals
        <5>4. wk' = [wk EXCEPT ![w] = l]
          BY <4>2, Zenon
        <5> HIDE DEF l
        <5> QED
          BY <5>1, <5>2, <5>3, <5>4, WorkerUpdate, Zenon
      <4> QED
        BY <2>6, <4>1, <4>2, Zenon DEF Handle
    <3>3. hist' \in [Deliveries -> SUBSET History]
      BY <2>6 DEF Handle, History
    <3> QED
      BY <2>6, <3>2, <3>3, Zenon DEF Handle
  <2>7. ASSUME NEW w \in Workers, Complete(w) PROVE Typed'
    BY <2>7, CompletedRowType, Zenon DEF Complete, Leave, Locals, Idle, PCs
  <2>8. ASSUME NEW w \in Workers, FailGet(w) PROVE Typed'
    <3>1. CASE Goto(w, "failUpdate")
      BY <2>8, <3>1 DEF FailGet, Goto, Locals, PCs
    <3>2. CASE Leave(w)
      BY <2>8, <3>2, Zenon DEF FailGet, Leave, Locals, Idle, PCs
    <3> QED
      BY <2>8, <3>1, <3>2, Zenon DEF FailGet
  <2>9. ASSUME NEW w \in Workers, FailUpdate(w) PROVE Typed'
    BY <2>9, FailedRowType, Zenon DEF FailUpdate, Leave, Locals, Idle, PCs
  <2>10. ASSUME NEW w \in Workers, StatementError(w) PROVE Typed'
    BY <2>10, Zenon DEF StatementError, Leave, Locals, Idle, PCs
  <2>11. ASSUME NEW h \in Hosts, Crash(h) PROVE Typed'
    BY <2>11, Zenon DEF Crash, Locals, Idle, PCs, Times
  <2>12. CASE Tick
    BY <2>12 DEF Tick, Locals
  <2>13. CASE UNCHANGED vars
    BY <2>13, Zenon DEF vars
  <2> QED
    BY <2>1, <2>2, <2>3, <2>4, <2>5, <2>6, <2>7, <2>8, <2>9, <2>10, <2>11, <2>12, <2>13, Zenon
    DEF WebhookNext, Step
<1> QED
  BY <1>1, <1>2, Zenon

\* The variables keep their types through every statement, error and crash.
THEOREM TypeCorrect == WebhookSpec => []TypeOK
<1>1. Typed => TypeOK
  BY Zenon DEF Typed
<1> QED
  BY TypedInductive, <1>1, PTL DEF WebhookSpec

-----------------------------------------------------------------------------
\* Why the lease excludes.  A grant is the number the claiming UPDATE wrote, so
\* grants on one delivery are distinct and none is above the row's attempts;
\* until claims cross, a worker's claim ID carries its own grant, the latest
\* grant is the one the row still leases, and every earlier one has lapsed.
GrantOrder ==
    /\ \A w \in Workers : Engaged(w) => wk[w].granted \in 1..row[wk[w].d].attempts
    /\ \A v, w \in Workers :
          v # w /\ Engaged(v) /\ Engaged(w) /\ wk[v].d = wk[w].d
          => wk[v].granted # wk[w].granted

GrantLeased ==
    \A w \in Workers :
        Engaged(w) /\ wk[w].d \notin crossed =>
            /\ Holding(w) => wk[w].claim = wk[w].granted
            /\ wk[w].granted = row[wk[w].d].attempts =>
                  row[wk[w].d].status = "processing" /\ row[wk[w].d].next = wk[w].at + Lease
            /\ wk[w].granted < row[wk[w].d].attempts => LeaseOver(w)

LeaseInv == Typed /\ GrantOrder /\ GrantLeased

\* A crash or the clock leaves the ledger alone, and a worker as it was or idle.
LEMMA EnvironmentSteps ==
  ASSUME Typed, (\E h \in Hosts : Crash(h)) \/ Tick \/ UNCHANGED vars
  PROVE  /\ row' = row /\ hist' = hist /\ crossed' = crossed
         /\ now' \in Nat /\ now' >= now
         /\ \A v \in Workers : wk'[v].pc = "idle" \/ wk'[v] = wk[v]
<1>1. now \in Nat
  BY Zenon DEF Typed, TypeOK
<1>2. CASE \E h \in Hosts : Crash(h)
  <2>1. PICK h \in Hosts : Crash(h)
    BY <1>2, Zenon
  <2>2. row' = row /\ hist' = hist /\ crossed' = crossed /\ now' = now
    BY <2>1, Zenon DEF Crash
  <2>3. ASSUME NEW v \in Workers PROVE wk'[v].pc = "idle" \/ wk'[v] = wk[v]
    <3>1. wk'[v] = Idle \/ wk'[v] = wk[v]
      BY <2>1, Zenon DEF Crash
    <3> QED
      BY <3>1 DEF Idle
  <2> QED
    BY <1>1, <2>2, <2>3
<1>3. CASE Tick
  BY <1>1, <1>3 DEF Tick
<1>4. CASE UNCHANGED vars
  BY <1>1, <1>4 DEF vars
<1> QED
  BY <1>2, <1>3, <1>4, Zenon

\* What most steps do to grants and rows: they end or keep each engagement, and
\* write no row but one that was not there.
Quiet ==
    /\ now' \in Nat /\ now' >= now
    /\ crossed' = crossed
    /\ \A d \in Deliveries :
          \/ row'[d] = row[d]
          \/ row[d].status = "none" /\ row'[d].attempts = row[d].attempts
    /\ \A w \in Workers : Engaged(w)' =>
          /\ Engaged(w)
          /\ wk'[w].d = wk[w].d /\ wk'[w].at = wk[w].at /\ wk'[w].granted = wk[w].granted
          /\ Holding(w)' => Holding(w) /\ wk'[w].claim = wk[w].claim

\* A step that grants and settles nothing keeps the lease invariant.
LEMMA QuietPreserves ==
  ASSUME LeaseInv, Typed', Quiet
  PROVE  LeaseInv'
<1>1. \A w \in Workers : Engaged(w) => wk[w].d \in Deliveries /\ wk[w].at \in Nat
        /\ wk[w].granted \in Nat
  BY Zenon DEF LeaseInv, Typed, TypeOK, WorkerOK, Engaged, Locals
<1>2. GrantOrder'
  BY <1>1 DEF LeaseInv, GrantOrder, Quiet
<1>3. GrantLeased'
  <2> SUFFICES ASSUME NEW w \in Workers, Engaged(w)', wk'[w].d \notin crossed'
               PROVE  /\ Holding(w)' => wk'[w].claim = wk'[w].granted
                      /\ wk'[w].granted = row'[wk'[w].d].attempts =>
                            /\ row'[wk'[w].d].status = "processing"
                            /\ row'[wk'[w].d].next = wk'[w].at + Lease
                      /\ wk'[w].granted < row'[wk'[w].d].attempts => LeaseOver(w)'
    BY Zenon DEF GrantLeased
  <2>1. /\ Engaged(w) /\ wk[w].d \notin crossed /\ wk[w].d \in Deliveries
        /\ wk'[w].d = wk[w].d /\ wk'[w].at = wk[w].at /\ wk'[w].granted = wk[w].granted
        /\ row'[wk[w].d].attempts = row[wk[w].d].attempts
        /\ row[wk[w].d].status = "none" \/ row'[wk[w].d] = row[wk[w].d]
    BY <1>1, Zenon DEF Quiet
  <2>2. now \in Nat /\ now' \in Nat /\ now' >= now /\ Lease \in Nat /\ wk[w].at \in Nat
    BY <1>1, <2>1, ConstantsAssumption, Zenon DEF Quiet, LeaseInv, Typed, TypeOK
  <2>3. LeaseOver(w) => LeaseOver(w)'
    BY <2>1, <2>2 DEF LeaseOver
  <2>4. Holding(w)' => Holding(w) /\ wk'[w].claim = wk[w].claim
    BY Zenon DEF Quiet
  <2>5. /\ Holding(w) => wk[w].claim = wk[w].granted
        /\ wk[w].granted = row[wk[w].d].attempts =>
              row[wk[w].d].status = "processing" /\ row[wk[w].d].next = wk[w].at + Lease
        /\ wk[w].granted < row[wk[w].d].attempts => LeaseOver(w)
    BY <2>1, Zenon DEF LeaseInv, GrantLeased
  <2> QED
    BY <2>1, <2>3, <2>4, <2>5, Zenon
<1> QED
  BY <1>2, <1>3, Zenon DEF LeaseInv

\* Every step but a grant, a Get and a settling UPDATE is quiet.
LEMMA QuietSteps ==
  ASSUME Typed, NEW w \in Workers,
         \/ \E d \in Deliveries : Receive(w, d)
         \/ ClaimInsert(w) \/ BurstAllow(w) \/ Handle(w) \/ FailGet(w)
         \/ StatementError(w)
         \/ ClaimUpdate(w) /\ UNCHANGED row /\ Leave(w)
  PROVE  Quiet
<1> USE DEF Typed, TypeOK, WorkerOK, Engaged, Holding, Quiet
<1>1. ASSUME NEW d \in Deliveries, Receive(w, d) PROVE Quiet
  <2>1. /\ now' = now /\ crossed' = crossed /\ row' = row
        /\ \E l : l.pc = "insert" /\ wk' = [wk EXCEPT ![w] = l]
    BY <1>1, Zenon DEF Receive, Idle
  <2> QED
    BY <2>1
<1>2. CASE ClaimInsert(w)
  <2>1. /\ now' = now /\ crossed' = crossed /\ wk[w].d \in Deliveries
        /\ wk' = [wk EXCEPT ![w].pc = "claim"]
    BY <1>2, Zenon DEF ClaimInsert, Goto
  <2>2. \A d \in Deliveries :
          \/ row'[d] = row[d]
          \/ row[d].status = "none" /\ row'[d].attempts = row[d].attempts
    BY <1>2, <2>1, Zenon DEF ClaimInsert, Row
  <2> QED
    BY <2>1, <2>2
<1>3. CASE BurstAllow(w)
  <2>1. /\ now' = now /\ crossed' = crossed /\ row' = row /\ wk[w].pc = "burst"
        /\ \E pc : wk' = [wk EXCEPT ![w].pc = pc]
    BY <1>3, Zenon DEF BurstAllow, Goto
  <2> QED
    BY <2>1 DEF Locals
<1>4. CASE Handle(w)
  <2>1. now' = now /\ crossed' = crossed /\ row' = row /\ wk[w].pc = "handle"
    BY <1>4, Zenon DEF Handle
  <2>2. CASE Goto(w, "complete")
    BY <2>1, <2>2 DEF Goto, Locals
  <2>3. CASE \E t : wk' = [wk EXCEPT ![w] = [@ EXCEPT !.pc = "failGet", !.retryAt = t]]
    <3>1. \A v \in Workers : v # w => wk'[v] = wk[v]
      BY <2>3, Zenon
    <3>2. /\ wk'[w].d = wk[w].d /\ wk'[w].at = wk[w].at
          /\ wk'[w].granted = wk[w].granted /\ wk'[w].claim = wk[w].claim
      BY <2>3, Zenon DEF Locals
    <3> QED
      BY <2>1, <3>1, <3>2
  <2> QED
    BY <1>4, <2>2, <2>3, Zenon DEF Handle
<1>5. CASE FailGet(w)
  <2>1. now' = now /\ crossed' = crossed /\ row' = row /\ wk[w].pc = "failGet"
    BY <1>5, Zenon DEF FailGet
  <2>2. CASE Goto(w, "failUpdate")
    BY <2>1, <2>2 DEF Goto, Locals
  <2>3. CASE Leave(w)
    BY <2>1, <2>3 DEF Leave, Idle
  <2> QED
    BY <1>5, <2>2, <2>3, Zenon DEF FailGet
<1>6. CASE StatementError(w)
  <2>1. now' = now /\ crossed' = crossed /\ row' = row /\ Leave(w)
    BY <1>6, Zenon DEF StatementError
  <2> QED
    BY <2>1 DEF Leave, Idle
<1>7. CASE ClaimUpdate(w) /\ UNCHANGED row /\ Leave(w)
  BY <1>7 DEF ClaimUpdate, Leave, Idle
<1> QED
  BY <1>1, <1>2, <1>3, <1>4, <1>5, <1>6, <1>7, Zenon

\* A settling UPDATE ends w's engagement and writes only the row whose attempts
\* equal the claim of w, which it leaves as they are.
Settling(w) ==
    /\ Holding(w) /\ now' = now /\ crossed' = crossed
    /\ wk' = [wk EXCEPT ![w] = Idle]
    /\ \A d \in Deliveries :
          /\ row'[d].attempts = row[d].attempts
          /\ \/ row'[d] = row[d]
             \/ /\ d = wk[w].d /\ HoldsClaim(row[d], wk[w].claim)
                /\ row'[d].status \in {"processed", "retry_ready", "dead"}

\* Complete and the update of Fail settle the row of the worker's delivery.
LEMMA SettlingSteps ==
  ASSUME Typed, NEW w \in Workers, Complete(w) \/ FailUpdate(w)
  PROVE  Settling(w)
<1> USE DEF Typed, TypeOK, WorkerOK
<1>1. wk[w].d \in Deliveries /\ row[wk[w].d] \in Row
  BY Zenon DEF Complete, FailUpdate, Locals
<1>2. CASE Complete(w)
  BY <1>1, <1>2, Zenon DEF Settling, Complete, Leave, CompletedRow, Holding, Engaged, Row
<1>3. CASE FailUpdate(w)
  BY <1>1, <1>3, Zenon DEF Settling, FailUpdate, Leave, FailedRow, Holding, Engaged, Row
<1> QED
  BY <1>2, <1>3, Zenon

\* A step that settles a row keeps the lease invariant.
LEMMA SettlingPreserves ==
  ASSUME LeaseInv, Typed', NEW w \in Workers, Settling(w)
  PROVE  LeaseInv'
<1>1. \A v \in Workers : Engaged(v) => wk[v].d \in Deliveries
  BY Zenon DEF LeaseInv, Typed, TypeOK, WorkerOK, Engaged, Locals
<1>2. \A v \in Workers : Engaged(v)' => v # w /\ Engaged(v) /\ wk'[v] = wk[v]
  BY Zenon DEF Settling, Engaged, Idle, LeaseInv, Typed, TypeOK
<1>3. GrantOrder'
  <2>1. \A d \in Deliveries : row'[d].attempts = row[d].attempts
    BY Zenon DEF Settling
  <2> QED
    BY <1>1, <1>2, <2>1, Zenon DEF LeaseInv, GrantOrder
<1>4. GrantLeased'
  <2> SUFFICES ASSUME NEW v \in Workers, Engaged(v)', wk'[v].d \notin crossed'
               PROVE  /\ Holding(v)' => wk'[v].claim = wk'[v].granted
                      /\ wk'[v].granted = row'[wk'[v].d].attempts =>
                            /\ row'[wk'[v].d].status = "processing"
                            /\ row'[wk'[v].d].next = wk'[v].at + Lease
                      /\ wk'[v].granted < row'[wk'[v].d].attempts => LeaseOver(v)'
    BY Zenon DEF GrantLeased
  <2>1. /\ v # w /\ Engaged(v) /\ wk'[v] = wk[v] /\ wk[v].d \in Deliveries
        /\ wk[v].d \notin crossed
        /\ row'[wk[v].d].attempts = row[wk[v].d].attempts
    BY <1>1, <1>2 DEF Settling
  <2>2. LeaseOver(v)' = LeaseOver(v) /\ Holding(v)' = Holding(v)
    BY <2>1, Zenon DEF LeaseOver, Settling, Holding, Engaged
  <2>3. CASE row'[wk[v].d] = row[wk[v].d]
    BY <2>1, <2>2, <2>3 DEF LeaseInv, GrantLeased
  <2>4. CASE wk[w].d = wk[v].d /\ HoldsClaim(row[wk[v].d], wk[w].claim)
    <3>1. wk[w].granted = row[wk[v].d].attempts
      BY <2>1, <2>4, Zenon DEF LeaseInv, GrantLeased, HoldsClaim, Settling, Holding
    <3>2. wk[v].granted # row[wk[v].d].attempts
      BY <2>1, <2>4, <3>1, Zenon DEF LeaseInv, GrantOrder, Settling, Holding
    <3> QED
      <4>1. /\ Holding(v) => wk[v].claim = wk[v].granted
            /\ wk[v].granted < row[wk[v].d].attempts => LeaseOver(v)
        BY <2>1, Zenon DEF LeaseInv, GrantLeased
      <4> QED
        BY <2>1, <2>2, <3>2, <4>1, Zenon
  <2> QED
    BY <2>1, <2>3, <2>4, Zenon DEF Settling
<1> QED
  BY <1>3, <1>4, Zenon DEF LeaseInv

\* A granting UPDATE: the new grant is above all others, and each of those has
\* lapsed, for the row's lease was the latest one's and had run out.
LEMMA GrantPreserves ==
  ASSUME LeaseInv, Typed', NEW w \in Workers, ClaimUpdate(w),
         Claimable(row[wk[w].d], wk[w].at),
         row' = [row EXCEPT ![wk[w].d] = GrantedRow(row[wk[w].d], wk[w].at)],
         wk' = [wk EXCEPT ![w] =
                  [@ EXCEPT !.pc = "get", !.granted = row[wk[w].d].attempts + 1]]
  PROVE  LeaseInv'
<1> DEFINE dw == wk[w].d
<1>1. \A v \in Workers : Engaged(v) => wk[v].d \in Deliveries /\ wk[v].granted \in Nat
        /\ wk[v].at \in Nat
  BY Zenon DEF LeaseInv, Typed, TypeOK, WorkerOK, Engaged, Locals
<1>2. /\ dw \in Deliveries /\ row[dw].attempts \in Nat /\ wk[w].at \in Nat /\ wk[w].at <= now
      /\ now \in Nat /\ ~Engaged(w) /\ now' = now /\ crossed' = crossed
  BY Zenon DEF ClaimUpdate, LeaseInv, Typed, TypeOK, WorkerOK, Engaged, Locals, Row
<1>3. /\ wk'[w].pc = "get" /\ wk'[w].d = dw /\ wk'[w].at = wk[w].at
      /\ wk'[w].granted = row[dw].attempts + 1
  BY DEF LeaseInv, Typed, TypeOK, Locals
<1>4. \A v \in Workers \ {w} : wk'[v] = wk[v] /\ Engaged(v)' = Engaged(v)
        /\ Holding(v)' = Holding(v)
  BY Zenon DEF Engaged, Holding, LeaseInv, Typed, TypeOK
<1>5. /\ row'[dw].status = "processing" /\ row'[dw].attempts = row[dw].attempts + 1
      /\ row'[dw].next = wk[w].at + Lease
      /\ \A d \in Deliveries : d # dw => row'[d] = row[d]
  BY <1>2, Zenon DEF GrantedRow, LeaseInv, Typed, TypeOK
<1>6. GrantOrder'
  <2>1. ASSUME NEW v \in Workers, Engaged(v)'
        PROVE  wk'[v].granted \in 1..row'[wk'[v].d].attempts
    <3>1. CASE v = w
      BY <1>2, <1>3, <1>5, <3>1
    <3>2. CASE v # w
      <4>1. wk'[v] = wk[v] /\ wk[v].d \in Deliveries /\ wk[v].granted \in 1..row[wk[v].d].attempts
        BY <1>1, <1>4, <2>1, <3>2, Zenon DEF LeaseInv, GrantOrder
      <4> QED
        BY <1>2, <1>5, <4>1
    <3> QED
      BY <3>1, <3>2, Zenon
  <2>2. ASSUME NEW u \in Workers, NEW v \in Workers,
               u # v, Engaged(u)', Engaged(v)', wk'[u].d = wk'[v].d
        PROVE  wk'[u].granted # wk'[v].granted
    BY <1>1, <1>2, <1>3, <1>4, <2>2 DEF LeaseInv, GrantOrder
  <2> QED
    BY <2>1, <2>2, Zenon DEF GrantOrder
<1>7. GrantLeased'
  <2> SUFFICES ASSUME NEW v \in Workers, Engaged(v)', wk'[v].d \notin crossed'
               PROVE  /\ Holding(v)' => wk'[v].claim = wk'[v].granted
                      /\ wk'[v].granted = row'[wk'[v].d].attempts =>
                            /\ row'[wk'[v].d].status = "processing"
                            /\ row'[wk'[v].d].next = wk'[v].at + Lease
                      /\ wk'[v].granted < row'[wk'[v].d].attempts => LeaseOver(v)'
    BY Zenon DEF GrantLeased
  <2>1. CASE v = w
    BY <1>2, <1>3, <1>5, <2>1 DEF Holding
  <2>2. CASE v # w /\ wk[v].d # dw
    <3>1. /\ Engaged(v) /\ wk'[v] = wk[v] /\ wk[v].d \notin crossed
          /\ Holding(v)' = Holding(v) /\ row'[wk[v].d] = row[wk[v].d]
      BY <1>1, <1>2, <1>4, <1>5, <2>2
    <3>2. LeaseOver(v)' = LeaseOver(v)
      BY <1>2, <3>1, Zenon DEF LeaseOver
    <3> QED
      BY <3>1, <3>2, Zenon DEF LeaseInv, GrantLeased
  <2>3. CASE v # w /\ wk[v].d = dw
    <3>1. /\ Engaged(v) /\ wk'[v] = wk[v] /\ dw \notin crossed
          /\ wk[v].granted \in 1..row[dw].attempts
          /\ Holding(v)' = Holding(v) /\ LeaseOver(v)' = LeaseOver(v)
      BY <1>2, <1>4, <2>3 DEF LeaseInv, GrantOrder, LeaseOver
    <3>2. LeaseOver(v)
      <4>1. CASE wk[v].granted = row[dw].attempts
        <5>1. row[dw].status = "processing" /\ row[dw].next = wk[v].at + Lease
          BY <2>3, <3>1, <4>1, Zenon DEF LeaseInv, GrantLeased
        <5>2. wk[v].at + Lease <= wk[w].at
          BY ONLY <5>1, Claimable(row[dw], wk[w].at), Zenon DEF Claimable
        <5> QED
          BY <1>1, <1>2, <3>1, <5>2, ConstantsAssumption DEF LeaseOver
      <4>2. CASE wk[v].granted < row[dw].attempts
        BY <2>3, <3>1, <4>2, Zenon DEF LeaseInv, GrantLeased
      <4> QED
        BY <1>2, <3>1, <4>1, <4>2
    <3>3. wk[v].granted # row'[dw].attempts
      BY <1>2, <1>5, <3>1, SMTT(20)
    <3> QED
      BY <2>3, <3>1, <3>2, <3>3, Zenon DEF LeaseInv, GrantLeased
  <2> QED
    BY <2>1, <2>2, <2>3, Zenon
<1> QED
  BY <1>6, <1>7, Zenon DEF LeaseInv

\* Claim's trailing Get: the claim is the worker's own grant, or claims cross.
LEMMA GetPreserves ==
  ASSUME LeaseInv, Typed', NEW w \in Workers, ClaimGet(w)
  PROVE  LeaseInv'
<1>1. /\ now' = now /\ row' = row /\ wk[w].pc = "get" /\ crossed \subseteq crossed'
      /\ row[wk[w].d].attempts # wk[w].granted => wk[w].d \in crossed'
  BY Zenon DEF ClaimGet, LeaseInv, Typed, TypeOK
<1>2. /\ wk'[w].d = wk[w].d /\ wk'[w].at = wk[w].at /\ wk'[w].granted = wk[w].granted
      /\ wk'[w].pc = "burst" /\ wk'[w].claim = row[wk[w].d].attempts
  BY Zenon DEF ClaimGet, LeaseInv, Typed, TypeOK, Locals
<1>3. \A v \in Workers \ {w} : wk'[v] = wk[v] /\ Holding(v)' = Holding(v)
  BY Zenon DEF ClaimGet, Holding, Engaged, LeaseInv, Typed, TypeOK
<1>4. \A v \in Workers : Engaged(v)' = Engaged(v) /\ LeaseOver(v)' = LeaseOver(v)
  BY <1>1, <1>2, <1>3 DEF Engaged, LeaseOver
<1>5. GrantOrder'
  BY <1>1, <1>2, <1>3, <1>4 DEF LeaseInv, GrantOrder
<1>6. GrantLeased'
  <2> SUFFICES ASSUME NEW v \in Workers, Engaged(v)', wk'[v].d \notin crossed'
               PROVE  /\ Holding(v)' => wk'[v].claim = wk'[v].granted
                      /\ wk'[v].granted = row'[wk'[v].d].attempts =>
                            /\ row'[wk'[v].d].status = "processing"
                            /\ row'[wk'[v].d].next = wk'[v].at + Lease
                      /\ wk'[v].granted < row'[wk'[v].d].attempts => LeaseOver(v)'
    BY Zenon DEF GrantLeased
  <2>1. /\ wk'[v].d = wk[v].d /\ wk'[v].at = wk[v].at /\ wk'[v].granted = wk[v].granted
        /\ Engaged(v) /\ wk[v].d \notin crossed
    BY <1>1, <1>2, <1>3, <1>4, Zenon
  <2>2. Holding(v)' => wk'[v].claim = wk'[v].granted
    <3>1. CASE v = w
      BY <1>1, <1>2, <3>1, Zenon
    <3>2. CASE v # w
      BY <1>3, <2>1, <3>2, Zenon DEF LeaseInv, GrantLeased
    <3> QED
      BY <3>1, <3>2, Zenon
  <2> QED
    BY <1>1, <1>4, <2>1, <2>2, Zenon DEF LeaseInv, GrantLeased
<1> QED
  BY <1>5, <1>6, Zenon DEF LeaseInv

\* LeaseInv is inductive.
LEMMA LeaseInductive ==
  /\ WebhookInit => LeaseInv
  /\ LeaseInv /\ [WebhookNext]_vars => LeaseInv'
<1>1. ASSUME WebhookInit PROVE LeaseInv
  <2>1. \A w \in Workers : ~Engaged(w)
    BY <1>1, Zenon DEF WebhookInit, Engaged, Idle
  <2> QED
    BY <1>1, <2>1, TypedInductive, Zenon DEF LeaseInv, GrantOrder, GrantLeased
<1>2. ASSUME LeaseInv, [WebhookNext]_vars PROVE LeaseInv'
  <2>1. Typed /\ Typed'
    BY <1>2, TypedInductive, Zenon DEF LeaseInv
  <2>2. ASSUME NEW w \in Workers, Complete(w) \/ FailUpdate(w) PROVE LeaseInv'
    BY <1>2, <2>1, <2>2, SettlingSteps, SettlingPreserves, Zenon
  <2>3. ASSUME NEW w \in Workers, ClaimGet(w) PROVE LeaseInv'
    BY <1>2, <2>1, <2>3, GetPreserves, Zenon
  <2>4. ASSUME NEW w \in Workers, ClaimUpdate(w) PROVE LeaseInv'
    <3>1. CASE UNCHANGED row /\ Leave(w)
      BY <1>2, <2>1, <2>4, <3>1, QuietSteps, QuietPreserves, Zenon
    <3> QED
      BY <1>2, <2>1, <2>4, <3>1, GrantPreserves, Zenon DEF ClaimUpdate
  <2>5. ASSUME NEW w \in Workers,
               \/ \E d \in Deliveries : Receive(w, d)
               \/ ClaimInsert(w) \/ BurstAllow(w) \/ Handle(w) \/ FailGet(w)
               \/ StatementError(w)
        PROVE  LeaseInv'
    BY <1>2, <2>1, <2>5, QuietSteps, QuietPreserves, Zenon
  <2>6. ASSUME (\E h \in Hosts : Crash(h)) \/ Tick \/ UNCHANGED vars PROVE LeaseInv'
    <3>1. Quiet
      BY <2>1, <2>6, EnvironmentSteps, Zenon DEF Quiet, Engaged, Holding
    <3> QED
      BY <1>2, <2>1, <3>1, QuietPreserves, Zenon
  <2> QED
    BY <1>2, <2>2, <2>3, <2>4, <2>5, <2>6, Zenon DEF WebhookNext, Step
<1> QED
  BY <1>1, <1>2, Zenon

-----------------------------------------------------------------------------
\* The lease excludes two workers from one delivery, whatever statements,
\* errors and crashes interleave, until claims cross on it.
THEOREM LeaseExcludes == WebhookSpec => []LeaseExclusion
<1>1. LeaseInv => LeaseExclusion
  <2> SUFFICES ASSUME LeaseInv, NEW v \in Workers, NEW w \in Workers,
                      v # w, Engaged(v), Engaged(w), wk[v].d = wk[w].d,
                      wk[v].d \notin crossed
               PROVE  LeaseOver(v) \/ LeaseOver(w)
    BY Zenon DEF LeaseExclusion
  <2> DEFINE a == row[wk[w].d].attempts
  <2>1. /\ wk[v].granted \in 1..a /\ wk[w].granted \in 1..a
        /\ wk[v].granted # wk[w].granted
    BY Zenon DEF LeaseInv, GrantOrder
  <2>2. a \in Nat
    BY Zenon DEF LeaseInv, Typed, TypeOK, WorkerOK, Engaged, Row
  <2>3. wk[v].granted < a \/ wk[w].granted < a
    BY <2>1, <2>2
  <2> QED
    BY <2>3, Zenon DEF LeaseInv, GrantLeased
<1> QED
  BY LeaseInductive, <1>1, PTL DEF WebhookSpec

\* Claims first cross only after the worker's whole lease has passed between
\* the two statements of Claim.
THEOREM CrossingNeedsLapse == WebhookSpec => FirstCrossingAfterLapse
<1> DEFINE Lapsed == \A d \in crossed' \ crossed :
              \E w \in Workers : wk[w].pc = "get" /\ wk[w].d = d /\ LeaseOver(w)
<1>1. LeaseInv /\ [WebhookNext]_vars => [Lapsed]_vars
  <2> SUFFICES ASSUME LeaseInv, WebhookNext, NEW d \in crossed', d \notin crossed
               PROVE  \E w \in Workers : wk[w].pc = "get" /\ wk[w].d = d /\ LeaseOver(w)
    BY Zenon
  <2>1. PICK w \in Workers : ClaimGet(w)
    BY Zenon DEF WebhookNext, Step, Receive, ClaimInsert, ClaimUpdate, BurstAllow, Handle,
           Complete, FailGet, FailUpdate, StatementError, Crash, Tick
  <2>2. /\ wk[w].pc = "get" /\ Engaged(w) /\ d = wk[w].d
        /\ row[d].attempts # wk[w].granted
    BY <2>1, Zenon DEF ClaimGet, Engaged
  <2>3. wk[w].granted < row[d].attempts
    <3>1. wk[w].granted \in 1..row[d].attempts /\ row[d].attempts \in Nat
      BY <2>2, Zenon DEF LeaseInv, GrantOrder, Typed, TypeOK, WorkerOK, Row
    <3> QED
      BY <2>2, <3>1
  <2> QED
    BY <2>2, <2>3, Zenon DEF LeaseInv, GrantLeased
<1> QED
  BY LeaseInductive, <1>1, PTL DEF WebhookSpec, FirstCrossingAfterLapse

\* Until claims cross on it, a row leaves "processing" for an outcome only on
\* behalf of the worker whose grant it carries: stale Complete and Fail calls
\* are fenced off.
THEOREM GrantHolderSettles == WebhookSpec => OnlyGrantHolderSettles
<1> DEFINE Fenced == \A d \in Deliveries \ crossed' :
          row[d].status = "processing" /\ row'[d].status # "processing"
          => \E w \in Workers : /\ wk[w].pc \in {"complete", "failUpdate"}
                                /\ wk[w].d = d
                                /\ wk[w].granted = row[d].attempts
                                /\ wk'[w].pc = "idle"
<1>1. LeaseInv /\ [WebhookNext]_vars => [Fenced]_vars
  <2> SUFFICES ASSUME LeaseInv, WebhookNext, NEW d \in Deliveries, d \notin crossed',
                      row[d].status = "processing", row'[d].status # "processing"
               PROVE  \E w \in Workers : /\ wk[w].pc \in {"complete", "failUpdate"}
                                         /\ wk[w].d = d
                                         /\ wk[w].granted = row[d].attempts
                                         /\ wk'[w].pc = "idle"
    OBVIOUS
  <2>1. PICK w \in Workers : Complete(w) \/ FailUpdate(w)
    <3>1. ASSUME NEW w \in Workers, ClaimUpdate(w) PROVE FALSE
      BY <3>1 DEF ClaimUpdate, GrantedRow, LeaseInv, Typed, TypeOK
    <3>2. ASSUME NEW w \in Workers, ClaimInsert(w) PROVE FALSE
      BY <3>2, Zenon DEF ClaimInsert, LeaseInv, Typed, TypeOK
    <3> QED
      BY <3>1, <3>2, Zenon DEF WebhookNext, Step, Receive, ClaimGet, BurstAllow, Handle,
             FailGet, StatementError, Crash, Tick
  <2>2. Settling(w) /\ wk[w].pc \in {"complete", "failUpdate"}
    BY <2>1, SettlingSteps, Zenon DEF LeaseInv, Complete, FailUpdate
  <2>3. /\ wk[w].d = d /\ HoldsClaim(row[d], wk[w].claim)
        /\ crossed' = crossed /\ wk'[w].pc = "idle" /\ Holding(w) /\ Engaged(w)
    BY <2>2, Zenon DEF Settling, Idle, LeaseInv, Typed, TypeOK, Holding
  <2>4. wk[w].granted = row[d].attempts
    BY <2>3, Zenon DEF LeaseInv, GrantLeased, HoldsClaim
  <2> QED
    BY <2>2, <2>3, <2>4, Zenon
<1> QED
  BY LeaseInductive, <1>1, PTL DEF WebhookSpec, OnlyGrantHolderSettles

-----------------------------------------------------------------------------
\* The four ways a step of worker w writes the row of its delivery.
Registers(w) ==
    row[wk[w].d].status = "none" /\ row' = [row EXCEPT ![wk[w].d].status = "pending"]

Grants(w) ==
    /\ Claimable(row[wk[w].d], wk[w].at)
    /\ row' = [row EXCEPT ![wk[w].d] = GrantedRow(row[wk[w].d], wk[w].at)]

Completes(w) ==
    /\ Complete(w) /\ HoldsClaim(row[wk[w].d], wk[w].claim)
    /\ row' = [row EXCEPT ![wk[w].d] = CompletedRow(row[wk[w].d])]

Fails(w) ==
    /\ FailUpdate(w) /\ HoldsClaim(row[wk[w].d], wk[w].claim)
    /\ row' = [row EXCEPT ![wk[w].d] = FailedRow(row[wk[w].d], wk[w].claim, wk[w].retryAt)]

\* A step that writes the ledger writes one row, in one of these ways.
LEMMA RowWrites ==
  ASSUME Typed, [WebhookNext]_vars, row' # row
  PROVE  \E w \in Workers :
            /\ wk[w].d \in Deliveries /\ wk[w].at \in Nat
            /\ wk[w].claim \in Nat /\ wk[w].retryAt \in Nat
            /\ Registers(w) \/ Grants(w) \/ Completes(w) \/ Fails(w)
<1>1. PICK w \in Workers : ClaimInsert(w) \/ ClaimUpdate(w) \/ Complete(w) \/ FailUpdate(w)
  BY Zenon DEF WebhookNext, Step, Receive, ClaimGet, BurstAllow, Handle, FailGet,
         StatementError, Crash, Tick, vars
<1>2. /\ wk[w].d \in Deliveries /\ wk[w].at \in Nat
      /\ wk[w].claim \in Nat /\ wk[w].retryAt \in Nat
  BY <1>1, Zenon DEF Typed, TypeOK, WorkerOK, Locals, ClaimInsert, ClaimUpdate, Complete, FailUpdate
<1>3. Registers(w) \/ Grants(w) \/ Completes(w) \/ Fails(w)
  BY <1>1, Zenon
     DEF ClaimInsert, ClaimUpdate, Complete, FailUpdate, Registers, Grants, Completes, Fails
<1> QED
  BY <1>2, <1>3, Zenon

\* A processed or dead row is never written again, and attempts never go back.
THEOREM SettledRowsStay == WebhookSpec => SettledForGood
<1> DEFINE Stays == \A d \in Deliveries :
              /\ row[d].status \in {"processed", "dead"} => row'[d] = row[d]
              /\ row'[d].attempts >= row[d].attempts
<1>1. Typed /\ [WebhookNext]_vars => [Stays]_vars
  <2> SUFFICES ASSUME Typed, [WebhookNext]_vars, NEW d \in Deliveries
               PROVE  /\ row[d].status \in {"processed", "dead"} => row'[d] = row[d]
                      /\ row'[d].attempts >= row[d].attempts
    BY Zenon
  <2>1. row[d] \in Row /\ row[d].attempts \in Nat
    BY Zenon DEF Typed, TypeOK, Row
  <2>2. CASE row' = row
    BY <2>1, <2>2
  <2>3. CASE row' # row
    <3>1. PICK w \in Workers : Registers(w) \/ Grants(w) \/ Completes(w) \/ Fails(w)
      BY <2>3, RowWrites, Zenon
    <3>2. CASE Registers(w)
      BY <2>1, <3>2 DEF Registers, Typed, TypeOK, Row
    <3>3. CASE Grants(w)
      BY <2>1, <3>3 DEF Grants, Claimable, GrantedRow, Typed, TypeOK
    <3>4. CASE Completes(w)
      BY <2>1, <3>4 DEF Completes, HoldsClaim, CompletedRow, Typed, TypeOK, Row
    <3>5. CASE Fails(w)
      BY <2>1, <3>5 DEF Fails, HoldsClaim, FailedRow, Typed, TypeOK, Row
    <3> QED
      BY <3>1, <3>2, <3>3, <3>4, <3>5, Zenon
  <2> QED
    BY <2>2, <2>3, Zenon
<1> QED
  BY TypedInductive, <1>1, PTL DEF WebhookSpec, SettledForGood

\* The refinement mapping.
StatusMap == [d \in Deliveries |-> row[d].status]
GrantMap == [d \in Deliveries |-> row[d].attempts]

\* The ledger implements the abstract lifecycle of a delivery: statuses move as
\* it says, each grant counts one attempt, and only the last of MaxAttempts
\* grants that fails is dead-lettered.
THEOREM LedgerImplementsLifecycle == WebhookSpec => ImplementsLifecycle
<1>1. WebhookInit => Lifecycle!LifecycleInit
  BY DEF WebhookInit, Lifecycle!LifecycleInit, NoRow
<1>2. Typed /\ [WebhookNext]_vars => [Lifecycle!LifecycleNext]_(Lifecycle!lifecycleVars)
  <2> SUFFICES ASSUME Typed, [WebhookNext]_vars
               PROVE  [Lifecycle!LifecycleNext]_(Lifecycle!lifecycleVars)
    BY Zenon
  <2>1. CASE row' = row
    BY <2>1, Zenon DEF Lifecycle!lifecycleVars
  <2>2. CASE row' # row
    <3>1. PICK w \in Workers :
            /\ wk[w].d \in Deliveries /\ wk[w].at \in Nat
            /\ wk[w].claim \in Nat /\ wk[w].retryAt \in Nat
            /\ Registers(w) \/ Grants(w) \/ Completes(w) \/ Fails(w)
      BY <2>2, RowWrites, Zenon
    <3> DEFINE d == wk[w].d
    <3> USE DEF Typed, TypeOK, Row
    <3>2. CASE Registers(w)
      <4>1. /\ \A e \in Deliveries : row'[e].status = IF e = d THEN "pending" ELSE row[e].status
            /\ \A e \in Deliveries : row'[e].attempts = IF e = d THEN row[d].attempts
                 ELSE row[e].attempts
        BY <3>1, <3>2, Zenon DEF Registers
      <4>2. StatusMap' = [StatusMap EXCEPT ![d] = "pending"]
        BY <3>1, <4>1, Zenon DEF StatusMap
      <4>3. StatusMap[d] = "none" /\ GrantMap' = GrantMap
        BY <3>1, <3>2, <4>1, Zenon DEF Registers, StatusMap, GrantMap
      <4>4. Lifecycle!Register(d)
        BY ONLY <4>2, <4>3, Zenon DEF Lifecycle!Register, StatusMap, GrantMap
      <4>5. Lifecycle!LifecycleNext
        BY <3>1, <4>4, Zenon DEF Lifecycle!LifecycleNext, Lifecycle!Register
      <4> QED
        BY <4>5, Zenon
    <3>3. CASE Grants(w)
      <4>1. /\ \A e \in Deliveries : row'[e].status = IF e = d THEN "processing" ELSE row[e].status
            /\ \A e \in Deliveries : row'[e].attempts = IF e = d THEN row[d].attempts + 1
                 ELSE row[e].attempts
        BY <3>1, <3>3, Zenon DEF Grants, Claimable, GrantedRow
      <4>2. StatusMap' = [StatusMap EXCEPT ![d] = "processing"]
              /\ GrantMap' = [GrantMap EXCEPT ![d] = row[d].attempts + 1]
        BY <3>1, <4>1, Zenon DEF StatusMap, GrantMap
      <4>3. Lifecycle!Grant(d)
        BY <3>1, <3>3, <4>1, <4>2, Zenon DEF Grants, Claimable, Lifecycle!Grant, StatusMap, GrantMap
      <4>4. Lifecycle!LifecycleNext
        BY <3>1, <4>3, Zenon DEF Lifecycle!LifecycleNext, Lifecycle!Grant
      <4> QED
        BY <4>4, Zenon
    <3>4. CASE Completes(w)
      <4>1. /\ \A e \in Deliveries : row'[e].status = IF e = d THEN "processed" ELSE row[e].status
            /\ \A e \in Deliveries : row'[e].attempts = IF e = d THEN row[d].attempts
                 ELSE row[e].attempts
        BY <3>1, <3>4, Zenon DEF Completes, HoldsClaim, CompletedRow
      <4>2. StatusMap' = [StatusMap EXCEPT ![d] = "processed"]
        BY <3>1, <4>1, Zenon DEF StatusMap
      <4>3. GrantMap' = GrantMap
        BY <3>1, <4>1, Zenon DEF GrantMap
      <4>4. StatusMap[d] = "processing"
        BY <3>1, <3>4, Zenon DEF Completes, HoldsClaim, StatusMap
      <4>5. Lifecycle!Finish(d)
        BY ONLY <4>2, <4>3, <4>4, Zenon DEF Lifecycle!Finish, StatusMap, GrantMap
      <4>6. Lifecycle!LifecycleNext
        BY <3>1, <4>5, Zenon DEF Lifecycle!LifecycleNext, Lifecycle!Finish
      <4> QED
        BY <4>6, Zenon
    <3>5. CASE Fails(w)
      <4>1. /\ \A e \in Deliveries : row'[e].status = IF e = d
                 THEN (IF row[d].attempts >= MaxAttempts THEN "dead" ELSE "retry_ready")
                   ELSE row[e].status
            /\ \A e \in Deliveries : row'[e].attempts = IF e = d THEN row[d].attempts
                 ELSE row[e].attempts
        BY <3>1, <3>5 DEF Fails, HoldsClaim, FailedRow
      <4>2. StatusMap' = [StatusMap EXCEPT ![d] =
                            IF GrantMap[d] >= MaxAttempts THEN "dead" ELSE "retry_ready"]
        BY <3>1, <4>1, Zenon DEF StatusMap, GrantMap
      <4>3. GrantMap' = GrantMap
        BY <3>1, <4>1, Zenon DEF GrantMap
      <4>4. StatusMap[d] = "processing"
        BY <3>1, <3>5, Zenon DEF Fails, HoldsClaim, StatusMap
      <4>5. Lifecycle!GiveBack(d)
        BY ONLY <4>2, <4>3, <4>4, Zenon DEF Lifecycle!GiveBack, StatusMap, GrantMap
      <4>6. Lifecycle!LifecycleNext
        BY <3>1, <4>5, Zenon DEF Lifecycle!LifecycleNext, Lifecycle!GiveBack
      <4> QED
        BY <4>6, Zenon
    <3> QED
      BY <3>1, <3>2, <3>3, <3>4, <3>5, Zenon
  <2> QED
    BY <2>1, <2>2, Zenon
<1> QED
  BY TypedInductive, <1>1, <1>2, PTL DEF WebhookSpec, ImplementsLifecycle, Lifecycle!LifecycleSpec

-----------------------------------------------------------------------------
\* A worker on its way to settle a delivery carries the reason in the history.
ReasonKnown ==
    \A w \in Workers :
        /\ wk[w].pc = "complete" => hist[wk[w].d] \cap {"ok", "coalesced"} # {}
        /\ wk[w].pc \in {"failGet", "failUpdate"} => "failed" \in hist[wk[w].d]

OutcomeInv == Typed /\ ReasonKnown /\ ProcessedWasHandled /\ DeadLetterEarned

\* Steps of other workers, and steps that only move or end this one, keep it.
LEMMA ReasonKept ==
  ASSUME Typed, ReasonKnown, [WebhookNext]_vars
  PROVE  ReasonKnown' /\ \A d \in Deliveries : hist[d] \subseteq hist'[d]
<1> USE DEF Typed, TypeOK, WorkerOK, ReasonKnown
<1>1. ASSUME NEW w \in Workers, BurstAllow(w)
      PROVE  ReasonKnown' /\ \A d \in Deliveries : hist[d] \subseteq hist'[d]
  <2>1. wk[w].pc = "burst" /\ wk[w].d \in Deliveries
    BY <1>1, Zenon DEF BurstAllow
  <2>2. \/ /\ wk' = [wk EXCEPT ![w].pc = "handle"]
           /\ hist' = [hist EXCEPT ![wk[w].d] = @ \cup {"passed"}]
        \/ /\ wk' = [wk EXCEPT ![w].pc = "complete"]
           /\ hist' = [hist EXCEPT ![wk[w].d] = @ \cup {"coalesced"}]
    BY <1>1, Zenon DEF BurstAllow, Goto
  <2>3. \A d \in Deliveries : hist[d] \subseteq hist'[d]
    <3>1. \E o : hist' = [hist EXCEPT ![wk[w].d] = @ \cup {o}]
      BY <2>2, Zenon
    <3> QED
      BY <2>1, <3>1, Zenon
  <2>4. \A v \in Workers \ {w} : wk'[v] = wk[v]
    BY <2>2, Zenon
  <2>5. wk'[w].d = wk[w].d /\ wk'[w].pc \in {"handle", "complete"}
    BY <2>2 DEF Locals
  <2>6. wk'[w].pc = "complete" => "coalesced" \in hist'[wk[w].d]
    BY <2>1, <2>2 DEF Locals
  <2> QED
    BY <2>3, <2>4, <2>5, <2>6, Zenon
<1>2. ASSUME NEW w \in Workers, Handle(w)
      PROVE  ReasonKnown' /\ \A d \in Deliveries : hist[d] \subseteq hist'[d]
  <2>1. wk[w].pc = "handle" /\ wk[w].d \in Deliveries
    BY <1>2, Zenon DEF Handle
  <2>2. \/ /\ wk' = [wk EXCEPT ![w].pc = "complete"]
           /\ hist' = [hist EXCEPT ![wk[w].d] = @ \cup {"ok"}]
        \/ /\ \E t : wk' = [wk EXCEPT ![w] = [@ EXCEPT !.pc = "failGet", !.retryAt = t]]
           /\ hist' = [hist EXCEPT ![wk[w].d] = @ \cup {"failed"}]
    BY <1>2, Zenon DEF Handle, Goto
  <2>3. \A d \in Deliveries : hist[d] \subseteq hist'[d]
    <3>1. \E o : hist' = [hist EXCEPT ![wk[w].d] = @ \cup {o}]
      BY <2>2, Zenon
    <3> QED
      BY <2>1, <3>1, Zenon
  <2>4. \A v \in Workers \ {w} : wk'[v] = wk[v]
    BY <2>2, Zenon
  <2>5. /\ wk'[w].d = wk[w].d
        /\ \/ wk'[w].pc = "complete" /\ "ok" \in hist'[wk[w].d]
           \/ wk'[w].pc = "failGet" /\ "failed" \in hist'[wk[w].d]
    <3>1. CASE Goto(w, "complete") /\ hist' = [hist EXCEPT ![wk[w].d] = @ \cup {"ok"}]
      BY <2>1, <3>1, Zenon DEF Goto, Locals
    <3>2. CASE /\ \E t : wk' = [wk EXCEPT ![w] = [@ EXCEPT !.pc = "failGet", !.retryAt = t]]
               /\ hist' = [hist EXCEPT ![wk[w].d] = @ \cup {"failed"}]
      <4>1. wk'[w].d = wk[w].d /\ wk'[w].pc = "failGet"
        BY <3>2, Zenon DEF Locals
      <4> QED
        BY <2>1, <3>2, <4>1, Zenon
    <3> QED
      BY <2>2, <3>1, <3>2, Zenon DEF Goto
  <2> QED
    BY <2>3, <2>4, <2>5, Zenon
<1>3. ASSUME hist' = hist,
             \A v \in Workers : \/ wk'[v].pc \notin {"complete", "failGet", "failUpdate"}
                                \/ wk'[v] = wk[v]
                                \/ /\ wk[v].pc = "failGet" /\ wk'[v].pc = "failUpdate"
                                   /\ wk'[v].d = wk[v].d
      PROVE  ReasonKnown' /\ \A d \in Deliveries : hist[d] \subseteq hist'[d]
  BY <1>3, Zenon
<1>4. ASSUME NEW w \in Workers, NEW d \in Deliveries, Receive(w, d)
      PROVE  ReasonKnown' /\ \A e \in Deliveries : hist[e] \subseteq hist'[e]
  BY <1>3, <1>4, Zenon DEF Receive, Idle
<1>5. ASSUME NEW w \in Workers,
             \/ ClaimInsert(w) \/ ClaimUpdate(w) \/ ClaimGet(w) \/ Complete(w)
             \/ FailUpdate(w) \/ StatementError(w)
      PROVE  ReasonKnown' /\ \A d \in Deliveries : hist[d] \subseteq hist'[d]
  <2>1. /\ hist' = hist
        /\ wk'[w].pc \in {"claim", "get", "burst", "idle"}
        /\ \A v \in Workers \ {w} : wk'[v] = wk[v]
    <3>1. CASE Leave(w)
      BY <1>5, <3>1, Zenon DEF ClaimInsert, ClaimUpdate, ClaimGet, Complete, FailUpdate,
                        StatementError, Leave, Idle
    <3>2. CASE ClaimInsert(w)
      BY <3>2, Zenon DEF ClaimInsert, Goto, Locals
    <3>3. CASE ClaimUpdate(w)
      <4>1. hist' = hist
        BY <3>3, Zenon DEF ClaimUpdate
      <4>2. CASE \E n : wk' = [wk EXCEPT ![w] = [@ EXCEPT !.pc = "get", !.granted = n]]
        <5>1. wk[w] \in Locals
          BY Zenon
        <5>2. \A n : [wk[w] EXCEPT !.pc = "get", !.granted = n].pc = "get"
          BY <5>1, Zenon DEF Locals
        <5> QED
          BY <4>1, <4>2, <5>2, Zenon
      <4> QED
        BY <3>1, <3>3, <4>2, Zenon DEF ClaimUpdate
    <3>4. CASE ClaimGet(w)
      BY <3>4, Zenon DEF ClaimGet, Locals
    <3> QED
      BY <1>5, <3>1, <3>2, <3>3, <3>4, Zenon DEF Complete, FailUpdate, StatementError
  <2> QED
    BY <1>3, <2>1, Zenon
<1>6. ASSUME NEW w \in Workers, FailGet(w)
      PROVE  ReasonKnown' /\ \A d \in Deliveries : hist[d] \subseteq hist'[d]
  <2>1. hist' = hist /\ wk[w].pc = "failGet"
    BY <1>6, Zenon DEF FailGet
  <2>2. CASE Goto(w, "failUpdate")
    BY <1>3, <2>1, <2>2 DEF Goto, Locals
  <2>3. CASE Leave(w)
    BY <1>3, <2>1, <2>3, Zenon DEF Leave, Idle
  <2> QED
    BY <1>6, <2>2, <2>3, Zenon DEF FailGet
<1>7. ASSUME (\E h \in Hosts : Crash(h)) \/ Tick \/ UNCHANGED vars
      PROVE  ReasonKnown' /\ \A d \in Deliveries : hist[d] \subseteq hist'[d]
  <2>1. hist' = hist /\ \A v \in Workers : wk'[v].pc = "idle" \/ wk'[v] = wk[v]
    BY <1>7, EnvironmentSteps, Zenon
  <2> QED
    BY <1>3, <2>1, Zenon
<1> QED
  BY <1>1, <1>2, <1>4, <1>5, <1>6, <1>7, Zenon DEF WebhookNext, Step

\* OutcomeInv is inductive.
LEMMA OutcomeInductive ==
  /\ WebhookInit => OutcomeInv
  /\ OutcomeInv /\ [WebhookNext]_vars => OutcomeInv'
<1>1. ASSUME WebhookInit PROVE OutcomeInv
  <2>1. /\ \A d \in Deliveries : row[d].status = "none"
        /\ \A w \in Workers : wk[w].pc = "idle"
    BY <1>1, Zenon DEF WebhookInit, Idle, NoRow
  <2> QED
    BY <1>1, <2>1, TypedInductive, Zenon DEF OutcomeInv, ReasonKnown, ProcessedWasHandled,
                                      DeadLetterEarned
<1>2. ASSUME OutcomeInv, [WebhookNext]_vars PROVE OutcomeInv'
  <2>1. /\ Typed /\ Typed' /\ ReasonKnown'
        /\ \A d \in Deliveries : hist[d] \subseteq hist'[d]
    BY <1>2, TypedInductive, ReasonKept, Zenon DEF OutcomeInv
  <2>2. CASE row' = row
    BY <1>2, <2>1, <2>2, Zenon DEF OutcomeInv, ProcessedWasHandled, DeadLetterEarned
  <2>3. CASE row' # row
    <3>1. PICK w \in Workers :
            /\ wk[w].d \in Deliveries /\ wk[w].at \in Nat
            /\ wk[w].claim \in Nat /\ wk[w].retryAt \in Nat
            /\ Registers(w) \/ Grants(w) \/ Completes(w) \/ Fails(w)
      BY <1>2, <2>1, <2>3, RowWrites, Zenon
    <3> DEFINE d == wk[w].d
    <3>2. row[d] \in Row
      BY <2>1, <3>1, Zenon DEF Typed, TypeOK
    <3>3. \A e \in Deliveries \ {d} : row'[e] = row[e]
      BY <2>1, <3>1, Zenon DEF Registers, Grants, Completes, Fails, Typed, TypeOK
    <3>4. /\ row'[d].status = "processed" => hist[d] \cap {"ok", "coalesced"} # {}
          /\ row'[d].status = "dead" => row'[d].attempts >= MaxAttempts /\ "failed" \in hist[d]
          /\ row'[d].status = "retry_ready" => row'[d].attempts < MaxAttempts
      <4> USE DEF Typed, TypeOK, Row
      <4>1. CASE Registers(w)
        BY <2>1, <3>1, <3>2, <4>1, Zenon DEF Registers
      <4>2. CASE Grants(w)
        BY <2>1, <3>1, <3>2, <4>2, Zenon DEF Grants, GrantedRow
      <4>3. CASE Completes(w)
        BY <1>2, <2>1, <3>1, <3>2, <4>3
        DEF Completes, Complete, CompletedRow, OutcomeInv, ReasonKnown
      <4>4. CASE Fails(w)
        <5>1. "failed" \in hist[d]
          BY <1>2, <4>4, Zenon DEF Fails, FailUpdate, OutcomeInv, ReasonKnown
        <5>2. /\ row'[d] = FailedRow(row[d], wk[w].claim, wk[w].retryAt)
              /\ row[d].attempts = wk[w].claim
          BY <2>1, <3>1, <4>4, Zenon DEF Fails, HoldsClaim
        <5> QED
          BY <3>1, <3>2, <5>1, <5>2, ConstantsAssumption DEF FailedRow
      <4> QED
        BY <3>1, <4>1, <4>2, <4>3, <4>4, Zenon
    <3> QED
      BY <1>2, <2>1, <3>1, <3>3, <3>4, Zenon DEF OutcomeInv, ProcessedWasHandled, DeadLetterEarned
  <2> QED
    BY <2>2, <2>3, Zenon
<1> QED
  BY <1>1, <1>2, Zenon

\* Only a delivery whose handler succeeded, or that the burst controller
\* suppressed, is ever marked processed.
THEOREM ProcessedHandled == WebhookSpec => []ProcessedWasHandled
<1>1. OutcomeInv => ProcessedWasHandled
  BY Zenon DEF OutcomeInv
<1> QED
  BY OutcomeInductive, <1>1, PTL DEF WebhookSpec

\* Only a delivery that failed with MaxAttempts used up is dead-lettered, and
\* one that waits for a retry has attempts left.
THEOREM DeadLettersEarned == WebhookSpec => []DeadLetterEarned
<1>1. OutcomeInv => DeadLetterEarned
  BY Zenon DEF OutcomeInv
<1> QED
  BY OutcomeInductive, <1>1, PTL DEF WebhookSpec

-----------------------------------------------------------------------------
\* A delivery with this key has been let through to its handler.
PassedKey(k) == \E p \in Deliveries : BurstKey[p] = k /\ "passed" \in hist[p]

\* Every entry of a burst map stands for such a delivery.
BurstInv ==
    /\ Typed
    /\ \A h \in Hosts, k \in Keys : burst[h][k] # Null => PassedKey(k)
    /\ CoalescedBehindPassed

\* The burst controller, through cleanups, restarts and other hosts' maps,
\* suppresses a delivery only behind one that it let through.
THEOREM SuppressedBehindPassed == WebhookSpec => []CoalescedBehindPassed
<1>1. WebhookInit => BurstInv
  BY TypedInductive DEF WebhookInit, BurstInv, CoalescedBehindPassed
<1>2. ASSUME BurstInv, [WebhookNext]_vars PROVE BurstInv'
  <2>1. Typed /\ Typed'
    BY <1>2, TypedInductive, Zenon DEF BurstInv
  <2>2. ASSUME NEW w \in Workers, BurstAllow(w) PROVE BurstInv'
    <3> DEFINE d == wk[w].d
               h == HostOf[w]
               k == BurstKey[d]
    <3>1. d \in Deliveries /\ h \in Hosts /\ k \in Keys \cup {None}
      BY <2>1, <2>2, ConstantsAssumption, Zenon DEF BurstAllow, Typed, TypeOK, WorkerOK
    <3>2. \/ hist' = [hist EXCEPT ![d] = @ \cup {"passed"}]
          \/ hist' = [hist EXCEPT ![d] = @ \cup {"coalesced"}] /\ PassedKey(k)
      BY <1>2, <2>2, <3>1, Zenon DEF BurstAllow, BurstInv, LetsThrough
    <3>3. \A key : PassedKey(key) => PassedKey(key)'
      <4>1. hist \in [Deliveries -> SUBSET History]
        BY <2>1, Zenon DEF Typed, TypeOK
      <4>2. \A c \in Deliveries : "passed" \in hist[c] => "passed" \in hist'[c]
        BY <3>1, <3>2, <4>1, Zenon
      <4> QED
        BY <4>2, Zenon DEF PassedKey
    <3>4. \A g \in Hosts, key \in Keys : burst'[g][key] # Null => PassedKey(key)'
      <4>1. CASE burst' = burst
        BY <1>2, <3>3, <4>1, Zenon DEF BurstInv
      <4>2. CASE k \in Keys /\ \E e \in Cleanup([burst[h] EXCEPT ![k] = now]) :
                    burst' = [burst EXCEPT ![h] = e]
        <5>1. PICK e \in Cleanup([burst[h] EXCEPT ![k] = now]) : burst' = [burst EXCEPT ![h] = e]
          BY <4>2, Zenon
        <5>2. [burst[h] EXCEPT ![k] = now] \in [Keys -> Times]
          BY <2>1, <3>1, Zenon DEF Typed, TypeOK, Times
        <5>3. \A key \in Keys \ {k} : e[key] # Null => burst[h][key] # Null
          <6>1. \A key \in Keys : e[key] # Null => e[key] = [burst[h] EXCEPT ![k] = now][key]
            BY <5>2, CleanupDrops, Zenon
          <6>2. burst[h] \in [Keys -> Times]
            BY <2>1, <3>1, Zenon DEF Typed, TypeOK
          <6> QED
            BY <6>1, <6>2, Zenon
        <5>4. ASSUME NEW key, key = k PROVE PassedKey(key)'
          <6>1. CASE PassedKey(k)
            BY <3>3, <5>4, <6>1, Zenon
          <6>2. CASE hist' = [hist EXCEPT ![d] = @ \cup {"passed"}]
            <7>1. "passed" \in hist'[d]
              BY <2>1, <3>1, <6>2, Zenon DEF Typed, TypeOK
            <7> QED
              BY <3>1, <5>4, <7>1, Zenon DEF PassedKey
          <6> QED
            BY <3>2, <6>1, <6>2, Zenon
        <5>5. ASSUME NEW g \in Hosts, NEW key \in Keys, burst'[g][key] # Null
              PROVE  PassedKey(key)'
          <6>1. CASE g = h /\ key = k
            BY <5>4, <6>1, Zenon
          <6>2. CASE g = h /\ key # k
            <7>1. burst[h][key] # Null
              BY <2>1, <3>1, <5>1, <5>3, <5>5, <6>2, Zenon DEF Typed, TypeOK
            <7> QED
              BY <1>2, <3>1, <3>3, <7>1, Zenon DEF BurstInv
          <6>3. CASE g # h
            <7>1. burst'[g] = burst[g]
              BY <2>1, <5>1, <6>3, Zenon DEF Typed, TypeOK
            <7>2. PassedKey(key)
              BY <1>2, <5>5, <7>1, Zenon DEF BurstInv
            <7> QED
              BY <3>3, <7>2, Zenon
          <6> QED
            BY <6>1, <6>2, <6>3, Zenon
        <5> QED
          BY <5>5, Zenon
      <4> QED
        BY <2>2, <3>1, <4>1, <4>2, Zenon DEF BurstAllow
    <3>5. CoalescedBehindPassed'
      <4> SUFFICES ASSUME NEW c \in Deliveries, "coalesced" \in hist'[c]
                   PROVE  PassedKey(BurstKey[c])'
        BY Zenon DEF CoalescedBehindPassed, PassedKey
      <4>1. CASE "coalesced" \in hist[c]
        BY <1>2, <3>3, <4>1, Zenon DEF BurstInv, CoalescedBehindPassed, PassedKey
      <4>2. CASE "coalesced" \notin hist[c]
        <5>1. hist \in [Deliveries -> SUBSET History]
          BY <2>1, Zenon DEF Typed, TypeOK
        <5>2. c = d /\ PassedKey(k)
          <6>1. CASE hist' = [hist EXCEPT ![d] = @ \cup {"passed"}]
            BY <3>1, <4>2, <5>1, <6>1, Zenon
          <6>2. CASE hist' = [hist EXCEPT ![d] = @ \cup {"coalesced"}] /\ PassedKey(k)
            BY <3>1, <4>2, <5>1, <6>2, Zenon
          <6> QED
            BY <3>2, <6>1, <6>2, Zenon
        <5> QED
          BY <3>3, <5>2, Zenon
      <4> QED
        BY <4>1, <4>2, Zenon
    <3> QED
      BY <2>1, <3>4, <3>5, Zenon DEF BurstInv
  <2>3. ASSUME burst' = burst \/ \E h \in Hosts : Crash(h),
               \A d \in Deliveries : "passed" \in hist[d] => "passed" \in hist'[d],
               \A d \in Deliveries : "coalesced" \in hist'[d] => "coalesced" \in hist[d]
        PROVE  BurstInv'
    <3>1. \A h \in Hosts, k \in Keys : burst'[h][k] # Null => burst[h][k] # Null
      <4>1. CASE burst' = burst
        BY <4>1, Zenon
      <4>2. CASE \E h \in Hosts : Crash(h)
        <5>1. PICK h \in Hosts : Crash(h)
          BY <4>2, Zenon
        <5>2. burst \in [Hosts -> [Keys -> Times]]
          BY <2>1, Zenon DEF Typed, TypeOK
        <5>3. burst' = [burst EXCEPT ![h] = [k \in Keys |-> Null]]
          BY <5>1, Zenon DEF Crash
        <5>4. \A k \in Keys : burst'[h][k] = Null
          BY <5>2, <5>3, Zenon
        <5>5. \A g \in Hosts : g # h => burst'[g] = burst[g]
          BY <5>2, <5>3, Zenon
        <5> QED
          BY <5>4, <5>5, Zenon
      <4> QED
        BY <2>3, <4>1, <4>2, Zenon
    <3>2. \A k : PassedKey(k) => PassedKey(k)'
      BY <2>3, Zenon DEF PassedKey
    <3>3. \A h \in Hosts, k \in Keys : burst'[h][k] # Null => PassedKey(k)'
      BY <1>2, <3>1, <3>2, Zenon DEF BurstInv
    <3>4. CoalescedBehindPassed'
      BY <1>2, <2>3, Zenon DEF BurstInv, CoalescedBehindPassed
    <3> QED
      BY <2>1, <3>3, <3>4, Zenon DEF BurstInv
  <2>4. ASSUME NEW w \in Workers, Handle(w) PROVE BurstInv'
    <3>1. wk[w].d \in Deliveries /\ burst' = burst
      BY <2>1, <2>4, Zenon DEF Handle, Typed, TypeOK, WorkerOK
    <3>2. \E o \in {"ok", "failed"} : hist' = [hist EXCEPT ![wk[w].d] = @ \cup {o}]
      BY <2>4, Zenon DEF Handle
    <3>3. PICK o \in {"ok", "failed"} : hist' = [hist EXCEPT ![wk[w].d] = @ \cup {o}]
      BY <3>2, Zenon
    <3>4. hist \in [Deliveries -> SUBSET History]
      BY <2>1, Zenon DEF Typed, TypeOK
    <3>5. \A d \in Deliveries : hist'[d] = hist[d] \/ hist'[d] = hist[d] \cup {o}
      BY <3>3, <3>4, Zenon
    <3>6. o # "passed" /\ o # "coalesced"
      BY Zenon
    <3>7. /\ \A d \in Deliveries : "passed" \in hist[d] => "passed" \in hist'[d]
          /\ \A d \in Deliveries : "coalesced" \in hist'[d] => "coalesced" \in hist[d]
      BY <3>5, <3>6, Zenon
    <3> QED
      BY <2>3, <3>1, <3>7, Zenon
  <2>5. ASSUME hist' = hist, burst' = burst \/ \E h \in Hosts : Crash(h) PROVE BurstInv'
    BY <2>3, <2>5, Zenon
  <2> QED
    BY <1>2, <2>2, <2>4, <2>5, Zenon DEF WebhookNext, Step, Receive, ClaimInsert, ClaimUpdate,
       ClaimGet, Complete, FailGet, FailUpdate, StatementError, Crash, Tick, vars
<1>3. BurstInv => CoalescedBehindPassed
  BY Zenon DEF BurstInv
<1> QED
  BY <1>1, <1>2, <1>3, PTL DEF WebhookSpec

\* The keys a burst map has an entry for.
Present(e) == {k \in Keys : e[k] # Null}

MapsFinite == \A h \in Hosts : IsFiniteSet(Present(burst[h]))

\* After a cleanup the map is within its limit, or every entry left is of the
\* window: above the limit, cleanup stops early only when the limit is met.
LEMMA CleanupBounds ==
  ASSUME now \in Nat, NEW entries \in [Keys -> Times], IsFiniteSet(Present(entries)),
         NEW e \in Cleanup(entries)
  PROVE  /\ IsFiniteSet(Present(e))
         /\ Cardinality(Present(e)) > MaxEntries => \A k \in Present(e) : now - e[k] <= Window
<1> DEFINE present == Present(entries)
           older(age) == {k \in present : now - entries[k] > age}
           drop(S) == [k \in Keys |-> IF k \in S THEN Null ELSE entries[k]]
           spare == Cardinality(present \ older(Window))
<1>1. \A k \in Keys : e[k] # Null => e[k] = entries[k]
  BY CleanupDrops, Zenon
<1>2. Present(e) \in SUBSET present
  BY <1>1, Zenon DEF Present
<1>3. IsFiniteSet(Present(e)) /\ Cardinality(Present(e)) <= Cardinality(present)
  BY <1>2, FS_Subset, Zenon
<1>4. CASE Cardinality(present) <= MaxEntries
  <2>1. Cardinality(present) \in Nat /\ Cardinality(Present(e)) \in Nat /\ MaxEntries \in Nat
    BY <1>3, FS_CardinalityType, ConstantsAssumption, Zenon
  <2>2. ~(Cardinality(Present(e)) > MaxEntries)
    BY <1>3, <1>4, <2>1
  <2> QED
    BY <1>3, <2>2, Zenon
<1>5. CASE ~(Cardinality(present) <= MaxEntries)
  <2>1. PICK T \in SUBSET older(Window) :
           /\ e = drop(T)
           /\ Cardinality(present \ T) = IF spare > MaxEntries THEN spare ELSE MaxEntries
    BY <1>5, Zenon DEF Cleanup, Present
  <2>2. Present(e) = present \ T
    BY <2>1, Zenon DEF Present
  <2>3. ASSUME Cardinality(Present(e)) > MaxEntries, NEW k \in Present(e)
        PROVE  now - e[k] <= Window
    <3>1. Cardinality(present \ T) = spare
      <4>1. Cardinality(present \ T) > MaxEntries
        BY <2>2, <2>3, Zenon
      <4>2. ~(MaxEntries > MaxEntries)
        BY ConstantsAssumption
      <4> QED
        BY <2>1, <4>1, <4>2, Zenon
    <3>2. present \ older(Window) \in SUBSET (present \ T)
      BY <2>1, Zenon
    <3>3. present \ T = present \ older(Window)
      BY <1>3, <2>2, <3>1, <3>2, FS_Subset, Zenon
    <3>4. k \in present /\ ~(now - entries[k] > Window) /\ e[k] = entries[k]
      BY <1>1, <2>2, <2>3, <3>3, Zenon DEF Present
    <3>5. entries[k] \in Int /\ Window \in Int
      BY <3>4, ConstantsAssumption DEF Present, Times, Null
    <3> QED
      BY <3>4, <3>5
  <2> QED
    BY <1>3, <2>3, Zenon
<1> QED
  BY <1>4, <1>5, Zenon

\* A host that restarts has an empty map.
LEMMA EmptyBounds ==
  ASSUME NEW e, \A k \in Keys : e[k] = Null
  PROVE  IsFiniteSet(Present(e)) /\ ~(Cardinality(Present(e)) > MaxEntries)
<1>1. Present(e) = {}
  BY Zenon DEF Present
<1>2. IsFiniteSet(Present(e)) /\ Cardinality(Present(e)) = 0
  BY <1>1, FS_EmptySet, Zenon
<1> QED
  BY <1>2, ConstantsAssumption

\* One host's map at a time is written, by Allow or by a restart.
LEMMA OneMapWritten ==
  ASSUME Typed, MapsFinite, [WebhookNext]_vars
  PROVE  \/ burst' = burst
         \/ \E h \in Hosts : \E e :
              /\ burst' = [burst EXCEPT ![h] = e]
              /\ IsFiniteSet(Present(e))
              /\ Cardinality(Present(e)) > MaxEntries => \A k \in Present(e) : now - e[k] <= Window
<1>1. ASSUME NEW w \in Workers, BurstAllow(w), burst' # burst
      PROVE  \E h \in Hosts : \E e :
               /\ burst' = [burst EXCEPT ![h] = e]
               /\ IsFiniteSet(Present(e))
               /\ Cardinality(Present(e)) > MaxEntries => \A k \in Present(e) : now - e[k] <= Window
  <2> DEFINE h == HostOf[w]
             k == BurstKey[wk[w].d]
             entries == [burst[h] EXCEPT ![k] = now]
  <2>1. wk[w].d \in Deliveries /\ h \in Hosts
    BY <1>1, ConstantsAssumption, Zenon DEF BurstAllow, Typed, TypeOK, WorkerOK
  <2>2. k \in Keys
    BY <1>1, <2>1, ConstantsAssumption, Zenon DEF BurstAllow
  <2>3. PICK e \in Cleanup(entries) : burst' = [burst EXCEPT ![h] = e]
    BY <1>1, Zenon DEF BurstAllow
  <2>4. burst[h] \in [Keys -> Times] /\ now \in Nat
    BY <2>1, Zenon DEF Typed, TypeOK
  <2>5. entries \in [Keys -> Times]
    BY <2>2, <2>4, Zenon DEF Times
  <2>6. now # Null
    BY <2>4 DEF Null
  <2>7. Present(entries) = Present(burst[h]) \cup {k}
    BY <2>2, <2>4, <2>6, Zenon DEF Present
  <2>8. IsFiniteSet(Present(entries))
    BY <2>1, <2>7, FS_AddElement, Zenon DEF MapsFinite
  <2> HIDE DEF entries
  <2>9. /\ IsFiniteSet(Present(e))
        /\ Cardinality(Present(e)) > MaxEntries => \A x \in Present(e) : now - e[x] <= Window
    BY <2>4, <2>5, <2>8, CleanupBounds, Zenon
  <2> QED
    BY <2>1, <2>3, <2>9, Zenon
<1>2. ASSUME NEW h \in Hosts, Crash(h)
      PROVE  \E e : /\ burst' = [burst EXCEPT ![h] = e]
                    /\ IsFiniteSet(Present(e)) /\ ~(Cardinality(Present(e)) > MaxEntries)
  <2> DEFINE e == [k \in Keys |-> Null]
  <2>1. burst' = [burst EXCEPT ![h] = e]
    BY <1>2, Zenon DEF Crash
  <2>2. IsFiniteSet(Present(e)) /\ ~(Cardinality(Present(e)) > MaxEntries)
    BY EmptyBounds, Zenon
  <2> QED
    BY <2>1, <2>2, Zenon
<1> QED
  BY <1>1, <1>2, Zenon DEF WebhookNext, Step, Receive, ClaimInsert, ClaimUpdate, ClaimGet, Handle,
     Complete, FailGet, FailUpdate, StatementError, Tick, vars

\* The burst map of a host exceeds MaxEntries after a call of Allow only while
\* every key in it was seen within the window, whatever the map order in which
\* cleanup drops entries and whenever a host restarts.
THEOREM OverflowInsideWindow == WebhookSpec => OverflowOnlyInsideWindow
<1> DEFINE Bounded ==
             \A h \in Hosts :
               burst'[h] # burst[h] /\ Cardinality(Present(burst[h])') > MaxEntries
               => \A k \in Present(burst[h])' : now - burst'[h][k] <= Window
<1>1. WebhookInit => MapsFinite
  <2> SUFFICES ASSUME WebhookInit, NEW h \in Hosts PROVE IsFiniteSet(Present(burst[h]))
    BY Zenon DEF MapsFinite
  <2>1. \A k \in Keys : burst[h][k] = Null
    BY Zenon DEF WebhookInit
  <2> QED
    BY <2>1, EmptyBounds, Zenon
<1>2. ASSUME Typed, MapsFinite, [WebhookNext]_vars PROVE MapsFinite' /\ Bounded
  <2>1. CASE burst' = burst
    BY <1>2, <2>1, Zenon DEF MapsFinite, Present
  <2>2. ASSUME NEW h \in Hosts, NEW e, burst' = [burst EXCEPT ![h] = e], IsFiniteSet(Present(e)),
               Cardinality(Present(e)) > MaxEntries => \A k \in Present(e) : now - e[k] <= Window
        PROVE  MapsFinite' /\ Bounded
    <3>1. \A g \in Hosts : burst'[g] = IF g = h THEN e ELSE burst[g]
      BY <1>2, <2>2, Zenon DEF Typed, TypeOK
    <3>2. \A g \in Hosts : Present(burst[g])' = IF g = h THEN Present(e) ELSE Present(burst[g])
      BY <3>1, Zenon DEF Present
    <3> QED
      BY <1>2, <2>2, <3>1, <3>2, Zenon DEF MapsFinite
  <2> QED
    BY <1>2, <2>1, <2>2, OneMapWritten, Zenon
<1>3. Bounded => \A h \in Hosts :
          LET present == {k \in Keys : burst'[h][k] # Null} IN
          burst'[h] # burst[h] /\ Cardinality(present) > MaxEntries
          => \A k \in present : now - burst'[h][k] <= Window
  BY Zenon DEF Present
<1> HIDE DEF Bounded
<1> QED
  BY <1>1, <1>2, <1>3, TypedInductive, PTL DEF WebhookSpec, OverflowOnlyInsideWindow
=============================================================================
