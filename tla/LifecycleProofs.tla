-------------------------- MODULE LifecycleProofs ---------------------------
(***************************************************************************)
(* Proofs about the lifecycle outbox (LifecycleOutbox) and the activity    *)
(* sink and store (ActivitySink), for any events, dispatchers, recipients, *)
(* projectors and limits.                                                  *)
(***************************************************************************)
EXTENDS LifecycleOutbox, ActivitySink, FiniteSetTheorems, TLAPS

-----------------------------------------------------------------------------
(* The lifecycle outbox.                                                   *)

\* The i-th projector is through with event e.
Done(i, e) ==
    /\ Projectors[i] = "activity" => e \in activity
    /\ Projectors[i] = "notify" => \A r \in Recipients : Seen(e, r)

\* What the locals d of a dispatcher have in common at each place of the code.
Shape(d) ==
    /\ d.cur = None <=> d.pc \in {"idle", "pick"}
    /\ d.cur \notin d.batch
    /\ d.pc = "idle" => d.batch = {}
    /\ d.pc \in {"project", "notify", "send", "record", "ack"} =>
          d.idx \in 1..Len(Projectors)
    /\ d.pc \in {"notify", "send", "record"} => Projectors[d.idx] = "notify"
    /\ d.pc \in {"send", "record"} => d.rcpt \in Recipients

\* The projectors and the recipients that d has left behind are through.
Progress(d) ==
    /\ d.pc \in {"project", "notify", "send", "record"} =>
          \A i \in 1..(d.idx - 1) : Done(i, d.cur)
    /\ d.pc = "ack" => \A i \in 1..Len(Projectors) : Done(i, d.cur)
    /\ d.pc = "notify" => \A r \in Recipients \ d.todo : Seen(d.cur, r)
    /\ d.pc \in {"send", "record"} =>
          \A r \in Recipients \ (d.todo \cup {d.rcpt}) : Seen(d.cur, r)

\* From Seen to Record, nothing is recorded under the key.
Unrecorded(d) == d.pc \in {"send", "record"} => ~Seen(d.cur, d.rcpt)

\* The notification of d has been sent and is about to be recorded.
Unsettled(d, e, r) ==
    d.pc = "record" /\ d.sent = "sent" /\ d.cur = e /\ d.rcpt = r

\* A send beyond the faults is recorded, or is about to be.
SendsCounted ==
    \A e \in Events, r \in Recipients :
        /\ sends[e][r] <= 1 + faults
        /\ \/ Seen(e, r)
           \/ \E x \in Dispatchers : Unsettled(dp[x], e, r)
           \/ sends[e][r] <= faults

\* The inductive invariant.
IInv ==
    /\ TypeOK
    /\ SingleOwner
    /\ FailedAtMaxAttempts
    /\ DeliveredWasProjected
    /\ SendsCounted
    /\ \A x \in Dispatchers : Shape(dp[x]) /\ Progress(dp[x]) /\ Unrecorded(dp[x])

-----------------------------------------------------------------------------
\* The locals of a dispatcher that is not running.
LEMMA IdleLocals ==
    /\ Idle \in Locals /\ Idle.pc = "idle" /\ Idle.cur = None /\ Idle.batch = {}
    /\ Shape(Idle) /\ Progress(Idle) /\ Unrecorded(Idle)
<1>1. Idle \in Locals /\ Idle.pc = "idle" /\ Idle.cur = None /\ Idle.batch = {}
  BY Zenon DEF Idle, Locals, PCs
<1>. QED  BY <1>1, Zenon DEF Shape, Progress, Unrecorded

\* The invariant holds before anything is enqueued.
LEMMA InitIInv == OutboxInit => IInv
<1>. SUFFICES ASSUME OutboxInit PROVE IInv
  BY Zenon
<1>0. \A x \in Dispatchers : dp[x] = Idle
  BY Zenon DEF OutboxInit
<1>1. TypeOK
  <2>1. row \in [Events -> Row]
    BY Zenon DEF OutboxInit, NoRow, Row, Statuses
  <2>2. dp \in [Dispatchers -> Locals]
    BY IdleLocals, Zenon DEF OutboxInit
  <2>. QED  BY <2>1, <2>2, Zenon DEF OutboxInit, TypeOK
<1>2. \A e \in Events : row[e].status = "none"
  BY Zenon DEF OutboxInit, NoRow
<1>3. SingleOwner
  BY <1>0, IdleLocals, OutboxAssumption, Zenon DEF SingleOwner, Held
<1>4. FailedAtMaxAttempts /\ DeliveredWasProjected
  BY <1>2, Zenon DEF FailedAtMaxAttempts, DeliveredWasProjected
<1>5. SendsCounted
  BY DEF OutboxInit, SendsCounted
<1>. QED  BY <1>0, <1>1, <1>3, <1>4, <1>5, IdleLocals, Zenon DEF IInv

-----------------------------------------------------------------------------
\* Locals l claim no event that x does not hold, and keep its copied attempts.
Keeps(x, l) ==
    \A e \in Events :
        e \in l.batch \/ l.cur = e => Held(x, e) /\ l.snap[e] = dp[x].snap[e]

\* Rows of events that x does not hold any more may change, and the others stay.
Settles(x, l) ==
    \A e \in Events :
        row'[e] = row[e] \/ (Held(x, e) /\ ~(e \in l.batch \/ l.cur = e))

\* A step that gives x the locals l, and nobody else anything new.
LEMMA GotoEffect ==
    ASSUME TypeOK, NEW x \in Dispatchers, NEW l \in Locals, Goto(x, l)
    PROVE  /\ dp' \in [Dispatchers -> Locals]
           /\ dp'[x] = l
           /\ \A y \in Dispatchers \ {x} : dp'[y] = dp[y]
BY Zenon DEF Goto, TypeOK

\* A dispatcher that claims nothing new, and writes only what it lets go of,
\* leaves every claimed event with its one owner.
LEMMA OwnersKept ==
    ASSUME IInv, NEW x \in Dispatchers, NEW l \in Locals, Goto(x, l),
           Keeps(x, l), Settles(x, l)
    PROVE  SingleOwner'
<1>1. TypeOK
  BY Zenon DEF IInv
<1>2. /\ dp'[x] = l
      /\ \A y \in Dispatchers \ {x} : dp'[y] = dp[y]
  BY <1>1, GotoEffect, Zenon
<1>3. SUFFICES ASSUME NEW y \in Dispatchers, NEW e \in Events, Held(y, e)'
               PROVE  /\ row'[e].status = "processing"
                      /\ dp'[y].snap[e] = row'[e].attempts
                      /\ \A z \in Dispatchers \ {y} : ~Held(z, e)'
  BY Zenon DEF SingleOwner
<1>4. Held(y, e) /\ dp'[y].snap[e] = dp[y].snap[e]
  BY <1>2, <1>3, Zenon DEF Held, Keeps
<1>5. /\ row[e].status = "processing"
      /\ dp[y].snap[e] = row[e].attempts
      /\ \A z \in Dispatchers \ {y} : ~Held(z, e)
  BY <1>4, Zenon DEF IInv, SingleOwner
<1>6. row'[e] = row[e]
  <2>1. CASE y = x
    BY <1>2, <1>3, <2>1, Zenon DEF Held, Settles
  <2>2. CASE y # x
    BY <1>5, <2>2, Zenon DEF Settles
  <2>. QED  BY <2>1, <2>2, Zenon
<1>7. ASSUME NEW z \in Dispatchers \ {y} PROVE ~Held(z, e)'
  <2>1. CASE z = x
    BY <1>2, <1>5, <2>1, Zenon DEF Held, Keeps
  <2>2. CASE z # x
    BY <1>2, <1>5, <2>2, Zenon DEF Held
  <2>. QED  BY <2>1, <2>2, Zenon
<1>. QED  BY <1>4, <1>5, <1>6, <1>7, Zenon

\* Entries and ledger rows are only added, and ledger rows only for events x
\* holds: what another dispatcher has behind it stays done, and what it is about
\* to record stays unrecorded.
LEMMA OthersKept ==
    ASSUME IInv, NEW x \in Dispatchers, NEW y \in Dispatchers \ {x},
           dp'[y] = dp[y],
           activity \subseteq activity',
           \A e \in Events, r \in Recipients : Seen(e, r) => Seen(e, r)',
           \A e \in Events, r \in Recipients :
               Seen(e, r)' => Seen(e, r) \/ Held(x, e)
    PROVE  Shape(dp[y])' /\ Progress(dp[y])' /\ Unrecorded(dp[y])'
<1>1. Shape(dp[y]) /\ Progress(dp[y]) /\ Unrecorded(dp[y])
  BY Zenon DEF IInv
<1>2. dp[y] \in Locals
  BY Zenon DEF IInv, TypeOK
<1>3. dp[y].pc \notin {"idle", "pick"} => dp[y].cur \in Events
  BY <1>1, <1>2, Zenon DEF Shape, Locals
<1>4. \A i : dp[y].cur \in Events /\ Done(i, dp[y].cur) => Done(i, dp[y].cur)'
  BY Zenon DEF Done
<1>5. Shape(dp[y])'
  BY <1>1, Zenon DEF Shape
<1>6. Progress(dp[y])'
  <2>1. dp[y].pc \in {"project", "notify", "send", "record"} =>
            \A i \in 1..(dp[y].idx - 1) : Done(i, dp[y].cur)'
    BY <1>1, <1>3, <1>4, Zenon DEF Progress
  <2>2. dp[y].pc = "ack" => \A i \in 1..Len(Projectors) : Done(i, dp[y].cur)'
    BY <1>1, <1>3, <1>4, Zenon DEF Progress
  <2>3. dp[y].pc = "notify" =>
            \A r \in Recipients \ dp[y].todo : Seen(dp[y].cur, r)'
    BY <1>1, <1>3, Zenon DEF Progress
  <2>4. dp[y].pc \in {"send", "record"} =>
            \A r \in Recipients \ (dp[y].todo \cup {dp[y].rcpt}) : Seen(dp[y].cur, r)'
    BY <1>1, <1>3, Zenon DEF Progress
  <2>. QED  BY <2>1, <2>2, <2>3, <2>4, Zenon DEF Progress
<1>7. Unrecorded(dp[y])'
  <2>1. SUFFICES ASSUME dp[y].pc \in {"send", "record"}
                 PROVE  ~Seen(dp[y].cur, dp[y].rcpt)'
    BY Zenon DEF Unrecorded
  <2>2. dp[y].cur \in Events /\ dp[y].rcpt \in Recipients
    BY <1>1, <1>3, <2>1, Zenon DEF Shape
  <2>3. ~Seen(dp[y].cur, dp[y].rcpt)
    BY <1>1, <2>1, Zenon DEF Unrecorded
  <2>4. ~Held(x, dp[y].cur)
    BY <2>2, Zenon DEF IInv, SingleOwner, Held
  <2>. QED  BY <2>2, <2>3, <2>4, Zenon
<1>. QED  BY <1>5, <1>6, <1>7, Zenon

\* A step of x that writes nothing but its own locals, and possibly loses a
\* notification it has sent at the price of a fault.
LEMMA Moves ==
    ASSUME IInv, NEW x \in Dispatchers, NEW l \in Locals, Goto(x, l),
           Shape(l), Progress(l), Unrecorded(l), Keeps(x, l),
           UNCHANGED <<row, activity, ledger, sends>>,
           faults' \in Nat, faults' >= faults,
           dp[x].pc = "record" => faults' > faults
    PROVE  IInv'
<1>1. TypeOK
  BY Zenon DEF IInv
<1>2. /\ dp' \in [Dispatchers -> Locals]
      /\ dp'[x] = l
      /\ \A y \in Dispatchers \ {x} : dp'[y] = dp[y]
  BY <1>1, GotoEffect, Zenon
<1>3. TypeOK'
  BY <1>1, <1>2, Zenon DEF TypeOK
<1>4. SingleOwner'
  BY OwnersKept, Zenon DEF Settles
<1>5. FailedAtMaxAttempts'
  BY Zenon DEF IInv, FailedAtMaxAttempts
<1>6. DeliveredWasProjected'
  BY Zenon DEF IInv, DeliveredWasProjected, Seen
<1>7. SendsCounted'
  <2>1. SUFFICES ASSUME NEW e \in Events, NEW r \in Recipients
                 PROVE  /\ sends[e][r] <= 1 + faults'
                        /\ \/ Seen(e, r)
                           \/ \E y \in Dispatchers : Unsettled(dp'[y], e, r)
                           \/ sends[e][r] <= faults'
    BY Zenon DEF SendsCounted, Seen, Unsettled
  <2>2. /\ sends[e][r] <= 1 + faults
        /\ \/ Seen(e, r)
           \/ \E y \in Dispatchers : Unsettled(dp[y], e, r)
           \/ sends[e][r] <= faults
    BY Zenon DEF IInv, SendsCounted
  <2>3. sends[e][r] \in Nat /\ faults \in Nat
    BY <1>1, Zenon DEF TypeOK
  <2>4. CASE dp[x].pc = "record"
    BY <2>2, <2>3, <2>4
  <2>5. CASE dp[x].pc # "record"
    <3>1. ASSUME NEW y \in Dispatchers, Unsettled(dp[y], e, r)
          PROVE  Unsettled(dp'[y], e, r)
      BY <1>2, <2>5, <3>1, Zenon DEF Unsettled
    <3>. QED  BY <2>2, <2>3, <3>1
  <2>. QED  BY <2>4, <2>5, Zenon
<1>8. ASSUME NEW y \in Dispatchers
      PROVE  Shape(dp[y])' /\ Progress(dp[y])' /\ Unrecorded(dp[y])'
  <2>1. CASE y = x
    BY <1>2, <2>1, Zenon DEF Shape, Progress, Unrecorded, Done, Seen
  <2>2. CASE y # x
    <3>1. \A e \in Events, r \in Recipients : Seen(e, r)' <=> Seen(e, r)
      BY Zenon DEF Seen
    <3>. QED  BY <1>2, <2>2, <3>1, OthersKept, Zenon
  <2>. QED  BY <2>1, <2>2, Zenon
<1>. QED  BY <1>3, <1>4, <1>5, <1>6, <1>7, <1>8, Zenon DEF IInv

-----------------------------------------------------------------------------
\* Giving up on the current event, with Retry still to come.
LEMMA Failing ==
    ASSUME IInv, NEW x \in Dispatchers, HandlerFailed(x),
           dp[x].pc \notin {"idle", "pick"}
    PROVE  \E l \in Locals :
               /\ Goto(x, l)
               /\ l.pc = "retry"
               /\ Shape(l) /\ Keeps(x, l)
<1>. DEFINE l == [dp[x] EXCEPT !.pc = "retry", !.todo = {}, !.rcpt = None]
<1>1. dp[x] \in Locals /\ Shape(dp[x])
  BY Zenon DEF IInv, TypeOK
<1>2. l \in Locals
  BY <1>1, Zenon DEF Locals, PCs
<1>3. /\ l.pc = "retry" /\ l.cur = dp[x].cur
      /\ l.batch = dp[x].batch /\ l.snap = dp[x].snap
  BY <1>1, Zenon DEF Locals
<1>4. Goto(x, l)
  BY Zenon DEF HandlerFailed
<1>. HIDE DEF l
<1>5. Shape(l) /\ Keeps(x, l)
  BY <1>1, <1>3, Zenon DEF Shape, Keeps, Held
<1>. QED  BY <1>2, <1>3, <1>4, <1>5, Zenon

\* A failed handler, a failed Ledger.Record and the rest of a handler's errors.
LEMMA FailedPreserves ==
    ASSUME IInv, NEW x \in Dispatchers, HandlerFailed(x),
           dp[x].pc \notin {"idle", "pick"},
           UNCHANGED <<row, activity, ledger, sends>>,
           faults' \in Nat, faults' >= faults,
           dp[x].pc = "record" => faults' > faults
    PROVE  IInv'
<1>1. PICK l \in Locals :
          Goto(x, l) /\ l.pc = "retry" /\ Shape(l) /\ Keeps(x, l)
  BY Failing, Zenon
<1>2. Progress(l) /\ Unrecorded(l)
  BY <1>1, Zenon DEF Progress, Unrecorded
<1>. QED  BY <1>1, <1>2, Moves, Zenon

\* Going on with the next event of the batch.
LEMMA GoingOn ==
    ASSUME IInv, NEW x \in Dispatchers, NextEvent(x)
    PROVE  \E l \in Locals :
               /\ Goto(x, l)
               /\ l.pc \in {"idle", "pick"} /\ l.cur = None
               /\ l.batch = dp[x].batch
               /\ Shape(l) /\ Keeps(x, l)
<1>1. dp[x] \in Locals /\ Shape(dp[x])
  BY Zenon DEF IInv, TypeOK
<1>2. CASE dp[x].batch = {}
  <2>1. Goto(x, Idle)
    BY <1>2, Zenon DEF NextEvent
  <2>2. Keeps(x, Idle)
    BY IdleLocals, OutboxAssumption, Zenon DEF Keeps
  <2>. QED  BY <1>2, <2>1, <2>2, IdleLocals, Zenon
<1>3. CASE dp[x].batch # {}
  <2>. DEFINE l == [Idle EXCEPT !.pc = "pick", !.batch = dp[x].batch,
                                !.snap = dp[x].snap]
  <2>1. l \in Locals
    BY <1>1, IdleLocals, Zenon DEF Locals, PCs
  <2>2. /\ l.pc = "pick" /\ l.cur = None
        /\ l.batch = dp[x].batch /\ l.snap = dp[x].snap
    BY IdleLocals, Zenon DEF Locals
  <2>3. Goto(x, l)
    BY <1>3, Zenon DEF NextEvent
  <2>. HIDE DEF l
  <2>4. Shape(l) /\ Keeps(x, l)
    <3>1. dp[x].batch \subseteq Events
      BY <1>1, Zenon DEF Locals
    <3>. QED  BY <2>2, <3>1, OutboxAssumption, Zenon DEF Shape, Keeps, Held
  <2>. QED  BY <2>1, <2>2, <2>3, <2>4, Zenon
<1>. QED  BY <1>2, <1>3, Zenon

\* SettleError, RecordError and Crash.
LEMMA FaultPreserves ==
    ASSUME IInv, NEW x \in Dispatchers, Fault(x) PROVE IInv'
<1>0. faults' \in Nat /\ faults' > faults /\ faults' >= faults
  BY DEF Fault, IInv, TypeOK
<1>1. CASE SettleError(x)
  <2>1. PICK l \in Locals :
            /\ Goto(x, l)
            /\ l.pc \in {"idle", "pick"} /\ l.cur = None
            /\ l.batch = dp[x].batch
            /\ Shape(l) /\ Keeps(x, l)
    BY <1>1, GoingOn, Zenon DEF SettleError
  <2>2. Progress(l) /\ Unrecorded(l)
    BY <2>1, Zenon DEF Progress, Unrecorded
  <2>. QED  BY <1>0, <1>1, <2>1, <2>2, Moves, Zenon DEF SettleError
<1>2. CASE RecordError(x)
  BY <1>0, <1>2, FailedPreserves, Zenon DEF RecordError
<1>3. CASE Crash(x)
  <2>1. Keeps(x, Idle)
    BY IdleLocals, OutboxAssumption, Zenon DEF Keeps
  <2>. QED  BY <1>0, <1>3, <2>1, IdleLocals, Moves, Zenon DEF Crash
<1>. QED  BY <1>1, <1>2, <1>3, Zenon DEF Fault

\* The loop over the batch.
LEMMA PickPreserves ==
    ASSUME IInv, NEW x \in Dispatchers, Pick(x) PROVE IInv'
<1>1. PICK e \in dp[x].batch :
          Goto(x, [dp[x] EXCEPT
                      !.cur = e, !.batch = @ \ {e}, !.idx = 1,
                      !.pc = IF Len(Projectors) = 0 THEN "retry" ELSE "project"])
  BY Zenon DEF Pick
<1>2. dp[x] \in Locals /\ Shape(dp[x])
  BY Zenon DEF IInv, TypeOK
<1>3. dp[x].batch \in SUBSET Events /\ e \in Events
  BY <1>2, Zenon DEF Locals
<1>. DEFINE q == IF Len(Projectors) = 0 THEN "retry" ELSE "project"
            l == [dp[x] EXCEPT !.cur = e, !.batch = @ \ {e}, !.idx = 1, !.pc = q]
<1>4. q \in PCs /\ q \in {"retry", "project"} /\ (q = "project" => 1 \in 1..Len(Projectors))
  <2>1. Len(Projectors) \in Nat
    BY OutboxAssumption
  <2>. QED  BY <2>1 DEF PCs
<1>5. Goto(x, l)
  BY <1>1, Zenon
<1>. HIDE DEF q
<1>6. l \in Locals
  BY <1>2, <1>3, <1>4, Zenon DEF Locals
<1>7. /\ l.pc = q /\ l.cur = e /\ l.batch = dp[x].batch \ {e}
      /\ l.snap = dp[x].snap /\ l.idx = 1
  BY <1>2, Zenon DEF Locals
<1>. HIDE DEF l
<1>8. Shape(l)
  BY <1>3, <1>4, <1>7, OutboxAssumption, Zenon DEF Shape
<1>9. Progress(l) /\ Unrecorded(l)
  BY <1>4, <1>7 DEF Progress, Unrecorded
<1>10. Keeps(x, l)
  BY <1>7, Zenon DEF Keeps, Held
<1>11. dp[x].pc # "record" /\ faults' = faults /\ faults \in Nat
  BY Zenon DEF Pick, IInv, TypeOK
<1>12. UNCHANGED <<row, activity, ledger, sends>>
  BY Zenon DEF Pick
<1>. QED  BY <1>5, <1>6, <1>8, <1>9, <1>10, <1>11, <1>12, Moves

\* One more projector is through.
LEMMA HandledLocals ==
    ASSUME IInv, NEW x \in Dispatchers, HandlerDone(x),
           dp[x].pc \in {"project", "notify"}
    PROVE  \E l \in Locals :
               /\ Goto(x, l)
               /\ \/ l.pc = "project" /\ l.idx = dp[x].idx + 1
                  \/ l.pc = "ack" /\ dp[x].idx = Len(Projectors)
               /\ l.cur = dp[x].cur
               /\ Shape(l) /\ Keeps(x, l)
<1>1. dp[x] \in Locals /\ Shape(dp[x])
  BY Zenon DEF IInv, TypeOK
<1>2. /\ dp[x].idx \in 1..Len(Projectors) /\ Len(Projectors) \in Nat
      /\ dp[x].cur # None /\ dp[x].cur \notin dp[x].batch
  BY <1>1, OutboxAssumption DEF Shape
<1>3. CASE dp[x].idx < Len(Projectors)
  <2>. DEFINE l == [dp[x] EXCEPT !.pc = "project", !.idx = @ + 1]
  <2>1. Goto(x, l)
    BY <1>3, Zenon DEF HandlerDone
  <2>2. dp[x].idx + 1 \in Nat /\ dp[x].idx + 1 \in 1..Len(Projectors)
    BY <1>2, <1>3
  <2>3. l \in Locals
    BY <1>1, <2>2, Zenon DEF Locals, PCs
  <2>4. /\ l.pc = "project" /\ l.idx = dp[x].idx + 1 /\ l.cur = dp[x].cur
        /\ l.batch = dp[x].batch /\ l.snap = dp[x].snap
    BY <1>1, Zenon DEF Locals
  <2>. HIDE DEF l
  <2>5. Shape(l) /\ Keeps(x, l)
    BY <1>2, <2>2, <2>4, Zenon DEF Shape, Keeps, Held
  <2>. QED  BY <2>1, <2>3, <2>4, <2>5, Zenon
<1>4. CASE ~(dp[x].idx < Len(Projectors))
  <2>. DEFINE l == [dp[x] EXCEPT !.pc = "ack"]
  <2>1. Goto(x, l)
    BY <1>4, Zenon DEF HandlerDone
  <2>2. l \in Locals
    BY <1>1, Zenon DEF Locals, PCs
  <2>3. /\ l.pc = "ack" /\ l.idx = dp[x].idx /\ l.cur = dp[x].cur
        /\ l.batch = dp[x].batch /\ l.snap = dp[x].snap
    BY <1>1, Zenon DEF Locals
  <2>4. dp[x].idx = Len(Projectors)
    BY <1>2, <1>4
  <2>. HIDE DEF l
  <2>5. Shape(l) /\ Keeps(x, l)
    BY <1>2, <2>3, Zenon DEF Shape, Keeps, Held
  <2>. QED  BY <2>1, <2>2, <2>3, <2>4, <2>5, Zenon
<1>. QED  BY <1>3, <1>4, Zenon

\* The notifications projector begins, or its resolvers fail.
LEMMA ProjectNotifyPreserves ==
    ASSUME IInv, NEW x \in Dispatchers, ProjectNotify(x) PROVE IInv'
<1>1. /\ UNCHANGED <<row, activity, ledger, sends>>
      /\ dp[x].pc = "project" /\ faults' = faults /\ faults \in Nat
  BY Zenon DEF ProjectNotify, IInv, TypeOK
<1>2. CASE HandlerFailed(x)
  BY <1>1, <1>2, FailedPreserves
<1>3. CASE Goto(x, [dp[x] EXCEPT !.pc = "notify", !.todo = Recipients])
  <2>. DEFINE l == [dp[x] EXCEPT !.pc = "notify", !.todo = Recipients]
  <2>1. dp[x] \in Locals /\ Shape(dp[x]) /\ Progress(dp[x])
    BY Zenon DEF IInv, TypeOK
  <2>2. l \in Locals
    BY <2>1, Zenon DEF Locals, PCs
  <2>3. /\ l.pc = "notify" /\ l.todo = Recipients /\ l.idx = dp[x].idx
        /\ l.cur = dp[x].cur /\ l.batch = dp[x].batch /\ l.snap = dp[x].snap
    BY <2>1, Zenon DEF Locals
  <2>4. Goto(x, l)
    BY <1>3, Zenon
  <2>. HIDE DEF l
  <2>5. Shape(l)
    BY <1>1, <2>1, <2>3, Zenon DEF Shape, ProjectNotify
  <2>6. Progress(l) /\ Unrecorded(l)
    BY <1>1, <2>1, <2>3, Zenon DEF Progress, Unrecorded
  <2>7. Keeps(x, l)
    BY <2>3, Zenon DEF Keeps, Held
  <2>. QED  BY <1>1, <2>2, <2>4, <2>5, <2>6, <2>7, Moves
<1>. QED  BY <1>2, <1>3, Zenon DEF ProjectNotify

\* The loop over the recipients.
LEMMA NotifyNextPreserves ==
    ASSUME IInv, NEW x \in Dispatchers, NotifyNext(x) PROVE IInv'
<1>1. /\ UNCHANGED <<row, activity, ledger, sends>>
      /\ dp[x].pc = "notify" /\ faults' = faults /\ faults \in Nat
  BY Zenon DEF NotifyNext, IInv, TypeOK
<1>2. dp[x] \in Locals /\ Shape(dp[x]) /\ Progress(dp[x])
  BY Zenon DEF IInv, TypeOK
<1>3. CASE HandlerFailed(x)
  BY <1>1, <1>3, FailedPreserves
<1>4. CASE dp[x].todo = {} /\ HandlerDone(x)
  <2>1. PICK l \in Locals :
            /\ Goto(x, l)
            /\ \/ l.pc = "project" /\ l.idx = dp[x].idx + 1
               \/ l.pc = "ack" /\ dp[x].idx = Len(Projectors)
            /\ l.cur = dp[x].cur
            /\ Shape(l) /\ Keeps(x, l)
    BY <1>1, <1>4, HandledLocals, Zenon
  <2>2. dp[x].idx \in 1..Len(Projectors) /\ Projectors[dp[x].idx] = "notify"
    BY <1>1, <1>2, Zenon DEF Shape
  <2>3. Done(dp[x].idx, dp[x].cur)
    <3>1. \A r \in Recipients : Seen(dp[x].cur, r)
      BY <1>1, <1>2, <1>4, Zenon DEF Progress
    <3>. QED  BY <2>2, <3>1, Zenon DEF Done
  <2>4. \A i \in 1..dp[x].idx : Done(i, dp[x].cur)
    <3>1. \A i \in 1..(dp[x].idx - 1) : Done(i, dp[x].cur)
      BY <1>1, <1>2, Zenon DEF Progress
    <3>. QED  BY <2>2, <2>3, <3>1
  <2>5. Progress(l)
    <3>1. CASE l.pc = "project" /\ l.idx = dp[x].idx + 1
      <4>1. l.idx - 1 = dp[x].idx
        BY <2>2, <3>1
      <4>. QED  BY <2>1, <2>4, <3>1, <4>1, Zenon DEF Progress
    <3>2. CASE l.pc = "ack" /\ dp[x].idx = Len(Projectors)
      BY <2>1, <2>4, <3>2, Zenon DEF Progress
    <3>. QED  BY <2>1, <3>1, <3>2, Zenon
  <2>6. Unrecorded(l)
    BY <2>1, Zenon DEF Unrecorded
  <2>. QED  BY <1>1, <2>1, <2>5, <2>6, Moves
<1>5. ASSUME NEW r \in dp[x].todo, Seen(dp[x].cur, r),
             Goto(x, [dp[x] EXCEPT !.todo = @ \ {r}])
      PROVE  IInv'
  <2>. DEFINE l == [dp[x] EXCEPT !.todo = @ \ {r}]
  <2>1. l \in Locals
    BY <1>2, Zenon DEF Locals
  <2>2. /\ l.pc = dp[x].pc /\ l.todo = dp[x].todo \ {r} /\ l.idx = dp[x].idx
        /\ l.cur = dp[x].cur /\ l.batch = dp[x].batch /\ l.snap = dp[x].snap
    BY <1>2, Zenon DEF Locals
  <2>3. Goto(x, l)
    BY <1>5, Zenon
  <2>. HIDE DEF l
  <2>4. Shape(l) /\ Keeps(x, l)
    BY <1>1, <1>2, <2>2, Zenon DEF Shape, Keeps, Held
  <2>5. Progress(l) /\ Unrecorded(l)
    BY <1>1, <1>2, <1>5, <2>2, Zenon DEF Progress, Unrecorded
  <2>. QED  BY <1>1, <2>1, <2>3, <2>4, <2>5, Moves
<1>6. ASSUME NEW r \in dp[x].todo, ~Seen(dp[x].cur, r),
             Goto(x, [dp[x] EXCEPT !.pc = "send", !.rcpt = r, !.todo = @ \ {r}])
      PROVE  IInv'
  <2>. DEFINE l == [dp[x] EXCEPT !.pc = "send", !.rcpt = r, !.todo = @ \ {r}]
  <2>0. r \in Recipients
    BY <1>2, Zenon DEF Locals
  <2>1. l \in Locals
    BY <1>2, <2>0, Zenon DEF Locals, PCs
  <2>2. /\ l.pc = "send" /\ l.rcpt = r /\ l.todo = dp[x].todo \ {r}
        /\ l.idx = dp[x].idx
        /\ l.cur = dp[x].cur /\ l.batch = dp[x].batch /\ l.snap = dp[x].snap
    BY <1>2, Zenon DEF Locals
  <2>3. Goto(x, l)
    BY <1>6, Zenon
  <2>. HIDE DEF l
  <2>4. Shape(l) /\ Keeps(x, l)
    BY <1>1, <1>2, <2>0, <2>2, Zenon DEF Shape, Keeps, Held
  <2>5. Progress(l)
    BY <1>1, <1>2, <2>2, Zenon DEF Progress
  <2>6. Unrecorded(l)
    BY <1>6, <2>2, Zenon DEF Unrecorded
  <2>. QED  BY <1>1, <2>1, <2>3, <2>4, <2>5, <2>6, Moves
<1>7. \/ HandlerFailed(x)
      \/ dp[x].todo = {} /\ HandlerDone(x)
      \/ \E r \in dp[x].todo :
            \/ Seen(dp[x].cur, r) /\ Goto(x, [dp[x] EXCEPT !.todo = @ \ {r}])
            \/ /\ ~Seen(dp[x].cur, r)
               /\ Goto(x, [dp[x] EXCEPT !.pc = "send", !.rcpt = r, !.todo = @ \ {r}])
  BY Zenon DEF NotifyNext
<1>. QED  BY <1>3, <1>4, <1>5, <1>6, <1>7, Zenon

-----------------------------------------------------------------------------
\* The activity projector stores an entry, or fails.
LEMMA ProjectActivityPreserves ==
    ASSUME IInv, NEW x \in Dispatchers, ProjectActivity(x) PROVE IInv'
<1>1. /\ UNCHANGED <<row, ledger, sends, faults>>
      /\ dp[x].pc = "project" /\ Projectors[dp[x].idx] = "activity"
      /\ faults \in Nat /\ TypeOK
  BY Zenon DEF ProjectActivity, IInv, TypeOK
<1>2. dp[x] \in Locals /\ Shape(dp[x]) /\ Progress(dp[x])
  BY Zenon DEF IInv, TypeOK
<1>3. CASE HandlerFailed(x) /\ UNCHANGED activity
  BY <1>1, <1>3, FailedPreserves
<1>4. CASE HandlerDone(x) /\ activity' = activity \cup {dp[x].cur}
  <2>1. PICK l \in Locals :
            /\ Goto(x, l)
            /\ \/ l.pc = "project" /\ l.idx = dp[x].idx + 1
               \/ l.pc = "ack" /\ dp[x].idx = Len(Projectors)
            /\ l.cur = dp[x].cur
            /\ Shape(l) /\ Keeps(x, l)
    BY <1>1, <1>4, HandledLocals, Zenon
  <2>2. /\ dp' \in [Dispatchers -> Locals]
        /\ dp'[x] = l
        /\ \A y \in Dispatchers \ {x} : dp'[y] = dp[y]
    BY <1>1, <2>1, GotoEffect, Zenon
  <2>3. dp[x].cur \in Events /\ dp[x].idx \in 1..Len(Projectors)
    BY <1>1, <1>2, Zenon DEF Shape, Locals
  <2>4. TypeOK'
    BY <1>1, <1>4, <2>2, <2>3, Zenon DEF TypeOK
  <2>5. SingleOwner'
    BY <1>1, <2>1, OwnersKept, Zenon DEF Settles
  <2>6. FailedAtMaxAttempts'
    BY <1>1, Zenon DEF IInv, FailedAtMaxAttempts
  <2>7. DeliveredWasProjected'
    BY <1>1, <1>4, Zenon DEF IInv, DeliveredWasProjected, Seen
  <2>8. \A e \in Events, r \in Recipients : Seen(e, r)' <=> Seen(e, r)
    BY <1>1, Zenon DEF Seen
  <2>9. SendsCounted'
    <3>1. \A y \in Dispatchers, e \in Events, r \in Recipients :
              Unsettled(dp[y], e, r) => Unsettled(dp'[y], e, r)
      BY <1>1, <2>2, Zenon DEF Unsettled
    <3>2. SUFFICES ASSUME NEW e \in Events, NEW r \in Recipients
                   PROVE  /\ sends[e][r] <= 1 + faults
                          /\ \/ Seen(e, r)
                             \/ \E y \in Dispatchers : Unsettled(dp'[y], e, r)
                             \/ sends[e][r] <= faults
      BY <1>1, Zenon DEF SendsCounted, Seen, Unsettled
    <3>. QED  BY <3>1, Zenon DEF IInv, SendsCounted
  <2>10. Progress(dp[x])'
    <3>1. \A i \in 1..(dp[x].idx - 1) : Done(i, dp[x].cur)
      BY <1>1, <1>2, Zenon DEF Progress
    <3>2. \A i : Done(i, dp[x].cur) => Done(i, l.cur)'
      BY <1>1, <1>4, <2>1, Zenon DEF Done, Seen
    <3>3. \A i : i = dp[x].idx => Done(i, l.cur)'
      BY <1>1, <1>4, <2>1, Zenon DEF Done
    <3>4. \A i \in 1..dp[x].idx : Done(i, l.cur)'
      <4>. TAKE i \in 1..dp[x].idx
      <4>1. i \in 1..(dp[x].idx - 1) \/ i = dp[x].idx
        BY <2>3
      <4>. QED  BY <3>1, <3>2, <3>3, <4>1, Zenon
    <3>5. CASE l.pc = "project" /\ l.idx = dp[x].idx + 1
      <4>1. l.idx - 1 = dp[x].idx
        BY <2>3, <3>5
      <4>. QED  BY <2>2, <3>4, <3>5, <4>1, Zenon DEF Progress
    <3>6. CASE l.pc = "ack" /\ dp[x].idx = Len(Projectors)
      BY <2>2, <3>4, <3>6, Zenon DEF Progress
    <3>. QED  BY <2>1, <3>5, <3>6, Zenon
  <2>11. Shape(dp[x])' /\ Unrecorded(dp[x])'
    BY <2>1, <2>2, Zenon DEF Shape, Unrecorded
  <2>12. ASSUME NEW y \in Dispatchers
         PROVE  Shape(dp[y])' /\ Progress(dp[y])' /\ Unrecorded(dp[y])'
    <3>1. CASE y = x
      BY <2>10, <2>11, <3>1, Zenon
    <3>2. CASE y # x
      BY <1>4, <2>2, <2>8, <3>2, OthersKept, Zenon
    <3>. QED  BY <3>1, <3>2, Zenon
  <2>. QED  BY <2>4, <2>5, <2>6, <2>7, <2>9, <2>12, Zenon DEF IInv
<1>. QED  BY <1>3, <1>4, Zenon DEF ProjectActivity

\* The sender's answer.
LEMMA SendPreserves ==
    ASSUME IInv, NEW x \in Dispatchers, Send(x) PROVE IInv'
<1>1. /\ UNCHANGED <<row, activity, ledger, faults>>
      /\ dp[x].pc = "send" /\ faults \in Nat /\ TypeOK
  BY Zenon DEF Send, IInv, TypeOK
<1>2. dp[x] \in Locals /\ Shape(dp[x]) /\ Progress(dp[x]) /\ Unrecorded(dp[x])
  BY Zenon DEF IInv, TypeOK
<1>3. ASSUME NEW v \in {"sent", "failed"}
      PROVE  LET l == [dp[x] EXCEPT !.pc = "record", !.sent = v] IN
             /\ l \in Locals /\ l.pc = "record" /\ l.sent = v
             /\ l.cur = dp[x].cur /\ l.rcpt = dp[x].rcpt
             /\ Shape(l) /\ Progress(l) /\ Unrecorded(l) /\ Keeps(x, l)
  <2>. DEFINE l == [dp[x] EXCEPT !.pc = "record", !.sent = v]
  <2>1. l \in Locals
    BY <1>2, Zenon DEF Locals, PCs
  <2>2. /\ l.pc = "record" /\ l.sent = v /\ l.rcpt = dp[x].rcpt
        /\ l.todo = dp[x].todo /\ l.idx = dp[x].idx
        /\ l.cur = dp[x].cur /\ l.batch = dp[x].batch /\ l.snap = dp[x].snap
    BY <1>2, Zenon DEF Locals
  <2>. HIDE DEF l
  <2>3. Shape(l) /\ Keeps(x, l)
    BY <1>1, <1>2, <2>2, Zenon DEF Shape, Keeps, Held
  <2>4. Progress(l) /\ Unrecorded(l)
    BY <1>1, <1>2, <2>2, Zenon DEF Progress, Unrecorded
  <2>5. /\ l \in Locals /\ l.pc = "record" /\ l.sent = v
        /\ l.cur = dp[x].cur /\ l.rcpt = dp[x].rcpt
        /\ Shape(l) /\ Progress(l) /\ Unrecorded(l) /\ Keeps(x, l)
    BY <2>1, <2>2, <2>3, <2>4, Zenon
  <2>. QED  BY <2>5, Zenon DEF l
<1>4. CASE /\ Goto(x, [dp[x] EXCEPT !.pc = "record", !.sent = "failed"])
           /\ UNCHANGED sends
  <2>. DEFINE l == [dp[x] EXCEPT !.pc = "record", !.sent = "failed"]
  <2>1. /\ l \in Locals /\ Goto(x, l)
        /\ Shape(l) /\ Progress(l) /\ Unrecorded(l) /\ Keeps(x, l)
    BY <1>3, <1>4, Zenon
  <2>. HIDE DEF l
  <2>2. UNCHANGED <<row, activity, ledger, sends>>
    BY <1>1, <1>4, Zenon
  <2>3. faults' \in Nat /\ faults' >= faults /\ dp[x].pc # "record"
    BY <1>1
  <2>. QED  BY <2>1, <2>2, <2>3, Moves, Zenon
<1>5. CASE /\ Goto(x, [dp[x] EXCEPT !.pc = "record", !.sent = "sent"])
           /\ sends' = [sends EXCEPT ![dp[x].cur][dp[x].rcpt] = @ + 1]
  <2>. DEFINE l == [dp[x] EXCEPT !.pc = "record", !.sent = "sent"]
  <2>1. /\ l \in Locals /\ Goto(x, l) /\ l.pc = "record" /\ l.sent = "sent"
        /\ l.cur = dp[x].cur /\ l.rcpt = dp[x].rcpt
        /\ Shape(l) /\ Progress(l) /\ Unrecorded(l) /\ Keeps(x, l)
    BY <1>3, <1>5, Zenon
  <2>. HIDE DEF l
  <2>2. /\ dp' \in [Dispatchers -> Locals]
        /\ dp'[x] = l
        /\ \A y \in Dispatchers \ {x} : dp'[y] = dp[y]
    BY <1>1, <2>1, GotoEffect, Zenon
  <2>3. dp[x].cur \in Events /\ dp[x].rcpt \in Recipients
    BY <1>1, <1>2, Zenon DEF Shape, Locals
  <2>4. /\ sends' \in [Events -> [Recipients -> Nat]]
        /\ sends'[dp[x].cur][dp[x].rcpt] = sends[dp[x].cur][dp[x].rcpt] + 1
        /\ \A e \in Events, r \in Recipients :
              e # dp[x].cur \/ r # dp[x].rcpt => sends'[e][r] = sends[e][r]
    <3>1. sends' = [sends EXCEPT ![dp[x].cur][dp[x].rcpt] = @ + 1]
      BY <1>5, Zenon
    <3>2. sends \in [Events -> [Recipients -> Nat]]
      BY <1>1, Zenon DEF TypeOK
    <3>. QED  BY <2>3, <3>1, <3>2
  <2>5. TypeOK'
    BY <1>1, <2>2, <2>4, Zenon DEF TypeOK
  <2>6. SingleOwner'
    BY <1>1, <2>1, OwnersKept, Zenon DEF Settles
  <2>7. FailedAtMaxAttempts'
    BY <1>1, Zenon DEF IInv, FailedAtMaxAttempts
  <2>8. DeliveredWasProjected'
    BY <1>1, Zenon DEF IInv, DeliveredWasProjected, Seen
  <2>9. SendsCounted'
    <3>1. SUFFICES ASSUME NEW e \in Events, NEW r \in Recipients
                   PROVE  /\ sends'[e][r] <= 1 + faults
                          /\ \/ Seen(e, r)
                             \/ \E y \in Dispatchers : Unsettled(dp'[y], e, r)
                             \/ sends'[e][r] <= faults
      BY <1>1, Zenon DEF SendsCounted, Seen, Unsettled
    <3>2. /\ sends[e][r] <= 1 + faults
          /\ \/ Seen(e, r)
             \/ \E y \in Dispatchers : Unsettled(dp[y], e, r)
             \/ sends[e][r] <= faults
      BY Zenon DEF IInv, SendsCounted
    <3>3. CASE e = dp[x].cur /\ r = dp[x].rcpt
      <4>1. ~Seen(e, r)
        BY <1>1, <1>2, <3>3, Zenon DEF Unrecorded
      <4>2. \A y \in Dispatchers : ~Unsettled(dp[y], e, r)
        <5>. TAKE y \in Dispatchers
        <5>1. CASE y = x
          BY <1>1, <5>1, Zenon DEF Unsettled
        <5>2. CASE y # x
          BY <3>3, <5>2, Zenon DEF IInv, SingleOwner, Held, Unsettled
        <5>. QED  BY <5>1, <5>2, Zenon
      <4>3. sends[e][r] <= faults /\ sends[e][r] \in Nat
        BY <1>1, <3>2, <4>1, <4>2, Zenon DEF TypeOK
      <4>4. Unsettled(dp'[x], e, r)
        BY <2>1, <2>2, <3>3, Zenon DEF Unsettled
      <4>5. sends'[e][r] <= 1 + faults
        BY <1>1, <2>4, <3>3, <4>3
      <4>. QED  BY <4>4, <4>5, Zenon
    <3>4. CASE e # dp[x].cur \/ r # dp[x].rcpt
      <4>1. ASSUME NEW y \in Dispatchers, Unsettled(dp[y], e, r)
            PROVE  Unsettled(dp'[y], e, r)
        BY <1>1, <2>2, <4>1, Zenon DEF Unsettled
      <4>2. sends'[e][r] = sends[e][r]
        BY <2>4, <3>4, Zenon
      <4>. QED  BY <3>2, <4>1, <4>2, Zenon
    <3>. QED  BY <3>3, <3>4, Zenon
  <2>10. ASSUME NEW y \in Dispatchers
         PROVE  Shape(dp[y])' /\ Progress(dp[y])' /\ Unrecorded(dp[y])'
    <3>1. CASE y = x
      BY <1>1, <2>1, <2>2, <3>1, Zenon DEF Shape, Progress, Unrecorded, Done, Seen
    <3>2. CASE y # x
      <4>1. \A e \in Events, r \in Recipients : Seen(e, r)' <=> Seen(e, r)
        BY <1>1, Zenon DEF Seen
      <4>. QED  BY <1>1, <2>2, <3>2, <4>1, OthersKept, Zenon
    <3>. QED  BY <3>1, <3>2, Zenon
  <2>. QED  BY <2>5, <2>6, <2>7, <2>8, <2>9, <2>10, Zenon DEF IInv
<1>. QED  BY <1>4, <1>5, Zenon DEF Send

\* The ledger's row, and the handler's end when the send had failed.
LEMMA RecordPreserves ==
    ASSUME IInv, NEW x \in Dispatchers, Record(x) PROVE IInv'
<1>1. /\ UNCHANGED <<row, activity, sends, faults>>
      /\ dp[x].pc = "record" /\ faults \in Nat /\ TypeOK
  BY Zenon DEF Record, IInv, TypeOK
<1>2. dp[x] \in Locals /\ Shape(dp[x]) /\ Progress(dp[x]) /\ Unrecorded(dp[x])
  BY Zenon DEF IInv, TypeOK
<1>3. dp[x].cur \in Events /\ dp[x].rcpt \in Recipients /\ dp[x].sent \in {"sent", "failed"}
  BY <1>1, <1>2, Zenon DEF Shape, Locals
<1>4. /\ ledger' \in [Events -> [Recipients -> {"none", "sent", "failed"}]]
      /\ ledger'[dp[x].cur][dp[x].rcpt] = dp[x].sent
      /\ \A e \in Events, r \in Recipients :
            e # dp[x].cur \/ r # dp[x].rcpt => ledger'[e][r] = ledger[e][r]
  <2>1. ledger' = [ledger EXCEPT ![dp[x].cur][dp[x].rcpt] = dp[x].sent]
    BY <1>1, <1>2, Zenon DEF Record, Unrecorded
  <2>2. ledger \in [Events -> [Recipients -> {"none", "sent", "failed"}]]
    BY <1>1, Zenon DEF TypeOK
  <2>. QED  BY <1>3, <2>1, <2>2, Zenon
<1>5. /\ \A e \in Events, r \in Recipients : Seen(e, r) => Seen(e, r)'
      /\ \A e \in Events, r \in Recipients :
            Seen(e, r)' => Seen(e, r) \/ (e = dp[x].cur /\ r = dp[x].rcpt)
      /\ \A e \in Events, r \in Recipients :
            e = dp[x].cur /\ r = dp[x].rcpt => Seen(e, r)'
  BY <1>3, <1>4, Zenon DEF Seen
<1>6. \E l \in Locals :
          /\ Goto(x, l) /\ Shape(l) /\ Keeps(x, l)
          /\ \/ l.pc = "retry"
             \/ /\ l.pc = "notify" /\ l.cur = dp[x].cur
                /\ l.idx = dp[x].idx /\ l.todo = dp[x].todo
  <2>1. CASE dp[x].sent = "failed"
    BY <1>1, <2>1, Failing, Zenon DEF Record
  <2>2. CASE dp[x].sent # "failed"
    <3>. DEFINE l == [dp[x] EXCEPT !.pc = "notify", !.rcpt = None]
    <3>1. Goto(x, l)
      BY <2>2, Zenon DEF Record
    <3>2. l \in Locals
      BY <1>2, Zenon DEF Locals, PCs
    <3>3. /\ l.pc = "notify" /\ l.todo = dp[x].todo /\ l.idx = dp[x].idx
          /\ l.cur = dp[x].cur /\ l.batch = dp[x].batch /\ l.snap = dp[x].snap
      BY <1>2, Zenon DEF Locals
    <3>. HIDE DEF l
    <3>4. Shape(l) /\ Keeps(x, l)
      BY <1>1, <1>2, <3>3, Zenon DEF Shape, Keeps, Held
    <3>. QED  BY <3>1, <3>2, <3>3, <3>4, Zenon
  <2>. QED  BY <2>1, <2>2, Zenon
<1>7. PICK l \in Locals :
          /\ Goto(x, l) /\ Shape(l) /\ Keeps(x, l)
          /\ \/ l.pc = "retry"
             \/ /\ l.pc = "notify" /\ l.cur = dp[x].cur
                /\ l.idx = dp[x].idx /\ l.todo = dp[x].todo
  BY <1>6, Zenon
<1>8. /\ dp' \in [Dispatchers -> Locals]
      /\ dp'[x] = l
      /\ \A y \in Dispatchers \ {x} : dp'[y] = dp[y]
  BY <1>1, <1>7, GotoEffect, Zenon
<1>9. TypeOK'
  BY <1>1, <1>4, <1>8, Zenon DEF TypeOK
<1>10. SingleOwner'
  BY <1>1, <1>7, OwnersKept, Zenon DEF Settles
<1>11. FailedAtMaxAttempts'
  BY <1>1, Zenon DEF IInv, FailedAtMaxAttempts
<1>12. DeliveredWasProjected'
  BY <1>1, <1>5, Zenon DEF IInv, DeliveredWasProjected
<1>13. SendsCounted'
  <2>1. SUFFICES ASSUME NEW e \in Events, NEW r \in Recipients
                 PROVE  /\ sends[e][r] <= 1 + faults
                        /\ \/ Seen(e, r)'
                           \/ \E y \in Dispatchers : Unsettled(dp'[y], e, r)
                           \/ sends[e][r] <= faults
    BY <1>1, Zenon DEF SendsCounted, Unsettled
  <2>2. /\ sends[e][r] <= 1 + faults
        /\ \/ Seen(e, r)
           \/ \E y \in Dispatchers : Unsettled(dp[y], e, r)
           \/ sends[e][r] <= faults
    BY Zenon DEF IInv, SendsCounted
  <2>3. CASE e = dp[x].cur /\ r = dp[x].rcpt
    BY <1>5, <2>2, <2>3, Zenon
  <2>4. CASE e # dp[x].cur \/ r # dp[x].rcpt
    <3>1. ASSUME NEW y \in Dispatchers, Unsettled(dp[y], e, r)
          PROVE  Unsettled(dp'[y], e, r)
      BY <1>8, <2>4, <3>1, Zenon DEF Unsettled
    <3>. QED  BY <1>5, <2>2, <3>1, Zenon
  <2>. QED  BY <2>3, <2>4, Zenon
<1>14. Progress(dp[x])'
  <2>1. CASE l.pc = "retry"
    BY <1>8, <2>1, Zenon DEF Progress
  <2>2. CASE /\ l.pc = "notify" /\ l.cur = dp[x].cur
             /\ l.idx = dp[x].idx /\ l.todo = dp[x].todo
    <3>1. \A i \in 1..(dp[x].idx - 1) : Done(i, dp[x].cur)
      BY <1>1, <1>2, Zenon DEF Progress
    <3>2. \A i : Done(i, dp[x].cur) => Done(i, l.cur)'
      BY <1>1, <1>3, <1>5, <2>2, Zenon DEF Done
    <3>3. \A r \in Recipients \ l.todo : Seen(l.cur, r)'
      <4>. TAKE r \in Recipients \ l.todo
      <4>1. CASE r = dp[x].rcpt
        BY <1>3, <1>5, <2>2, <4>1, Zenon
      <4>2. CASE r # dp[x].rcpt
        <5>1. Seen(dp[x].cur, r)
          BY <1>1, <1>2, <2>2, <4>2, Zenon DEF Progress
        <5>. QED  BY <1>3, <1>5, <2>2, <5>1, Zenon
      <4>. QED  BY <4>1, <4>2, Zenon
    <3>4. \A i \in 1..(l.idx - 1) : Done(i, l.cur)'
      BY <2>2, <3>1, <3>2, Zenon
    <3>. QED  BY <1>8, <2>2, <3>3, <3>4, Zenon DEF Progress
  <2>. QED  BY <1>7, <2>1, <2>2, Zenon
<1>15. Shape(dp[x])' /\ Unrecorded(dp[x])'
  BY <1>7, <1>8, Zenon DEF Shape, Unrecorded
<1>16. ASSUME NEW y \in Dispatchers
       PROVE  Shape(dp[y])' /\ Progress(dp[y])' /\ Unrecorded(dp[y])'
  <2>1. CASE y = x
    BY <1>14, <1>15, <2>1, Zenon
  <2>2. CASE y # x
    <3>1. \A e \in Events, r \in Recipients :
              Seen(e, r)' => Seen(e, r) \/ Held(x, e)
      BY <1>5, Zenon DEF Held
    <3>2. activity \subseteq activity'
      BY <1>1, Zenon
    <3>. QED  BY <1>5, <1>8, <2>2, <3>1, <3>2, OthersKept, Zenon
  <2>. QED  BY <2>1, <2>2, Zenon
<1>. QED  BY <1>9, <1>10, <1>11, <1>12, <1>13, <1>16, Zenon DEF IInv

\* Ack and Retry: the row of the current event is written, and let go of.
LEMMA SettlePreserves ==
    ASSUME IInv, NEW x \in Dispatchers, NextEvent(x),
           dp[x].pc \in {"ack", "retry"},
           NEW r \in Row, row' = [row EXCEPT ![dp[x].cur] = r],
           r.status = "failed" => r.attempts = MaxAttempts,
           r.status \in {"pending", "processing"} => r.attempts < MaxAttempts,
           r.status = "delivered" => dp[x].pc = "ack",
           UNCHANGED <<activity, ledger, sends, faults>>
    PROVE  IInv'
<1>1. TypeOK /\ dp[x] \in Locals /\ Shape(dp[x]) /\ Progress(dp[x])
  BY Zenon DEF IInv, TypeOK
<1>2. dp[x].cur \in Events /\ dp[x].cur \notin dp[x].batch
  BY <1>1, Zenon DEF Shape, Locals
<1>3. PICK l \in Locals :
          /\ Goto(x, l)
          /\ l.pc \in {"idle", "pick"} /\ l.cur = None
          /\ l.batch = dp[x].batch
          /\ Shape(l) /\ Keeps(x, l)
  BY GoingOn, Zenon
<1>4. /\ dp' \in [Dispatchers -> Locals]
      /\ dp'[x] = l
      /\ \A y \in Dispatchers \ {x} : dp'[y] = dp[y]
  BY <1>1, <1>3, GotoEffect, Zenon
<1>5. /\ row' \in [Events -> Row] /\ row'[dp[x].cur] = r
      /\ \A e \in Events \ {dp[x].cur} : row'[e] = row[e]
  BY <1>1, <1>2, Zenon DEF TypeOK
<1>6. TypeOK'
  BY <1>1, <1>4, <1>5, Zenon DEF TypeOK
<1>7. Settles(x, l)
  BY <1>2, <1>3, <1>5, OutboxAssumption, Zenon DEF Settles, Held
<1>8. SingleOwner'
  BY <1>3, <1>7, OwnersKept, Zenon
<1>9. FailedAtMaxAttempts'
  <2>. SUFFICES ASSUME NEW e \in Events
                PROVE  /\ row'[e].status = "failed" => row'[e].attempts = MaxAttempts
                       /\ row'[e].status \in {"pending", "processing"} =>
                              row'[e].attempts < MaxAttempts
    BY Zenon DEF FailedAtMaxAttempts
  <2>1. CASE e = dp[x].cur
    BY <1>5, <2>1, Zenon
  <2>2. CASE e # dp[x].cur
    BY <1>5, <2>2, Zenon DEF IInv, FailedAtMaxAttempts
  <2>. QED  BY <2>1, <2>2, Zenon
<1>10. \A e \in Events, q \in Recipients : Seen(e, q)' <=> Seen(e, q)
  BY Zenon DEF Seen
<1>11. DeliveredWasProjected'
  <2>. SUFFICES ASSUME NEW e \in Events, row'[e].status = "delivered",
                       NEW i \in 1..Len(Projectors)
                PROVE  /\ Projectors[i] = "activity" => e \in activity
                       /\ Projectors[i] = "notify" => \A q \in Recipients : Seen(e, q)
    BY Zenon DEF DeliveredWasProjected, Seen
  <2>1. CASE e = dp[x].cur
    BY <1>1, <1>5, <2>1, Zenon DEF Progress, Done
  <2>2. CASE e # dp[x].cur
    BY <1>5, <2>2, Zenon DEF IInv, DeliveredWasProjected
  <2>. QED  BY <2>1, <2>2, Zenon
<1>12. SendsCounted'
  <2>1. \A y \in Dispatchers, e \in Events, q \in Recipients :
            Unsettled(dp[y], e, q) => Unsettled(dp'[y], e, q)
    BY <1>4, Zenon DEF Unsettled
  <2>2. SUFFICES ASSUME NEW e \in Events, NEW q \in Recipients
                 PROVE  /\ sends[e][q] <= 1 + faults
                        /\ \/ Seen(e, q)
                           \/ \E y \in Dispatchers : Unsettled(dp'[y], e, q)
                           \/ sends[e][q] <= faults
    BY Zenon DEF SendsCounted, Seen, Unsettled
  <2>. QED  BY <2>1, Zenon DEF IInv, SendsCounted
<1>13. ASSUME NEW y \in Dispatchers
       PROVE  Shape(dp[y])' /\ Progress(dp[y])' /\ Unrecorded(dp[y])'
  <2>1. CASE y = x
    BY <1>3, <1>4, <2>1, Zenon DEF Shape, Progress, Unrecorded
  <2>2. CASE y # x
    BY <1>4, <1>10, <2>2, OthersKept, Zenon
  <2>. QED  BY <2>1, <2>2, Zenon
<1>. QED  BY <1>6, <1>8, <1>9, <1>11, <1>12, <1>13, Zenon DEF IInv

\* Ack writes "delivered" once every projector is through.
LEMMA AckPreserves ==
    ASSUME IInv, NEW x \in Dispatchers, Ack(x) PROVE IInv'
<1>. DEFINE r == AckedRow(row[dp[x].cur])
<1>1. dp[x] \in Locals /\ Shape(dp[x]) /\ dp[x].pc = "ack"
  BY Zenon DEF IInv, TypeOK, Ack
<1>2. row[dp[x].cur] \in Row
  BY <1>1, Zenon DEF IInv, TypeOK, Shape, Locals
<1>3. r \in Row /\ r.status = "delivered"
  BY <1>2, Zenon DEF AckedRow, Row, Statuses
<1>4. row' = [row EXCEPT ![dp[x].cur] = r]
  BY Zenon DEF Ack
<1>. HIDE DEF r
<1>. QED  BY <1>1, <1>3, <1>4, SettlePreserves, Zenon DEF Ack

\* Retry counts the attempt that the claim copied, which is the row's.
LEMMA RetryPreserves ==
    ASSUME IInv, NEW x \in Dispatchers, Retry(x) PROVE IInv'
<1>. DEFINE r == RetriedRow(row[dp[x].cur], dp[x].snap[dp[x].cur])
<1>1. dp[x] \in Locals /\ Shape(dp[x]) /\ dp[x].pc = "retry"
  BY Zenon DEF IInv, TypeOK, Retry
<1>2. dp[x].cur \in Events /\ row[dp[x].cur] \in Row
  BY <1>1, Zenon DEF IInv, TypeOK, Shape, Locals
<1>3. /\ row[dp[x].cur].status = "processing"
      /\ dp[x].snap[dp[x].cur] = row[dp[x].cur].attempts
  BY <1>2, Zenon DEF IInv, SingleOwner, Held
<1>4. row[dp[x].cur].attempts \in Nat /\ row[dp[x].cur].attempts < MaxAttempts
  BY <1>2, <1>3, Zenon DEF IInv, FailedAtMaxAttempts, Row
<1>5. /\ r.status \in {"failed", "pending"}
      /\ r.status = "failed" <=> row[dp[x].cur].attempts + 1 >= MaxAttempts
      /\ r.attempts = row[dp[x].cur].attempts + 1
      /\ r \in Row
  <2>. DEFINE a == row[dp[x].cur].attempts
              s == IF a + 1 >= MaxAttempts THEN "failed" ELSE "pending"
  <2>1. r = [status |-> s, attempts |-> a + 1, due |-> FALSE]
    BY <1>3, Zenon DEF RetriedRow, Exhausted
  <2>2. /\ s \in {"failed", "pending"} /\ a + 1 \in Nat
        /\ s = "failed" <=> a + 1 >= MaxAttempts
    BY <1>4
  <2>. HIDE DEF r, s, a
  <2>3. r.status = s /\ r.attempts = a + 1 /\ r \in Row
    BY <2>1, <2>2, Zenon DEF Row, Statuses
  <2>. QED  BY <2>2, <2>3, Zenon DEF a
<1>6. row' = [row EXCEPT ![dp[x].cur] = r]
  BY Zenon DEF Retry
<1>. HIDE DEF r
<1>7. /\ r.status = "failed" => r.attempts = MaxAttempts
      /\ r.status \in {"pending", "processing"} => r.attempts < MaxAttempts
      /\ r.status # "delivered"
  <2>1. MaxAttempts \in Nat
    BY OutboxAssumption, Zenon
  <2>2. CASE r.status = "failed"
    BY <1>4, <1>5, <2>1, <2>2
  <2>3. CASE r.status = "pending"
    BY <1>4, <1>5, <2>1, <2>3
  <2>. QED  BY <1>5, <2>2, <2>3, Zenon
<1>. QED  BY <1>1, <1>5, <1>6, <1>7, SettlePreserves, Zenon DEF Retry

\* Only pending rows are claimed, and those nobody holds.
LEMMA ClaimBatchPreserves ==
    ASSUME IInv, NEW x \in Dispatchers, ClaimBatch(x) PROVE IInv'
<1>1. /\ TypeOK /\ dp[x] \in Locals /\ Shape(dp[x]) /\ dp[x].pc = "idle"
      /\ UNCHANGED <<activity, ledger, sends, faults>>
  BY Zenon DEF IInv, TypeOK, ClaimBatch
<1>2. PICK S \in Batches :
        /\ row' = [e \in Events |->
                    IF e \in S THEN [row[e] EXCEPT !.status = "processing"]
                               ELSE row[e]]
        /\ Goto(x, [Idle EXCEPT
                    !.pc = "pick", !.batch = S,
                    !.snap = [e \in Events |-> IF e \in S THEN row[e].attempts ELSE 0]])
  BY Zenon DEF ClaimBatch
<1>3. S \in SUBSET Events /\ \A e \in S : row[e].status = "pending"
  BY Zenon DEF Batches, Claimable
<1>. DEFINE n == [e \in Events |-> IF e \in S THEN row[e].attempts ELSE 0]
            l == [Idle EXCEPT !.pc = "pick", !.batch = S, !.snap = n]
<1>4. Goto(x, l)
  BY <1>2, Zenon
<1>5. n \in [Events -> Nat] /\ \A e \in S : n[e] = row[e].attempts
  BY <1>1, <1>3, Zenon DEF TypeOK, Row
<1>. HIDE DEF n
<1>6. l \in Locals
  BY <1>3, <1>5, IdleLocals, Zenon DEF Locals, PCs
<1>7. l.pc = "pick" /\ l.cur = None /\ l.batch = S /\ l.snap = n
  BY IdleLocals, Zenon DEF Locals
<1>. HIDE DEF l
<1>8. /\ dp' \in [Dispatchers -> Locals]
      /\ dp'[x] = l
      /\ \A y \in Dispatchers \ {x} : dp'[y] = dp[y]
  BY <1>1, <1>4, <1>6, GotoEffect, Zenon
<1>9. /\ row' \in [Events -> Row]
      /\ \A e \in S : row'[e].status = "processing" /\ row'[e].attempts = row[e].attempts
      /\ \A e \in Events \ S : row'[e] = row[e]
  <2>1. row' = [e \in Events |->
                    IF e \in S THEN [row[e] EXCEPT !.status = "processing"]
                               ELSE row[e]]
    BY <1>2, Zenon
  <2>2. \A e \in Events : [row[e] EXCEPT !.status = "processing"] \in Row
    BY <1>1, Zenon DEF TypeOK, Row, Statuses
  <2>3. \A e \in Events :
            /\ [row[e] EXCEPT !.status = "processing"].status = "processing"
            /\ [row[e] EXCEPT !.status = "processing"].attempts = row[e].attempts
    BY <1>1, Zenon DEF TypeOK, Row
  <2>4. \A e \in Events : row[e] \in Row
    BY <1>1, Zenon DEF TypeOK
  <2>. QED  BY <1>3, <2>1, <2>2, <2>3, <2>4, Zenon
<1>10. TypeOK'
  BY <1>1, <1>8, <1>9, Zenon DEF TypeOK
<1>11. SingleOwner'
  <2>1. \A y \in Dispatchers, e \in S : ~Held(y, e)
    BY <1>3, Zenon DEF IInv, SingleOwner
  <2>2. \A e \in Events : Held(x, e)' => e \in S
    BY <1>7, <1>8, OutboxAssumption, Zenon DEF Held
  <2>3. \A y \in Dispatchers \ {x}, e \in Events : Held(y, e)' <=> Held(y, e)
    BY <1>8, Zenon DEF Held
  <2>4. SUFFICES ASSUME NEW y \in Dispatchers, NEW e \in Events, Held(y, e)'
                 PROVE  /\ row'[e].status = "processing"
                        /\ dp'[y].snap[e] = row'[e].attempts
                        /\ \A z \in Dispatchers \ {y} : ~Held(z, e)'
    BY Zenon DEF SingleOwner
  <2>5. CASE y = x
    BY <1>5, <1>7, <1>8, <1>9, <2>1, <2>2, <2>3, <2>4, <2>5, Zenon
  <2>6. CASE y # x
    <3>1. Held(y, e) /\ e \notin S
      BY <2>1, <2>3, <2>4, <2>6, Zenon
    <3>2. row'[e] = row[e] /\ dp'[y] = dp[y]
      BY <1>8, <1>9, <2>6, <3>1, Zenon
    <3>3. /\ row[e].status = "processing"
          /\ dp[y].snap[e] = row[e].attempts
          /\ \A z \in Dispatchers \ {y} : ~Held(z, e)
      BY <3>1, Zenon DEF IInv, SingleOwner
    <3>. QED  BY <2>2, <2>3, <3>1, <3>2, <3>3, Zenon
  <2>. QED  BY <2>5, <2>6, Zenon
<1>12. FailedAtMaxAttempts'
  <2>. SUFFICES ASSUME NEW e \in Events
                PROVE  /\ row'[e].status = "failed" => row'[e].attempts = MaxAttempts
                       /\ row'[e].status \in {"pending", "processing"} =>
                              row'[e].attempts < MaxAttempts
    BY Zenon DEF FailedAtMaxAttempts
  <2>1. CASE e \in S
    BY <1>3, <1>9, <2>1, Zenon DEF IInv, FailedAtMaxAttempts
  <2>2. CASE e \notin S
    BY <1>9, <2>2, Zenon DEF IInv, FailedAtMaxAttempts
  <2>. QED  BY <2>1, <2>2, Zenon
<1>13. \A e \in Events, r \in Recipients : Seen(e, r)' <=> Seen(e, r)
  BY <1>1, Zenon DEF Seen
<1>14. DeliveredWasProjected'
  <2>1. \A e \in Events : row'[e].status = "delivered" => row[e].status = "delivered"
    BY <1>9, Zenon
  <2>. QED  BY <1>1, <1>13, <2>1, Zenon DEF IInv, DeliveredWasProjected
<1>15. SendsCounted'
  <2>1. \A y \in Dispatchers, e \in Events, r \in Recipients :
            Unsettled(dp[y], e, r) => Unsettled(dp'[y], e, r)
    BY <1>1, <1>8, Zenon DEF Unsettled
  <2>2. SUFFICES ASSUME NEW e \in Events, NEW r \in Recipients
                 PROVE  /\ sends[e][r] <= 1 + faults
                        /\ \/ Seen(e, r)
                           \/ \E y \in Dispatchers : Unsettled(dp'[y], e, r)
                           \/ sends[e][r] <= faults
    BY <1>1, Zenon DEF SendsCounted, Seen, Unsettled
  <2>. QED  BY <2>1, Zenon DEF IInv, SendsCounted
<1>16. ASSUME NEW y \in Dispatchers
       PROVE  Shape(dp[y])' /\ Progress(dp[y])' /\ Unrecorded(dp[y])'
  <2>1. CASE y = x
    BY <1>3, <1>7, <1>8, <2>1, OutboxAssumption, Zenon DEF Shape, Progress, Unrecorded
  <2>2. CASE y # x
    BY <1>1, <1>8, <1>13, <2>2, OthersKept, Zenon
  <2>. QED  BY <2>1, <2>2, Zenon
<1>. QED  BY <1>10, <1>11, <1>12, <1>14, <1>15, <1>16, Zenon DEF IInv

\* Enqueue and the clock: rows nobody holds.
LEMMA RowsPreserve ==
    ASSUME IInv, NEW e \in Events, Enqueue(e) \/ BecomesDue(e) PROVE IInv'
<1>1. TypeOK /\ UNCHANGED <<dp, activity, ledger, sends, faults>>
  BY Zenon DEF IInv, Enqueue, BecomesDue
<1>2. /\ row' \in [Events -> Row]
      /\ row[e].status \in {"none", "pending"} /\ row'[e].status = "pending"
      /\ row'[e].attempts < MaxAttempts
      /\ \A f \in Events \ {e} : row'[f] = row[f]
  <2>1. CASE Enqueue(e)
    BY <1>1, <2>1, OutboxAssumption DEF Enqueue, TypeOK, Row, Statuses
  <2>2. CASE BecomesDue(e)
    <3>1. row[e] \in Row /\ row[e].attempts < MaxAttempts
      BY <1>1, <2>2, Zenon DEF BecomesDue, IInv, FailedAtMaxAttempts, TypeOK
    <3>. QED  BY <1>1, <2>2, <3>1, Zenon DEF BecomesDue, TypeOK, Row, Statuses
  <2>. QED  BY <2>1, <2>2, Zenon
<1>3. TypeOK'
  BY <1>1, <1>2, Zenon DEF TypeOK
<1>4. SingleOwner'
  <2>1. \A y \in Dispatchers, f \in Events : Held(y, f)' <=> Held(y, f)
    BY <1>1, Zenon DEF Held
  <2>2. \A y \in Dispatchers : ~Held(y, e)
    BY <1>2, Zenon DEF IInv, SingleOwner
  <2>. QED  BY <1>1, <1>2, <2>1, <2>2 DEF IInv, SingleOwner
<1>5. FailedAtMaxAttempts'
  <2>. SUFFICES ASSUME NEW f \in Events
                PROVE  /\ row'[f].status = "failed" => row'[f].attempts = MaxAttempts
                       /\ row'[f].status \in {"pending", "processing"} =>
                              row'[f].attempts < MaxAttempts
    BY Zenon DEF FailedAtMaxAttempts
  <2>1. CASE f = e
    BY <1>2, <2>1, Zenon
  <2>2. CASE f # e
    BY <1>2, <2>2, Zenon DEF IInv, FailedAtMaxAttempts
  <2>. QED  BY <2>1, <2>2, Zenon
<1>6. DeliveredWasProjected'
  <2>1. \A f \in Events : row'[f].status = "delivered" => row[f].status = "delivered"
    BY <1>2, Zenon
  <2>. QED  BY <1>1, <2>1, Zenon DEF IInv, DeliveredWasProjected, Seen
<1>7. SendsCounted'
  BY <1>1, Zenon DEF IInv, SendsCounted, Seen, Unsettled
<1>8. ASSUME NEW y \in Dispatchers
      PROVE  Shape(dp[y])' /\ Progress(dp[y])' /\ Unrecorded(dp[y])'
  <2>1. Shape(dp[y]) /\ Progress(dp[y]) /\ Unrecorded(dp[y])
    BY Zenon DEF IInv
  <2>. QED  BY <1>1, <2>1, Zenon DEF Shape, Progress, Unrecorded, Done, Seen
<1>. QED  BY <1>3, <1>4, <1>5, <1>6, <1>7, <1>8, Zenon DEF IInv

-----------------------------------------------------------------------------
\* Every step of the outbox preserves the invariant.
LEMMA NextIInv == IInv /\ [OutboxNext]_vars => IInv'
<1>. SUFFICES ASSUME IInv, [OutboxNext]_vars PROVE IInv'
  BY Zenon
<1>1. ASSUME NEW e \in Events, Enqueue(e) \/ BecomesDue(e) PROVE IInv'
  BY <1>1, RowsPreserve, Zenon
<1>2. ASSUME NEW x \in Dispatchers, Work(x) PROVE IInv'
  BY <1>2, ClaimBatchPreserves, PickPreserves, ProjectActivityPreserves,
     ProjectNotifyPreserves, NotifyNextPreserves, SendPreserves,
     RecordPreserves, AckPreserves, RetryPreserves, Zenon DEF Work
<1>3. ASSUME NEW x \in Dispatchers, Fault(x) PROVE IInv'
  BY <1>3, FaultPreserves, Zenon
<1>4. CASE UNCHANGED vars
  <2>1. UNCHANGED <<row, dp, activity, ledger, sends, faults>>
    BY <1>4, Zenon DEF vars
  <2>2. TypeOK' /\ SingleOwner' /\ FailedAtMaxAttempts'
    <3>1. TypeOK'
      BY <2>1, Zenon DEF IInv, TypeOK
    <3>2. SingleOwner'
      BY <2>1 DEF IInv, SingleOwner, Held
    <3>3. FailedAtMaxAttempts'
      BY <2>1, Zenon DEF IInv, FailedAtMaxAttempts
    <3>. QED  BY <3>1, <3>2, <3>3, Zenon
  <2>3. DeliveredWasProjected' /\ SendsCounted'
    <3>1. DeliveredWasProjected'
      BY <2>1, Zenon DEF IInv, DeliveredWasProjected, Seen
    <3>2. SendsCounted'
      BY <2>1, Zenon DEF IInv, SendsCounted, Seen, Unsettled
    <3>. QED  BY <3>1, <3>2, Zenon
  <2>4. ASSUME NEW y \in Dispatchers
        PROVE  Shape(dp[y])' /\ Progress(dp[y])' /\ Unrecorded(dp[y])'
    <3>1. Shape(dp[y]) /\ Progress(dp[y]) /\ Unrecorded(dp[y])
      BY Zenon DEF IInv
    <3>. QED  BY <2>1, <3>1, Zenon DEF Shape, Progress, Unrecorded, Done, Seen
  <2>. QED  BY <2>2, <2>3, <2>4, Zenon DEF IInv
<1>. QED  BY <1>1, <1>2, <1>3, <1>4, Zenon DEF OutboxNext

\* The invariant holds in every reachable state of the outbox.
THEOREM Invariance == OutboxSpec => []IInv
BY InitIInv, NextIInv, PTL DEF OutboxSpec

\* For any dispatchers, events, projectors and faults: a claimed event has one
\* owner, is failed exactly at MaxAttempts, and is delivered only when every
\* projector is through with it.
THEOREM OutboxSafe ==
    OutboxSpec => [](TypeOK /\ SingleOwner /\ FailedAtMaxAttempts /\ DeliveredWasProjected)
<1>1. IInv => TypeOK /\ SingleOwner /\ FailedAtMaxAttempts /\ DeliveredWasProjected
  BY Zenon DEF IInv
<1>. QED  BY <1>1, Invariance, PTL

\* The dispatch ledger: a notification is sent at most once more than faults
\* have happened.
THEOREM DuplicatesNeedFaults == OutboxSpec => []DuplicateSendsNeedFaults
<1>1. IInv => DuplicateSendsNeedFaults
  BY Zenon DEF IInv, SendsCounted, DuplicateSendsNeedFaults
<1>. QED  BY <1>1, Invariance, PTL

\* Ack and Retry, unfenced as they are, never write a delivered or failed row:
\* only claimed rows have an owner, and only an owner writes.
THEOREM SettledRowsStay == OutboxSpec => SettledForGood
<1>1. ASSUME IInv, OutboxNext, NEW e \in Events,
             row[e].status \in {"delivered", "failed"}
      PROVE  row'[e] = row[e]
  <2>1. row \in [Events -> Row]
    BY <1>1, Zenon DEF IInv, TypeOK
  <2>2. \A x \in Dispatchers : dp[x].cur # e
    BY <1>1, Zenon DEF IInv, SingleOwner, Held
  <2>3. CASE \E f \in Events : Enqueue(f) \/ BecomesDue(f)
    BY <1>1, <2>1, <2>3, Zenon DEF Enqueue, BecomesDue
  <2>4. ASSUME NEW x \in Dispatchers, ClaimBatch(x) PROVE row'[e] = row[e]
    <3>1. PICK S \in Batches :
            row' = [f \in Events |->
                      IF f \in S THEN [row[f] EXCEPT !.status = "processing"]
                                 ELSE row[f]]
      BY <2>4, Zenon DEF ClaimBatch
    <3>2. e \notin S
      BY <1>1, Zenon DEF Batches, Claimable
    <3>. QED  BY <1>1, <3>1, <3>2, Zenon
  <2>5. ASSUME NEW x \in Dispatchers, Ack(x) \/ Retry(x) PROVE row'[e] = row[e]
    <3>1. CASE Ack(x)
      BY <1>1, <2>1, <2>2, <3>1, Zenon DEF Ack
    <3>2. CASE Retry(x)
      BY <1>1, <2>1, <2>2, <3>2, Zenon DEF Retry
    <3>. QED  BY <2>5, <3>1, <3>2, Zenon
  <2>6. ASSUME NEW x \in Dispatchers,
               \/ Pick(x) \/ ProjectActivity(x) \/ ProjectNotify(x)
               \/ NotifyNext(x) \/ Send(x) \/ Record(x)
        PROVE  row' = row
    BY <2>6, Zenon DEF Pick, ProjectActivity, ProjectNotify, NotifyNext, Send, Record
  <2>7. ASSUME NEW x \in Dispatchers, Fault(x) PROVE row' = row
    BY <2>7, Zenon DEF Fault, SettleError, RecordError, Crash
  <2>. QED  BY <1>1, <2>3, <2>4, <2>5, <2>6, <2>7, Zenon DEF OutboxNext, Work
<1>2. IInv /\ [OutboxNext]_vars =>
          [\A e \in Events :
              row[e].status \in {"delivered", "failed"} => row'[e] = row[e]]_vars
  BY <1>1, Zenon DEF vars
<1>. QED  BY <1>2, Invariance, PTL DEF OutboxSpec, SettledForGood

-----------------------------------------------------------------------------
(* The activity sink and store.  An entry is in one place; a prune has     *)
(* counted no more than it may delete; and a row that a list in progress is*)
(* owed and has not seen lies at or behind the list's offset.              *)

ActivityEntry == [id : Entries, at : Nat]

Working(w) == w.pc \in {"primary", "fallback"}

\* The rows newer than r: those the list shows before it.
Newer(rows, r) == {q \in rows : q.at > r.at}

\* An entry is in one place: no id is twice in the queue, with the worker or in
\* the store, and each was accepted.
SinkSound(q, w, rows, acc) ==
    /\ q \in Seq(ActivityEntry)
    /\ w \in [pc : {"select", "primary", "fallback", "done"}, entry : ActivityEntry
         \cup {ActivityUnset}]
    /\ Working(w) => w.entry \in ActivityEntry /\ w.entry.id \in acc
                     /\ \A r \in rows : r.id # w.entry.id
    /\ \A i \in 1 .. Len(q) : q[i].id \in acc /\ (Working(w) => q[i].id # w.entry.id)
                              /\ \A r \in rows : r.id # q[i].id
    /\ \A i, j \in 1 .. Len(q) : q[i].id = q[j].id => i = j
    /\ IsFiniteSet(rows) /\ rows \subseteq ActivityEntry
    /\ \A r \in rows : r.id \in acc
    /\ \A r, s \in rows : r.id = s.id => r = s

\* What the pruner counted is still there to delete.
PruneSafe(p, rows) ==
    /\ p \in [pc : {"idle", "count", "delete"}, excess : Nat, n : Nat]
    /\ p.pc = "delete" => p.excess + RowCap <= Cardinality(rows)

\* A row the list has yet to show is at or behind its offset.
ListSound(l, rows) ==
    /\ l \in [pc : {"idle", "page", "end"}, offset : Nat, n : Nat, owed : SUBSET Entries,
              seen : SUBSET Entries, tied : BOOLEAN]
    /\ \A id \in l.owed : \E r \in rows : r.id = id
    /\ l.pc = "page" /\ ~l.tied =>
         \A r \in rows : r.id \in l.owed \ l.seen => Cardinality(Newer(rows, r)) >= l.offset
    /\ l.pc = "end" /\ ~l.tied => l.owed \subseteq l.seen

ActivityInv ==
    /\ clock \in Nat
    /\ SinkSound(queue, worker, activityRows, accepted)
    /\ PruneSafe(prune, activityRows)
    /\ ListSound(list, activityRows)

\* Nothing was recorded.
LEMMA ActivityInitInv == ActivityInit => ActivityInv
<1> SUFFICES ASSUME ActivityInit PROVE ActivityInv
  BY Zenon
<1>1. SinkSound(queue, worker, activityRows, accepted)
  BY FS_EmptySet DEF ActivityInit, SinkSound, Working
<1>2. PruneSafe(prune, activityRows) /\ ListSound(list, activityRows)
  BY Zenon DEF ActivityInit, PruneSafe, ListSound
<1>3. QED
  BY <1>1, <1>2, Zenon DEF ActivityInit, ActivityInv

\* How many rows LIMIT n yields.
LEMMA LimitSize ==
  ASSUME NEW n \in Nat, NEW S, IsFiniteSet(S), NEW d \in Limit(n, S)
  PROVE  /\ d \subseteq S /\ IsFiniteSet(d) /\ Cardinality(d) \in Nat /\ Cardinality(S) \in Nat
         /\ Cardinality(d) <= n
         /\ Cardinality(S) >= n => Cardinality(d) = n
<1>1. d \subseteq S /\ Cardinality(d) = IF n < Cardinality(S) THEN n ELSE Cardinality(S)
  BY Zenon DEF Limit
<1>2. IsFiniteSet(d) /\ Cardinality(d) \in Nat /\ Cardinality(S) \in Nat
  BY <1>1, FS_Subset, FS_CardinalityType, Zenon
<1>3. QED
  BY <1>1, <1>2

\* The sizes of two sets without a common element add up.
LEMMA DisjointSum ==
  ASSUME NEW S, NEW T, IsFiniteSet(S), IsFiniteSet(T), S \cap T = {}
  PROVE  IsFiniteSet(S \cup T) /\ Cardinality(S \cup T) = Cardinality(S) + Cardinality(T)
<1>1. Cardinality(S \cup T) = Cardinality(S) + Cardinality(T) - Cardinality(S \cap T)
      /\ IsFiniteSet(S \cup T)
  BY FS_Union, Zenon
<1>2. Cardinality(S \cap T) = 0
  BY FS_EmptySet, Zenon
<1>3. Cardinality(S) \in Nat /\ Cardinality(T) \in Nat
  BY FS_CardinalityType, Zenon
<1>4. QED
  BY <1>1, <1>2, <1>3

\* With no two rows of one instant, what a page does not show comes after it.
LEMMA PageSound ==
  ASSUME NEW rows, IsFiniteSet(rows), rows \subseteq ActivityEntry, NEW offset \in Nat,
         \A p, q \in rows : p # q => p.at # q.at,
         NEW before \in Newest(offset, rows), NEW items \in Newest(PerPage, rows \ before)
  PROVE  /\ items \subseteq rows /\ Cardinality(items) \in Nat
         /\ \A r \in rows \ items : Cardinality(Newer(rows, r)) >= offset =>
              /\ Cardinality(Newer(rows, r)) >= offset + Cardinality(items)
              /\ Cardinality(Newer(rows, r)) < Cardinality(rows)
<1>1. PerPage \in Nat
  BY ActivitySinkAssumption, Zenon
<1>2. before \in Limit(offset, rows) /\ \A r \in before, k \in rows \ before : r.at >= k.at
  BY Zenon DEF Newest
<1>3. items \in Limit(PerPage, rows \ before)
        /\ \A r \in items, k \in (rows \ before) \ items : r.at >= k.at
  BY Zenon DEF Newest
<1>4. IsFiniteSet(rows \ before)
  BY FS_Subset, Zenon
<1>5. /\ before \subseteq rows /\ IsFiniteSet(before) /\ Cardinality(before) \in Nat
      /\ Cardinality(rows) \in Nat /\ Cardinality(before) <= offset
      /\ Cardinality(rows) >= offset => Cardinality(before) = offset
  BY <1>2, LimitSize, Zenon
<1>6. items \subseteq rows \ before /\ IsFiniteSet(items) /\ Cardinality(items) \in Nat
  BY <1>1, <1>3, <1>4, LimitSize
<1>7. ASSUME NEW r \in rows \ items, Cardinality(Newer(rows, r)) >= offset
      PROVE  /\ Cardinality(Newer(rows, r)) >= offset + Cardinality(items)
             /\ Cardinality(Newer(rows, r)) < Cardinality(rows)
  <2> DEFINE N == Newer(rows, r)
  <2>1. N \subseteq rows /\ r \notin N /\ \A q \in rows : q \in N <=> q.at > r.at
    BY DEF Newer, ActivityEntry
  <2>2. \A q \in rows : q.at \in Nat /\ r.at \in Nat
    BY Zenon DEF ActivityEntry
  <2> HIDE DEF N
  <2>3. IsFiniteSet(N) /\ Cardinality(N) \in Nat /\ Cardinality(N) <= Cardinality(rows)
        /\ (Cardinality(rows) = Cardinality(N) => rows = N)
    BY <2>1, FS_Subset, FS_CardinalityType, Zenon
  <2>4. Cardinality(N) < Cardinality(rows)
    BY <1>5, <2>1, <2>3
  <2>5. Cardinality(N) >= offset
    BY <1>7, Zenon DEF N
  <2>6. Cardinality(before) = offset
    BY <1>5, <2>3, <2>5
  <2>7. r \notin before
    <3> SUFFICES ASSUME r \in before PROVE FALSE
      BY Zenon
    <3>1. N \subseteq before
      BY <1>2, <2>1, <2>2
    <3>2. N \cup {r} \subseteq before
      BY <3>1, Zenon
    <3>3. Cardinality(N \cup {r}) = Cardinality(N) + 1
      BY <2>1, <2>3, FS_AddElement, Zenon
    <3>4. Cardinality(N \cup {r}) <= Cardinality(before)
      BY <1>5, <3>2, FS_Subset, Zenon
    <3>5. QED
      BY <2>3, <2>5, <2>6, <3>3, <3>4
  <2>8. before \subseteq N
    BY <1>2, <1>5, <2>1, <2>2, <2>7
  <2>9. items \subseteq N
    BY <1>3, <1>6, <2>1, <2>2, <2>7
  <2>10. before \cup items \subseteq N /\ before \cap items = {}
    BY <1>6, <2>8, <2>9, Zenon
  <2>11. Cardinality(before \cup items) = Cardinality(before) + Cardinality(items)
    BY <1>5, <1>6, <2>10, DisjointSum, Zenon
  <2>12. Cardinality(before \cup items) <= Cardinality(N)
    BY <2>3, <2>10, FS_Subset, Zenon
  <2>13. QED
    BY <1>6, <2>3, <2>4, <2>6, <2>11, <2>12, Zenon DEF N
<1>8. QED
  BY <1>6, <1>7, Zenon

\* Rows arrive or leave behind those that stay: the pruner and the list keep what they know.
LEMMA RowsGrow ==
  ASSUME NEW rows, NEW new, IsFiniteSet(rows), IsFiniteSet(new), rows \subseteq new,
         NEW p, NEW l, PruneSafe(p, rows), ListSound(l, rows),
         \A r \in new \ rows : r.id \notin l.owed
  PROVE  PruneSafe(p, new) /\ ListSound(l, new)
<1>1. Cardinality(rows) \in Nat /\ Cardinality(new) \in Nat /\ Cardinality(rows) <= Cardinality(new)
  BY FS_Subset, FS_CardinalityType, Zenon
<1>2. PruneSafe(p, new)
  BY <1>1, ActivitySinkAssumption DEF PruneSafe
<1>3. ASSUME l.pc = "page", ~l.tied, NEW r \in new, r.id \in l.owed \ l.seen
      PROVE  Cardinality(Newer(new, r)) >= l.offset
  <2>1. r \in rows /\ Cardinality(Newer(rows, r)) >= l.offset /\ l.offset \in Nat
    BY <1>3, Zenon DEF ListSound
  <2>2. Newer(rows, r) \subseteq Newer(new, r) /\ Newer(new, r) \subseteq new
          /\ Newer(rows, r) \subseteq rows
    BY Zenon DEF Newer
  <2>3. IsFiniteSet(Newer(new, r)) /\ IsFiniteSet(Newer(rows, r))
    BY <2>2, FS_Subset, Zenon
  <2>4. Cardinality(Newer(rows, r)) <= Cardinality(Newer(new, r))
    BY <2>2, <2>3, FS_Subset, Zenon
  <2>5. Cardinality(Newer(rows, r)) \in Nat /\ Cardinality(Newer(new, r)) \in Nat
    BY <2>3, FS_CardinalityType, Zenon
  <2>6. QED
    BY <2>1, <2>4, <2>5
<1>4. ListSound(l, new)
  BY <1>3, Zenon DEF ListSound
<1>5. QED
  BY <1>2, <1>4, Zenon

\* Rows are deleted, none newer than one that stays; the list forgets what it is
\* no longer owed.
LEMMA RowsLeave ==
  ASSUME NEW rows, NEW new \in SUBSET rows, IsFiniteSet(rows), rows \subseteq ActivityEntry,
         \A r \in rows \ new, k \in new : r.at <= k.at,
         NEW l, ListSound(l, rows), NEW m,
         m = [l EXCEPT !.owed = {id \in @ : \E r \in new : r.id = id}]
  PROVE  ListSound(m, new)
<1> DEFINE T == [pc : {"idle", "page", "end"}, offset : Nat, n : Nat, owed : SUBSET Entries,
                 seen : SUBSET Entries, tied : BOOLEAN]
           O == {id \in l.owed : \E r \in new : r.id = id}
<1>1. l \in T
  BY Zenon DEF ListSound
<1>2. O \subseteq l.owed /\ O \in SUBSET Entries /\ m = [l EXCEPT !.owed = O]
      /\ \A id \in O : \E r \in new : r.id = id
  BY <1>1, Zenon
<1> HIDE DEF O
<1>3. m \in T /\ m.owed = O /\ m.pc = l.pc /\ m.offset = l.offset /\ m.seen = l.seen
        /\ m.tied = l.tied
  BY <1>1, <1>2, Zenon
<1>4. ASSUME l.pc = "page", ~l.tied, NEW r \in new, r.id \in O \ l.seen
      PROVE  Cardinality(Newer(new, r)) >= l.offset
  <2>1. Newer(new, r) = Newer(rows, r)
    BY DEF Newer, ActivityEntry
  <2>2. QED
    BY <1>2, <1>4, <2>1, Zenon DEF ListSound
<1>5. l.pc = "end" /\ ~l.tied => O \subseteq l.seen
  BY <1>2, Zenon DEF ListSound
<1>6. QED
  BY <1>2, <1>3, <1>4, <1>5, Zenon DEF ListSound

\* Record queues an entry under an id of its own.
LEMMA ActivityRecordInv ==
  ASSUME ActivityInv, NEW id \in Entries, ActivityRecord(id) PROVE ActivityInv'
<1>1. UNCHANGED <<clock, worker, activityRows, prune, list>> /\ id \notin accepted
      /\ \/ queue' = Append(queue, [id |-> id, at |-> clock]) /\ accepted' = accepted \cup {id}
         \/ queue' = queue /\ accepted \subseteq accepted'
  BY Zenon DEF ActivityRecord
<1>2. SinkSound(queue, worker, activityRows, accepted) /\ clock \in Nat
  BY Zenon DEF ActivityInv
<1>3. CASE queue' = queue /\ accepted \subseteq accepted'
  <2>1. SinkSound(queue, worker, activityRows, accepted')
    BY <1>2, <1>3, Zenon DEF SinkSound
  <2>2. QED
    BY <1>1, <1>3, <2>1, Zenon DEF ActivityInv
<1>4. CASE queue' = Append(queue, [id |-> id, at |-> clock]) /\ accepted' = accepted \cup {id}
  <2> DEFINE x == [id |-> id, at |-> clock]
             q == Append(queue, x)
  <2>1. x \in ActivityEntry /\ x.id = id
    BY <1>2, Zenon DEF ActivityEntry
  <2>2. queue \in Seq(ActivityEntry)
    BY <1>2, Zenon DEF SinkSound
  <2> HIDE DEF x
  <2>3. q \in Seq(ActivityEntry) /\ Len(q) = Len(queue) + 1 /\ Len(queue) \in Nat
        /\ q[Len(q)] = x /\ \A i \in 1 .. Len(queue) : q[i] = queue[i]
    BY <2>1, <2>2
  <2> HIDE DEF q
  <2>4. \A i \in 1 .. Len(q) : i \in 1 .. Len(queue) \/ i = Len(q)
    BY <2>3
  <2>5. /\ \A i \in 1 .. Len(queue) : q[i].id \in accepted /\ q[i].id # id
        /\ \A r \in activityRows : r.id # id
        /\ Working(worker) => worker.entry.id # id
    BY <1>1, <1>2, <2>3 DEF SinkSound
  <2>6. \A i, j \in 1 .. Len(q) : q[i].id = q[j].id => i = j
    <3> SUFFICES ASSUME NEW i \in 1 .. Len(q), NEW j \in 1 .. Len(q), q[i].id = q[j].id PROVE i = j
      BY Zenon
    <3>1. CASE i \in 1 .. Len(queue) /\ j \in 1 .. Len(queue)
      BY <1>2, <2>3, <3>1, Zenon DEF SinkSound
    <3>2. CASE i = Len(q) \/ j = Len(q)
      BY <2>1, <2>3, <2>4, <2>5, <3>2, Zenon
    <3>3. QED
      BY <2>4, <3>1, <3>2, Zenon
  <2>7. \A i \in 1 .. Len(q) : q[i].id \in accepted'
          /\ (Working(worker) => q[i].id # worker.entry.id)
                              /\ \A r \in activityRows : r.id # q[i].id
    <3> TAKE i \in 1 .. Len(q)
    <3>1. CASE i \in 1 .. Len(queue)
      BY <1>2, <1>4, <2>3, <3>1 DEF SinkSound
    <3>2. CASE i = Len(q)
      BY <1>4, <2>1, <2>3, <2>5, <3>2, Zenon
    <3>3. QED
      BY <2>4, <3>1, <3>2, Zenon
  <2>8. SinkSound(q, worker, activityRows, accepted')
    BY <1>2, <1>4, <2>3, <2>6, <2>7, Zenon DEF SinkSound
  <2>9. QED
    BY <1>1, <1>4, <2>8, Zenon DEF ActivityInv, q, x
<1>5. QED
  BY <1>1, <1>3, <1>4, Zenon

\* The goroutine takes the first entry of the queue.
LEMMA TakeInv == ASSUME ActivityInv, Take PROVE ActivityInv'
<1> DEFINE w == [pc |-> "primary", entry |-> Head(queue)]
           q == Tail(queue)
<1>1. worker.pc = "select" /\ queue # <<>> /\ worker' = w /\ queue' = q
      /\ UNCHANGED <<clock, activityRows, prune, list, accepted>>
  BY Zenon DEF Take
<1>2. SinkSound(queue, worker, activityRows, accepted)
  BY Zenon DEF ActivityInv
<1>3. queue \in Seq(ActivityEntry) /\ Len(queue) \in Nat /\ Len(queue) > 0
  BY <1>1, <1>2 DEF SinkSound
<1>4. 1 \in 1 .. Len(queue) /\ Head(queue) = queue[1] /\ queue[1] \in ActivityEntry
  BY <1>3
<1>5. q \in Seq(ActivityEntry) /\ Len(q) = Len(queue) - 1 /\ Len(q) \in Nat
  BY <1>1, <1>3
<1>6. \A i \in 1 .. Len(q) : i + 1 \in 1 .. Len(queue) /\ q[i] = queue[i + 1] /\ i + 1 # 1
  BY <1>1, <1>3, <1>5
<1>7. w \in [pc : {"select", "primary", "fallback", "done"}, entry : ActivityEntry
        \cup {ActivityUnset}]
      /\ w.entry = queue[1] /\ w.pc = "primary"
  BY <1>4, Zenon
<1> HIDE DEF w, q
<1>8. queue[1].id \in accepted /\ \A r \in activityRows : r.id # queue[1].id
  BY <1>2, <1>4, Zenon DEF SinkSound
<1>9. \A i \in 1 .. Len(q) : q[i].id \in accepted /\ q[i].id # queue[1].id
                            /\ \A r \in activityRows : r.id # q[i].id
  BY <1>2, <1>4, <1>6 DEF SinkSound
<1>10. \A i, j \in 1 .. Len(q) : q[i].id = q[j].id => i = j
  <2> SUFFICES ASSUME NEW i \in 1 .. Len(q), NEW j \in 1 .. Len(q), q[i].id = q[j].id PROVE i = j
    BY Zenon
  <2>1. i + 1 \in 1 .. Len(queue) /\ j + 1 \in 1 .. Len(queue) /\ queue[i + 1].id = queue[j + 1].id
    BY <1>6, Zenon
  <2>2. \A m, n \in 1 .. Len(queue) : queue[m].id = queue[n].id => m = n
    BY <1>2, Zenon DEF SinkSound
  <2>3. i + 1 = j + 1
    BY <2>1, <2>2, Zenon
  <2>4. QED
    BY <1>5, <2>3
<1>11. SinkSound(q, w, activityRows, accepted)
  BY <1>2, <1>4, <1>5, <1>7, <1>8, <1>9, <1>10, Zenon DEF SinkSound, Working
<1>12. QED
  BY <1>1, <1>11, Zenon DEF ActivityInv

\* The worker puts its entry down, or tries the fallback.
LEMMA WorkerIdles ==
  ASSUME SinkSound(queue, worker, activityRows, accepted), NEW w,
         w \in [pc : {"select", "primary", "fallback", "done"}, entry : ActivityEntry
           \cup {ActivityUnset}],
         Working(w) => Working(worker) /\ w.entry = worker.entry
  PROVE  SinkSound(queue, w, activityRows, accepted)
BY Zenon DEF SinkSound

\* The goroutine stops.
LEMMA StopInv == ASSUME ActivityInv, Stop PROVE ActivityInv'
<1> DEFINE w == [worker EXCEPT !.pc = "done"]
<1>1. worker' = w /\ UNCHANGED <<clock, queue, activityRows, prune, list, accepted>>
  BY Zenon DEF Stop
<1>2. w \in [pc : {"select", "primary", "fallback", "done"}, entry : ActivityEntry
        \cup {ActivityUnset}]
      /\ w.pc = "done"
  BY Zenon DEF ActivityInv, SinkSound
<1> HIDE DEF w
<1>3. SinkSound(queue, w, activityRows, accepted)
  BY <1>2, WorkerIdles, Zenon DEF ActivityInv, Working
<1>4. QED
  BY <1>1, <1>3, Zenon DEF ActivityInv

\* ActivityStore.Record adds a row that no list in progress is owed.
LEMMA StoreRecordInv == ASSUME ActivityInv, StoreRecord PROVE ActivityInv'
<1> DEFINE e == worker.entry
           W == [pc : {"select", "primary", "fallback", "done"}, entry : ActivityEntry
             \cup {ActivityUnset}]
           idle == [pc |-> "select", entry |-> ActivityUnset]
           other == [worker EXCEPT !.pc = "fallback"]
<1>1. worker.pc = "primary" /\ UNCHANGED <<clock, queue, prune, list, accepted>>
      /\ \/ activityRows' = activityRows \cup {e} /\ worker' = idle
         \/ activityRows' = activityRows /\ worker' = idle
         \/ activityRows' = activityRows /\ worker' = other
  BY Zenon DEF StoreRecord
<1>2. SinkSound(queue, worker, activityRows, accepted) /\ worker \in W
  BY Zenon DEF ActivityInv, SinkSound
<1>3. idle \in W /\ other \in W /\ idle.pc = "select" /\ other.pc = "fallback" /\ other.entry = e
  BY <1>2, Zenon
<1>4. e \in ActivityEntry /\ e.id \in accepted /\ \A r \in activityRows : r.id # e.id
  BY <1>1, <1>2, Zenon DEF SinkSound, Working
<1> HIDE DEF idle, other, e
<1>5. SinkSound(queue, idle, activityRows, accepted)
  BY <1>2, <1>3, WorkerIdles, Zenon DEF Working
<1>6. CASE activityRows' = activityRows
  <2>1. SinkSound(queue, other, activityRows, accepted)
    BY <1>1, <1>2, <1>3, WorkerIdles, Zenon DEF Working, e
  <2>2. QED
    BY <1>1, <1>5, <1>6, <2>1, Zenon DEF ActivityInv
<1>7. CASE activityRows' = activityRows \cup {e} /\ worker' = idle
  <2> DEFINE new == activityRows \cup {e}
  <2>1. IsFiniteSet(activityRows) /\ IsFiniteSet(new) /\ activityRows \subseteq new
    BY <1>2, FS_AddElement, Zenon DEF SinkSound
  <2>2. \A i \in 1 .. Len(queue) : queue[i].id # e.id
    BY <1>1, <1>2, Zenon DEF SinkSound, Working, e
  <2>3. SinkSound(queue, idle, new, accepted)
    BY <1>3, <1>4, <1>5, <2>1, <2>2 DEF SinkSound, Working
  <2>4. \A r \in new \ activityRows : r.id \notin list.owed
    BY <1>4, Zenon DEF ActivityInv, ListSound
  <2> HIDE DEF new
  <2>5. PruneSafe(prune, new) /\ ListSound(list, new)
    BY <2>1, <2>4, RowsGrow, Zenon DEF ActivityInv
  <2>6. QED
    BY <1>1, <1>7, <2>3, <2>5, Zenon DEF ActivityInv, new
<1>8. QED
  BY <1>1, <1>6, <1>7, Zenon

\* The fallback sink takes or loses the entry.
LEMMA FallbackRecordInv == ASSUME ActivityInv, FallbackRecord PROVE ActivityInv'
<1> DEFINE w == [pc |-> "select", entry |-> ActivityUnset]
<1>1. worker' = w /\ UNCHANGED <<clock, queue, activityRows, prune, list, accepted>>
  BY Zenon DEF FallbackRecord
<1>2. w \in [pc : {"select", "primary", "fallback", "done"}, entry : ActivityEntry
        \cup {ActivityUnset}]
      /\ w.pc = "select"
  BY Zenon
<1> HIDE DEF w
<1>3. SinkSound(queue, w, activityRows, accepted)
  BY <1>2, WorkerIdles, Zenon DEF ActivityInv, Working
<1>4. QED
  BY <1>1, <1>3, Zenon DEF ActivityInv

\* Deleting rows leaves the sink's side as it was.
LEMMA SinkKeeps ==
  ASSUME SinkSound(queue, worker, activityRows, accepted), NEW new \in SUBSET activityRows
  PROVE  SinkSound(queue, worker, new, accepted)
<1>1. IsFiniteSet(new)
  BY FS_Subset, Zenon DEF SinkSound
<1>2. QED
  BY <1>1, Zenon DEF SinkSound

\* Deleting what is too old.
LEMMA PruneTTLInv == ASSUME ActivityInv, PruneTTL PROVE ActivityInv'
<1> DEFINE new == IF ActivityTTL > 0 THEN {r \in activityRows : r.at >= clock - ActivityTTL}
      ELSE activityRows
           pc == IF RowCap > 0 THEN "count" ELSE "idle"
           p == [prune EXCEPT !.pc = pc, !.n = @ + 1]
<1>1. activityRows' = new /\ prune' = p /\ UNCHANGED <<clock, queue, worker, accepted>>
      /\ list' = [list EXCEPT !.owed = {id \in @ : \E r \in activityRows' : r.id = id}]
  BY Zenon DEF PruneTTL, sinkVars
<1>2. SinkSound(queue, worker, activityRows, accepted) /\ ListSound(list, activityRows)
        /\ clock \in Nat
      /\ PruneSafe(prune, activityRows) /\ IsFiniteSet(activityRows)
           /\ activityRows \subseteq ActivityEntry
  BY Zenon DEF ActivityInv, SinkSound
<1>3. new \in SUBSET activityRows /\ \A r \in activityRows \ new, k \in new : r.at <= k.at
  BY <1>2, ActivitySinkAssumption DEF ActivityEntry
<1>4. pc \in {"idle", "count"}
  BY Zenon
<1> HIDE DEF new, pc
<1>5. p \in [pc : {"idle", "count", "delete"}, excess : Nat, n : Nat] /\ p.pc = pc
  <2> DEFINE n == prune.n + 1
  <2>1. prune \in [pc : {"idle", "count", "delete"}, excess : Nat, n : Nat] /\ n \in Nat
    BY <1>2 DEF PruneSafe
  <2>2. p = [prune EXCEPT !.pc = pc, !.n = n]
    BY <2>1, Zenon
  <2> HIDE DEF n, p
  <2>3. QED
    BY <1>4, <2>1, <2>2, Zenon
<1> HIDE DEF p
<1>6. PruneSafe(p, new)
  BY <1>4, <1>5, Zenon DEF PruneSafe
<1>7. SinkSound(queue, worker, new, accepted)
  BY <1>2, <1>3, SinkKeeps, Zenon
<1>8. ListSound(list', new)
  <2> DEFINE m == list'
  <2>1. m = [list EXCEPT !.owed = {id \in @ : \E r \in new : r.id = id}]
    BY <1>1, Zenon
  <2> HIDE DEF m
  <2>2. ListSound(m, new)
    BY <1>2, <1>3, <2>1, RowsLeave, Zenon
  <2>3. QED
    BY <2>2, Zenon DEF m
<1>9. QED
  BY <1>1, <1>2, <1>6, <1>7, <1>8, Zenon DEF ActivityInv

\* Counting the rows beyond the cap.
LEMMA CountInv == ASSUME ActivityInv, Count PROVE ActivityInv'
<1> DEFINE size == Cardinality(activityRows)
           x == size - RowCap
<1>1. /\ UNCHANGED <<clock, queue, worker, accepted, activityRows, list>>
      /\ prune' = IF x > 0 THEN [prune EXCEPT !.pc = "delete", !.excess = x]
                  ELSE [prune EXCEPT !.pc = "idle"]
  BY Zenon DEF Count, sinkVars
<1>2. size \in Nat /\ RowCap \in Nat
  BY FS_CardinalityType, ActivitySinkAssumption, Zenon DEF ActivityInv, SinkSound
<1> HIDE DEF size
<1>3. x > 0 => x \in Nat /\ x + RowCap <= size
  BY <1>2
<1> HIDE DEF x
<1>4. prune \in [pc : {"idle", "count", "delete"}, excess : Nat, n : Nat]
  BY Zenon DEF ActivityInv, PruneSafe
<1>5. CASE x > 0
  <2>1. prune' \in [pc : {"idle", "count", "delete"}, excess : Nat, n : Nat] /\ prune'.excess = x
    BY <1>1, <1>3, <1>4, <1>5, Zenon
  <2>2. QED
    BY <1>1, <1>3, <1>5, <2>1, Zenon DEF ActivityInv, PruneSafe, size
<1>6. CASE ~(x > 0)
  <2>1. prune' \in [pc : {"idle", "count", "delete"}, excess : Nat, n : Nat] /\ prune'.pc = "idle"
    BY <1>1, <1>4, <1>6, Zenon
  <2>2. QED
    BY <1>1, <2>1, Zenon DEF ActivityInv, PruneSafe
<1>7. QED
  BY <1>5, <1>6, Zenon

\* What DeleteExcess takes is older than all that stays, and RowCap rows stay.
LEMMA DeleteExcessSpares ==
  ASSUME ActivityInv, DeleteExcess
  PROVE  /\ activityRows' \in SUBSET activityRows
         /\ \A r \in activityRows \ activityRows', k \in activityRows' : r.at <= k.at
         /\ Cardinality(activityRows') >= RowCap
<1>1. prune.pc = "delete"
  BY Zenon DEF DeleteExcess
<1>2. PICK d \in Oldest(prune.excess) : activityRows' = activityRows \ d
  BY Zenon DEF DeleteExcess
<1> DEFINE n == prune.excess
           K == activityRows \ d
<1>3. n \in Nat /\ n + RowCap <= Cardinality(activityRows) /\ IsFiniteSet(activityRows)
  BY <1>1, Zenon DEF ActivityInv, PruneSafe, SinkSound
<1>4. d \in Limit(n, activityRows) /\ \A r \in d, k \in activityRows \ d : r.at <= k.at
  BY Zenon DEF Oldest
<1> HIDE DEF n
<1>5. d \subseteq activityRows /\ IsFiniteSet(d) /\ Cardinality(d) \in Nat
        /\ Cardinality(activityRows) \in Nat
      /\ Cardinality(d) <= n
  BY <1>3, <1>4, LimitSize, Zenon
<1>6. IsFiniteSet(K) /\ K \cap d = {} /\ K \cup d = activityRows
  BY <1>3, <1>5, FS_Subset, Zenon
<1>7. Cardinality(activityRows) = Cardinality(K) + Cardinality(d) /\ Cardinality(K) \in Nat
  BY <1>5, <1>6, DisjointSum, FS_CardinalityType, Zenon
<1>8. Cardinality(K) >= RowCap
  BY <1>3, <1>5, <1>7, ActivitySinkAssumption
<1>9. QED
  BY <1>2, <1>4, <1>8, Zenon

\* Deleting the oldest beyond the cap.
LEMMA DeleteExcessInv == ASSUME ActivityInv, DeleteExcess PROVE ActivityInv'
<1> DEFINE new == activityRows'
           m == list'
<1>1. UNCHANGED <<clock, queue, worker, accepted>>
      /\ prune' = [prune EXCEPT !.pc = "idle", !.excess = 0]
      /\ m = [list EXCEPT !.owed = {id \in @ : \E r \in new : r.id = id}]
  BY Zenon DEF DeleteExcess, sinkVars
<1>2. new \in SUBSET activityRows /\ \A r \in activityRows \ new, k \in new : r.at <= k.at
  BY DeleteExcessSpares, Zenon
<1>3. SinkSound(queue, worker, activityRows, accepted) /\ ListSound(list, activityRows)
        /\ clock \in Nat
      /\ PruneSafe(prune, activityRows) /\ IsFiniteSet(activityRows)
           /\ activityRows \subseteq ActivityEntry
  BY Zenon DEF ActivityInv, SinkSound
<1> HIDE DEF new, m
<1>4. SinkSound(queue, worker, new, accepted)
  BY <1>2, <1>3, SinkKeeps, Zenon
<1>5. ListSound(m, new)
  BY <1>1, <1>2, <1>3, RowsLeave, Zenon
<1>6. prune' \in [pc : {"idle", "count", "delete"}, excess : Nat, n : Nat] /\ prune'.pc = "idle"
  BY <1>1, <1>3, Zenon DEF PruneSafe
<1>7. PruneSafe(prune', new)
  BY <1>6, Zenon DEF PruneSafe
<1>8. QED
  BY <1>1, <1>3, <1>4, <1>5, <1>7, Zenon DEF ActivityInv, new, m

\* A list begins at offset 0, owed every row.
LEMMA BeginListInv == ASSUME ActivityInv, BeginList PROVE ActivityInv'
<1> DEFINE O == {r.id : r \in activityRows}
           l == [pc |-> "page", offset |-> 0, n |-> list.n + 1, owed |-> O, seen |-> {},
             tied |-> FALSE]
<1>1. list' = l /\ UNCHANGED <<clock, queue, worker, accepted, activityRows, prune>>
  BY Zenon DEF BeginList, sinkVars
<1>2. IsFiniteSet(activityRows) /\ activityRows \subseteq ActivityEntry /\ list.n \in Nat
  BY Zenon DEF ActivityInv, SinkSound, ListSound
<1>3. O \in SUBSET Entries /\ \A id \in O : \E r \in activityRows : r.id = id
  BY <1>2, Zenon DEF ActivityEntry
<1> HIDE DEF O
<1>4. l \in [pc : {"idle", "page", "end"}, offset : Nat, n : Nat, owed : SUBSET Entries,
            seen : SUBSET Entries, tied : BOOLEAN]
      /\ l.pc = "page" /\ l.offset = 0 /\ l.owed = O
  BY <1>2, <1>3
<1> HIDE DEF l
<1>5. ASSUME NEW r \in activityRows PROVE Cardinality(Newer(activityRows, r)) >= 0
  <2>1. Newer(activityRows, r) \subseteq activityRows
    BY Zenon DEF Newer
  <2>2. Cardinality(Newer(activityRows, r)) \in Nat
    BY <1>2, <2>1, FS_Subset, FS_CardinalityType, Zenon
  <2>3. QED
    BY <2>2
<1>6. ListSound(l, activityRows)
  BY <1>3, <1>4, <1>5, Zenon DEF ListSound
<1>7. QED
  BY <1>1, <1>6, Zenon DEF ActivityInv

\* A list ends.
LEMMA EndListInv == ASSUME ActivityInv, EndList PROVE ActivityInv'
<1>1. list' = [list EXCEPT !.pc = "idle", !.offset = 0, !.owed = {}, !.seen = {}, !.tied = FALSE]
      /\ UNCHANGED <<clock, queue, worker, accepted, activityRows, prune>>
  BY Zenon DEF EndList, sinkVars
<1>2. list' \in [pc : {"idle", "page", "end"}, offset : Nat, n : Nat, owed : SUBSET Entries,
                 seen : SUBSET Entries, tied : BOOLEAN]
      /\ list'.pc = "idle" /\ list'.owed = {}
  BY <1>1, Zenon DEF ActivityInv, ListSound
<1>3. ListSound(list', activityRows)
  BY <1>2, Zenon DEF ListSound
<1>4. QED
  BY <1>1, <1>3, Zenon DEF ActivityInv

\* A page: its rows are seen, and the offset moves past them.
LEMMA ListPageStep ==
  ASSUME NEW rows, IsFiniteSet(rows), rows \subseteq ActivityEntry,
         NEW l, ListSound(l, rows), l.pc = "page",
         NEW before \in Newest(l.offset, rows), NEW items \in Newest(PerPage, rows \ before),
         NEW tied \in BOOLEAN, ~tied => \A p, q \in rows : p # q => p.at # q.at,
         NEW next, next = l.offset + Cardinality(items),
         NEW pc, pc = IF next < Cardinality(rows) THEN "page" ELSE "end",
         NEW m, m = [l EXCEPT !.seen = @ \cup {r.id : r \in items}, !.offset = next,
                              !.tied = @ \/ tied, !.pc = pc]
  PROVE  ListSound(m, rows)
<1> DEFINE T == [pc : {"idle", "page", "end"}, offset : Nat, n : Nat, owed : SUBSET Entries,
                 seen : SUBSET Entries, tied : BOOLEAN]
           S == {r.id : r \in items}
           b == l.tied \/ tied
<1>1. l \in T /\ l.offset \in Nat /\ l.tied \in BOOLEAN /\ l.seen \in SUBSET Entries
  BY Zenon DEF ListSound
<1>2. items \subseteq rows /\ before \subseteq rows
  BY Zenon DEF Newest, Limit
<1>3. Cardinality(items) \in Nat /\ next \in Nat
  <2>1. Cardinality(items) \in Nat
    BY <1>2, FS_Subset, FS_CardinalityType, Zenon
  <2>2. QED
    BY <1>1, <2>1
<1>4. S \in SUBSET Entries /\ \A r \in items : r.id \in S
  BY <1>2, Zenon DEF ActivityEntry
<1>5. b \in BOOLEAN /\ (~b => ~l.tied /\ ~tied)
  BY <1>1, Zenon
<1>6. pc \in {"page", "end"}
  BY Zenon
<1> DEFINE seen == l.seen \cup S
<1>7. seen \in SUBSET Entries
        /\ m = [l EXCEPT !.seen = seen, !.offset = next, !.tied = b, !.pc = pc]
  BY <1>1, <1>4, Zenon
<1> HIDE DEF b, S, T
<1>8. m \in T /\ m.pc = pc /\ m.offset = next /\ m.tied = b /\ m.owed = l.owed /\ m.seen = seen
  <2> HIDE DEF seen
  <2> QED BY <1>1, <1>3, <1>5, <1>6, <1>7, Zenon DEF T
<1>9. ASSUME ~b, NEW r \in rows, r.id \in l.owed \ seen
      PROVE  Cardinality(Newer(rows, r)) >= next /\ Cardinality(Newer(rows, r)) < Cardinality(rows)
  <2>1. \A p, q \in rows : p # q => p.at # q.at
    BY <1>5, <1>9, Zenon
  <2>2. r \in rows \ items /\ r.id \in l.owed \ l.seen
    BY <1>4, <1>9, Zenon
  <2>3. Cardinality(Newer(rows, r)) >= l.offset
    BY <1>5, <1>9, <2>2, Zenon DEF ListSound
  <2> DEFINE o == l.offset
  <2>4. o \in Nat /\ before \in Newest(o, rows) /\ Cardinality(Newer(rows, r)) >= o
        /\ next = o + Cardinality(items)
    BY <1>1, <2>3, Zenon
  <2> HIDE DEF o
  <2>5. QED
    BY <2>1, <2>2, <2>4, PageSound
<1>10. ASSUME pc = "end", ~b PROVE l.owed \subseteq seen
  <2> SUFFICES ASSUME NEW id \in l.owed, id \notin seen PROVE FALSE
    BY Zenon
  <2>1. PICK r \in rows : r.id = id
    BY Zenon DEF ListSound
  <2>2. Cardinality(Newer(rows, r)) >= next /\ Cardinality(Newer(rows, r)) < Cardinality(rows)
    BY <1>9, <1>10, <2>1, Zenon
  <2>3. ~(next < Cardinality(rows))
    BY <1>10, Zenon
  <2>4. Newer(rows, r) \subseteq rows
    BY Zenon DEF Newer
  <2>5. Cardinality(rows) \in Nat /\ Cardinality(Newer(rows, r)) \in Nat
    BY <2>4, FS_Subset, FS_CardinalityType, Zenon
  <2>6. QED
    BY <1>3, <2>2, <2>3, <2>5
<1>11. \A id \in l.owed : \E r \in rows : r.id = id
  BY Zenon DEF ListSound
<1> HIDE DEF seen
<1>12. QED
  BY <1>8, <1>9, <1>10, <1>11, Zenon DEF ListSound, T

\* List reads the page at its offset.
LEMMA ListPageInv == ASSUME ActivityInv, ListPage PROVE ActivityInv'
<1> DEFINE tied == Tied
           m == list'
<1>1. list.pc = "page" /\ UNCHANGED <<clock, queue, worker, accepted, activityRows, prune>>
  BY Zenon DEF ListPage, sinkVars
<1>2. PICK items \in Pages(list.offset) :
         m = [list EXCEPT !.seen = @ \cup {r.id : r \in items},
                          !.offset = list.offset + Cardinality(items),
                          !.tied = @ \/ tied,
                          !.pc = IF list.offset + Cardinality(items) < Cardinality(activityRows)
                                 THEN "page" ELSE "end"]
  BY Zenon DEF ListPage
<1>0. PICK before \in Newest(list.offset, activityRows) :
        items \in Newest(PerPage, activityRows \ before)
  BY Zenon DEF Pages
<1>3. tied \in BOOLEAN /\ (~tied => \A p, q \in activityRows : p # q => p.at # q.at)
  BY Zenon DEF Tied
<1>4. IsFiniteSet(activityRows) /\ activityRows \subseteq ActivityEntry
        /\ ListSound(list, activityRows)
  BY Zenon DEF ActivityInv, SinkSound
<1> DEFINE next == list.offset + Cardinality(items)
           pc == IF next < Cardinality(activityRows) THEN "page" ELSE "end"
<1>5. m = [list EXCEPT !.seen = @ \cup {r.id : r \in items}, !.offset = next, !.tied = @
        \/ tied, !.pc = pc]
  BY <1>2, Zenon
<1> HIDE DEF tied, m
<1>6. ListSound(m, activityRows)
  BY <1>0, <1>1, <1>3, <1>4, <1>5, ListPageStep, ZenonT(40)
<1>7. QED
  BY <1>1, <1>6, Zenon DEF ActivityInv, m

\* The invariant is inductive.
LEMMA ActivityNextInv == ActivityInv /\ [ActivityNext]_activityVars => ActivityInv'
<1> SUFFICES ASSUME ActivityInv, [ActivityNext]_activityVars PROVE ActivityInv'
  BY Zenon
<1>1. CASE UNCHANGED activityVars
  BY <1>1, Zenon DEF activityVars, ActivityInv
<1>2. CASE ActivityTick
  BY <1>2 DEF ActivityTick, ActivityInv, sinkVars
<1>3. CASE \E c \in Closers : Close(c) \/ Closed(c)
  BY <1>3, Zenon DEF Close, Closed, ActivityInv
<1>4. QED
  BY <1>1, <1>2, <1>3, TakeInv, StopInv, StoreRecordInv, FallbackRecordInv, ActivityRecordInv,
     PruneTTLInv, CountInv, DeleteExcessInv, BeginListInv, ListPageInv, EndListInv,
       Zenon DEF ActivityNext

\* Only pruning deletes rows, and it spares the newest RowCap.
LEMMA DeletionsSpare == ActivityInv /\ [ActivityNext]_activityVars => DeletionsSpareNewest
<1> SUFFICES ASSUME ActivityInv, [ActivityNext]_activityVars, NEW r \in activityRows,
      r \notin activityRows'
             PROVE  \/ r.at < clock - ActivityTTL
                    \/ Cardinality({q \in activityRows' : q.at >= r.at}) >= RowCap
  BY Zenon DEF DeletionsSpareNewest
<1>1. PruneTTL \/ DeleteExcess
  BY Zenon DEF ActivityNext, ActivityTick, Take, Stop, StoreRecord, FallbackRecord, ActivityRecord,
         Close, Closed,
         Count, BeginList, ListPage, EndList, activityVars
<1>2. r \in ActivityEntry /\ r.at \in Nat /\ clock \in Nat
  BY Zenon DEF ActivityInv, SinkSound, ActivityEntry
<1>3. CASE PruneTTL
  <2>1. ~(r.at >= clock - ActivityTTL)
    BY <1>3, Zenon DEF PruneTTL
  <2>2. QED
    BY <1>2, <2>1, ActivitySinkAssumption
<1>4. CASE DeleteExcess
  <2>1. /\ activityRows' \in SUBSET activityRows
        /\ \A k \in activityRows' : r.at <= k.at
        /\ Cardinality(activityRows') >= RowCap
    BY <1>4, DeleteExcessSpares, Zenon
  <2>2. \A k \in activityRows' : k.at >= r.at
    BY <1>2, <2>1, Zenon DEF ActivityInv, SinkSound, ActivityEntry
  <2>3. {q \in activityRows' : q.at >= r.at} = activityRows'
    BY <2>2, Zenon
  <2>4. QED
    BY <2>1, <2>3, Zenon
<1>5. QED
  BY <1>1, <1>3, <1>4, Zenon

\* While entries arrive between the statements of Prune, it deletes a row that is
\* not too old only when RowCap rows at least as new stay; and paging through List
\* misses no row that was there from its beginning to its end, as long as no two
\* rows have the same instant.
THEOREM StoreIsKept == ActivitySpec => StoreKeeps
<1>1. ActivityInit => ActivityInv
  BY ActivityInitInv, Zenon
<1>2. ActivityInv /\ [ActivityNext]_activityVars => ActivityInv'
  BY ActivityNextInv, Zenon
<1>3. ActivityInv /\ [ActivityNext]_activityVars => DeletionsSpareNewest
  BY DeletionsSpare, Zenon
<1>4. ActivityInv => NoneMissed
  BY Zenon DEF ActivityInv, ListSound, NoneMissed
<1>5. QED
  BY <1>1, <1>2, <1>3, <1>4, PTL DEF ActivitySpec, StoreKeeps

=============================================================================
