----------------------------- MODULE SyncProofs -----------------------------
(***************************************************************************)
(* Proofs about sync cursors, sync runs, sync jobs and the conflict ledger *)
(* (SyncCursor, SyncRun, SyncJobs, SyncConflicts), for any callers, calls, *)
(* feeds and faults.                                                       *)
(***************************************************************************)
EXTENDS SyncCursor, SyncRun, SyncJobs, SyncConflicts, TLAPS

-----------------------------------------------------------------------------
(* Sync cursors. A transaction that may still write has compared the row   *)
(* as it stands.                                                           *)

CursorInv == TypeOK /\ Fresh

\* The invariant holds of an empty cursor store.
LEMMA InitCursorInv == Init => CursorInv
BY CursorAssumption DEF Init, Idle, CursorInv, TypeOK, Fresh, Locals, Stored, PCs

\* Every step of Advance and Upsert keeps the types.
LEMMA NextTypeOK == TypeOK /\ [Next]_vars => TypeOK'
<1> SUFFICES ASSUME TypeOK, [Next]_vars PROVE TypeOK'
  BY Zenon
<1> Idle \in Locals
  BY CursorAssumption, Zenon DEF Idle, Locals, Stored, PCs
<1>1. ASSUME NEW c \in Callers, NEW l \in Locals, Goto(c, l),
             l.pc \in {"find", "store"} => l.new \in Cursors,
             l.pc = "idle" => l = Idle, l.op = "upsert" => l.exp = None,
             row' \in Stored, commits' \in Nat
      PROVE  TypeOK'
  BY <1>1, Zenon DEF TypeOK, Goto
<1>2. ASSUME NEW c \in Callers, Load(c) PROVE TypeOK'
  <2>1. [Idle EXCEPT !.pc = "loaded", !.op = "advance", !.exp = row, !.base = commits] \in Locals
    BY Zenon DEF TypeOK, Locals, PCs
  <2> QED BY <1>1, <1>2, <2>1, Zenon DEF Load, TypeOK, Locals
<1>3. ASSUME NEW c \in Callers, NEW op \in {"upsert", "advance"}, NEW new \in Cursors,
             Begin(c, op, new)
      PROVE  TypeOK'
  <2>1. [at[c] EXCEPT !.pc = "find", !.op = op, !.new = new] \in Locals
    BY Zenon DEF TypeOK, Locals, PCs, Stored
  <2> QED BY <1>1, <1>3, <2>1, Zenon DEF Begin, TypeOK, Locals, Idle
<1>4. ASSUME NEW c \in Callers, Find(c) PROVE TypeOK'
  <2>1. [at[c] EXCEPT !.pc = "store", !.rec = row, !.seen = commits] \in Locals
    BY Zenon DEF TypeOK, Locals, PCs
  <2> QED BY <1>1, <1>4, <2>1, Zenon DEF Find, TypeOK, Locals
<1>5. ASSUME NEW c \in Callers, Conflict(c) \/ Abandon(c) PROVE TypeOK'
  BY <1>1, <1>5, Zenon DEF Conflict, Abandon, TypeOK, Idle
<1>6. ASSUME NEW c \in Callers, Store(c) PROVE TypeOK'
  BY <1>1, <1>6 DEF Store, TypeOK, Idle, Stored
<1>7. CASE UNCHANGED vars
  BY <1>7, Zenon DEF vars, TypeOK
<1> QED BY <1>2, <1>3, <1>4, <1>5, <1>6, <1>7, Zenon DEF Next

\* What a transaction has compared is what it may write over.
LEMMA NextFresh == CursorInv /\ [Next]_vars => Fresh'
<1> DEFINE Good(l) == /\ l.seen <= commits'
                      /\ l.seen = commits' => l.rec = row'
                      /\ l.op = "advance" => Matches(l.rec, l.exp)
<1> SUFFICES ASSUME TypeOK, Fresh, [Next]_vars, NEW c \in Callers, at'[c].pc = "store"
             PROVE  Good(at'[c])
  BY Zenon DEF CursorInv, Fresh, Matches
<1> at \in [Callers -> Locals] /\ commits \in Nat
  BY Zenon DEF TypeOK
<1>1. CASE UNCHANGED vars
  BY <1>1, Zenon DEF vars, Fresh
<1>2. ASSUME NEW d \in Callers, Find(d) PROVE Good(at'[c])
  <2>1. CASE c = d
    BY <1>2, <2>1 DEF Find, Goto, Locals
  <2>2. CASE c # d
    BY <1>2, <2>2, Zenon DEF Find, Goto, Fresh
  <2> QED BY <2>1, <2>2, Zenon
<1>3. ASSUME NEW d \in Callers, Store(d) PROVE Good(at'[c])
  <2>1. c # d
    BY <1>3, Zenon DEF Store, Goto, Idle
  <2>2. at'[c] = at[c] /\ commits' = commits + 1
    BY <1>3, <2>1, Zenon DEF Store, Goto
  <2>3. at[c].seen \in Nat
    BY Zenon DEF Locals
  <2> QED BY <2>2, <2>3 DEF Fresh
<1>4. ASSUME NEW d \in Callers, at'[d].pc # "store", UNCHANGED <<row, commits, by>>,
             c # d => at'[c] = at[c]
      PROVE  Good(at'[c])
  BY <1>4, Zenon DEF Fresh
<1>5. ASSUME NEW d \in Callers, Load(d) PROVE Good(at'[c])
  BY <1>4, <1>5, Zenon DEF Load, Goto, Idle
<1>6. ASSUME NEW d \in Callers, Conflict(d) \/ Abandon(d) PROVE Good(at'[c])
  BY <1>4, <1>6 DEF Conflict, Abandon, Goto, Idle
<1>7. ASSUME NEW d \in Callers, NEW op \in {"upsert", "advance"}, NEW new \in Cursors,
             Begin(d, op, new)
      PROVE  Good(at'[c])
  BY <1>4, <1>7 DEF Begin, Goto, Locals
<1> QED BY <1>1, <1>2, <1>3, <1>5, <1>6, <1>7, Zenon DEF Next

\* The type invariant, and the fact the refinement rests on: a transaction
\* that may still write has compared the row as it stands.
THEOREM CursorSafe == Spec => [](TypeOK /\ Fresh)
<1>1. CursorInv /\ [Next]_vars => CursorInv'
  BY NextTypeOK, NextFresh, Zenon DEF CursorInv
<1>2. Spec => []CursorInv
  BY InitCursorInv, <1>1, PTL DEF Spec
<1> QED BY <1>2, PTL DEF CursorInv

\* Upsert and Advance of the SQL store implement the compare-and-set register
\* wherever a transaction cannot write over what it has not read.
THEOREM CursorRefines == SnapshotWrites /\ Spec => ImplementsRegister
<1> SUFFICES ASSUME SnapshotWrites PROVE Spec => ImplementsRegister
  BY Zenon
<1>1. Init => Register!RegisterInit
  BY Zenon DEF Init, Register!RegisterInit
<1>2. CursorInv /\ [Next]_vars => [Register!RegisterNext]_<<row, by>>
  <2> SUFFICES ASSUME TypeOK, Fresh, Next, <<row, by>>' # <<row, by>>
               PROVE  Register!RegisterNext
    BY Zenon DEF CursorInv, vars
  <2>1. PICK c \in Callers : Store(c)
    BY Zenon DEF Next, Load, Begin, Find, Conflict, Abandon
  <2>2. /\ row' = at[c].new /\ at[c].new \in Cursors
        /\ by' = [op |-> at[c].op, exp |-> at[c].exp]
    BY <2>1, Zenon DEF Store, TypeOK
  <2>3. at[c].op \in {"upsert", "advance"} /\ at[c].exp \in Cursors \cup {None}
    BY Zenon DEF TypeOK, Locals, Stored
  <2>4. CASE at[c].op = "upsert"
    <3>1. at[c].exp = None
      BY <2>4, Zenon DEF TypeOK
    <3> QED BY <2>2, <2>4, <3>1, Zenon DEF Register!RegisterNext, Register!Set
  <2>5. CASE at[c].op = "advance"
    <3>1. Matches(row, at[c].exp)
      BY <2>1, <2>5, Zenon DEF Store, MayStore, Fresh
    <3> QED BY <2>2, <2>3, <2>5, <3>1, Zenon
            DEF Register!RegisterNext, Register!CompareAndSet, Register!Expected, Matches
  <2> QED BY <2>3, <2>4, <2>5, Zenon
<1>3. Spec => []CursorInv
  BY CursorSafe, PTL DEF CursorInv
<1> QED BY <1>1, <1>2, <1>3, PTL
        DEF Spec, ImplementsRegister, Register!RegisterSpec

\* A caller that has loaded the cursor it expects and has not compared it yet:
\* unless somebody has committed since, it expects the row as it stands.
Expecting(l, stored, n) ==
    l.pc = "loaded" \/ (l.pc = "find" /\ l.op = "advance") =>
        l.base <= n /\ (l.base = n => l.exp = stored)

LoadedInv == CursorInv /\ \A c \in Callers : Expecting(at[c], row, commits)

\* Every step keeps what the loaded callers expect.
LEMMA NextLoadedInv == LoadedInv /\ [Next]_vars => LoadedInv'
<1> SUFFICES ASSUME LoadedInv, [Next]_vars, NEW c \in Callers
             PROVE  Expecting(at'[c], row', commits')
  BY NextTypeOK, NextFresh, Zenon DEF LoadedInv, CursorInv
<1>1. /\ at \in [Callers -> Locals] /\ commits \in Nat /\ at[c].base \in Nat
      /\ Expecting(at[c], row, commits)
  BY Zenon DEF LoadedInv, CursorInv, TypeOK, Locals
<1>2. Expecting(Idle, row', commits')
  BY Zenon DEF Expecting, Idle
<1>3. ASSUME NEW d \in Callers, Load(d) PROVE Expecting(at'[c], row', commits')
  BY <1>1, <1>3 DEF Load, Goto, Idle, Expecting
<1>4. ASSUME NEW d \in Callers, NEW op \in {"upsert", "advance"}, NEW new \in Cursors,
             Begin(d, op, new)
      PROVE  Expecting(at'[c], row', commits')
  <2>1. CASE c # d
    BY <1>1, <1>4, <2>1, Zenon DEF Begin, Goto
  <2>2. CASE c = d
    <3>1. /\ at'[c].pc = "find" /\ at'[c].op = op
          /\ at'[c].exp = at[c].exp /\ at'[c].base = at[c].base
      BY <1>1, <1>4, <2>2, Zenon DEF Begin, Goto, Locals
    <3>2. op = "advance" => at[c].pc = "loaded"
      BY <1>4, <2>2, Zenon DEF Begin
    <3> QED BY <1>1, <1>4, <3>1, <3>2, Zenon DEF Begin, Expecting
  <2> QED BY <2>1, <2>2, Zenon
<1>5. ASSUME NEW d \in Callers, Find(d) PROVE Expecting(at'[c], row', commits')
  BY <1>1, <1>5, Zenon DEF Find, Goto, Expecting, Locals
<1>6. ASSUME NEW d \in Callers, Conflict(d) \/ Abandon(d) PROVE Expecting(at'[c], row', commits')
  BY <1>1, <1>2, <1>6, Zenon DEF Conflict, Abandon, Goto
<1>7. ASSUME NEW d \in Callers, Store(d) PROVE Expecting(at'[c], row', commits')
  <2>1. commits' = commits + 1
    BY <1>7, Zenon DEF Store
  <2>2. CASE c = d
    BY <1>1, <1>2, <1>7, <2>2, Zenon DEF Store, Goto
  <2>3. CASE c # d
    <3>1. at'[c] = at[c]
      BY <1>1, <1>7, <2>3, Zenon DEF Store, Goto
    <3> QED BY <1>1, <2>1, <3>1 DEF Expecting
  <2> QED BY <2>2, <2>3, Zenon
<1>8. CASE UNCHANGED vars
  BY <1>1, <1>8, Zenon DEF vars
<1> QED BY <1>3, <1>4, <1>5, <1>6, <1>7, <1>8, Zenon DEF Next

\* ErrSyncCursorConflict is never a false alarm: whatever the database lets
\* transactions overwrite, an Advance is refused only when another call has
\* committed since its caller loaded the cursor.
THEOREM ConflictsAreReal == Spec => ConflictIsReal
<1>1. LoadedInv /\ [Next]_vars => [\A c \in Callers : Conflict(c) => commits > at[c].base]_vars
  <2> SUFFICES ASSUME LoadedInv, NEW c \in Callers, Conflict(c) PROVE commits > at[c].base
    BY Zenon
  <2>1. /\ at[c].base \in Nat /\ commits \in Nat /\ at[c].exp \in Stored
        /\ Expecting(at[c], row, commits)
    BY Zenon DEF LoadedInv, CursorInv, TypeOK, Locals
  <2>2. at[c].exp # row
    BY Zenon DEF Conflict, Matches
  <2> QED BY <2>1, <2>2 DEF Conflict, Expecting
<1>2. Init => LoadedInv
  BY InitCursorInv DEF Init, Idle, LoadedInv, Expecting
<1>3. Spec => []LoadedInv
  BY <1>2, NextLoadedInv, PTL DEF Spec
<1> QED BY <1>1, <1>3, PTL DEF Spec, ConflictIsReal

-----------------------------------------------------------------------------
(* Sync runs.  A run that applies its changes has everything up to its     *)
(* loop's checkpoint in the log, except while it appends the change the    *)
(* checkpoint has just moved to.                                           *)

Checkpoint == [seq : Nat, ver : Nat]

RunLocals == [pc : {"idle", "started", "change", "append", "save", "saved"},
              mode : {"apply", "dry_run"}, plan : Checkpoint, last : Nat,
              cp : Checkpoint]

Logged(n, lg) == \A i \in 1 .. n : Feed[i] \in lg

RunSound(l, lg) ==
    /\ l.pc \in {"append", "save", "saved"} => l.mode = "apply"
    /\ l.pc # "idle" /\ l.mode = "apply" =>
          /\ l.cp.seq = l.cp.ver
          /\ Logged(IF l.pc = "append" THEN l.cp.ver - 1 ELSE l.cp.ver, lg)

Resumable(cp, lg) == cp \in Checkpoint /\ cp.seq = cp.ver /\ Logged(cp.ver, lg)

FailedAt(cp, lg) == cp \in Checkpoint /\ cp.seq = cp.ver /\ Logged(cp.ver - 1, lg)

RunInv ==
    /\ run \in [Runners -> RunLocals]
    /\ \A cp \in saved \cup {latest} : Resumable(cp, log)
    /\ \A cp \in failed : FailedAt(cp, log)
    /\ \A r \in Runners : RunSound(run[r], log)

\* No run is under way and nothing is claimed of an idle runner.
LEMMA RunIdleSound ==
    /\ RunStart \in Checkpoint /\ RunStart.seq = 0 /\ RunStart.ver = 0
    /\ RunIdle \in RunLocals
    /\ \A lg : RunSound(RunIdle, lg)
BY Zenon DEF RunStart, RunIdle, Checkpoint, RunLocals, RunSound

\* The invariant holds before any run.
LEMMA RunInitInv == RunInit => RunInv
<1> SUFFICES ASSUME RunInit PROVE RunInv
  BY Zenon
<1>1. Resumable(RunStart, log)
  BY RunIdleSound DEF Resumable, Logged
<1> QED BY <1>1, RunIdleSound, Zenon DEF RunInit, RunInv

\* What is logged stays so in a larger log.
LEMMA LogGrows ==
    ASSUME NEW lg, NEW more, lg \subseteq more
    PROVE  /\ \A cp : Resumable(cp, lg) => Resumable(cp, more)
           /\ \A cp : FailedAt(cp, lg) => FailedAt(cp, more)
           /\ \A l : RunSound(l, lg) => RunSound(l, more)
BY Zenon DEF Resumable, FailedAt, RunSound, Logged

\* A step of one runner keeps the invariant when the runner's new locals are
\* sound, as are the checkpoints it adds.
LEMMA RunStepInv ==
    ASSUME RunInv, log \subseteq log',
           NEW r \in Runners, NEW l \in RunLocals, RunGoto(r, l), RunSound(l, log'),
           \A cp \in saved' \cup {latest'} : cp \in saved \cup {latest} \/ Resumable(cp, log'),
           \A cp \in failed' : cp \in failed \/ FailedAt(cp, log')
    PROVE  RunInv'
<1>1. run' \in [Runners -> RunLocals]
  BY Zenon DEF RunInv, RunGoto
<1>2. \A cp \in saved' \cup {latest'} : Resumable(cp, log')
  BY LogGrows, Zenon DEF RunInv
<1>3. \A cp \in failed' : FailedAt(cp, log')
  BY LogGrows, Zenon DEF RunInv
<1>4. ASSUME NEW q \in Runners PROVE RunSound(run'[q], log')
  <2>1. CASE q = r
    BY <2>1, Zenon DEF RunInv, RunGoto
  <2>2. CASE q # r
    <3>1. run'[q] = run[q] /\ RunSound(run[q], log)
      BY <2>2, Zenon DEF RunInv, RunGoto
    <3> QED BY <3>1, LogGrows, Zenon
  <2> QED BY <2>1, <2>2, Zenon
<1> QED BY <1>1, <1>2, <1>3, <1>4, Zenon DEF RunInv

\* Every step of planning and running keeps the invariant.
LEMMA RunNextInv == RunInv /\ [RunNext]_runVars => RunInv'
<1> SUFFICES ASSUME RunInv, [RunNext]_runVars PROVE RunInv'
  BY Zenon
<1> USE RunIdleSound
<1>1. ASSUME NEW r \in Runners
      PROVE  /\ run[r] \in RunLocals /\ RunSound(run[r], log)
             /\ run[r].cp \in Checkpoint /\ run[r].cp.ver \in Nat /\ run[r].cp.seq \in Nat
  BY Zenon DEF RunInv, RunLocals, Checkpoint
<1>2. ASSUME NEW r \in Runners, NEW mode \in {"apply", "dry_run"},
             NEW from \in saved \cup {latest}, Plan(r, mode, from)
      PROVE  RunInv'
  <2> DEFINE l == [pc |-> "started", mode |-> mode, plan |-> from, cp |-> from,
                   last |-> IF from.ver + Limit < Len(Feed) THEN from.ver + Limit
                            ELSE Len(Feed)]
  <2>1. Resumable(from, log)
    BY Zenon DEF RunInv
  <2>2. Len(Feed) \in Nat /\ Limit \in Nat /\ from.ver \in Nat
    BY <2>1, SyncRunAssumption DEF Resumable, Checkpoint
  <2>3. l \in RunLocals
    BY <2>1, <2>2 DEF Resumable, RunLocals
  <2>4. RunSound(l, log)
    BY <2>1, Zenon DEF RunSound, Resumable
  <2>5. RunGoto(r, l) /\ UNCHANGED <<log, latest, saved, failed>>
    BY <1>2, Zenon DEF Plan
  <2> HIDE DEF l
  <2> QED BY <2>3, <2>4, <2>5, RunStepInv, Zenon
<1>3. ASSUME NEW r \in Runners, NEW pc, NEW next \in {"change"}, pc # "append", pc # "idle",
             RunPublish(r, pc, next)
      PROVE  RunInv'
  <2>1. [run[r] EXCEPT !.pc = next] \in RunLocals
    BY <1>1, Zenon DEF RunLocals
  <2>2. RunSound([run[r] EXCEPT !.pc = next], log)
    BY <1>1, <1>3, Zenon DEF RunSound, RunPublish, RunLocals
  <2>3. UNCHANGED <<log, latest, saved, failed>>
    BY <1>3, Zenon DEF RunPublish
  <2>4. RunGoto(r, [run[r] EXCEPT !.pc = next]) \/ RunGoto(r, RunIdle)
    BY <1>3, Zenon DEF RunPublish
  <2> QED BY <2>1, <2>2, <2>3, <2>4, RunStepInv, Zenon
<1>4. ASSUME NEW r \in Runners, Started(r) \/ Saved(r) PROVE RunInv'
  BY <1>3, <1>4, Zenon DEF Started, Saved
<1>5. ASSUME NEW r \in Runners, Change(r) PROVE RunInv'
  <2> DEFINE l == [run[r] EXCEPT !.cp = Advanced(@),
                       !.pc = IF run[r].mode = "dry_run" THEN "change" ELSE "append"]
  <2>4. Advanced(run[r].cp) \in Checkpoint
    BY <1>1 DEF Checkpoint, Advanced
  <2>1. l \in RunLocals
    BY <1>1, <2>4, Zenon DEF RunLocals
  <2>2. RunSound(l, log)
    BY <1>1, <1>5 DEF RunSound, Change, RunLocals, Checkpoint, Advanced
  <2>3. RunGoto(r, l) /\ UNCHANGED <<log, latest, saved, failed>>
    BY <1>5, Zenon DEF Change
  <2> HIDE DEF l
  <2> QED BY <2>1, <2>2, <2>3, RunStepInv, Zenon
<1>6. ASSUME NEW r \in Runners, EndFailed(r), log \subseteq log', UNCHANGED <<latest, saved>>,
             run[r].pc # "idle"
      PROVE  RunInv'
  <2>1. run[r].mode = "apply" => FailedAt(run[r].cp, log)
    BY <1>1, <1>6 DEF FailedAt, RunSound, Logged
  <2>2. \A cp \in failed' : cp \in failed \/ FailedAt(cp, log')
    BY <1>6, <2>1, LogGrows, Zenon DEF EndFailed
  <2> QED BY <1>6, <2>2, RunStepInv, Zenon DEF EndFailed
<1>7. ASSUME NEW r \in Runners, Invalid(r) \/ AppendFails(r) \/ SaveFails(r) PROVE RunInv'
  BY <1>6, <1>7, Zenon DEF Invalid, AppendFails, SaveFails
<1>8. ASSUME NEW r \in Runners, Append1(r) PROVE RunInv'
  <2>1. [run[r] EXCEPT !.pc = "save"] \in RunLocals
    BY <1>1, Zenon DEF RunLocals
  <2>2. /\ log' = log \cup {Feed[run[r].cp.ver]} /\ run[r].pc = "append"
        /\ RunGoto(r, [run[r] EXCEPT !.pc = "save"]) /\ UNCHANGED <<latest, saved, failed>>
    BY <1>8, Zenon DEF Append1
  <2>3. run[r].mode = "apply" /\ run[r].cp.seq = run[r].cp.ver /\ Logged(run[r].cp.ver - 1, log)
    BY <1>1, <2>2, Zenon DEF RunSound
  <2>4. Logged(run[r].cp.ver, log')
    BY <1>1, <2>2, <2>3 DEF Logged
  <2>5. RunSound([run[r] EXCEPT !.pc = "save"], log')
    BY <1>1, <2>3, <2>4, Zenon DEF RunSound, RunLocals
  <2> QED BY <2>1, <2>2, <2>5, RunStepInv, Zenon
<1>9. ASSUME NEW r \in Runners, Save(r) PROVE RunInv'
  <2>1. [run[r] EXCEPT !.pc = "saved"] \in RunLocals
    BY <1>1, Zenon DEF RunLocals
  <2>2. /\ run[r].pc = "save" /\ latest' = run[r].cp /\ saved' = saved \cup {run[r].cp}
        /\ RunGoto(r, [run[r] EXCEPT !.pc = "saved"]) /\ UNCHANGED <<log, failed>>
    BY <1>9, Zenon DEF Save
  <2>3. Resumable(run[r].cp, log)
    BY <1>1, <2>2, Zenon DEF RunSound, Resumable
  <2>4. RunSound([run[r] EXCEPT !.pc = "saved"], log)
    BY <1>1, <2>2, Zenon DEF RunSound, RunLocals
  <2> QED BY <2>1, <2>2, <2>3, <2>4, RunStepInv, Zenon
<1>10. ASSUME NEW r \in Runners, Succeed(r) \/ Stop(r) PROVE RunInv'
  BY <1>10, RunStepInv, Zenon DEF Succeed, Stop
<1>11. CASE UNCHANGED runVars
  BY <1>11, Zenon DEF runVars, RunInv
<1> QED BY <1>2, <1>4, <1>5, <1>7, <1>8, <1>9, <1>10, <1>11, Zenon DEF RunNext, Step

\* The change log covers the checkpoints: whatever is saved, and so every
\* checkpoint a plan can start from, has its changes in the log and counts
\* them, and a failed run reports at most one change more, for any feed and
\* any number of runners and faults.
THEOREM RunsCovered == RunSpec => []LogCoversCheckpoints
<1>1. RunInv => LogCoversCheckpoints
  BY Zenon DEF RunInv, LogCoversCheckpoints, LoggedUpToCheckpoint, FailedAtMostOneAhead,
         SequenceCounts, Resumable, FailedAt, Logged
<1> QED BY RunInitInv, RunNextInv, <1>1, PTL DEF RunSpec

-----------------------------------------------------------------------------
(* Sequences: what Append and replacing an element do.                     *)

\* Append keeps what was there and puts the new element last.
LEMMA AppendFacts ==
    ASSUME NEW S, NEW s \in Seq(S), NEW x \in S
    PROVE  /\ Append(s, x) \in Seq(S) /\ Len(Append(s, x)) = Len(s) + 1
           /\ Len(s) \in Nat /\ DOMAIN s = 1 .. Len(s)
           /\ Append(s, x)[Len(s) + 1] = x
           /\ \A i \in 1 .. Len(s) : Append(s, x)[i] = s[i]
OBVIOUS

\* Replacing one element keeps the length, the type and the other elements.
LEMMA ReplaceFacts ==
    ASSUME NEW S, NEW s \in Seq(S), NEW x \in S, NEW i \in 1 .. Len(s)
    PROVE  /\ [s EXCEPT ![i] = x] \in Seq(S) /\ Len([s EXCEPT ![i] = x]) = Len(s)
           /\ [s EXCEPT ![i] = x][i] = x
           /\ \A k \in 1 .. Len(s) : k # i => [s EXCEPT ![i] = x][k] = s[k]
OBVIOUS

-----------------------------------------------------------------------------
(* Sync jobs: types, and what a caller's locals say about its call.        *)

Job == [connection : Connections \cup {JobNone}, checkpoint : Nat, attempts : Nat,
        status : {"queued", "running", "succeeded", "failed"}]

Mutations == {"resume", "save", "complete", "fail"}

Writing == [by : {"start", "create"} \cup Mutations, attempts : Nat, checkpoint : Nat]

JobLocals == [pc : {"idle", "insert", "tx", "find", "write", "finish"},
              op : {"start", "create"} \cup Mutations, call : Nat, job : Nat, rec : Job,
              key : Keys \cup {JobNone}]

\* n jobs are stored, and fin are the pairs given to Complete.
JobSound(l, n, fin) ==
    /\ l.pc \in {"insert", "tx"} => l.rec.attempts = 0 /\ l.rec.status = "queued"
    /\ l.pc = "insert" => l.op = "start"
    /\ l.pc = "tx" => l.op = "create"
    /\ l.pc = "find" => l.key \in Keys
    /\ l.pc \in {"write", "finish"} =>
          /\ l.job \in 1 .. n /\ l.op \in Mutations
          /\ l.op = "complete" => l.rec.checkpoint = l.call /\ <<l.job, l.call>> \in fin
    /\ l.pc = "write" => l.rec.status # "succeeded"
    /\ l.pc = "finish" => l.op = "complete"

JobTypeOK ==
    /\ jobs \in Seq(Job) /\ written \in Seq(Writing) /\ Len(written) = Len(jobs)
    /\ idem \in [Keys -> Nat] /\ cursor \in Nat /\ jobCalls \in Nat
    /\ active \subseteq Connections
    /\ jobAt \in [JobCallers -> JobLocals]
    /\ \A c \in JobCallers : JobSound(jobAt[c], Len(jobs), finishing)

\* An idle caller is sound, whatever the jobs are.
LEMMA JobIdleSound ==
    /\ JobIdle \in JobLocals
    /\ \A n, fin : JobSound(JobIdle, n, fin)
BY Zenon DEF JobIdle, NewJob, JobLocals, JobSound, Job

\* The types hold of an empty job store.
LEMMA JobInitType == JobInit => JobTypeOK
<1> SUFFICES ASSUME JobInit PROVE JobTypeOK
  BY Zenon
<1>1. jobs \in Seq(Job) /\ written \in Seq(Writing) /\ Len(written) = Len(jobs)
  BY DEF JobInit
<1>2. \A c \in JobCallers : jobAt[c] = JobIdle
  BY Zenon DEF JobInit
<1> QED BY <1>1, <1>2, JobIdleSound, Zenon DEF JobInit, JobTypeOK

\* More jobs and more pairs leave sound locals sound.
LEMMA JobSoundGrows ==
    ASSUME NEW n \in Nat, NEW m \in Nat, n <= m, NEW fin, NEW more, fin \subseteq more
    PROVE  \A l : JobSound(l, n, fin) => JobSound(l, m, more)
BY DEF JobSound

\* A step of one caller that stores well-typed rows and leaves the caller with
\* sound locals keeps the types.
LEMMA JobStepType ==
    ASSUME JobTypeOK, NEW c \in JobCallers, NEW l \in JobLocals, JobGoto(c, l),
           jobs' \in Seq(Job), written' \in Seq(Writing), Len(written') = Len(jobs'),
           Len(jobs) <= Len(jobs'), finishing \subseteq finishing',
           idem' \in [Keys -> Nat], cursor' \in Nat, jobCalls' \in Nat,
             active' \subseteq Connections,
           JobSound(l, Len(jobs'), finishing')
    PROVE  JobTypeOK'
<1>1. jobAt' \in [JobCallers -> JobLocals]
  BY Zenon DEF JobTypeOK, JobGoto
<1>2. Len(jobs) \in Nat /\ Len(jobs') \in Nat
  BY DEF JobTypeOK
<1>3. ASSUME NEW d \in JobCallers PROVE JobSound(jobAt'[d], Len(jobs'), finishing')
  <2>1. CASE d = c
    BY <2>1, Zenon DEF JobTypeOK, JobGoto
  <2>2. CASE d # c
    <3>1. jobAt'[d] = jobAt[d] /\ JobSound(jobAt[d], Len(jobs), finishing)
      BY <2>2, Zenon DEF JobTypeOK, JobGoto
    <3> QED BY <1>2, <3>1, JobSoundGrows, Zenon
  <2> QED BY <2>1, <2>2, Zenon
<1> QED BY <1>1, <1>3, Zenon DEF JobTypeOK

\* What a call makes of the row it read is a row.
LEMMA ChangedFacts ==
    ASSUME NEW rec \in Job, NEW op \in Mutations, NEW call \in Nat
    PROVE  /\ Changed(rec, op, call) \in Job
           /\ op \in {"resume", "fail"} =>
                /\ Changed(rec, op, call).attempts = rec.attempts + 1
                /\ Changed(rec, op, call).checkpoint = rec.checkpoint
           /\ op \in {"save", "complete"} =>
                /\ Changed(rec, op, call).attempts = rec.attempts
                /\ Changed(rec, op, call).checkpoint = call
           /\ (op = "resume" => rec.status # "succeeded")
                => Changed(rec, op, call).status # "succeeded"
<1> DEFINE new == Changed(rec, op, call)
<1> rec.attempts \in Nat /\ rec.attempts + 1 \in Nat
  BY DEF Job
<1>1. CASE op = "resume"
  <2>1. new = [rec EXCEPT !.attempts = rec.attempts + 1,
                          !.status = IF rec.status = "failed" THEN "queued" ELSE rec.status]
    BY <1>1, Zenon DEF Changed
  <2> HIDE DEF new
  <2>2. new \in Job
    BY <2>1, Zenon DEF Job
  <2>4. new.attempts = rec.attempts + 1 /\ new.checkpoint = rec.checkpoint
    BY <2>1, Zenon DEF Job
  <2>3. rec.status # "succeeded" => new.status # "succeeded"
    BY <2>1, Zenon DEF Job
  <2> QED BY <1>1, <2>2, <2>3, <2>4, Zenon DEF new
<1>2. CASE op = "fail"
  <2>1. new = [rec EXCEPT !.attempts = rec.attempts + 1, !.status = "failed"]
    BY <1>2, Zenon DEF Changed
  <2> HIDE DEF new
  <2>2. new \in Job
    BY <2>1, Zenon DEF Job
  <2>3. /\ new.attempts = rec.attempts + 1 /\ new.checkpoint = rec.checkpoint
        /\ new.status = "failed"
    BY <2>1, Zenon DEF Job
  <2> QED BY <1>2, <2>2, <2>3, Zenon DEF new
<1>3. CASE op \in {"save", "complete"}
  <2>1. new = [rec EXCEPT !.checkpoint = call, !.status = "running"]
    BY <1>3, Zenon DEF Changed
  <2> HIDE DEF new
  <2>2. /\ new \in Job /\ new.attempts = rec.attempts /\ new.checkpoint = call
        /\ new.status = "running"
    BY <2>1, Zenon DEF Job
  <2> QED BY <1>3, <2>2, Zenon DEF new
<1> QED BY <1>1, <1>2, <1>3, Zenon DEF Mutations

\* Every step of the service and the orchestrator keeps the types.
LEMMA JobNextType == JobTypeOK /\ [JobNext]_jobVars => JobTypeOK'
<1> SUFFICES ASSUME JobTypeOK, [JobNext]_jobVars PROVE JobTypeOK'
  BY Zenon
<1>1. ASSUME NEW c \in JobCallers
      PROVE  jobAt[c] \in JobLocals /\ JobSound(jobAt[c], Len(jobs), finishing)
  BY Zenon DEF JobTypeOK
<1>2. /\ jobs \in Seq(Job) /\ written \in Seq(Writing) /\ Len(written) = Len(jobs)
      /\ Len(jobs) \in Nat /\ idem \in [Keys -> Nat] /\ cursor \in Nat /\ jobCalls \in Nat
      /\ active \subseteq Connections
  BY DEF JobTypeOK
<1>3. ASSUME UNCHANGED <<jobs, idem, jobAt, jobCalls, history>>, cursor' \in Nat,
             active' \subseteq Connections
      PROVE  JobTypeOK'
  BY <1>3, Zenon DEF JobTypeOK, history
<1>4. ASSUME NEW conn \in Connections, Toggle(conn) PROVE JobTypeOK'
  BY <1>2, <1>3, <1>4, Zenon DEF Toggle
<1>5. ASSUME CursorMoves PROVE JobTypeOK'
  BY <1>2, <1>3, <1>5, Zenon DEF CursorMoves
<1>6. ASSUME NEW conn \in Connections \cup {JobNone}, NEW n \in Nat
      PROVE  /\ NewJob(conn, n) \in Job /\ NewJob(conn, n).attempts = 0
             /\ NewJob(conn, n).status = "queued"
  BY Zenon DEF NewJob, Job
<1>7. ASSUME NEW c \in JobCallers, JobStart(c) PROVE JobTypeOK'
  <2>1. PICK conn \in Connections, seen \in {0, cursor} :
            JobGoto(c, [JobIdle EXCEPT !.pc = "insert", !.call = jobCalls',
                                       !.rec = NewJob(conn, seen)])
    BY <1>7, Zenon DEF JobStart
  <2>2. jobCalls' \in Nat /\ UNCHANGED <<jobs, idem, cursor, active, written, finishing>>
    BY <1>2, <1>7 DEF JobStart, JobBegin, history
  <2> DEFINE l == [JobIdle EXCEPT !.pc = "insert", !.call = jobCalls',
                                  !.rec = NewJob(conn, seen)]
  <2>3. l \in JobLocals /\ l.pc = "insert" /\ l.op = "start" /\ l.rec = NewJob(conn, seen)
    BY <1>2, <1>6, <2>2, JobIdleSound, Zenon DEF JobLocals, JobIdle
  <2>4. JobSound(l, Len(jobs), finishing)
    BY <1>2, <1>6, <2>3 DEF JobSound
  <2> HIDE DEF l
  <2> QED BY <1>2, <2>1, <2>2, <2>3, <2>4, JobStepType DEF l
<1>8. ASSUME NEW c \in JobCallers, Insert(c)
      PROVE  /\ jobs' \in Seq(Job) /\ written' \in Seq(Writing) /\ Len(written') = Len(jobs')
             /\ Len(jobs) <= Len(jobs') /\ Len(jobs') \in Nat
  <2>1. jobAt[c].rec \in Job
    BY <1>1, Zenon DEF JobLocals
  <2>2. [by |-> jobAt[c].op, attempts |-> 0, checkpoint |-> jobAt[c].rec.checkpoint] \in Writing
    BY <1>1, <2>1, Zenon DEF Writing, JobLocals, Job
  <2> QED BY <1>2, <1>8, <2>1, <2>2, AppendFacts DEF Insert
<1>9. ASSUME NEW c \in JobCallers, StartInsert(c) PROVE JobTypeOK'
  <2>1. Insert(c) /\ JobGoto(c, JobIdle) /\ UNCHANGED <<idem, cursor, active, jobCalls, finishing>>
    BY <1>9, Zenon DEF StartInsert
  <2> QED BY <1>2, <1>8, <2>1, JobIdleSound, JobStepType, Zenon
<1>10. ASSUME NEW c \in JobCallers, Create(c) PROVE JobTypeOK'
  <2>1. PICK key \in Keys \cup {JobNone}, explicit \in Connections \cup {JobNone} :
            \E conn \in Resolves(explicit) :
               JobGoto(c, [JobIdle EXCEPT !.pc = "tx", !.op = "create", !.call = jobCalls',
                                          !.rec = NewJob(conn, 0), !.key = key])
    BY <1>10, Zenon DEF Create
  <2>2. PICK conn \in Resolves(explicit) :
            JobGoto(c, [JobIdle EXCEPT !.pc = "tx", !.op = "create", !.call = jobCalls',
                                       !.rec = NewJob(conn, 0), !.key = key])
    BY <2>1, Zenon
  <2>3. jobCalls' \in Nat /\ UNCHANGED <<jobs, idem, cursor, active, written, finishing>>
    BY <1>2, <1>10 DEF Create, JobBegin, history
  <2> DEFINE l == [JobIdle EXCEPT !.pc = "tx", !.op = "create", !.call = jobCalls',
                                  !.rec = NewJob(conn, 0), !.key = key]
  <2>4. conn \in Connections
    BY <1>2, Zenon DEF Resolves
  <2>5. /\ l \in JobLocals /\ l.pc = "tx" /\ l.op = "create" /\ l.rec = NewJob(conn, 0)
    BY <1>2, <1>6, <2>3, <2>4, JobIdleSound, Zenon DEF JobLocals, JobIdle
  <2>6. JobSound(l, Len(jobs), finishing)
    BY <1>2, <1>6, <2>4, <2>5 DEF JobSound
  <2> HIDE DEF l
  <2> QED BY <1>2, <2>2, <2>3, <2>5, <2>6, JobStepType DEF l
<1>11. ASSUME NEW c \in JobCallers, CreateTx(c) PROVE JobTypeOK'
  <2> DEFINE key == jobAt[c].key
  <2>1. key \in Keys \cup {JobNone} /\ jobAt[c].pc = "tx"
        /\ UNCHANGED <<cursor, active, jobCalls, finishing>>
    BY <1>1, <1>11, Zenon DEF JobLocals, CreateTx
  <2>2. CASE key # JobNone /\ idem[key] # 0
    <3>1. JobGoto(c, [jobAt[c] EXCEPT !.pc = "find"]) /\ UNCHANGED <<jobs, idem, written>>
      BY <1>11, <2>2, Zenon DEF CreateTx
    <3>2. [jobAt[c] EXCEPT !.pc = "find"] \in JobLocals
      BY <1>1, Zenon DEF JobLocals
    <3>3. JobSound([jobAt[c] EXCEPT !.pc = "find"], Len(jobs), finishing)
      BY <1>1, <2>1, <2>2, Zenon DEF JobSound, JobLocals
    <3> QED BY <1>2, <2>1, <3>1, <3>2, <3>3, JobStepType
  <2>3. CASE ~(key # JobNone /\ idem[key] # 0)
    <3>1. /\ Insert(c) /\ JobGoto(c, JobIdle)
          /\ idem' = [k \in Keys |-> IF k = key THEN Len(jobs') ELSE idem[k]]
      BY <1>11, <2>3, Zenon DEF CreateTx
    <3>2. Len(jobs') \in Nat
      BY <1>8, <3>1, Zenon
    <3>3. idem' \in [Keys -> Nat]
      BY <1>2, <3>1, <3>2, Zenon
    <3> QED BY <1>2, <1>8, <2>1, <3>1, <3>3, JobIdleSound, JobStepType, Zenon
  <2> QED BY <2>2, <2>3, Zenon
<1>12. ASSUME NEW c \in JobCallers, Replay(c) \/ JobAbandon(c) PROVE JobTypeOK'
  <2>1. JobGoto(c, JobIdle)
          /\ UNCHANGED <<jobs, idem, cursor, active, jobCalls, written, finishing>>
    BY <1>12, Zenon DEF Replay, JobAbandon, history
  <2> QED BY <1>2, <2>1, JobIdleSound, JobStepType
<1>13. ASSUME NEW c \in JobCallers, NEW op \in Mutations, NEW j \in DOMAIN jobs, ReadJob(c, op, j)
       PROVE  JobTypeOK'
  <2> DEFINE l == [JobIdle EXCEPT !.pc = "write", !.op = op, !.call = jobCalls', !.job = j,
                                  !.rec = Changed(jobs[j], op, jobCalls')]
  <2>1. /\ jobCalls' \in Nat /\ finishing \subseteq finishing' /\ JobGoto(c, l)
        /\ UNCHANGED <<jobs, idem, cursor, active, written>>
        /\ op = "resume" => jobs[j].status # "succeeded"
        /\ op = "complete" => <<j, jobCalls'>> \in finishing'
    BY <1>2, <1>13 DEF ReadJob, JobBegin
  <2>2. j \in 1 .. Len(jobs) /\ jobs[j] \in Job /\ j \in Nat
    BY <1>2
  <2>3. Changed(jobs[j], op, jobCalls') \in Job
    BY <2>1, <2>2, ChangedFacts, Zenon
  <2>4. /\ l \in JobLocals /\ l.pc = "write" /\ l.op = op /\ l.call = jobCalls' /\ l.job = j
        /\ l.rec = Changed(jobs[j], op, jobCalls')
    BY <2>1, <2>2, <2>3, JobIdleSound, Zenon DEF JobLocals, JobIdle
  <2>5. l.rec.status # "succeeded" /\ (op = "complete" => l.rec.checkpoint = jobCalls')
    BY <2>1, <2>2, <2>4, ChangedFacts
  <2>6. JobSound(l, Len(jobs), finishing')
    BY <2>1, <2>2, <2>4, <2>5, Zenon DEF JobSound
  <2> HIDE DEF l
  <2> QED BY <1>2, <2>1, <2>4, <2>6, JobStepType
<1>14. ASSUME NEW c \in JobCallers, jobAt[c].pc \in {"write", "finish"}
       PROVE  jobAt[c].job \in 1 .. Len(jobs) /\ jobAt[c].rec \in Job
  BY <1>1, <1>14, Zenon DEF JobSound, JobLocals
<1>15. ASSUME NEW c \in JobCallers, WriteJob(c) PROVE JobTypeOK'
  <2> DEFINE me == jobAt[c]
             w == Noted(written[me.job], me.op, me.call)
             l == IF me.op = "complete" THEN [me EXCEPT !.pc = "finish"] ELSE JobIdle
  <2>1. /\ me.pc = "write" /\ jobs' = [jobs EXCEPT ![me.job] = me.rec]
        /\ written' = [written EXCEPT ![me.job] = w] /\ JobGoto(c, l)
        /\ UNCHANGED <<idem, cursor, active, jobCalls, finishing>>
    BY <1>15, Zenon DEF WriteJob
  <2>2. me.job \in 1 .. Len(jobs) /\ me.rec \in Job /\ me.call \in Nat
    BY <1>1, <1>14, <2>1, Zenon DEF JobLocals
  <2>3. written[me.job] \in Writing
    BY <1>2, <2>2
  <2>4. w \in Writing
    BY <2>2, <2>3 DEF Writing, Noted
  <2>5. l \in JobLocals /\ JobSound(l, Len(jobs), finishing)
    <3>1. CASE me.op = "complete"
      <4>1. l = [me EXCEPT !.pc = "finish"]
        BY <3>1, Zenon
      <4>2. l \in JobLocals
        BY <1>1, <4>1, Zenon DEF JobLocals
      <4> QED BY <1>1, <2>1, <3>1, <4>1, <4>2, Zenon DEF JobSound, JobLocals
    <3>2. CASE me.op # "complete"
      BY <3>2, JobIdleSound, Zenon
    <3> QED BY <3>1, <3>2, Zenon
  <2> HIDE DEF w, l
  <2>6. jobs' \in Seq(Job) /\ Len(jobs') = Len(jobs)
    BY <1>2, <2>1, <2>2, ReplaceFacts
  <2>7. written' \in Seq(Writing) /\ Len(written') = Len(written)
    BY <1>2, <2>1, <2>2, <2>4, ReplaceFacts
  <2> QED BY <1>2, <2>1, <2>5, <2>6, <2>7, JobStepType
<1>16. ASSUME NEW c \in JobCallers, FinishJob(c) PROVE JobTypeOK'
  <2>1. /\ jobs' = [jobs EXCEPT ![jobAt[c].job] = [jobAt[c].rec EXCEPT !.status = "succeeded"]]
        /\ jobAt[c].pc = "finish" /\ JobGoto(c, JobIdle)
        /\ UNCHANGED <<idem, cursor, active, jobCalls, written, finishing>>
    BY <1>16, Zenon DEF FinishJob, history
  <2>2. [jobAt[c].rec EXCEPT !.status = "succeeded"] \in Job
    BY <1>14, <2>1, Zenon DEF Job
  <2>3. jobs' \in Seq(Job) /\ Len(jobs') = Len(jobs)
    BY <1>2, <1>14, <2>1, <2>2, ReplaceFacts
  <2>4. /\ Len(jobs) <= Len(jobs') /\ Len(written') = Len(jobs') /\ written' \in Seq(Writing)
        /\ finishing \subseteq finishing' /\ idem' \in [Keys -> Nat] /\ cursor' \in Nat
        /\ jobCalls' \in Nat /\ active' \subseteq Connections
    BY <1>2, <2>1, <2>3
  <2>5. JobIdle \in JobLocals /\ JobSound(JobIdle, Len(jobs'), finishing')
    BY JobIdleSound, Zenon
  <2> QED BY <2>1, <2>3, <2>4, <2>5, JobStepType, Zenon
<1>17. CASE UNCHANGED jobVars
  BY <1>17, Zenon DEF jobVars, JobTypeOK
<1> QED BY <1>4, <1>5, <1>7, <1>9, <1>10, <1>11, <1>12, <1>13, <1>15, <1>16, <1>17, Zenon
        DEF JobNext, Mutations

-----------------------------------------------------------------------------
(* CreateSyncJob.  The tuple names the job of every call that was answered *)
(* for its key, so a tuple without a job has no answers yet, and the call  *)
(* that inserts it is the only one told that it created the job.           *)

CreateInv ==
    /\ \A a \in answers : a.key # JobNone =>
          a.key \in Keys /\ idem[a.key] = a.job /\ a.job # 0
    /\ \A a, b \in answers : a.key = b.key /\ a.key # JobNone /\ a.created /\ b.created => a = b
    /\ \A j \in 1 .. Len(jobs) : written[j].by = "create" =>
          \E a \in answers : a.job = j /\ a.created

\* A step that binds no tuple and answers nobody keeps the answers right, as
\* long as a job it adds was not created by CreateSyncJob.
LEMMA CreateKept ==
    ASSUME CreateInv, UNCHANGED <<idem, answers>>,
           \A j \in 1 .. Len(jobs') : written'[j].by = "create" =>
              j \in 1 .. Len(jobs) /\ written[j].by = "create"
    PROVE  CreateInv'
BY Zenon DEF CreateInv

\* Every step keeps what CreateSyncJob has answered.
LEMMA JobNextCreate == JobTypeOK /\ CreateInv /\ [JobNext]_jobVars => CreateInv'
<1> SUFFICES ASSUME JobTypeOK, CreateInv, [JobNext]_jobVars PROVE CreateInv'
  BY Zenon
<1>1. ASSUME NEW c \in JobCallers
      PROVE  jobAt[c] \in JobLocals /\ JobSound(jobAt[c], Len(jobs), finishing)
  BY Zenon DEF JobTypeOK
<1>2. /\ jobs \in Seq(Job) /\ written \in Seq(Writing) /\ Len(written) = Len(jobs)
      /\ Len(jobs) \in Nat /\ idem \in [Keys -> Nat]
  BY DEF JobTypeOK
<1>3. ASSUME UNCHANGED <<jobs, idem, answers, written>> PROVE CreateInv'
  BY <1>3, CreateKept, Zenon
<1>4. ASSUME NEW conn \in Connections, Toggle(conn) PROVE CreateInv'
  BY <1>3, <1>4, Zenon DEF Toggle, history
<1>5. ASSUME CursorMoves PROVE CreateInv'
  BY <1>3, <1>5, Zenon DEF CursorMoves, history
<1>6. ASSUME NEW c \in JobCallers, JobStart(c) \/ Create(c) \/ JobAbandon(c) PROVE CreateInv'
  BY <1>3, <1>6, Zenon DEF JobStart, Create, JobAbandon, history
<1>7. ASSUME NEW c \in JobCallers, NEW op \in Mutations, NEW j \in DOMAIN jobs, ReadJob(c, op, j)
      PROVE  CreateInv'
  BY <1>3, <1>7, Zenon DEF ReadJob
<1>8. ASSUME NEW c \in JobCallers, Insert(c)
      PROVE  /\ Len(jobs') = Len(jobs) + 1 /\ written'[Len(jobs) + 1].by = jobAt[c].op
             /\ \A j \in 1 .. Len(jobs) : written'[j] = written[j]
  <2>1. jobAt[c].rec \in Job
    BY <1>1, Zenon DEF JobLocals
  <2> DEFINE w == [by |-> jobAt[c].op, attempts |-> 0, checkpoint |-> jobAt[c].rec.checkpoint]
  <2>2. w \in Writing /\ w.by = jobAt[c].op
    BY <1>1, <2>1, Zenon DEF Writing, JobLocals, Job
  <2>3. jobs' = Append(jobs, jobAt[c].rec) /\ written' = Append(written, w)
    BY <1>8, Zenon DEF Insert
  <2> HIDE DEF w
  <2> QED BY <1>2, <2>1, <2>2, <2>3, AppendFacts
<1>9. ASSUME NEW c \in JobCallers, StartInsert(c) PROVE CreateInv'
  <2>1. Insert(c) /\ UNCHANGED <<idem, answers>> /\ jobAt[c].op = "start"
    BY <1>1, <1>9, Zenon DEF StartInsert, JobSound
  <2>2. \A j \in 1 .. Len(jobs') : written'[j].by = "create" =>
           j \in 1 .. Len(jobs) /\ written[j].by = "create"
    BY <1>2, <1>8, <2>1
  <2> QED BY <2>1, <2>2, CreateKept, Zenon
<1>10. ASSUME NEW c \in JobCallers, CreateTx(c) PROVE CreateInv'
  <2> DEFINE key == jobAt[c].key
             a0 == [call |-> jobAt[c].call, key |-> key, job |-> Len(jobs'), created |-> TRUE]
  <2>1. CASE key # JobNone /\ idem[key] # 0
    BY <1>3, <1>10, <2>1, Zenon DEF CreateTx
  <2>2. CASE ~(key # JobNone /\ idem[key] # 0)
    <3>1. /\ Insert(c) /\ answers' = answers \cup {a0}
          /\ idem' = [k \in Keys |-> IF k = key THEN Len(jobs') ELSE idem[k]]
      BY <1>10, <2>2, Zenon DEF CreateTx
    <3>2. key \in Keys \cup {JobNone}
      BY <1>1, Zenon DEF JobLocals
    <3>3. a0.key = key /\ a0.job = Len(jobs) + 1 /\ a0.job # 0 /\ a0.created
      BY <1>2, <1>8, <3>1
    <3>4. \A a \in answers : a.key # JobNone => a.key # key
      BY <2>2 DEF CreateInv
    <3> HIDE DEF a0, key
    <3>5. \A a \in answers' : a.key # JobNone =>
             a.key \in Keys /\ idem'[a.key] = a.job /\ a.job # 0
      BY <1>8, <3>1, <3>2, <3>3, <3>4, Zenon DEF CreateInv
    <3>6. \A a, b \in answers' :
             a.key = b.key /\ a.key # JobNone /\ a.created /\ b.created => a = b
      BY <3>1, <3>3, <3>4, Zenon DEF CreateInv
    <3>7. ASSUME NEW j \in 1 .. Len(jobs'), written'[j].by = "create"
          PROVE  \E a \in answers' : a.job = j /\ a.created
      <4>1. CASE j = Len(jobs) + 1
        BY <3>1, <3>3, <4>1, Zenon
      <4>2. CASE j # Len(jobs) + 1
        <5>1. j \in 1 .. Len(jobs) /\ written[j].by = "create"
          BY <1>2, <1>8, <3>1, <3>7, <4>2
        <5> QED BY <3>1, <5>1, Zenon DEF CreateInv
      <4> QED BY <4>1, <4>2, Zenon
    <3> QED BY <3>5, <3>6, <3>7, Zenon DEF CreateInv
  <2> QED BY <2>1, <2>2, Zenon
<1>11. ASSUME NEW c \in JobCallers, Replay(c) PROVE CreateInv'
  <2> DEFINE a0 == [call |-> jobAt[c].call, key |-> jobAt[c].key,
                    job |-> idem[jobAt[c].key], created |-> FALSE]
  <2>1. /\ answers' = answers \cup {a0} /\ UNCHANGED <<jobs, idem, written>>
        /\ idem[jobAt[c].key] \in DOMAIN jobs /\ jobAt[c].key \in Keys
    BY <1>1, <1>11, Zenon DEF Replay, JobSound
  <2>2. a0.key \in Keys /\ a0.job = idem[a0.key] /\ a0.job # 0 /\ ~a0.created
    BY <1>2, <2>1
  <2> HIDE DEF a0
  <2> QED BY <2>1, <2>2, Zenon DEF CreateInv
<1>12. ASSUME NEW c \in JobCallers, WriteJob(c) PROVE CreateInv'
  <2> DEFINE me == jobAt[c]
             w == Noted(written[me.job], me.op, me.call)
  <2>1. /\ me.pc = "write" /\ jobs' = [jobs EXCEPT ![me.job] = me.rec]
        /\ written' = [written EXCEPT ![me.job] = w] /\ UNCHANGED <<idem, answers>>
    BY <1>12, Zenon DEF WriteJob
  <2>2. me.job \in 1 .. Len(jobs) /\ me.rec \in Job
    BY <1>1, <2>1, Zenon DEF JobSound, JobLocals
  <2>3. written[me.job] \in Writing
    BY <1>2, <2>2
  <2>4. w.by = written[me.job].by
    BY <2>3, Zenon DEF Noted, Writing
  <2>5. Len(jobs') = Len(jobs)
    BY <1>2, <2>1, <2>2, ReplaceFacts
  <2> HIDE DEF w
  <2>6. \A j \in 1 .. Len(jobs) : written'[j].by = written[j].by
    BY <1>2, <2>1, <2>2, <2>4
  <2> QED BY <2>1, <2>5, <2>6, CreateKept, Zenon
<1>13. ASSUME NEW c \in JobCallers, FinishJob(c) PROVE CreateInv'
  <2>1. /\ jobs' = [jobs EXCEPT ![jobAt[c].job] = [jobAt[c].rec EXCEPT !.status = "succeeded"]]
        /\ UNCHANGED <<idem, answers, written>>
    BY <1>13, Zenon DEF FinishJob, history
  <2>2. Len(jobs') = Len(jobs)
    BY <1>2, <2>1
  <2> QED BY <2>1, <2>2, CreateKept, Zenon
<1>14. CASE UNCHANGED jobVars
  BY <1>3, <1>14, Zenon DEF jobVars
<1> QED BY <1>4, <1>5, <1>6, <1>7, <1>9, <1>10, <1>11, <1>12, <1>13, <1>14, Zenon
        DEF JobNext, Mutations

\* CreateSyncJob is idempotent for every number of concurrent callers, keys and
\* calls: the callers of a key get one job, one of them is told that it created
\* it, and a call that lost the race leaves no job behind.
THEOREM CreateIsIdempotent == JobSpec => []IdempotentCreate
<1>1. JobInit => CreateInv
  BY DEF JobInit, CreateInv
<1>2. JobTypeOK /\ CreateInv => IdempotentCreate
  <2> SUFFICES ASSUME JobTypeOK, CreateInv PROVE IdempotentCreate
    BY Zenon
  <2>1. DOMAIN jobs = 1 .. Len(jobs)
    BY DEF JobTypeOK
  <2> QED BY <2>1, Zenon DEF CreateInv, IdempotentCreate
<1> QED BY JobInitType, JobNextType, JobNextCreate, <1>1, <1>2, PTL DEF JobSpec

-----------------------------------------------------------------------------
(* The orchestrator.  On a job that no two calls have overlapped on, the   *)
(* one call that has read the row holds what it will make of it, and the   *)
(* row agrees with the history of what was written.                        *)

Busy == {"write", "finish"}

AloneJob(j, job, w, locals) ==
    /\ job.attempts = w.attempts /\ job.checkpoint = w.checkpoint
    /\ \A c \in JobCallers : locals[c].job = j =>
          /\ locals[c].pc = "write" =>
                locals[c].rec = Changed(job, locals[c].op, locals[c].call)
          /\ locals[c].pc = "finish" =>
                /\ locals[c].rec.attempts = job.attempts
                /\ locals[c].rec.checkpoint = job.checkpoint
    /\ \A c, d \in JobCallers :
          /\ locals[c].pc \in Busy /\ locals[c].job = j
          /\ locals[d].pc \in Busy /\ locals[d].job = j
          => c = d

Completed(j, job, fin) == job.status = "succeeded" => <<j, job.checkpoint>> \in fin

RowsInv ==
    \A j \in 1 .. Len(jobs) :
        /\ Completed(j, jobs[j], finishing)
        /\ j \notin jobOverlapped => AloneJob(j, jobs[j], written[j], jobAt)

\* A caller that leaves the row alone, and is not about to write it, changes
\* nothing.
LEMMA AloneLeaves ==
    ASSUME NEW j, NEW job, NEW w, NEW locals \in [JobCallers -> JobLocals],
           NEW c \in JobCallers, NEW l \in JobLocals, l.pc \notin Busy \/ l.job # j,
           AloneJob(j, job, w, locals)
    PROVE  AloneJob(j, job, w, [locals EXCEPT ![c] = l])
BY Zenon DEF AloneJob, Busy

\* A step that only moves a caller away from the rows keeps the invariant.
LEMMA RowsLeave ==
    ASSUME JobTypeOK, RowsInv, NEW c \in JobCallers, NEW l \in JobLocals, JobGoto(c, l),
           l.pc \notin Busy, UNCHANGED <<jobs, written, finishing, jobOverlapped>>
    PROVE  RowsInv'
<1>1. jobAt \in [JobCallers -> JobLocals] /\ jobAt' = [jobAt EXCEPT ![c] = l]
  BY Zenon DEF JobTypeOK, JobGoto
<1>2. ASSUME NEW j \in 1 .. Len(jobs), j \notin jobOverlapped
      PROVE  AloneJob(j, jobs[j], written[j], jobAt')
  BY <1>1, <1>2, AloneLeaves, Zenon DEF RowsInv
<1> QED BY <1>2, Zenon DEF RowsInv

\* Every step keeps the rows of the jobs that calls had to themselves.
LEMMA JobNextRows == JobTypeOK /\ RowsInv /\ [JobNext]_jobVars => RowsInv'
<1> SUFFICES ASSUME JobTypeOK, RowsInv, [JobNext]_jobVars PROVE RowsInv'
  BY Zenon
<1>1. ASSUME NEW c \in JobCallers
      PROVE  jobAt[c] \in JobLocals /\ JobSound(jobAt[c], Len(jobs), finishing)
  BY Zenon DEF JobTypeOK
<1>2. /\ jobs \in Seq(Job) /\ written \in Seq(Writing) /\ Len(written) = Len(jobs)
      /\ Len(jobs) \in Nat /\ jobCalls \in Nat /\ jobAt \in [JobCallers -> JobLocals]
  BY DEF JobTypeOK
<1>3. ASSUME UNCHANGED <<jobs, jobAt, history>> PROVE RowsInv'
  BY <1>3, Zenon DEF RowsInv, history
<1>4. ASSUME NEW conn \in Connections, Toggle(conn) PROVE RowsInv'
  BY <1>3, <1>4, Zenon DEF Toggle
<1>5. ASSUME CursorMoves PROVE RowsInv'
  BY <1>3, <1>5, Zenon DEF CursorMoves
<1>6. JobTypeOK'
  BY JobNextType, Zenon
<1>7. ASSUME NEW c \in JobCallers PROVE jobAt'[c] \in JobLocals
  BY <1>6, Zenon DEF JobTypeOK
<1>8. ASSUME NEW c \in JobCallers, NEW l, JobGoto(c, l), l.pc \notin Busy,
             UNCHANGED <<jobs, written, finishing, jobOverlapped>>
      PROVE  RowsInv'
  <2>1. jobAt'[c] = l
    BY <1>2, <1>8, Zenon DEF JobGoto
  <2> QED BY <1>7, <1>8, <2>1, RowsLeave, Zenon
<1>9. JobIdle.pc = "idle"
  BY Zenon DEF JobIdle
<1>10. ASSUME NEW c \in JobCallers, JobStart(c) PROVE RowsInv'
  <2>1. PICK conn \in Connections, seen \in {0, cursor} :
            JobGoto(c, [JobIdle EXCEPT !.pc = "insert", !.call = jobCalls',
                                       !.rec = NewJob(conn, seen)])
    BY <1>10, Zenon DEF JobStart
  <2>2. UNCHANGED <<jobs, written, finishing, jobOverlapped>>
    BY <1>10, Zenon DEF JobStart, history
  <2>3. [JobIdle EXCEPT !.pc = "insert", !.call = jobCalls', !.rec = NewJob(conn, seen)].pc
           \notin Busy
    BY Zenon DEF JobIdle, Busy
  <2> QED BY <1>8, <2>1, <2>2, <2>3, Zenon
<1>11. ASSUME NEW c \in JobCallers, Create(c) PROVE RowsInv'
  <2>1. PICK key \in Keys \cup {JobNone}, explicit \in Connections \cup {JobNone} :
            \E conn \in Resolves(explicit) :
               JobGoto(c, [JobIdle EXCEPT !.pc = "tx", !.op = "create", !.call = jobCalls',
                                          !.rec = NewJob(conn, 0), !.key = key])
    BY <1>11, Zenon DEF Create
  <2>2. PICK conn \in Resolves(explicit) :
            JobGoto(c, [JobIdle EXCEPT !.pc = "tx", !.op = "create", !.call = jobCalls',
                                       !.rec = NewJob(conn, 0), !.key = key])
    BY <2>1, Zenon
  <2>3. UNCHANGED <<jobs, written, finishing, jobOverlapped>>
    BY <1>11, Zenon DEF Create, history
  <2>4. [JobIdle EXCEPT !.pc = "tx", !.op = "create", !.call = jobCalls',
                        !.rec = NewJob(conn, 0), !.key = key].pc \notin Busy
    BY Zenon DEF JobIdle, Busy
  <2> QED BY <1>8, <2>2, <2>3, <2>4, Zenon
<1>12. ASSUME NEW c \in JobCallers, Replay(c) \/ JobAbandon(c) PROVE RowsInv'
  BY <1>8, <1>9, <1>12, Zenon DEF Replay, JobAbandon, history, Busy
<1>13. ASSUME NEW c \in JobCallers, Insert(c), JobGoto(c, JobIdle),
              jobAt[c].pc \in {"insert", "tx"}, UNCHANGED <<finishing, jobOverlapped>>
       PROVE  RowsInv'
  <2> DEFINE rec == jobAt[c].rec
             w == [by |-> jobAt[c].op, attempts |-> 0, checkpoint |-> rec.checkpoint]
             n == Len(jobs) + 1
  <2>1. rec \in Job /\ rec.attempts = 0 /\ rec.status = "queued"
    BY <1>1, <1>13, Zenon DEF JobLocals, JobSound
  <2>2. w \in Writing /\ w.attempts = 0 /\ w.checkpoint = rec.checkpoint
    BY <1>1, <2>1, Zenon DEF Writing, JobLocals, Job
  <2>3. jobs' = Append(jobs, rec) /\ written' = Append(written, w)
    BY <1>13, Zenon DEF Insert
  <2> HIDE DEF rec, w
  <2>4. /\ Len(jobs') = n /\ jobs'[n] = rec /\ written'[n] = w
        /\ \A j \in 1 .. Len(jobs) : jobs'[j] = jobs[j] /\ written'[j] = written[j]
    BY <1>2, <2>1, <2>2, <2>3, AppendFacts
  <2>5. jobAt' = [jobAt EXCEPT ![c] = JobIdle] /\ JobIdle \in JobLocals
    BY <1>13, JobIdleSound, Zenon DEF JobGoto
  <2>6. ASSUME NEW d \in JobCallers, jobAt'[d].pc \in Busy PROVE jobAt'[d].job # n
    <3>1. d # c /\ jobAt'[d] = jobAt[d]
      BY <1>2, <1>9, <2>5, <2>6, Zenon DEF Busy
    <3>2. jobAt[d].job \in 1 .. Len(jobs)
      BY <1>1, <2>6, <3>1, Zenon DEF JobSound, Busy
    <3> QED BY <1>2, <3>1, <3>2
  <2>7. AloneJob(n, rec, w, jobAt')
    BY <2>1, <2>2, <2>6, Zenon DEF AloneJob, Busy
  <2>8. ASSUME NEW j \in 1 .. Len(jobs), j \notin jobOverlapped
        PROVE  AloneJob(j, jobs[j], written[j], jobAt')
    BY <1>2, <1>9, <2>5, <2>8, AloneLeaves, Zenon DEF RowsInv, Busy
  <2>9. Completed(n, rec, finishing)
    BY <2>1, Zenon DEF Completed
  <2>10. \A j \in 1 .. Len(jobs') : j = n \/ j \in 1 .. Len(jobs)
    BY <1>2, <2>4
  <2> QED BY <1>13, <2>4, <2>7, <2>8, <2>9, <2>10, Zenon DEF RowsInv
<1>14. ASSUME NEW c \in JobCallers, StartInsert(c) PROVE RowsInv'
  BY <1>13, <1>14, Zenon DEF StartInsert
<1>15. ASSUME NEW c \in JobCallers, CreateTx(c) PROVE RowsInv'
  <2> DEFINE key == jobAt[c].key
  <2>1. CASE key # JobNone /\ idem[key] # 0
    <3>1. [jobAt[c] EXCEPT !.pc = "find"].pc \notin Busy
      BY <1>1, Zenon DEF Busy, JobLocals
    <3> QED BY <1>8, <1>15, <2>1, <3>1, Zenon DEF CreateTx
  <2>2. CASE ~(key # JobNone /\ idem[key] # 0)
    BY <1>13, <1>15, <2>2, Zenon DEF CreateTx
  <2> QED BY <2>1, <2>2, Zenon
<1>16. ASSUME NEW c \in JobCallers, NEW op \in Mutations, NEW j \in DOMAIN jobs, ReadJob(c, op, j)
       PROVE  RowsInv'
  <2> DEFINE l == [JobIdle EXCEPT !.pc = "write", !.op = op, !.call = jobCalls', !.job = j,
                                  !.rec = Changed(jobs[j], op, jobCalls')]
  <2>1. /\ jobAt' = [jobAt EXCEPT ![c] = l] /\ UNCHANGED <<jobs, written>>
        /\ finishing \subseteq finishing'
        /\ jobOverlapped' = IF \E o \in JobCallers \ {c} : Mutates(o, j)
                            THEN jobOverlapped \cup {j} ELSE jobOverlapped
    BY <1>16, Zenon DEF ReadJob, JobGoto
  <2>2. /\ l.pc = "write" /\ l.job = j /\ l.op = op /\ l.call = jobCalls'
        /\ l.rec = Changed(jobs[j], op, jobCalls')
    BY Zenon DEF JobIdle
  <2>3. l \in JobLocals
    BY <1>2, <1>7, <2>1, Zenon
  <2> HIDE DEF l
  <2>4. ASSUME NEW k \in 1 .. Len(jobs), k \notin jobOverlapped', k # j
        PROVE  AloneJob(k, jobs[k], written[k], jobAt')
    BY <1>2, <2>1, <2>2, <2>3, <2>4, AloneLeaves, Zenon DEF RowsInv
  <2>5. ASSUME j \in 1 .. Len(jobs), j \notin jobOverlapped'
        PROVE  AloneJob(j, jobs[j], written[j], jobAt')
    <3>1. /\ \A o \in JobCallers \ {c} : ~(jobAt[o].pc \in Busy /\ jobAt[o].job = j)
          /\ j \notin jobOverlapped
      BY <2>1, <2>5, Zenon DEF Mutates, Busy
    <3>2. \A o \in JobCallers \ {c} : jobAt'[o] = jobAt[o]
      BY <1>2, <2>1, Zenon
    <3>3. jobAt'[c] = l
      BY <1>2, <2>1, Zenon
    <3>4. AloneJob(j, jobs[j], written[j], jobAt)
      BY <2>5, <3>1, Zenon DEF RowsInv
    <3> QED BY <2>2, <3>1, <3>2, <3>3, <3>4 DEF AloneJob, Busy
  <2>6. \A k \in 1 .. Len(jobs) : Completed(k, jobs[k], finishing')
    BY <2>1, Zenon DEF RowsInv, Completed
  <2> QED BY <2>1, <2>4, <2>5, <2>6, Zenon DEF RowsInv
<1>17. ASSUME NEW c \in JobCallers, NEW rec \in Job, NEW w \in Writing, NEW l \in JobLocals,
              jobAt[c].pc \in Busy, JobGoto(c, l),
              jobs' = [jobs EXCEPT ![jobAt[c].job] = rec],
              written' = [written EXCEPT ![jobAt[c].job] = w],
              UNCHANGED <<finishing, jobOverlapped>>,
              Completed(jobAt[c].job, rec, finishing),
              l.pc \in Busy => l.pc = "finish" /\ l.job = jobAt[c].job /\ l.rec = rec,
              jobAt[c].job \notin jobOverlapped =>
                 rec.attempts = w.attempts /\ rec.checkpoint = w.checkpoint
       PROVE  RowsInv'
  <2> DEFINE j == jobAt[c].job
  <2>1. j \in 1 .. Len(jobs)
    BY <1>1, <1>17, Zenon DEF JobSound, Busy
  <2>2. /\ Len(jobs') = Len(jobs) /\ jobs'[j] = rec /\ written'[j] = w
        /\ \A k \in 1 .. Len(jobs) : k # j => jobs'[k] = jobs[k] /\ written'[k] = written[k]
    BY <1>2, <1>17, <2>1, ReplaceFacts
  <2>3. jobAt' = [jobAt EXCEPT ![c] = l]
    BY <1>17, Zenon DEF JobGoto
  <2>4. ASSUME NEW k \in 1 .. Len(jobs), k \notin jobOverlapped, k # j
        PROVE  AloneJob(k, jobs[k], written[k], jobAt')
    BY <1>2, <1>17, <2>3, <2>4, AloneLeaves, Zenon DEF RowsInv
  <2>5. ASSUME j \notin jobOverlapped PROVE AloneJob(j, rec, w, jobAt')
    <3>1. \A o \in JobCallers \ {c} : ~(jobAt[o].pc \in Busy /\ jobAt[o].job = j)
      BY <1>17, <2>1, <2>5, Zenon DEF RowsInv, AloneJob
    <3>2. \A o \in JobCallers \ {c} : jobAt'[o] = jobAt[o]
      BY <1>2, <2>3, Zenon
    <3>3. jobAt'[c] = l
      BY <1>2, <2>3, Zenon
    <3> QED BY <1>17, <2>5, <3>1, <3>2, <3>3, ZenonT(40) DEF AloneJob, Busy
  <2> HIDE DEF j
  <2> QED BY <1>17, <2>1, <2>2, <2>4, <2>5, Zenon DEF RowsInv, j
<1>18. ASSUME NEW c \in JobCallers, WriteJob(c) PROVE RowsInv'
  <2> DEFINE me == jobAt[c]
             w == Noted(written[me.job], me.op, me.call)
             l == IF me.op = "complete" THEN [me EXCEPT !.pc = "finish"] ELSE JobIdle
  <2>1. /\ me.pc = "write" /\ jobs' = [jobs EXCEPT ![me.job] = me.rec]
        /\ written' = [written EXCEPT ![me.job] = w] /\ JobGoto(c, l)
        /\ UNCHANGED <<finishing, jobOverlapped>>
    BY <1>18, Zenon DEF WriteJob
  <2>2. /\ me.job \in 1 .. Len(jobs) /\ me.rec \in Job /\ me.call \in Nat
        /\ me.op \in Mutations /\ me.rec.status # "succeeded"
    BY <1>1, <2>1, Zenon DEF JobSound, JobLocals
  <2>3. written[me.job] \in Writing /\ jobs[me.job] \in Job
    BY <1>2, <2>2
  <2>4. /\ w \in Writing
        /\ me.op \in {"resume", "fail"} =>
             w.attempts = written[me.job].attempts + 1 /\ w.checkpoint = written[me.job].checkpoint
        /\ me.op \notin {"resume", "fail"} =>
             w.attempts = written[me.job].attempts /\ w.checkpoint = me.call
    BY <2>2, <2>3 DEF Noted, Writing
  <2>5. l \in JobLocals
    BY <1>2, <1>7, <2>1, Zenon DEF JobGoto
  <2>6. l.pc \in Busy => l.pc = "finish" /\ l.job = me.job /\ l.rec = me.rec
    BY <1>1, <1>9, Zenon DEF JobLocals, Busy
  <2>7. ASSUME me.job \notin jobOverlapped
        PROVE  me.rec.attempts = w.attempts /\ me.rec.checkpoint = w.checkpoint
    <3>1. AloneJob(me.job, jobs[me.job], written[me.job], jobAt)
      BY <2>2, <2>7, Zenon DEF RowsInv
    <3>2. /\ me.rec = Changed(jobs[me.job], me.op, me.call)
          /\ jobs[me.job].attempts = written[me.job].attempts
          /\ jobs[me.job].checkpoint = written[me.job].checkpoint
      BY <2>1, <3>1, Zenon DEF AloneJob
    <3> DEFINE new == Changed(jobs[me.job], me.op, me.call)
    <3>3. /\ me.op \in {"resume", "fail"} =>
               /\ new.attempts = jobs[me.job].attempts + 1
               /\ new.checkpoint = jobs[me.job].checkpoint
          /\ me.op \in {"save", "complete"} =>
               new.attempts = jobs[me.job].attempts /\ new.checkpoint = me.call
      BY <2>2, <2>3, ChangedFacts, ZenonT(40)
    <3> HIDE DEF new, w
    <3> QED BY <2>2, <2>4, <3>2, <3>3, Zenon DEF Mutations, new
  <2>8. Completed(me.job, me.rec, finishing) /\ me.pc \in Busy
    BY <2>1, <2>2, Zenon DEF Completed, Busy
  <2> HIDE DEF w, l
  <2> QED BY <1>17, <2>1, <2>2, <2>4, <2>5, <2>6, <2>7, <2>8, Zenon
<1>19. ASSUME NEW c \in JobCallers, FinishJob(c) PROVE RowsInv'
  <2> DEFINE me == jobAt[c]
             rec == [me.rec EXCEPT !.status = "succeeded"]
  <2>1. /\ me.pc = "finish" /\ jobs' = [jobs EXCEPT ![me.job] = rec]
        /\ JobGoto(c, JobIdle) /\ UNCHANGED <<written, finishing, jobOverlapped>>
    BY <1>19, Zenon DEF FinishJob, history
  <2>2. /\ me.job \in 1 .. Len(jobs) /\ me.rec \in Job
             /\ <<me.job, me.rec.checkpoint>> \in finishing
    BY <1>1, <2>1, Zenon DEF JobSound, JobLocals
  <2>3. rec \in Job /\ rec.attempts = me.rec.attempts /\ rec.checkpoint = me.rec.checkpoint
    BY <2>2, Zenon DEF Job
  <2>4. written[me.job] \in Writing /\ written' = [written EXCEPT ![me.job] = written[me.job]]
    BY <1>2, <2>1, <2>2
  <2>5. ASSUME me.job \notin jobOverlapped
        PROVE  rec.attempts = written[me.job].attempts
          /\ rec.checkpoint = written[me.job].checkpoint
    <3>1. AloneJob(me.job, jobs[me.job], written[me.job], jobAt)
      BY <2>2, <2>5, Zenon DEF RowsInv
    <3> QED BY <2>1, <2>3, <3>1, Zenon DEF AloneJob
  <2>6. Completed(me.job, rec, finishing) /\ me.pc \in Busy /\ JobIdle.pc \notin Busy
    BY <1>9, <2>1, <2>2, <2>3, Zenon DEF Completed, Busy
  <2>7. JobIdle \in JobLocals
    BY JobIdleSound, Zenon
  <2> HIDE DEF rec
  <2> QED BY <1>17, <2>1, <2>3, <2>4, <2>5, <2>6, <2>7, Zenon
<1>20. CASE UNCHANGED jobVars
  BY <1>3, <1>20, Zenon DEF jobVars, history
<1> QED BY <1>4, <1>5, <1>10, <1>11, <1>12, <1>14, <1>15, <1>16, <1>18, <1>19, <1>20, Zenon
        DEF JobNext, Mutations

\* The orchestrator keeps the checkpoints for every number of callers, jobs and
\* calls: a succeeded job carries the checkpoint its completing call was given,
\* and a job on which no two calls have overlapped has lost neither an attempt
\* nor a checkpoint, wherever the calls broke off.
THEOREM JobsKeepCheckpoints == JobSpec => []CheckpointsKept
<1>1. JobInit => RowsInv
  BY DEF JobInit, RowsInv
<1>2. JobTypeOK /\ RowsInv => CheckpointsKept
  <2> SUFFICES ASSUME JobTypeOK, RowsInv PROVE CheckpointsKept
    BY Zenon
  <2>1. DOMAIN jobs = 1 .. Len(jobs)
    BY DEF JobTypeOK
  <2> QED BY <2>1, Zenon DEF RowsInv, Completed, AloneJob, CheckpointsKept, SucceededCheckpoint,
                      NothingLostAlone
<1> QED BY JobInitType, JobNextType, JobNextRows, <1>1, <1>2, PTL DEF JobSpec

-----------------------------------------------------------------------------
(* The conflict ledger.  The status of a conflict changes only with its    *)
(* version, so a call that has seen the current version of a conflict has  *)
(* seen it open; and a call about to publish has told the store.           *)

Statuses == {"none", "pending", "resolved", "ignored"}

ConflictLocals == [pc : {"idle", "decide", "publish"}, conflict : Conflicts \cup {0},
                   action : {"record"} \cup Actions, call : Nat, seen : Nat]

ConflictTypeOK ==
    /\ status \in [Conflicts -> Statuses] /\ version \in [Conflicts -> Nat]
    /\ conflictAt \in [ConflictCallers -> ConflictLocals] /\ conflictCalls \in Nat

SeenOpen(l, st, ver) ==
    l.pc = "decide" =>
        /\ l.conflict \in Conflicts /\ l.action \in Actions
        /\ l.seen <= ver[l.conflict]
        /\ l.seen = ver[l.conflict] => ~Closed(st[l.conflict])

Told(l, ds) ==
    l.pc = "publish" => [call |-> l.call, conflict |-> l.conflict, action |-> l.action] \in ds

ConflictInv ==
    /\ ConflictTypeOK
    /\ \A c \in ConflictCallers :
          SeenOpen(conflictAt[c], status, version) /\ Told(conflictAt[c], decisions)
    /\ AuditTrail

\* The call of a decision is accounted for: published, lost, or about to be.
Accounted(call, evs, gone, locals) ==
    \/ \E e \in evs : e.call = call
    \/ call \in gone
    \/ \E c \in ConflictCallers : locals[c].pc = "publish" /\ locals[c].call = call

\* The invariant holds of an empty ledger.
LEMMA ConflictInitInv == ConflictInit => ConflictInv
BY DEF ConflictInit, ConflictIdle, ConflictInv, ConflictTypeOK, ConflictLocals, Statuses,
       SeenOpen, Told, AuditTrail

\* A decision of one caller on one conflict, by Record or Resolve.
LEMMA DecideInv ==
    ASSUME ConflictInv, NEW c \in ConflictCallers, NEW k \in Conflicts,
           NEW action \in {"record"} \cup Actions, NEW call \in Nat, NEW st \in Statuses,
           NEW l \in ConflictLocals, l.pc = "publish", l.call = call, l.conflict = k,
           l.action = action, conflictAt[c].pc # "publish",
           status' = [status EXCEPT ![k] = st], Decide(c, k, action, call),
           ConflictGoto(c, l), conflictCalls' \in Nat, UNCHANGED <<events, lost>>
    PROVE  ConflictInv'
<1> DEFINE d0 == [call |-> call, conflict |-> k, action |-> action]
<1>1. /\ status \in [Conflicts -> Statuses] /\ version \in [Conflicts -> Nat]
      /\ conflictAt \in [ConflictCallers -> ConflictLocals]
  BY Zenon DEF ConflictInv, ConflictTypeOK
<1>2. /\ decisions' = decisions \cup {d0} /\ version' = [version EXCEPT ![k] = @ + 1]
      /\ conflictAt' = [conflictAt EXCEPT ![c] = l]
  BY Zenon DEF Decide, ConflictGoto
<1>3. ConflictTypeOK'
  BY <1>1, <1>2 DEF ConflictTypeOK
<1>4. ASSUME NEW d \in ConflictCallers
      PROVE  SeenOpen(conflictAt'[d], status', version') /\ Told(conflictAt'[d], decisions')
  <2>1. CASE d = c
    BY <1>1, <1>2, <2>1, Zenon DEF SeenOpen, Told
  <2>2. CASE d # c
    <3>1. conflictAt'[d] = conflictAt[d] /\ conflictAt[d].seen \in Nat
      BY <1>1, <1>2, <2>2, Zenon DEF ConflictLocals
    <3>2. SeenOpen(conflictAt[d], status, version) /\ Told(conflictAt[d], decisions)
      BY Zenon DEF ConflictInv
    <3>3. SeenOpen(conflictAt[d], status', version')
      BY <1>1, <1>2, <3>1, <3>2 DEF SeenOpen
    <3> QED BY <1>2, <3>1, <3>2, <3>3 DEF Told
  <2> QED BY <2>1, <2>2, Zenon
<1>5. \A e \in events : [call |-> e.call, conflict |-> e.conflict, action |-> Named[e.name]]
                          \in decisions'
  BY <1>2, Zenon DEF ConflictInv, AuditTrail
<1>6. conflictAt'[c].pc = "publish" /\ conflictAt'[c].call = d0.call
  BY <1>1, <1>2, Zenon
<1>7. ASSUME NEW d \in decisions' PROVE Accounted(d.call, events, lost, conflictAt')
  <2>1. CASE d = d0
    BY <1>6, <2>1, Zenon DEF Accounted
  <2>2. CASE d \in decisions
    <3>1. Accounted(d.call, events, lost, conflictAt)
      BY <2>2, Zenon DEF ConflictInv, AuditTrail, Accounted
    <3>2. \A x \in ConflictCallers : conflictAt[x].pc = "publish" => conflictAt'[x] = conflictAt[x]
      BY <1>1, <1>2, Zenon
    <3> QED BY <3>1, <3>2, Zenon DEF Accounted
  <2> QED BY <1>2, <2>1, <2>2, Zenon
<1> QED BY <1>3, <1>4, <1>5, <1>7, Zenon DEF ConflictInv, AuditTrail, Accounted

\* A caller moves on without telling the store anything.
LEMMA ConflictStepInv ==
    ASSUME ConflictInv, NEW c \in ConflictCallers, NEW l \in ConflictLocals, l.pc # "publish",
           SeenOpen(l, status, version), ConflictGoto(c, l), conflictCalls' \in Nat,
           UNCHANGED <<status, decisions, version>>, events \subseteq events', lost \subseteq lost',
           conflictAt[c].pc = "publish" =>
              \/ \E e \in events' : e.call = conflictAt[c].call
              \/ conflictAt[c].call \in lost',
           \A e \in events' : e \in events \/
              [call |-> e.call, conflict |-> e.conflict, action |-> Named[e.name]] \in decisions
    PROVE  ConflictInv'
<1>1. conflictAt \in [ConflictCallers -> ConflictLocals]
        /\ conflictAt' = [conflictAt EXCEPT ![c] = l]
  BY Zenon DEF ConflictInv, ConflictTypeOK, ConflictGoto
<1>2. ConflictTypeOK'
  BY <1>1, Zenon DEF ConflictInv, ConflictTypeOK
<1>3. ASSUME NEW d \in ConflictCallers
      PROVE  SeenOpen(conflictAt'[d], status, version) /\ Told(conflictAt'[d], decisions)
  BY <1>1, Zenon DEF ConflictInv, Told
<1>4. \A e \in events' : [call |-> e.call, conflict |-> e.conflict, action |-> Named[e.name]]
                           \in decisions
  BY Zenon DEF ConflictInv, AuditTrail
<1>5. ASSUME NEW d \in decisions PROVE Accounted(d.call, events', lost', conflictAt')
  <2>1. Accounted(d.call, events, lost, conflictAt)
    BY Zenon DEF ConflictInv, AuditTrail, Accounted
  <2>2. \A x \in ConflictCallers : x # c => conflictAt'[x] = conflictAt[x]
    BY <1>1, Zenon
  <2> QED BY <2>1, <2>2, Zenon DEF Accounted
<1> QED BY <1>2, <1>3, <1>4, <1>5, Zenon DEF ConflictInv, AuditTrail, Accounted

\* Every step of every call keeps the invariant.
LEMMA ConflictNextInv == ConflictInv /\ [ConflictNext]_conflictVars => ConflictInv'
<1> SUFFICES ASSUME ConflictInv, [ConflictNext]_conflictVars PROVE ConflictInv'
  BY Zenon
<1>1. /\ status \in [Conflicts -> Statuses] /\ version \in [Conflicts -> Nat]
      /\ conflictAt \in [ConflictCallers -> ConflictLocals] /\ conflictCalls \in Nat
  BY Zenon DEF ConflictInv, ConflictTypeOK
<1>2. /\ ConflictIdle \in ConflictLocals /\ ConflictIdle.pc = "idle"
      /\ SeenOpen(ConflictIdle, status, version)
  BY Zenon DEF ConflictIdle, ConflictLocals, SeenOpen
<1>3. ASSUME NEW c \in ConflictCallers, NEW k \in Conflicts, Record(c, k) PROVE ConflictInv'
  <2> DEFINE l == [ConflictIdle EXCEPT !.pc = "publish", !.conflict = k, !.call = conflictCalls']
  <2>1. /\ conflictAt[c].pc = "idle" /\ conflictCalls' = conflictCalls + 1
        /\ status' = [status EXCEPT ![k] = "pending"] /\ Decide(c, k, "record", conflictCalls')
        /\ ConflictGoto(c, l) /\ UNCHANGED <<events, lost>>
    BY <1>3, Zenon DEF Record, ConflictBegin
  <2>2. conflictCalls' \in Nat
    BY <1>1, <2>1
  <2>3. /\ l \in ConflictLocals /\ l.pc = "publish" /\ l.call = conflictCalls' /\ l.conflict = k
        /\ l.action = "record"
    BY <2>2, Zenon DEF ConflictIdle, ConflictLocals
  <2> HIDE DEF l
  <2> QED BY <2>1, <2>2, <2>3, DecideInv, Zenon DEF Statuses
<1>4. ASSUME NEW c \in ConflictCallers, NEW k \in Conflicts, ConflictLook(c, k) PROVE ConflictInv'
  <2>1. PICK action \in Actions :
           ConflictGoto(c, [pc |-> "decide", conflict |-> k, action |-> action,
                            call |-> conflictCalls', seen |-> version[k]])
    BY <1>4, Zenon DEF ConflictLook
  <2> DEFINE l == [pc |-> "decide", conflict |-> k, action |-> action,
                   call |-> conflictCalls', seen |-> version[k]]
  <2>2. /\ conflictAt[c].pc = "idle" /\ conflictCalls' = conflictCalls + 1 /\ ~Closed(status[k])
        /\ UNCHANGED <<status, decisions, events, lost, version>>
    BY <1>4, Zenon DEF ConflictLook, ConflictBegin
  <2>3. conflictCalls' \in Nat
    BY <1>1, <2>2
  <2>4. l \in ConflictLocals /\ l.pc # "publish"
    BY <1>1, <2>3, Zenon DEF ConflictLocals
  <2>5. SeenOpen(l, status, version)
    BY <1>1, <2>2 DEF SeenOpen
  <2> HIDE DEF l
  <2> QED BY <2>1, <2>2, <2>3, <2>4, <2>5, ConflictStepInv, Zenon DEF l
<1>5. ASSUME NEW c \in ConflictCallers, NEW k \in Conflicts, LookClosed(c, k) PROVE ConflictInv'
  <2>1. conflictCalls' \in Nat /\ UNCHANGED <<status, conflictAt, decisions, events, lost, version>>
    BY <1>1, <1>5 DEF LookClosed, ConflictBegin
  <2> QED BY <2>1, Zenon DEF ConflictInv, ConflictTypeOK, AuditTrail
<1>6. ASSUME NEW c \in ConflictCallers, Resolve(c) PROVE ConflictInv'
  <2> DEFINE me == conflictAt[c]
             l == [me EXCEPT !.pc = "publish"]
  <2>1. /\ me.pc = "decide" /\ status' = [status EXCEPT ![me.conflict] = Outcome(me.action)]
        /\ Decide(c, me.conflict, me.action, me.call) /\ ConflictGoto(c, l)
        /\ UNCHANGED <<conflictCalls, events, lost>>
    BY <1>6, Zenon DEF Resolve
  <2>2. me \in ConflictLocals /\ me.conflict \in Conflicts /\ me.action \in Actions
    BY <1>1, <2>1, Zenon DEF ConflictInv, SeenOpen
  <2>3. /\ l \in ConflictLocals /\ l.pc = "publish" /\ l.call = me.call
        /\ l.conflict = me.conflict /\ l.action = me.action /\ me.call \in Nat
    BY <2>2, Zenon DEF ConflictLocals
  <2>4. Outcome(me.action) \in Statuses
    BY <2>2, Zenon DEF Outcome, Statuses, Actions
  <2> HIDE DEF l
  <2> QED BY <1>1, <2>1, <2>2, <2>3, <2>4, DecideInv, Zenon
<1>7. ASSUME NEW c \in ConflictCallers, ConflictPublish(c) PROVE ConflictInv'
  <2> DEFINE me == conflictAt[c]
             e0 == [call |-> me.call, conflict |-> me.conflict, name |-> EventName(me.action)]
  <2>1. /\ me.pc = "publish" /\ events' = events \cup {e0} /\ ConflictGoto(c, ConflictIdle)
        /\ UNCHANGED <<status, conflictCalls, decisions, lost, version>>
    BY <1>7, Zenon DEF ConflictPublish
  <2>2. me \in ConflictLocals
    BY <1>1, Zenon
  <2>3. Named[EventName(me.action)] = me.action
    BY <2>2, Zenon DEF Named, EventName, Actions, ConflictLocals
  <2>4. [call |-> me.call, conflict |-> me.conflict, action |-> me.action] \in decisions
    BY <2>1, Zenon DEF ConflictInv, Told
  <2>5. /\ e0.call = me.call
        /\ [call |-> e0.call, conflict |-> e0.conflict, action |-> Named[e0.name]] \in decisions
    BY <2>3, <2>4, Zenon
  <2> HIDE DEF e0
  <2> QED BY <1>1, <1>2, <2>1, <2>5, ConflictStepInv, Zenon
<1>8. ASSUME NEW c \in ConflictCallers, Fail(c) PROVE ConflictInv'
  BY <1>1, <1>2, <1>8, ConflictStepInv, Zenon DEF Fail
<1>9. CASE UNCHANGED conflictVars
  BY <1>9, Zenon DEF conflictVars, ConflictInv, ConflictTypeOK, AuditTrail
<1> QED BY <1>3, <1>4, <1>5, <1>6, <1>7, <1>8, <1>9, Zenon DEF ConflictNext

\* Conflicts stay closed unless raced, for any number of conflicts, callers and
\* calls: only a call that read a conflict before its last decision decides a
\* closed one again, and every decision is in the audit trail, about to be, or
\* of a call that broke off.
THEOREM ConflictsStayClosed == ConflictSpec => ClosedUnlessRaced
<1>1. ConflictInv /\ [ConflictNext]_conflictVars => [DecidedAgainByRace /\ AuditTrail']_conflictVars
  <2> SUFFICES ASSUME ConflictInv, ConflictNext PROVE DecidedAgainByRace /\ AuditTrail'
    BY Zenon
  <2>1. AuditTrail'
    BY ConflictNextInv, Zenon DEF ConflictInv
  <2>2. ASSUME NEW k \in Conflicts, status[k] \in {"resolved", "ignored"}, version'[k] # version[k]
        PROVE  \E c \in ConflictCallers :
                  /\ conflictAt[c].pc = "decide" /\ conflictAt[c].conflict = k
                  /\ conflictAt'[c].pc = "publish" /\ conflictAt[c].seen < version[k]
    <3>1. version \in [Conflicts -> Nat] /\ conflictAt \in [ConflictCallers -> ConflictLocals]
      BY Zenon DEF ConflictInv, ConflictTypeOK
    <3>2. PICK c \in ConflictCallers : (\E j \in Conflicts : Record(c, j)) \/ Resolve(c)
      BY <2>2, Zenon DEF ConflictNext, ConflictLook, LookClosed, ConflictPublish, Fail
    <3>3. Resolve(c) /\ conflictAt[c].conflict = k
      BY <2>2, <3>1, <3>2, Zenon DEF Record, Resolve, Decide
    <3>4. conflictAt[c].pc = "decide" /\ conflictAt[c] \in ConflictLocals
      BY <3>1, <3>3, Zenon DEF Resolve
    <3>5. conflictAt'[c].pc = "publish"
      BY <3>1, <3>3, <3>4, Zenon DEF Resolve, ConflictGoto, ConflictLocals
    <3>6. conflictAt[c].seen \in Nat /\ version[k] \in Nat /\ conflictAt[c].seen <= version[k]
          /\ (conflictAt[c].seen = version[k] => ~Closed(status[k]))
      BY <3>1, <3>3, <3>4, Zenon DEF ConflictInv, SeenOpen, ConflictLocals
    <3>7. conflictAt[c].seen < version[k]
      BY <2>2, <3>6 DEF Closed
    <3> QED BY <3>3, <3>4, <3>5, <3>7, Zenon
  <2> QED BY <2>1, <2>2, Zenon DEF DecidedAgainByRace
<1>2. ConflictSpec => []ConflictInv
  BY ConflictInitInv, ConflictNextInv, PTL DEF ConflictSpec
<1> QED BY <1>1, <1>2, PTL DEF ConflictSpec, ClosedUnlessRaced

=============================================================================
