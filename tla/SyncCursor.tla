----------------------------- MODULE SyncCursor -----------------------------
(***************************************************************************)
(* The sync cursor of one resource: LoadSyncCursor and AdvanceSyncCursor   *)
(* of the service (core/service_sync_cursor.go) over the SQL cursor store  *)
(* (store/sql/sync_cursor_store.go).  Upsert and Advance run a SELECT and  *)
(* then an INSERT or UPDATE in one transaction at the default isolation,   *)
(* which is a parameter: on SQLite a transaction that read before another  *)
(* committed cannot write, on PostgreSQL (READ COMMITTED) it can.          *)
(***************************************************************************)
EXTENDS Integers

CONSTANTS
    Callers,        \* concurrent callers
    Cursors,        \* cursors as providers issue them
    Fold(_),        \* what strings.EqualFold compares of a cursor
    SnapshotWrites, \* a transaction fails to write what changed since it read
    MaxCommits,     \* bound: how many writes are considered
    None            \* no row, nothing expected

ASSUME CursorAssumption ==
    /\ None \notin Cursors
    /\ SnapshotWrites \in BOOLEAN
    /\ MaxCommits \in Nat

VARIABLES
    row,        \* the cursor in service_sync_cursors, None if there is no row
    commits,    \* how many transactions have written it
    at,         \* at[c]: where caller c is
    by          \* history: the operation that wrote the row, what it expected

vars == <<row, commits, at, by>>

-----------------------------------------------------------------------------
Stored == Cursors \cup {None}

PCs == {"idle", "loaded", "find", "store"}

\* A caller's locals: the operation, the cursor it expects and the one it
\* brings, the record its transaction found, and (histories) how many commits
\* there had been at its load and at its SELECT.
Locals == [pc : PCs, op : {"upsert", "advance"}, exp : Stored, new : Stored,
           rec : Stored, base : Nat, seen : Nat]

Idle == [pc |-> "idle", op |-> "upsert", exp |-> None, new |-> None,
         rec |-> None, base |-> 0, seen |-> 0]

Init ==
    /\ row = None
    /\ commits = 0
    /\ at = [c \in Callers |-> Idle]
    /\ by = [op |-> "none", exp |-> None]

Goto(c, locals) == at' = [at EXCEPT ![c] = locals]

\* Get: a caller that means to advance reads the cursor it will expect.
Load(c) ==
    /\ at[c].pc = "idle"
    /\ Goto(c, [Idle EXCEPT !.pc = "loaded", !.op = "advance",
                            !.exp = row, !.base = commits])
    /\ UNCHANGED <<row, commits, by>>

\* Both operations refuse an empty cursor before they touch the database.
Begin(c, op, new) ==
    /\ at[c].pc = IF op = "advance" THEN "loaded" ELSE "idle"
    /\ Goto(c, [at[c] EXCEPT !.pc = "find", !.op = op, !.new = new])
    /\ UNCHANGED <<row, commits, by>>

\* Advance's comparison of the record found with the expected cursor.
Matches_Any(rec, exp) == exp = None \/ rec # None

Matches_NeedsExpected(rec, exp) == exp # None /\ rec # None /\ Fold(rec) = Fold(exp)

Matches(rec, exp) == exp = None \/ (rec # None /\ Fold(rec) = Fold(exp))

\* findSyncCursorTx.
Find(c) ==
    /\ at[c].pc = "find"
    /\ at[c].op = "advance" => Matches(row, at[c].exp)
    /\ Goto(c, [at[c] EXCEPT !.pc = "store", !.rec = row, !.seen = commits])
    /\ UNCHANGED <<row, commits, by>>

\* The same SELECT, and ErrSyncCursorConflict.
Conflict(c) ==
    /\ at[c].pc = "find" /\ at[c].op = "advance"
    /\ ~Matches(row, at[c].exp)
    /\ Goto(c, Idle)
    /\ UNCHANGED <<row, commits, by>>

\* The INSERT or UPDATE (by ID, without a condition on the cursor) and the
\* commit.  An INSERT that meets a row violates the unique index.
MayStore(c) ==
    /\ SnapshotWrites => commits = at[c].seen
    /\ at[c].rec = None => row = None

Store(c) ==
    /\ at[c].pc = "store"
    /\ MayStore(c) /\ commits < MaxCommits
    /\ row' = at[c].new
    /\ commits' = commits + 1
    /\ by' = [op |-> at[c].op, exp |-> at[c].exp]
    /\ Goto(c, Idle)

\* The statement fails, or the caller stops, and the transaction rolls back.
\* (After a unique violation PostgreSQL refuses Upsert's second SELECT too.)
Abandon(c) ==
    /\ at[c].pc # "idle"
    /\ Goto(c, Idle)
    /\ UNCHANGED <<row, commits, by>>

Next ==
    \E c \in Callers :
       \/ Load(c)
       \/ \E op \in {"upsert", "advance"}, new \in Cursors : Begin(c, op, new)
       \/ Find(c) \/ Conflict(c) \/ Store(c) \/ Abandon(c)

Spec == Init /\ [][Next]_vars

-----------------------------------------------------------------------------
(* Properties.                                                              *)

\* The row and every caller's locals hold cursors where cursors belong; the
\* cursor a transaction is about to store is never the empty one, and an
\* Upsert expects nothing.
TypeOK ==
    /\ row \in Stored
    /\ commits \in Nat
    /\ at \in [Callers -> Locals]
    /\ \A c \in Callers :
          /\ at[c].pc \in {"find", "store"} => at[c].new \in Cursors
          /\ at[c].pc = "idle" => at[c] = Idle
          /\ at[c].op = "upsert" => at[c].exp = None

\* A transaction that may still write has compared the row as it is now.
Fresh ==
    \A c \in Callers :
       at[c].pc = "store" =>
          /\ at[c].seen <= commits
          /\ at[c].seen = commits => at[c].rec = row
          /\ at[c].op = "advance" => Matches(at[c].rec, at[c].exp)

Register == INSTANCE CursorRegister WITH value <- row, by <- by

\* Where a transaction cannot write over what it has not read, Upsert and
\* Advance implement the register: no Advance replaces a cursor other than the
\* one its caller expects, however the transactions interleave and break off.
ImplementsRegister == Register!RegisterSpec

\* An Advance is refused only because another call has committed since the
\* caller loaded the cursor it expects; a caller alone, with or without a
\* stored cursor, is never told that it lost a race.
ConflictIsReal ==
    [][\A c \in Callers : Conflict(c) => commits > at[c].base]_vars
=============================================================================
