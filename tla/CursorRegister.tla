--------------------------- MODULE CursorRegister ---------------------------
(***************************************************************************)
(* What a sync cursor promises its callers: a register that Upsert sets    *)
(* and that Advance replaces only while it still holds the cursor the      *)
(* caller expects (ErrSyncCursorConflict otherwise), each in one step.     *)
(***************************************************************************)
CONSTANTS
    Cursors,        \* cursors as providers issue them
    Fold(_),        \* what strings.EqualFold compares of a cursor
    None            \* no cursor stored, none expected

VARIABLES
    value,          \* the stored cursor, or None
    by              \* the operation that stored it and the cursor it expected

\* An empty ExpectedCursor expects nothing in particular.
Expected(stored, exp) ==
    \/ exp = None
    \/ stored # None /\ Fold(stored) = Fold(exp)

RegisterInit == value = None /\ by = [op |-> "none", exp |-> None]

Set(new) == value' = new /\ by' = [op |-> "upsert", exp |-> None]

CompareAndSet(exp, new) ==
    /\ Expected(value, exp)
    /\ value' = new
    /\ by' = [op |-> "advance", exp |-> exp]

RegisterNext ==
    \E new \in Cursors :
       \/ Set(new)
       \/ \E exp \in Cursors \cup {None} : CompareAndSet(exp, new)

RegisterSpec == RegisterInit /\ [][RegisterNext]_<<value, by>>
=============================================================================
