---------------------------- MODULE SyncConflicts ---------------------------
(***************************************************************************)
(* The conflict ledger, SyncConflictLedgerService                          *)
(* (core/sync_conflict_service.go): conflicts are recorded and resolved,   *)
(* ignored or handed back for a retry by concurrent callers, through a     *)
(* policy hook and over a conflict store and an event bus, all external.   *)
(***************************************************************************)
EXTENDS Integers, FiniteSets

CONSTANTS
    Conflicts,       \* conflict IDs
    ConflictCallers, \* concurrent callers
    MaxConflictCalls \* bound: how many calls are made

ASSUME ConflictsAssumption == MaxConflictCalls \in Nat

VARIABLES
    status,        \* status[k]: the status in the store, "none" before Append
    conflictAt,    \* conflictAt[c]: where caller c is
    conflictCalls, \* how many calls have begun
    decisions,     \* history: what the store was told, per call
    events,        \* history: the audit events published, per call
    lost,          \* history: calls that ended between the store and the event
    version        \* history: how many decisions conflict k has seen

conflictVars == <<status, conflictAt, conflictCalls, decisions, events, lost, version>>

-----------------------------------------------------------------------------
Actions == {"resolve", "ignore", "retry"}

ConflictIdle == [pc |-> "idle", conflict |-> 0, action |-> "record", call |-> 0, seen |-> 0]

ConflictInit ==
    /\ status = [k \in Conflicts |-> "none"]
    /\ conflictAt = [c \in ConflictCallers |-> ConflictIdle]
    /\ conflictCalls = 0
    /\ decisions = {} /\ events = {} /\ lost = {}
    /\ version = [k \in Conflicts |-> 0]

ConflictGoto(c, locals) == conflictAt' = [conflictAt EXCEPT ![c] = locals]

ConflictBegin(c) == conflictAt[c].pc = "idle" /\ conflictCalls < MaxConflictCalls /\ conflictCalls' = conflictCalls + 1

Decide(c, k, action, call) ==
    /\ decisions' = decisions \cup {[call |-> call, conflict |-> k, action |-> action]}
    /\ version' = [version EXCEPT ![k] = @ + 1]

\* RecordSyncConflict up to store.Append: whatever the caller and the policy
\* hook put in its status, a conflict is recorded as pending.
Record(c, k) ==
    /\ ConflictBegin(c)
    /\ status[k] = "none"
    /\ status' = [status EXCEPT ![k] = "pending"]
    /\ Decide(c, k, "record", conflictCalls')
    /\ ConflictGoto(c, [ConflictIdle EXCEPT !.pc = "publish", !.conflict = k, !.call = conflictCalls'])
    /\ UNCHANGED <<events, lost>>

\* ResolveSyncConflict: a conflict that is resolved or ignored is returned as
\* it is.
Closed_Resolved(st) == st = "resolved"

Closed(st) == st \in {"resolved", "ignored"}

\* store.Get, and the policy hook, which may choose another action.
ConflictLook(c, k) ==
    /\ ConflictBegin(c)
    /\ status[k] # "none" /\ ~Closed(status[k])
    /\ \E action \in Actions :
          ConflictGoto(c, [pc |-> "decide", conflict |-> k, action |-> action,
                           call |-> conflictCalls', seen |-> version[k]])
    /\ UNCHANGED <<status, decisions, events, lost, version>>

LookClosed(c, k) ==
    /\ ConflictBegin(c)
    /\ Closed(status[k])
    /\ UNCHANGED <<status, conflictAt, decisions, events, lost, version>>

\* store.Resolve writes the outcome whatever the status is by then.
Outcome(action) ==
    CASE action = "resolve" -> "resolved"
      [] action = "ignore" -> "ignored"
      [] action = "retry" -> "pending"

Resolve(c) ==
    /\ conflictAt[c].pc = "decide"
    /\ status' = [status EXCEPT ![conflictAt[c].conflict] = Outcome(conflictAt[c].action)]
    /\ Decide(c, conflictAt[c].conflict, conflictAt[c].action, conflictAt[c].call)
    /\ ConflictGoto(c, [conflictAt[c] EXCEPT !.pc = "publish"])
    /\ UNCHANGED <<conflictCalls, events, lost>>

\* publishAuditEvent.
EventName(action) ==
    CASE action = "record" -> "recorded"
      [] action = "ignore" -> "ignored"
      [] action = "retry" -> "retry_requested"
      [] OTHER -> "resolved"

ConflictPublish(c) ==
    /\ conflictAt[c].pc = "publish"
    /\ events' = events \cup {[call |-> conflictAt[c].call, conflict |-> conflictAt[c].conflict,
                               name |-> EventName(conflictAt[c].action)]}
    /\ ConflictGoto(c, ConflictIdle)
    /\ UNCHANGED <<status, conflictCalls, decisions, lost, version>>

\* A store or the event bus fails, or the process stops.
Fail(c) ==
    /\ conflictAt[c].pc # "idle"
    /\ lost' = IF conflictAt[c].pc = "publish" THEN lost \cup {conflictAt[c].call} ELSE lost
    /\ ConflictGoto(c, ConflictIdle)
    /\ UNCHANGED <<status, conflictCalls, decisions, events, version>>

ConflictNext ==
    \E c \in ConflictCallers :
       \/ \E k \in Conflicts : Record(c, k) \/ ConflictLook(c, k) \/ LookClosed(c, k)
       \/ Resolve(c) \/ ConflictPublish(c) \/ Fail(c)

ConflictSpec == ConflictInit /\ [][ConflictNext]_conflictVars

-----------------------------------------------------------------------------
(* Properties.                                                              *)

\* The audit trail: every decision the store has taken is published under its
\* own name, is about to be, or belongs to a call that broke off in between;
\* and nothing is published that the store was not told.
Named == [recorded |-> "record", resolved |-> "resolve",
          ignored |-> "ignore", retry_requested |-> "retry"]

AuditTrail ==
    /\ \A e \in events :
          [call |-> e.call, conflict |-> e.conflict, action |-> Named[e.name]] \in decisions
    /\ \A d \in decisions :
          \/ \E e \in events : e.call = d.call
          \/ d.call \in lost
          \/ \E c \in ConflictCallers : conflictAt[c].pc = "publish" /\ conflictAt[c].call = d.call

\* The step decides a closed conflict only for a call that had read it before
\* its last decision.
DecidedAgainByRace ==
    \A k \in Conflicts : status[k] \in {"resolved", "ignored"} /\ version'[k] # version[k] =>
        \E c \in ConflictCallers : /\ conflictAt[c].pc = "decide" /\ conflictAt[c].conflict = k
                                   /\ conflictAt'[c].pc = "publish" /\ conflictAt[c].seen < version[k]

\* A closed conflict is decided again only by a call that had read it before
\* it was closed: resolutions one after the other leave the first one alone,
\* and only a race can turn ignored into resolved or reopen it.  Raced or not,
\* the decision gets into the audit trail.
ClosedUnlessRaced == [][DecidedAgainByRace /\ AuditTrail']_conflictVars
=============================================================================
