---------------------------- MODULE Installations ---------------------------
(***************************************************************************)
(* Installations of one provider, scope and install type:                  *)
(* UpsertInstallation and UpdateInstallationStatus of the service          *)
(* (core/service_installations.go) over the SQL store                      *)
(* (store/sql/installation_store.go), with the transition table of         *)
(* core/domain.go.  A call checks the transition on what the service reads,*)
(* again on what the store reads, and then writes the whole row by its ID. *)
(* The schema has a unique index on active installations only.             *)
(***************************************************************************)
EXTENDS Integers, Sequences

CONSTANTS
    Callers, \* concurrent callers of the service
    MaxCalls \* bound: how many calls are made

ASSUME InstallationsAssumption == MaxCalls \in Nat

VARIABLES
    installRows,  \* service_installations of the triple, in order of insertion
    installClock, \* updated_at: how many writes there have been
    installAt,    \* installAt[c]: where caller c is
    calls         \* how many calls have begun

installVars == <<installRows, installClock, installAt, calls>>

-----------------------------------------------------------------------------
Statuses == {"active", "suspended", "needs_reconsent", "uninstalled"}

\* installationTransitionAllowed, and TransitionTo's same-status case.
Allowed_Reinstall(current, next) ==
    \/ current = next
    \/ next \in CASE current = "active" -> {"suspended", "uninstalled", "needs_reconsent"}
                  [] OTHER -> {"active", "uninstalled"}

Allowed(current, next) ==
    \/ current = next
    \/ next \in CASE current = "active" -> {"suspended", "uninstalled", "needs_reconsent"}
                  [] current \in {"suspended", "needs_reconsent"} -> {"active", "uninstalled"}
                  [] current = "uninstalled" -> {}

Row == [status : Statuses, revoked : BOOLEAN, updated : Nat]

\* A caller's locals: the operation, the row's index (0: to be inserted), the
\* status it wants, and the record its store call read.
InstallIdle == [pc |-> "idle", op |-> "upsert", id |-> 0, status |-> "active",
                rec |-> [status |-> "active", revoked |-> FALSE, updated |-> 0]]

InstallInit == installRows = <<>> /\ installClock = 0 /\ installAt = [c \in Callers |-> InstallIdle] /\ calls = 0

InstallGoto(c, locals) == installAt' = [installAt EXCEPT ![c] = locals]

\* ORDER BY updated_at DESC LIMIT 1; 0 when there is no row.
Newest ==
    IF installRows = <<>> THEN 0
    ELSE CHOOSE i \in DOMAIN installRows : \A j \in DOMAIN installRows : installRows[j].updated <= installRows[i].updated

\* A transition of an existing row, or the creation of an active one.
MayBecome(i, status) ==
    IF i = 0 THEN status = "active" ELSE Allowed(installRows[i].status, status)

\* The service's check: ListByScope or Get, and the transition.
Check(c, op, i, status) ==
    /\ installAt[c].pc = "idle" /\ calls < MaxCalls /\ calls' = calls + 1
    /\ MayBecome(i, status)
    /\ InstallGoto(c, [InstallIdle EXCEPT !.pc = "find", !.op = op, !.id = i, !.status = status])
    /\ UNCHANGED <<installRows, installClock>>

UpsertInstallation(c, status) == Check(c, "upsert", Newest, status)

UpdateInstallationStatus(c, i, status) == Check(c, "update", i, status)

\* The store's check: findInstallationTx or GetByID, and the transition again.
Find(c) ==
    LET i == IF installAt[c].op = "upsert" THEN Newest ELSE installAt[c].id IN
    /\ installAt[c].pc = "find"
    /\ MayBecome(i, installAt[c].status)
    /\ InstallGoto(c, [installAt[c] EXCEPT !.pc = "write", !.id = i,
                                           !.rec = IF i = 0 THEN InstallIdle.rec ELSE installRows[i]])
    /\ UNCHANGED <<installRows, installClock, calls>>

FindRefused(c) ==
    LET i == IF installAt[c].op = "upsert" THEN Newest ELSE installAt[c].id IN
    /\ installAt[c].pc = "find"
    /\ ~MayBecome(i, installAt[c].status)
    /\ InstallGoto(c, InstallIdle)
    /\ UNCHANGED <<installRows, installClock, calls>>

\* What the store writes: all of the record it read, with the new status, and
\* revoked_at when that is uninstalled.
Written(rec, status) ==
    [rec EXCEPT !.status = status, !.updated = installClock + 1,
                !.revoked = (status = "uninstalled") \/ rec.revoked]

\* uq_service_installations_active.
KeepsUnique(i, status) ==
    status = "active" => \A j \in DOMAIN installRows \ {i} : installRows[j].status # "active"

Write(c) ==
    LET i == installAt[c].id
        new == Written(installAt[c].rec, installAt[c].status)
    IN
    /\ installAt[c].pc = "write"
    /\ KeepsUnique(i, installAt[c].status)
    /\ installRows' = IF i = 0 THEN Append(installRows, new) ELSE [installRows EXCEPT ![i] = new]
    /\ installClock' = installClock + 1
    /\ InstallGoto(c, InstallIdle)
    /\ UNCHANGED calls

\* The statement fails (a second active row does), or the caller stops.
Abandon(c) ==
    /\ installAt[c].pc # "idle"
    /\ InstallGoto(c, InstallIdle)
    /\ UNCHANGED <<installRows, installClock, calls>>

InstallNext ==
    \E c \in Callers :
       \/ \E status \in Statuses :
             \/ UpsertInstallation(c, status)
             \/ \E i \in DOMAIN installRows : UpdateInstallationStatus(c, i, status)
       \/ Find(c) \/ FindRefused(c) \/ Write(c) \/ Abandon(c)

InstallSpec == InstallInit /\ [][InstallNext]_installVars

-----------------------------------------------------------------------------
(* Properties.                                                              *)

\* An uninstalled row always says when it was revoked, whichever path
\* uninstalled it and whatever was written over it before and after.
RevokedWhenUninstalled ==
    /\ installRows \in Seq(Row)
    /\ \A i \in DOMAIN installRows : installRows[i].status = "uninstalled" => installRows[i].revoked

\* The step keeps the transition table, or overwrites a status that the
\* caller's own check has not seen.
InTable ==
    {<<"active", "suspended">>, <<"active", "uninstalled">>, <<"active", "needs_reconsent">>,
     <<"suspended", "active">>, <<"suspended", "uninstalled">>,
     <<"needs_reconsent", "active">>, <<"needs_reconsent", "uninstalled">>}

LeavesTableByRace ==
    \A i \in DOMAIN installRows : installRows'[i].status # installRows[i].status =>
        \/ <<installRows[i].status, installRows'[i].status>> \in InTable
        \/ \E c \in Callers : /\ installAt[c].pc = "write" /\ installAt[c].id = i
                              /\ installAt'[c].pc = "idle" /\ installAt[c].rec # installRows[i]

\* A write leaves the transition table only by overwriting a status that its
\* own check has not seen: without another call's write between the store's
\* read and its write, the table is kept, and reactivation of an uninstalled
\* row in particular is impossible.  Raced or not, a write keeps the time of
\* revocation of what is uninstalled.
TableUnlessRaced == [][RevokedWhenUninstalled' /\ LeavesTableByRace]_installVars
=============================================================================
