------------------------------ MODULE SyncRun -------------------------------
(***************************************************************************)
(* Planning and executing sync runs of one binding in one direction:       *)
(* SyncPlannerService (core/sync_planner_service.go) and                   *)
(* SyncExecutionService (core/sync_execution_service.go) over a checkpoint *)
(* store, an append-only change log and an event bus, which are external.  *)
(*                                                                         *)
(* The source offers a fixed feed of changes.  A source version is the     *)
(* position in the feed; a change is known to the log by its idempotency   *)
(* key, which two positions may share.  A caller plans from the latest or  *)
(* from a named checkpoint, fetches what follows it, and runs the plan,    *)
(* perhaps more than once and beside another caller.                       *)
(***************************************************************************)
EXTENDS Integers, Sequences

CONSTANTS
    Runners,     \* concurrent callers of PlanSyncRun and RunSyncImport
    Feed,        \* the idempotency keys of the source's changes, in order
    NoID,        \* the key of a change without an external ID
    Limit,       \* how many changes a plan takes
    MaxRunFaults \* bound: how many statements fail or runners stop

ASSUME SyncRunAssumption ==
    /\ Feed \in Seq({Feed[i] : i \in DOMAIN Feed}) /\ Len(Feed) > 0
    /\ Limit \in Nat \ {0}
    /\ MaxRunFaults \in Nat

VARIABLES
    log,      \* the idempotency keys in the change log
    latest,   \* the checkpoint saved last
    saved,    \* the checkpoints a plan can start from: saved, or none yet
    run,      \* run[r]: where runner r is
    failed,   \* history: NextCheckpoint of the apply runs that failed
    runFaults \* history: how many faults have happened

runVars == <<log, latest, saved, run, failed, runFaults>>

-----------------------------------------------------------------------------

RunStart == [seq |-> 0, ver |-> 0]

\* A runner's locals: the mode, the plan's checkpoint, the position of the last
\* change of the batch, and the checkpoint the loop advances.
RunIdle == [pc |-> "idle", mode |-> "apply", plan |-> RunStart, last |-> 0, cp |-> RunStart]

RunInit ==
    /\ log = {}
    /\ latest = RunStart
    /\ saved = {RunStart}
    /\ run = [r \in Runners |-> RunIdle]
    /\ failed = {}
    /\ runFaults = 0

RunGoto(r, locals) == run' = [run EXCEPT ![r] = locals]

RunFault == runFaults < MaxRunFaults /\ runFaults' = runFaults + 1

\* PlanSyncRun: the checkpoint named by the caller, else the latest; at most
\* Limit changes after it are fetched.  Planning from a checkpoint that is no
\* longer the latest also stands for running an earlier plan again.
Plan(r, mode, from) ==
    /\ run[r].pc = "idle"
    /\ from \in saved \cup {latest}
    /\ from.ver < Len(Feed)
    /\ RunGoto(r, [pc |-> "started", mode |-> mode, plan |-> from, cp |-> from,
                   last |-> IF from.ver + Limit < Len(Feed) THEN from.ver + Limit
                            ELSE Len(Feed)])
    /\ UNCHANGED <<log, latest, saved, failed, runFaults>>

\* The started event; an error ends the run before it touches anything.
RunPublish(r, pc, next) ==
    /\ run[r].pc = pc
    /\ \/ /\ RunGoto(r, [run[r] EXCEPT !.pc = next])
          /\ UNCHANGED runFaults
       \/ RunFault /\ RunGoto(r, RunIdle)
    /\ UNCHANGED <<log, latest, saved, failed>>

Started(r) == RunPublish(r, "started", "change")

\* The next change: the loop's checkpoint moves to it before it is appended.
NextOf(r) == run[r].cp.ver + 1

Advanced(cp) == [seq |-> cp.seq + 1, ver |-> cp.ver + 1]

Change(r) ==
    /\ run[r].pc = "change"
    /\ run[r].cp.ver < run[r].last
    /\ Feed[NextOf(r)] # NoID
    /\ RunGoto(r, [run[r] EXCEPT !.cp = Advanced(@),
                                 !.pc = IF run[r].mode = "dry_run" THEN "change" ELSE "append"])
    /\ UNCHANGED <<log, latest, saved, failed, runFaults>>

\* A failed run reports the loop's checkpoint as NextCheckpoint.
EndFailed(r) ==
    /\ failed' = IF run[r].mode = "apply" THEN failed \cup {run[r].cp} ELSE failed
    /\ RunGoto(r, RunIdle)

\* A change without an external ID fails the run where it stands.
Invalid(r) ==
    /\ run[r].pc = "change"
    /\ run[r].cp.ver < run[r].last
    /\ Feed[NextOf(r)] = NoID
    /\ EndFailed(r)
    /\ UNCHANGED <<log, latest, saved, runFaults>>

\* changeLogStore.Append: a key that is there already is skipped.
Append1(r) ==
    /\ run[r].pc = "append"
    /\ log' = log \cup {Feed[run[r].cp.ver]}
    /\ RunGoto(r, [run[r] EXCEPT !.pc = "save"])
    /\ UNCHANGED <<latest, saved, failed, runFaults>>

\* Append fails, before or after the entry was written.
AppendFails_GoesOn(r) ==
    /\ run[r].pc = "append" /\ RunFault
    /\ log' \in {log, log \cup {Feed[run[r].cp.ver]}}
    /\ RunGoto(r, [run[r] EXCEPT !.pc = "change"])
    /\ UNCHANGED <<latest, saved, failed>>

AppendFails(r) ==
    /\ run[r].pc = "append" /\ RunFault
    /\ log' \in {log, log \cup {Feed[run[r].cp.ver]}}
    /\ EndFailed(r)
    /\ UNCHANGED <<latest, saved>>

\* checkpointStore.Save.
Save_PlanAgain(r) ==
    /\ run[r].pc = "save"
    /\ latest' = run[r].plan
    /\ saved' = saved \cup {run[r].plan}
    /\ RunGoto(r, [run[r] EXCEPT !.pc = "saved"])
    /\ UNCHANGED <<log, failed, runFaults>>

Save(r) ==
    /\ run[r].pc = "save"
    /\ latest' = run[r].cp
    /\ saved' = saved \cup {run[r].cp}
    /\ RunGoto(r, [run[r] EXCEPT !.pc = "saved"])
    /\ UNCHANGED <<log, failed, runFaults>>

SaveFails(r) ==
    /\ run[r].pc = "save" /\ RunFault
    /\ EndFailed(r)
    /\ UNCHANGED <<log, latest, saved>>

Saved(r) == RunPublish(r, "saved", "change")

\* The batch is done: the succeeded event, whose failure hides the result.
Succeed(r) ==
    /\ run[r].pc = "change"
    /\ run[r].cp.ver = run[r].last
    /\ RunGoto(r, RunIdle)
    /\ UNCHANGED <<log, latest, saved, failed, runFaults>>

\* The runner's process stops.
Stop(r) ==
    /\ run[r].pc # "idle" /\ RunFault
    /\ RunGoto(r, RunIdle)
    /\ UNCHANGED <<log, latest, saved, failed>>

Step(r) ==
    \/ Started(r) \/ Change(r) \/ Invalid(r)
    \/ Append1(r) \/ AppendFails(r) \/ Save(r) \/ SaveFails(r) \/ Saved(r) \/ Succeed(r)

RunNext ==
    \E r \in Runners :
       \/ \E mode \in {"apply", "dry_run"}, from \in saved \cup {latest} : Plan(r, mode, from)
       \/ Step(r)
       \/ Stop(r)

RunSpec == RunInit /\ [][RunNext]_runVars

\* Runners that plan from the latest checkpoint whenever they are idle, and
\* whose runs go on once begun: what a scheduler that calls the service
\* periodically provides.
ScheduledNext ==
    \E r \in Runners : Plan(r, "apply", latest) \/ Step(r) \/ Stop(r)

FairSpec ==
    /\ RunInit /\ [][ScheduledNext]_runVars
    /\ \A r \in Runners : WF_runVars(Plan(r, "apply", latest) \/ Step(r))

-----------------------------------------------------------------------------
(* Properties.                                                              *)

\* A checkpoint that was saved, and so every checkpoint a plan can start from,
\* has everything up to its source version in the change log, in spite of
\* failed appends and saves, repeated plans and overlapping runs: Append comes
\* before Save and a failed Append ends the run.
LoggedUpToCheckpoint ==
    \A cp \in saved \cup {latest} : \A i \in 1 .. cp.ver : Feed[i] \in log

\* The NextCheckpoint of a failed run is at most one change past what the log
\* holds: the run had moved its checkpoint to the change it failed on, and no
\* further.
FailedAtMostOneAhead ==
    \A cp \in failed : \A i \in 1 .. cp.ver - 1 : Feed[i] \in log

\* The sequence number of a checkpoint says how many changes of the feed it
\* stands for, whichever run and however many retries it came from.
SequenceCounts ==
    \A cp \in saved \cup {latest} \cup failed : cp.seq = cp.ver

\* The change log covers the checkpoints, and a checkpoint counts its changes.
LogCoversCheckpoints == LoggedUpToCheckpoint /\ FailedAtMostOneAhead /\ SequenceCounts

\* Retried runs get to the end: as long as some runner goes on planning from
\* the latest checkpoint and faults are finite, every change of the feed is
\* logged in the end, up to the first one without an external ID.
Reachable == {i \in DOMAIN Feed : \A j \in 1 .. i : Feed[j] # NoID}

EventuallyLogged == <>(\A i \in Reachable : Feed[i] \in log)
=============================================================================
