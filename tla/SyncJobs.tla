------------------------------ MODULE SyncJobs ------------------------------
(***************************************************************************)
(* Sync jobs: Service.CreateSyncJob (core/service_sync_jobs.go), the SQL   *)
(* job store (store/sql/sync_job_store.go) and the Orchestrator over it    *)
(* (sync/orchestrator.go).  Concurrent callers create jobs, with and       *)
(* without an idempotency key, and resume, checkpoint, complete and fail   *)
(* them; every statement is a step, and a caller may fail or stop at each. *)
(*                                                                         *)
(* A checkpoint is the number of the call that supplied it, 0 the empty    *)
(* one; metadata and timestamps are left out.  A key stands for the whole  *)
(* idempotency tuple (scope, provider, mode, key).                         *)
(***************************************************************************)
EXTENDS Integers, Sequences, FiniteSets

CONSTANTS
    JobCallers,  \* concurrent callers of the service and the orchestrator
    Connections, \* the connections of the provider and scope in question
    Keys,        \* idempotency tuples
    Ops,         \* which operations the callers use
    MaxJobCalls, \* bound: how many calls are made
    MaxToggles,  \* bound: how often a connection changes its activity
    JobNone      \* no key, no connection

ASSUME SyncJobsAssumption ==
    /\ JobNone \notin Keys \cup Connections
    /\ Ops \subseteq {"start", "create", "resume", "save", "complete", "fail"}
    /\ MaxJobCalls \in Nat /\ MaxToggles \in Nat

VARIABLES
    jobs,         \* the rows of service_sync_jobs, in the order of insertion
    idem,         \* idem[k]: the job bound to idempotency tuple k, 0 if none
    cursor,       \* the stored sync cursor that start reads
    active,       \* the connections whose status is active
    jobAt,        \* jobAt[c]: where caller c is
    jobCalls,     \* how many calls have begun
    toggles,      \* how many connection changes have happened
    answers,      \* history: what CreateSyncJob answered, per call
    written,      \* history: who inserted a job, and the attempts added and
                  \*   the checkpoint saved last, per job
    finishing,    \* history: <<job, checkpoint>> pairs given to Complete
    jobOverlapped \* history: jobs on which two calls have overlapped

jobVars == <<jobs, idem, cursor, active, jobAt, jobCalls, toggles,
             answers, written, finishing, jobOverlapped>>
history == <<answers, written, finishing, jobOverlapped>>

-----------------------------------------------------------------------------
\* A job is queued, running, succeeded or failed.
NewJob(conn, checkpoint) ==
    [connection |-> conn, status |-> "queued",
     checkpoint |-> checkpoint, attempts |-> 0]

\* A caller's locals: the call's number, the job it works on and the copy it
\* has read, the connection and the key it creates with.
JobIdle == [pc |-> "idle", op |-> "start", call |-> 0, job |-> 0,
            rec |-> NewJob(JobNone, 0), key |-> JobNone]

JobInit ==
    /\ jobs = <<>>
    /\ idem = [k \in Keys |-> 0]
    /\ cursor = 0
    /\ active \in {{}, Connections} \cup {{c} : c \in Connections}
    /\ jobAt = [c \in JobCallers |-> JobIdle]
    /\ jobCalls = 0 /\ toggles = 0
    /\ answers = {} /\ written = <<>> /\ finishing = {} /\ jobOverlapped = {}

\* A connection of the scope becomes active or stops being so.
Toggle(conn) ==
    /\ toggles < MaxToggles
    /\ toggles' = toggles + 1
    /\ active' = IF conn \in active THEN active \ {conn} ELSE active \cup {conn}
    /\ UNCHANGED <<jobs, idem, cursor, jobAt, jobCalls, history>>

\* The resource's cursor advances (SyncCursor models how).
CursorMoves ==
    /\ "start" \in Ops /\ cursor < jobCalls
    /\ cursor' = jobCalls
    /\ UNCHANGED <<jobs, idem, active, jobAt, jobCalls, toggles, history>>

JobBegin(c, op) ==
    /\ op \in Ops /\ jobAt[c].pc = "idle" /\ jobCalls < MaxJobCalls
    /\ jobCalls' = jobCalls + 1

JobGoto(c, locals) == jobAt' = [jobAt EXCEPT ![c] = locals]

Insert(c) ==
    /\ jobs' = Append(jobs, jobAt[c].rec)
    /\ written' = Append(written, [by |-> jobAt[c].op, attempts |-> 0,
                                   checkpoint |-> jobAt[c].rec.checkpoint])

-----------------------------------------------------------------------------
(* StartBootstrap, StartBackfill, StartIncremental: they differ in mode and *)
(* metadata only.  A failed read of the cursor is ignored.                  *)

JobStart(c) ==
    /\ JobBegin(c, "start")
    /\ \E conn \in Connections, seen \in {0, cursor} :
          JobGoto(c, [JobIdle EXCEPT !.pc = "insert", !.call = jobCalls',
                                     !.rec = NewJob(conn, seen)])
    /\ UNCHANGED <<jobs, idem, cursor, active, toggles, history>>

StartInsert(c) ==
    /\ jobAt[c].pc = "insert"
    /\ Insert(c)
    /\ JobGoto(c, JobIdle)
    /\ UNCHANGED <<idem, cursor, active, jobCalls, toggles, answers, finishing, jobOverlapped>>

-----------------------------------------------------------------------------
(* CreateSyncJob.                                                           *)

\* An explicit connection of the scope is taken as it is; without one the
\* scope must have exactly one active connection.
Resolves(explicit) ==
    IF explicit # JobNone THEN {explicit}
    ELSE IF Cardinality(active) = 1 THEN active ELSE {}

Create(c) ==
    /\ JobBegin(c, "create")
    /\ \E key \in Keys \cup {JobNone}, explicit \in Connections \cup {JobNone} :
          \E conn \in Resolves(explicit) :
             JobGoto(c, [JobIdle EXCEPT !.pc = "tx", !.op = "create", !.call = jobCalls',
                                        !.rec = NewJob(conn, 0), !.key = key])
    /\ UNCHANGED <<jobs, idem, cursor, active, toggles, history>>

\* The job is inserted before the tuple; a tuple that exists already fails
\* the insert and rolls the job back.
CreateTx_KeepsJob(c) ==
    LET key == jobAt[c].key IN
    /\ jobAt[c].pc = "tx"
    /\ Insert(c)
    /\ IF key # JobNone /\ idem[key] # 0
       THEN /\ JobGoto(c, [jobAt[c] EXCEPT !.pc = "find"])
            /\ UNCHANGED <<idem, answers>>
       ELSE /\ idem' = [k \in Keys |-> IF k = key THEN Len(jobs') ELSE idem[k]]
            /\ answers' = answers \cup {[call |-> jobAt[c].call, key |-> key,
                                         job |-> Len(jobs'), created |-> TRUE]}
            /\ JobGoto(c, JobIdle)
    /\ UNCHANGED <<cursor, active, jobCalls, toggles, finishing, jobOverlapped>>

CreateTx(c) ==
    LET key == jobAt[c].key IN
    /\ jobAt[c].pc = "tx"
    /\ IF key # JobNone /\ idem[key] # 0
       THEN /\ JobGoto(c, [jobAt[c] EXCEPT !.pc = "find"])
            /\ UNCHANGED <<jobs, idem, answers, written>>
       ELSE /\ Insert(c)
            /\ idem' = [k \in Keys |-> IF k = key THEN Len(jobs') ELSE idem[k]]
            /\ answers' = answers \cup {[call |-> jobAt[c].call, key |-> key,
                                         job |-> Len(jobs'), created |-> TRUE]}
            /\ JobGoto(c, JobIdle)
    /\ UNCHANGED <<cursor, active, jobCalls, toggles, finishing, jobOverlapped>>

\* The replay: the tuple is looked up, then the job it names.
Replay(c) ==
    /\ jobAt[c].pc = "find"
    /\ idem[jobAt[c].key] \in DOMAIN jobs
    /\ answers' = answers \cup {[call |-> jobAt[c].call, key |-> jobAt[c].key,
                                 job |-> idem[jobAt[c].key], created |-> FALSE]}
    /\ JobGoto(c, JobIdle)
    /\ UNCHANGED <<jobs, idem, cursor, active, jobCalls, toggles,
                   written, finishing, jobOverlapped>>

-----------------------------------------------------------------------------
(* Resume, SaveCheckpoint, Complete and Fail: each reads the whole row and  *)
(* later overwrites the whole row.                                          *)

Mutates(c, j) == jobAt[c].pc \in {"write", "finish"} /\ jobAt[c].job = j

\* What a call turns the row it read into.
Changed_FromTheStart(rec, op, call) ==
    CASE op = "resume" -> [rec EXCEPT !.attempts = @ + 1, !.checkpoint = 0,
                              !.status = IF @ = "failed" THEN "queued" ELSE @]
      [] op = "fail" -> [rec EXCEPT !.attempts = @ + 1, !.status = "failed"]
      [] op \in {"save", "complete"} ->
            [rec EXCEPT !.checkpoint = call, !.status = "running"]

Changed(rec, op, call) ==
    CASE op = "resume" -> [rec EXCEPT !.attempts = @ + 1,
                              !.status = IF @ = "failed" THEN "queued" ELSE @]
      [] op = "fail" -> [rec EXCEPT !.attempts = @ + 1, !.status = "failed"]
      [] op \in {"save", "complete"} ->
            [rec EXCEPT !.checkpoint = call, !.status = "running"]

\* Get.  Resume of a succeeded job returns at once.
ReadJob(c, op, j) ==
    /\ JobBegin(c, op)
    /\ op = "resume" => jobs[j].status # "succeeded"
    /\ JobGoto(c, [JobIdle EXCEPT !.pc = "write", !.op = op, !.call = jobCalls', !.job = j,
                                  !.rec = Changed(jobs[j], op, jobCalls')])
    /\ jobOverlapped' = IF \E o \in JobCallers \ {c} : Mutates(o, j)
                        THEN jobOverlapped \cup {j} ELSE jobOverlapped
    /\ finishing' = IF op = "complete" THEN finishing \cup {<<j, jobCalls'>>} ELSE finishing
    /\ UNCHANGED <<jobs, idem, cursor, active, toggles, answers, written>>

\* The history of a job after a call has written to it.
Noted(w, op, call) ==
    IF op \in {"resume", "fail"} THEN [w EXCEPT !.attempts = @ + 1]
    ELSE [w EXCEPT !.checkpoint = call]

\* Update: the whole row, whatever it holds by now.
WriteJob(c) ==
    LET me == jobAt[c] IN
    /\ me.pc = "write"
    /\ jobs' = [jobs EXCEPT ![me.job] = me.rec]
    /\ written' = [written EXCEPT ![me.job] = Noted(@, me.op, me.call)]
    /\ JobGoto(c, IF me.op = "complete" THEN [me EXCEPT !.pc = "finish"] ELSE JobIdle)
    /\ UNCHANGED <<idem, cursor, active, jobCalls, toggles, answers, finishing, jobOverlapped>>

\* Complete's second Update, of the record that its SaveCheckpoint returned.
FinishJob(c) ==
    /\ jobAt[c].pc = "finish"
    /\ jobs' = [jobs EXCEPT ![jobAt[c].job] = [jobAt[c].rec EXCEPT !.status = "succeeded"]]
    /\ JobGoto(c, JobIdle)
    /\ UNCHANGED <<idem, cursor, active, jobCalls, toggles, history>>

\* A statement fails, or the caller's process stops: the call ends here.
JobAbandon(c) ==
    /\ jobAt[c].pc # "idle"
    /\ JobGoto(c, JobIdle)
    /\ UNCHANGED <<jobs, idem, cursor, active, jobCalls, toggles, history>>

JobNext ==
    \/ \E conn \in Connections : Toggle(conn)
    \/ CursorMoves
    \/ \E c \in JobCallers :
          \/ JobStart(c) \/ StartInsert(c)
          \/ Create(c) \/ CreateTx(c) \/ Replay(c)
          \/ \E op \in {"resume", "save", "complete", "fail"}, j \in DOMAIN jobs :
                ReadJob(c, op, j)
          \/ WriteJob(c) \/ FinishJob(c) \/ JobAbandon(c)

JobSpec == JobInit /\ [][JobNext]_jobVars

-----------------------------------------------------------------------------
(* Properties.                                                              *)

\* CreateSyncJob is idempotent: all the calls that were answered for one key
\* got the same job, at most one of them was told that it created it, and a
\* call that lost the race leaves no job of its own behind: every job that the
\* orchestrator did not start is the job of a call that was told so.
IdempotentCreate ==
    /\ \A a, b \in answers : a.key = b.key /\ a.key # JobNone =>
          a.job = b.job /\ (a.created /\ b.created => a = b)
    /\ \A j \in DOMAIN jobs : written[j].by = "create" =>
          \E a \in answers : a.job = j /\ a.created

\* The row of a succeeded job carries the checkpoint its completing call was
\* given, whatever ran beside it: Complete writes the record it read, so no
\* other call's checkpoint is declared final.
SucceededCheckpoint ==
    \A j \in DOMAIN jobs :
       jobs[j].status = "succeeded" => <<j, jobs[j].checkpoint>> \in finishing

\* As long as no two calls on a job overlapped, nothing is lost: the row
\* counts every attempt that was written and holds the checkpoint saved last,
\* across failures, resumes and calls that broke off between two statements.
NothingLostAlone ==
    \A j \in DOMAIN jobs \ jobOverlapped :
       /\ jobs[j].attempts = written[j].attempts
       /\ jobs[j].checkpoint = written[j].checkpoint

\* The orchestrator's calls keep the checkpoints and attempts of their jobs.
CheckpointsKept == SucceededCheckpoint /\ NothingLostAlone
=============================================================================
