---------------------------- MODULE ActivitySink ----------------------------
(***************************************************************************)
(* OperationalActivitySink (core/activity_controls.go): Record hands an    *)
(* entry to a bounded queue or, when it is full, to a fallback sink; one   *)
(* goroutine moves the queue to the primary sink until Close stops it.     *)
(* The primary is ActivityStore (store/sql/activity_store.go), which is    *)
(* pruned in several statements and listed page by page meanwhile.         *)
(*                                                                         *)
(* An entry is its id; its columns and the filters of List other than the  *)
(* page are left out.  The fallback sink is external.                      *)
(***************************************************************************)
EXTENDS Integers, Sequences, FiniteSets

CONSTANTS
    Entries,       \* the ids of the entries
    Invalid,       \* those without the metadata the store requires
    Closers,       \* callers of Close
    HasFallback,   \* a fallback sink is configured
    BufferSize, ActivityTTL, RowCap, PerPage,
    ActivityUnset, \* an absent value
    MaxActivityClock, MaxActivityFaults, MaxPrunes, MaxLists \* bounds

ASSUME ActivitySinkAssumption ==
    /\ Invalid \subseteq Entries /\ BufferSize \in Nat \ {0} /\ PerPage \in Nat \ {0}
    /\ ActivityTTL \in Nat /\ RowCap \in Nat /\ HasFallback \in BOOLEAN

VARIABLES
    clock,
    queue,          \* the channel: entries [id, at]
    worker,         \* run(): [pc, entry], pc one of select, primary, fallback, done
    stopped,        \* stopCh is closed
    closer,         \* closer[c]: idle, once (waiting for doneCh or for stopOnce), closed
    activityRows,   \* the store's rows [id, at]
    fallback,       \* what the fallback sink stored
    activityFaults, \* failed writes
    prune,          \* the pruner: [pc, excess, n]
    list,           \* the reader: [pc, offset, n], and what it expects and has seen
    accepted,       \* history: ids Record took without an error
    lost            \* history: ids no sink would store

activityVars == <<clock, queue, worker, stopped, closer, activityRows, fallback, activityFaults, prune, list,
                  accepted, lost>>

sinkVars == <<queue, worker, stopped, closer, accepted, lost, fallback>>

ActivityInit ==
    /\ clock = 1 /\ queue = <<>> /\ worker = [pc |-> "select", entry |-> ActivityUnset]
    /\ stopped = FALSE /\ closer = [c \in Closers |-> "idle"]
    /\ activityRows = {} /\ fallback = {} /\ activityFaults = 0
    /\ prune = [pc |-> "idle", excess |-> 0, n |-> 0]
    /\ list = [pc |-> "idle", offset |-> 0, n |-> 0, owed |-> {}, seen |-> {},
               tied |-> FALSE]
    /\ accepted = {} /\ lost = {}

ActivityFault == activityFaults < MaxActivityFaults /\ activityFaults' = activityFaults + 1

ActivityTick == clock < MaxActivityClock /\ clock' = clock + 1
                /\ UNCHANGED <<sinkVars, activityRows, activityFaults, prune, list>>

-----------------------------------------------------------------------------
\* Record: the select takes the queue whenever it has room (or the cancelled
\* context); only then the fallback, which may fail.
ActivityRecord(id) ==
    /\ id \notin accepted /\ id \notin lost
    /\ \/ /\ Len(queue) < BufferSize
          /\ queue' = Append(queue, [id |-> id, at |-> clock])
          /\ accepted' = accepted \cup {id} /\ UNCHANGED <<fallback, lost, activityFaults>>
       \/ /\ Len(queue) >= BufferSize /\ HasFallback
          /\ fallback' = fallback \cup {id} /\ accepted' = accepted \cup {id}
          /\ UNCHANGED <<queue, lost, activityFaults>>
       \/ /\ Len(queue) >= BufferSize /\ HasFallback /\ ActivityFault
          /\ lost' = lost \cup {id} /\ UNCHANGED <<queue, fallback, accepted>>
       \/ /\ Len(queue) >= BufferSize /\ ~HasFallback
          /\ accepted' = accepted \cup {id} /\ lost' = lost \cup {id}
          /\ UNCHANGED <<queue, fallback, activityFaults>>
    /\ UNCHANGED <<clock, worker, stopped, closer, activityRows, prune, list>>

\* run(): one of the ready cases; stopping does not wait for the queue.
Take_NotLast ==
    /\ worker.pc = "select" /\ Len(queue) > 1
    /\ worker' = [pc |-> "primary", entry |-> Head(queue)] /\ queue' = Tail(queue)
    /\ UNCHANGED <<clock, stopped, closer, activityRows, fallback, activityFaults, prune, list, accepted, lost>>

Take ==
    /\ worker.pc = "select" /\ queue # <<>>
    /\ worker' = [pc |-> "primary", entry |-> Head(queue)] /\ queue' = Tail(queue)
    /\ UNCHANGED <<clock, stopped, closer, activityRows, fallback, activityFaults, prune, list, accepted, lost>>

Stop ==
    /\ worker.pc = "select" /\ stopped
    /\ worker' = [worker EXCEPT !.pc = "done"]
    /\ UNCHANGED <<clock, queue, stopped, closer, activityRows, fallback, activityFaults, prune, list, accepted, lost>>

\* ActivityStore.Record, and what run does with its error.
StoreRecord ==
    /\ worker.pc = "primary"
    /\ \/ /\ worker.entry.id \notin Invalid
          /\ activityRows' = activityRows \cup {worker.entry}
          /\ worker' = [pc |-> "select", entry |-> ActivityUnset] /\ UNCHANGED <<activityFaults, lost>>
       \/ /\ \/ worker.entry.id \in Invalid /\ UNCHANGED activityFaults
             \/ worker.entry.id \notin Invalid /\ ActivityFault
          /\ IF HasFallback
             THEN worker' = [worker EXCEPT !.pc = "fallback"] /\ UNCHANGED lost
             ELSE /\ worker' = [pc |-> "select", entry |-> ActivityUnset]
                  /\ lost' = lost \cup {worker.entry.id}
          /\ UNCHANGED activityRows
    /\ UNCHANGED <<clock, queue, stopped, closer, fallback, prune, list, accepted>>

FallbackRecord ==
    /\ worker.pc = "fallback"
    /\ \/ fallback' = fallback \cup {worker.entry.id} /\ UNCHANGED <<activityFaults, lost>>
       \/ ActivityFault /\ lost' = lost \cup {worker.entry.id} /\ UNCHANGED fallback
    /\ worker' = [pc |-> "select", entry |-> ActivityUnset]
    /\ UNCHANGED <<clock, queue, stopped, closer, activityRows, prune, list, accepted>>

\* Close: the first caller stops the goroutine, all of them wait for its end.
Close(c) ==
    /\ closer[c] = "idle"
    /\ closer' = [closer EXCEPT ![c] = "once"] /\ stopped' = TRUE
    /\ UNCHANGED <<clock, queue, worker, activityRows, fallback, activityFaults, prune, list, accepted, lost>>

Closed(c) ==
    /\ closer[c] = "once" /\ worker.pc = "done"
    /\ closer' = [closer EXCEPT ![c] = "closed"]
    /\ UNCHANGED <<clock, queue, worker, stopped, activityRows, fallback, activityFaults, prune, list, accepted, lost>>

-----------------------------------------------------------------------------
\* Prune, called by EnforceRetention: delete what is too old, count, delete the
\* oldest beyond the cap.  Rows of one instant are deleted in any order.
PruneTTL ==
    /\ prune.pc = "idle" /\ prune.n < MaxPrunes
    /\ activityRows' = IF ActivityTTL > 0 THEN {r \in activityRows : r.at >= clock - ActivityTTL} ELSE activityRows
    /\ prune' = [prune EXCEPT !.pc = IF RowCap > 0 THEN "count" ELSE "idle", !.n = @ + 1]
    /\ list' = [list EXCEPT !.owed = {id \in @ : \E r \in activityRows' : r.id = id}]
    /\ UNCHANGED <<clock, sinkVars, activityFaults>>

Count ==
    /\ prune.pc = "count"
    /\ LET excess == Cardinality(activityRows) - RowCap IN
       prune' = IF excess > 0 THEN [prune EXCEPT !.pc = "delete", !.excess = excess]
                ELSE [prune EXCEPT !.pc = "idle"]
    /\ UNCHANGED <<clock, sinkVars, activityRows, activityFaults, list>>

\* LIMIT n: n rows, or all of them when there are fewer.
Limit(n, of) ==
    {d \in SUBSET of : Cardinality(d) = IF n < Cardinality(of) THEN n ELSE Cardinality(of)}

Oldest(n) ==
    {d \in Limit(n, activityRows) : \A r \in d, k \in activityRows \ d : r.at <= k.at}

DeleteExcess ==
    /\ prune.pc = "delete"
    /\ \E d \in Oldest(prune.excess) : activityRows' = activityRows \ d
    /\ prune' = [prune EXCEPT !.pc = "idle", !.excess = 0]
    /\ list' = [list EXCEPT !.owed = {id \in @ : \E r \in activityRows' : r.id = id}]
    /\ UNCHANGED <<clock, sinkVars, activityFaults>>

\* List, called for page after page until HasNext is false.  Rows of one instant
\* come in any order, and in another one in the next page.
Newest(n, of) == {d \in Limit(n, of) : \A r \in d, k \in of \ d : r.at >= k.at}

Pages(offset) == UNION {Newest(PerPage, activityRows \ before) : before \in Newest(offset, activityRows)}

Tied == \E r, q \in activityRows : r # q /\ r.at = q.at

BeginList ==
    /\ list.pc = "idle" /\ list.n < MaxLists
    /\ list' = [pc |-> "page", offset |-> 0, n |-> list.n + 1, owed |-> {r.id : r \in activityRows}, seen |-> {},
              tied |-> FALSE]
    /\ UNCHANGED <<clock, sinkVars, activityRows, activityFaults, prune>>

ListPage_SkipsOne ==
    /\ list.pc = "page"
    /\ \E items \in Pages(list.offset) :
          LET next == list.offset + Cardinality(items) + 1 IN
          list' = [list EXCEPT !.seen = @ \cup {r.id : r \in items}, !.offset = next,
                               !.tied = @ \/ Tied,
                               !.pc = IF next < Cardinality(activityRows) THEN "page" ELSE "end"]
    /\ UNCHANGED <<clock, sinkVars, activityRows, activityFaults, prune>>

ListPage ==
    /\ list.pc = "page"
    /\ \E items \in Pages(list.offset) :
          LET next == list.offset + Cardinality(items) IN
          list' = [list EXCEPT !.seen = @ \cup {r.id : r \in items}, !.offset = next,
                               !.tied = @ \/ Tied,
                               !.pc = IF next < Cardinality(activityRows) THEN "page" ELSE "end"]
    /\ UNCHANGED <<clock, sinkVars, activityRows, activityFaults, prune>>

EndList ==
    /\ list.pc = "end"
    /\ list' = [list EXCEPT !.pc = "idle", !.offset = 0, !.owed = {}, !.seen = {}, !.tied = FALSE]
    /\ UNCHANGED <<clock, sinkVars, activityRows, activityFaults, prune>>

ActivityNext ==
    \/ ActivityTick \/ Take \/ Stop \/ StoreRecord \/ FallbackRecord
    \/ \E id \in Entries : ActivityRecord(id)
    \/ \E c \in Closers : Close(c) \/ Closed(c)
    \/ PruneTTL \/ Count \/ DeleteExcess
    \/ BeginList \/ ListPage \/ EndList

ActivitySpec == ActivityInit /\ [][ActivityNext]_activityVars

\* The goroutine runs, and a sink's write returns; a closed channel stays
\* ready, so a select that keeps being offered it takes it in the end.
ActivityFairness ==
    /\ WF_activityVars(Take) /\ WF_activityVars(StoreRecord) /\ WF_activityVars(FallbackRecord)
    /\ SF_activityVars(Stop) /\ \A c \in Closers : WF_activityVars(Closed(c))

ActivityFairSpec == ActivitySpec /\ ActivityFairness

-----------------------------------------------------------------------------
Stored == {r.id : r \in activityRows} \cup fallback

\* An entry Record took reaches a sink (or both refuse it), unless the sink is closed first: Close
\* leaves what is still queued.
AcceptedSettles ==
    \A id \in Entries : (id \in accepted) ~> (id \in Stored \cup lost \/ stopped)

\* Close returns to every caller, whatever the queue holds.
CloseReturns == \A c \in Closers : (closer[c] = "once") ~> (closer[c] = "closed")

\* What Record accepted settles, and Close returns.
SinkSettles == AcceptedSettles /\ CloseReturns

\* Paging through the list misses no entry that was there when it began and
\* still is when it ends, while entries arrive and others are pruned, as long as
\* no two rows have the same instant.
NoneMissed == (list.pc = "end" /\ ~list.tied) => list.owed \subseteq list.seen

DeletionsSpareNewest ==
    \A r \in activityRows \ activityRows' :
        \/ r.at < clock - ActivityTTL
        \/ Cardinality({q \in activityRows' : q.at >= r.at}) >= RowCap

\* Pruning takes a row that is not too old only when RowCap rows at least as
\* new stay, also with entries arriving between its statements, and a list in
\* progress misses nothing by it.
StoreKeeps == [][DeletionsSpareNewest /\ NoneMissed']_activityVars
=============================================================================
