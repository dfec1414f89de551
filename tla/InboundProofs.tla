--------------------------- MODULE InboundProofs ----------------------------
(***************************************************************************)
(* Proofs about what comes in: the claims of inbound requests              *)
(* (InboundClaims) and the channels they are sent on (Subscriptions), for  *)
(* any callers, keys, calls, limits and faults.                            *)
(***************************************************************************)
EXTENDS InboundClaims, Subscriptions, TLAPS

-----------------------------------------------------------------------------
(* Inbound claims.  The invariant IInv ties every request that holds a     *)
(* claim to the entry of its key: claim IDs are never shared, a request    *)
(* within its lease still owns its entry, and the completion time of a key *)
(* bounds the entry that replaces it.                                      *)

\* Entries have claim IDs that were given out, each its own.
EntryIDs ==
    /\ \A k \in Keys : entries[k].status # "absent" => entries[k].id \in 1..nextID
    /\ \A j, k \in Keys :
         j # k /\ entries[j].status # "absent" /\ entries[k].status # "absent"
         => entries[j].id # entries[k].id

\* The index holds exactly the running claims.
IndexOf ==
    \A i \in Nat, k \in Keys :
        <<i, k>> \in claims <=> entries[k].status = "processing" /\ entries[k].id = i

\* Requests past Claim have claim IDs that were given out, each its own.
RequestIDs ==
    /\ \A w \in Requests : rq[w].at <= now
    /\ \A w \in Requests : rq[w].pc # "idle" => rq[w].key \in Keys
    /\ \A w \in Requests : Engaged(w) => rq[w].id \in 1..nextID
    /\ \A v, w \in Requests :
         v # w /\ Engaged(v) /\ Engaged(w) => rq[v].id # rq[w].id

\* An entry with a request's claim ID is the entry of its key, and while it is
\* processing it ends with the request's lease.
OwnEntry ==
    \A w \in Requests, k \in Keys :
        Engaged(w) /\ entries[k].status # "absent" /\ entries[k].id = rq[w].id
        => /\ rq[w].key = k
           /\ entries[k].status = "processing" => entries[k].lease = rq[w].at + KeyTTL

\* Within its lease a request still owns the entry of its key.
InLease ==
    \A w \in Requests :
        Engaged(w) /\ ~LeaseOver(w)
        => entries[rq[w].key].status = "processing" /\ entries[rq[w].key].id = rq[w].id

\* A complete entry lasts for the window that starts at completion; any other
\* entry of a completed key is there only after that window.
Window ==
    \A k \in Keys :
        IF entries[k].status = "complete"
        THEN doneAt[k] \in Nat /\ entries[k].lease = doneAt[k] + KeyTTL
        ELSE doneAt[k] = Never \/ now >= doneAt[k] + KeyTTL

IInv == TypeOK /\ EntryIDs /\ IndexOf /\ RequestIDs /\ OwnEntry /\ InLease /\ Window

-----------------------------------------------------------------------------
\* The initial state satisfies the invariant.
LEMMA InitIInv == InboundInit => IInv
<1> SUFFICES ASSUME InboundInit PROVE IInv
  BY Zenon
<1> USE DEF InboundInit
<1>1. TypeOK
  <2>1. Absent \in Entry /\ Idle \in Locals
    BY Zenon DEF Absent, Entry, Times, Zero, Idle, Locals
  <2> QED
    BY <2>1, Zenon DEF TypeOK, Times, Zero, Never
<1>2. EntryIDs /\ IndexOf /\ Window
  BY Zenon DEF EntryIDs, IndexOf, Window, Absent, Never
<1>3. RequestIDs /\ OwnEntry /\ InLease
  BY DEF RequestIDs, OwnEntry, InLease, Engaged, Idle
<1> QED
  BY <1>1, <1>2, <1>3, Zenon DEF IInv

\* Eviction (evictExpiredLocked) removes complete entries whose window has
\* passed; no running claim is dropped from the index with them.
LEMMA Eviction ==
    ASSUME IInv, NEW t \in Nat
    PROVE  /\ EvictedClaims(t) = claims
           /\ EvictedEntries(t) \in [Keys -> Entry]
           /\ \A k \in Keys :
                \/ EvictedEntries(t)[k] = entries[k]
                   /\ ~(entries[k].status = "complete" /\ entries[k].lease <= t)
                \/ EvictedEntries(t)[k] = Absent
                   /\ entries[k].status = "complete" /\ entries[k].lease <= t
<1>1. \A c \in claims, k \in Evictable(t) : c[1] # entries[k].id
  <2> SUFFICES ASSUME NEW c \in claims, NEW k \in Evictable(t), c[1] = entries[k].id
               PROVE  FALSE
    BY Zenon
  <2>1. k \in Keys /\ entries[k].status = "complete"
    BY Zenon DEF Evictable
  <2>2. PICK i \in Nat, j \in Keys : c = <<i, j>>
    BY DEF IInv, TypeOK
  <2>3. entries[j].status = "processing" /\ entries[j].id = i
    BY <2>2, Zenon DEF IInv, IndexOf
  <2>4. j # k /\ entries[j].id = entries[k].id
    BY <2>1, <2>2, <2>3, Zenon
  <2> QED
    BY <2>1, <2>3, <2>4, Zenon DEF IInv, EntryIDs
<1>2. Absent \in Entry
  BY Zenon DEF Absent, Entry, Times, Zero
<1> QED
  BY <1>1, <1>2, Zenon DEF EvictedClaims, EvictedEntries, Evictable, IInv, TypeOK

\* A request that moves on with its claim, or leaves, or enters, disturbs
\* nothing.
LEMMA Moves ==
    ASSUME IInv, NEW w \in Requests, NEW l \in Locals,
           rq' = [rq EXCEPT ![w] = l],
           UNCHANGED <<now, entries, claims, nextID, doneAt>>, registered' \in BOOLEAN,
           l.at <= now, l.pc # "idle" => l.key \in Keys,
           \/ l.pc \in {"idle", "claim"}
           \/ Engaged(w) /\ l.key = rq[w].key /\ l.at = rq[w].at /\ l.id = rq[w].id
    PROVE  IInv'
<1> USE DEF IInv
<1>1. TypeOK'
  BY Zenon DEF TypeOK
<1>2. EntryIDs' /\ IndexOf' /\ Window'
  BY DEF EntryIDs, IndexOf, Window
<1>3. \A v \in Requests : v # w => rq'[v] = rq[v]
  BY Zenon DEF TypeOK
<1>4. rq'[w] = l
  BY Zenon DEF TypeOK
<1>5. \A v \in Requests : Engaged(v)' => /\ Engaged(v) /\ rq'[v].key = rq[v].key
                                       /\ rq'[v].at = rq[v].at /\ rq'[v].id = rq[v].id
  BY <1>3, <1>4, Zenon DEF Engaged
<1>6. RequestIDs'
  BY <1>3, <1>4, <1>5 DEF RequestIDs
<1>7. OwnEntry'
  BY <1>5 DEF OwnEntry
<1>8. InLease'
  BY <1>5 DEF InLease, LeaseOver
<1> QED
  BY <1>1, <1>2, <1>6, <1>7, <1>8, Zenon

\* Complete and Fail write the entry only if it is the request's own running
\* claim, and drop exactly that claim from the index.
LEMMA SettleEffect ==
    ASSUME IInv, NEW w \in Requests, NEW e, Engaged(w), Settle(w, e)
    PROVE  LET k == rq[w].key IN
           /\ k \in Keys
           /\ IF entries[k].status = "processing" /\ entries[k].id = rq[w].id
              THEN entries' = [entries EXCEPT ![k] = e]
              ELSE entries' = entries
           /\ claims' = claims \ {<<rq[w].id, k>>}
<1> DEFINE k == rq[w].key
<1>1. k \in Keys /\ rq[w].id \in Nat
  BY Zenon DEF IInv, RequestIDs, Engaged, TypeOK, Locals
<1>2. \A j \in Keys : <<rq[w].id, j>> \in claims
                    <=> /\ j = k /\ entries[k].status = "processing"
                        /\ entries[k].id = rq[w].id
  BY <1>1 DEF IInv, IndexOf, OwnEntry
<1>3. \A c \in claims : c = <<c[1], c[2]>> /\ c[2] \in Keys
  BY DEF IInv, TypeOK
<1>4. claims' = claims \ {<<rq[w].id, k>>}
  BY <1>2, <1>3 DEF Settle
<1>5. CASE entries[k].status = "processing" /\ entries[k].id = rq[w].id
  <2>1. (CHOOSE j \in Keys : <<rq[w].id, j>> \in claims) = k
    BY <1>1, <1>2, <1>5, Zenon
  <2> QED
    BY <1>1, <1>2, <1>4, <1>5, <2>1, Zenon DEF Settle, IsCurrent
<1>6. CASE ~(entries[k].status = "processing" /\ entries[k].id = rq[w].id)
  BY <1>1, <1>2, <1>4, <1>6, Zenon DEF Settle
<1> QED
  BY <1>5, <1>6, Zenon

\* All but the completion times after Complete and Fail.
LEMMA Settles ==
    ASSUME IInv, NEW w \in Requests, NEW e \in Entry, Engaged(w), Settle(w, e),
           e.id = rq[w].id, e.status \in {"complete", "retry_ready"},
           UNCHANGED <<now, nextID, registered>>, doneAt' \in [Keys -> Times]
    PROVE  TypeOK' /\ EntryIDs' /\ IndexOf' /\ RequestIDs' /\ OwnEntry' /\ InLease'
<1> DEFINE k == rq[w].key
<1>1. /\ k \in Keys
      /\ claims' = claims \ {<<rq[w].id, k>>}
  BY SettleEffect, Zenon
<1>2. rq' = [rq EXCEPT ![w] = Idle]
  BY Zenon DEF Settle, Leave
<1>3. Idle \in Locals
  BY Zenon DEF Idle, Locals
<1>4. \/ entries' = entries /\ ~(entries[k].status = "processing" /\ entries[k].id = rq[w].id)
      \/ /\ entries' = [entries EXCEPT ![k] = e]
         /\ entries[k].status = "processing" /\ entries[k].id = rq[w].id
  BY SettleEffect, Zenon
<1>5. TypeOK'
  BY <1>1, <1>2, <1>3, <1>4, Zenon DEF IInv, TypeOK
<1>6. \A j \in Keys : /\ (entries'[j].status = "absent") = (entries[j].status = "absent")
                     /\ entries'[j].id = entries[j].id
  <2> TAKE j \in Keys
  <2>1. CASE entries'[j] = entries[j]
    BY <2>1, Zenon
  <2>2. CASE entries'[j] # entries[j]
    <3>1. j = k /\ entries'[j] = e /\ entries[j].status = "processing"
          /\ entries[j].id = rq[w].id
      BY <1>1, <1>4, <2>2, Zenon DEF IInv, TypeOK
    <3> QED
      BY <3>1, Zenon
  <2> QED
    BY <2>1, <2>2, Zenon
<1>7. EntryIDs'
  <2>1. \A j \in Keys : entries'[j].status # "absent" => entries'[j].id \in 1..nextID'
    BY <1>6, Zenon DEF IInv, EntryIDs
  <2>2. ASSUME NEW i \in Keys, NEW j \in Keys, i # j,
               entries'[i].status # "absent", entries'[j].status # "absent"
        PROVE  entries'[i].id # entries'[j].id
    BY <1>6, <2>2 DEF IInv, EntryIDs
  <2> QED
    BY <2>1, <2>2, Zenon DEF EntryIDs
<1>8. \A j \in Keys : entries'[j].status = "processing"
                    <=> /\ entries[j].status = "processing"
                        /\ ~(j = k /\ entries[j].id = rq[w].id)
  BY <1>1, <1>4, Zenon DEF IInv, TypeOK
<1>9. IndexOf'
  <2> SUFFICES ASSUME NEW i \in Nat, NEW j \in Keys
               PROVE  <<i, j>> \in claims'
                        <=> entries'[j].status = "processing" /\ entries'[j].id = i
    BY Zenon DEF IndexOf
  <2>1. <<i, j>> \in claims <=> entries[j].status = "processing" /\ entries[j].id = i
    BY Zenon DEF IInv, IndexOf
  <2>2. <<i, j>> \in claims' <=> <<i, j>> \in claims /\ ~(i = rq[w].id /\ j = k)
    BY <1>1, Zenon
  <2>3. entries'[j].id = entries[j].id
    BY <1>6, Zenon
  <2> QED
    BY <1>8, <2>1, <2>2, <2>3, Zenon
<1>10. \A v \in Requests : Engaged(v)' => v # w /\ Engaged(v) /\ rq'[v] = rq[v]
  BY <1>2, Zenon DEF Engaged, Idle, IInv, TypeOK
<1>11. RequestIDs'
  <2>1. rq'[w] = Idle /\ \A v \in Requests : v # w => rq'[v] = rq[v]
    BY <1>2, Zenon DEF IInv, TypeOK
  <2>2. \A v \in Requests : rq'[v].at <= now'
    BY <2>1 DEF IInv, RequestIDs, Idle, TypeOK
  <2>3. \A v \in Requests : rq'[v].pc # "idle" => rq'[v].key \in Keys
    BY <2>1 DEF IInv, RequestIDs, Idle
  <2> QED
    BY <1>10, <2>2, <2>3, Zenon DEF IInv, RequestIDs
<1>12. OwnEntry'
  <2> SUFFICES ASSUME NEW v \in Requests, NEW j \in Keys, Engaged(v)',
                      entries'[j].status # "absent", entries'[j].id = rq'[v].id
               PROVE  /\ rq'[v].key = j
                      /\ entries'[j].status = "processing"
                           => entries'[j].lease = rq'[v].at + KeyTTL
    BY Zenon DEF OwnEntry
  <2>1. rq'[v] = rq[v] /\ Engaged(v) /\ v # w
    BY <1>10, Zenon
  <2>2. rq[v].key = j /\ (entries[j].status = "processing"
                           => entries[j].lease = rq[v].at + KeyTTL)
    <3>1. entries[j].status # "absent" /\ entries[j].id = rq[v].id
      BY <1>6, <2>1, Zenon
    <3> QED
      BY <2>1, <3>1, Zenon DEF IInv, OwnEntry
  <2>3. entries'[j].status = "processing" => entries'[j] = entries[j]
    BY <1>4, <1>1, Zenon DEF IInv, TypeOK
  <2> QED
    BY <2>1, <2>2, <2>3, Zenon
<1>13. InLease'
  <2> SUFFICES ASSUME NEW v \in Requests, Engaged(v)', ~LeaseOver(v)'
               PROVE  /\ entries'[rq'[v].key].status = "processing"
                      /\ entries'[rq'[v].key].id = rq'[v].id
    BY Zenon DEF InLease
  <2>1. rq'[v] = rq[v] /\ Engaged(v) /\ v # w
    BY <1>10, Zenon
  <2>2. entries[rq[v].key].status = "processing" /\ entries[rq[v].key].id = rq[v].id
    BY <2>1, Zenon DEF IInv, InLease, LeaseOver
  <2>3. rq[v].key \in Keys /\ rq[v].id # rq[w].id
    BY <2>1, Zenon DEF IInv, RequestIDs, Engaged
  <2>4. entries'[rq[v].key].id = entries[rq[v].key].id
    BY <1>6, <2>3, Zenon
  <2>5. entries'[rq[v].key].status = "processing"
    BY <1>8, <2>2, <2>3, Zenon
  <2> QED
    BY <2>1, <2>2, <2>4, <2>5, Zenon
<1> QED
  BY <1>5, <1>7, <1>9, <1>11, <1>12, <1>13, Zenon

\* Complete settles a request's own entry, or finds it gone.
LEMMA CompletePreserves ==
    ASSUME IInv, NEW w \in Requests, Complete(w) PROVE IInv'
<1> DEFINE k == rq[w].key
           e == CompletedEntry(w)
<1>1. Engaged(w) /\ Settle(w, e)
  BY Zenon DEF Complete, Engaged
<1>2. e \in Entry /\ e.id = rq[w].id /\ e.status = "complete" /\ e.lease = now + KeyTTL
  BY InboundAssumption DEF CompletedEntry, Entry, Times, Zero, IInv, TypeOK, Locals
<1>3. doneAt' \in [Keys -> Times]
  BY Zenon DEF Complete, IInv, TypeOK, Times
<1>4. TypeOK' /\ EntryIDs' /\ IndexOf' /\ RequestIDs' /\ OwnEntry' /\ InLease'
  BY <1>1, <1>2, <1>3, Settles, Zenon DEF Complete
<1>5. /\ k \in Keys
      /\ \/ entries' = entries
         \/ entries' = [entries EXCEPT ![k] = e] /\ entries[k].status = "processing"
  BY <1>1, SettleEffect, Zenon
<1>6. Window'
  <2> SUFFICES ASSUME NEW j \in Keys
               PROVE  IF entries'[j].status = "complete"
                      THEN doneAt'[j] \in Nat /\ entries'[j].lease = doneAt'[j] + KeyTTL
                      ELSE doneAt'[j] = Never \/ now' >= doneAt'[j] + KeyTTL
    BY Zenon DEF Window
  <2>1. now' = now /\ now \in Nat
    BY Zenon DEF Complete, IInv, TypeOK
  <2>2. CASE entries'[j] = entries[j]
    <3>1. doneAt'[j] = doneAt[j]
      BY <2>2, Zenon DEF Complete
    <3> QED
      BY <2>1, <2>2, <3>1, Zenon DEF IInv, Window
  <2>3. CASE entries'[j] # entries[j]
    <3>1. j = k /\ entries'[j] = e /\ entries[j].status = "processing"
      BY <1>5, <2>3, Zenon DEF IInv, TypeOK
    <3>2. doneAt'[j] = now
      BY <1>2, <3>1, Zenon DEF Complete
    <3> QED
      BY <1>2, <2>1, <3>1, <3>2, Zenon
  <2> QED
    BY <2>2, <2>3, Zenon
<1> QED
  BY <1>4, <1>6, Zenon DEF IInv

\* Fail frees the key of a request's own entry, or finds it gone.
LEMMA FailPreserves ==
    ASSUME IInv, NEW w \in Requests, Fail(w) PROVE IInv'
<1> DEFINE k == rq[w].key
           e == FailedEntry(w)
<1>1. Engaged(w) /\ Settle(w, e)
  BY Zenon DEF Fail, Engaged
<1>2. e \in Entry /\ e.id = rq[w].id /\ e.status = "retry_ready"
  BY Zenon DEF FailedEntry, Entry, Times, Zero, IInv, TypeOK, Locals
<1>3. TypeOK' /\ EntryIDs' /\ IndexOf' /\ RequestIDs' /\ OwnEntry' /\ InLease'
  BY <1>1, <1>2, Settles, Zenon DEF Fail, IInv, TypeOK
<1>4. /\ k \in Keys
      /\ \/ entries' = entries
         \/ entries' = [entries EXCEPT ![k] = e] /\ entries[k].status = "processing"
  BY <1>1, SettleEffect, Zenon
<1>5. Window'
  BY <1>2, <1>4, Zenon DEF Window, Fail, IInv, TypeOK
<1> QED
  BY <1>3, <1>5, Zenon DEF IInv

\* Eviction alone preserves all that does not mention the requests.
LEMMA Evicted ==
    ASSUME IInv, NEW w \in Requests, UNCHANGED <<now, nextID, registered, doneAt>>,
           rq[w].pc = "claim",
           entries' = EvictedEntries(rq[w].at), claims' = claims, Leave(w)
    PROVE  IInv'
<1> DEFINE t == rq[w].at
<1>1. t \in Nat /\ t <= now /\ now \in Nat
  BY Zenon DEF IInv, TypeOK, Locals, RequestIDs
<1>2. /\ entries' \in [Keys -> Entry]
      /\ \A k \in Keys :
           \/ entries'[k] = entries[k]
           \/ entries'[k] = Absent /\ entries[k].status = "complete" /\ entries[k].lease <= t
  BY <1>1, Eviction, Zenon
<1>3. rq' = [rq EXCEPT ![w] = Idle] /\ Idle \in Locals
  BY Zenon DEF Leave, Idle, Locals
<1>4. TypeOK'
  BY <1>2, <1>3, Zenon DEF IInv, TypeOK
<1>5. \A k \in Keys : entries'[k].status # "absent" => entries'[k] = entries[k]
  BY <1>2 DEF Absent
<1>6. \A k \in Keys : entries[k].status = "processing" => entries'[k] = entries[k]
  BY <1>2, Zenon
<1>7. EntryIDs'
  BY <1>5 DEF IInv, EntryIDs
<1>8. IndexOf'
  <2> SUFFICES ASSUME NEW i \in Nat, NEW j \in Keys
               PROVE  <<i, j>> \in claims'
                        <=> entries'[j].status = "processing" /\ entries'[j].id = i
    BY Zenon DEF IndexOf
  <2>1. <<i, j>> \in claims <=> entries[j].status = "processing" /\ entries[j].id = i
    BY Zenon DEF IInv, IndexOf
  <2>2. entries'[j].status = "processing" => entries'[j] = entries[j]
    BY <1>5, Zenon
  <2>3. entries[j].status = "processing" => entries'[j] = entries[j]
    BY <1>6, Zenon
  <2> QED
    BY <2>1, <2>2, <2>3, Zenon
<1>9. \A v \in Requests : Engaged(v)' => Engaged(v) /\ rq'[v] = rq[v]
  BY <1>3, Zenon DEF Engaged, Idle, IInv, TypeOK
<1>10. RequestIDs'
  <2>1. rq'[w] = Idle /\ \A v \in Requests : v # w => rq'[v] = rq[v]
    BY <1>3, Zenon DEF IInv, TypeOK
  <2>2. \A v \in Requests : rq'[v].at <= now' /\ (rq'[v].pc # "idle" => rq'[v].key \in Keys)
    BY <1>1, <2>1 DEF IInv, RequestIDs, Idle
  <2> QED
    BY <1>9, <2>2, Zenon DEF IInv, RequestIDs
<1>11. OwnEntry'
  BY <1>5, <1>9 DEF IInv, OwnEntry
<1>12. InLease'
  <2> SUFFICES ASSUME NEW v \in Requests, Engaged(v)', ~LeaseOver(v)'
               PROVE  /\ entries'[rq'[v].key].status = "processing"
                      /\ entries'[rq'[v].key].id = rq'[v].id
    BY Zenon DEF InLease
  <2>1. Engaged(v) /\ rq'[v] = rq[v] /\ ~LeaseOver(v) /\ rq[v].key \in Keys
    BY <1>9, Zenon DEF LeaseOver, Engaged, IInv, RequestIDs
  <2>2. entries[rq[v].key].status = "processing" /\ entries[rq[v].key].id = rq[v].id
    BY <2>1, Zenon DEF IInv, InLease
  <2> QED
    BY <1>6, <2>1, <2>2, Zenon
<1>13. Window'
  <2> SUFFICES ASSUME NEW k \in Keys
               PROVE  IF entries'[k].status = "complete"
                      THEN doneAt'[k] \in Nat /\ entries'[k].lease = doneAt'[k] + KeyTTL
                      ELSE doneAt'[k] = Never \/ now' >= doneAt'[k] + KeyTTL
    BY Zenon DEF Window
  <2>1. CASE entries'[k] = entries[k]
    BY <2>1, Zenon DEF IInv, Window
  <2>2. CASE /\ entries'[k] = Absent /\ entries[k].status = "complete"
             /\ entries[k].lease <= t
    <3>1. doneAt[k] \in Nat /\ doneAt[k] + KeyTTL <= t
      BY <2>2, Zenon DEF IInv, Window
    <3> QED
      BY <1>1, <2>2, <3>1, InboundAssumption DEF Absent
  <2> QED
    BY <1>2, <2>1, <2>2, Zenon
<1> QED
  BY <1>4, <1>7, <1>8, <1>10, <1>11, <1>12, <1>13, Zenon DEF IInv

\* An accepted claim: the entry it replaces was absent, ready for a retry, past
\* its window, or running past its lease.
LEMMA ClaimAccepted ==
    ASSUME IInv, NEW w \in Requests, UNCHANGED <<now, registered, doneAt>>,
           rq[w].pc = "claim", ~Rejected(EvictedEntries(rq[w].at)[rq[w].key], rq[w].at),
           nextID' = nextID + 1,
           entries' = [EvictedEntries(rq[w].at) EXCEPT ![rq[w].key] =
                         [status |-> "processing", id |-> nextID + 1,
                          lease |-> rq[w].at + KeyTTL, retryAt |-> Zero]],
           claims' = {c \in claims :
                        c[1] \notin Superseded(EvictedEntries(rq[w].at)[rq[w].key])}
                       \cup {<<nextID + 1, rq[w].key>>},
           rq' = [rq EXCEPT ![w] = [pc |-> "lookup", key |-> rq[w].key,
                                    at |-> rq[w].at, id |-> nextID + 1]]
    PROVE  IInv'
<1> DEFINE t == rq[w].at
           k == rq[w].key
           kept == EvictedEntries(t)
           new == [status |-> "processing", id |-> nextID + 1,
                   lease |-> t + KeyTTL, retryAt |-> Zero]
<1>1. /\ t \in Nat /\ t <= now /\ now \in Nat /\ k \in Keys /\ nextID \in Nat
      /\ KeyTTL \in Nat
  BY InboundAssumption, Zenon DEF IInv, TypeOK, Locals, RequestIDs
<1>2. /\ kept \in [Keys -> Entry]
      /\ \A j \in Keys :
           \/ kept[j] = entries[j]
              /\ ~(entries[j].status = "complete" /\ entries[j].lease <= t)
           \/ kept[j] = Absent /\ entries[j].status = "complete" /\ entries[j].lease <= t
  BY <1>1, Eviction, Zenon
<1>3. entries'[k] = new /\ \A j \in Keys : j # k => entries'[j] = kept[j]
  BY <1>1, <1>2, Zenon
<1>4. /\ rq'[w] = [pc |-> "lookup", key |-> k, at |-> t, id |-> nextID + 1]
      /\ \A v \in Requests : v # w => rq'[v] = rq[v]
  BY Zenon DEF IInv, TypeOK
<1>5. /\ rq'[w].pc = "lookup" /\ rq'[w].id = nextID + 1 /\ rq'[w].key = k
      /\ rq'[w].at = t /\ rq'[w] \in Locals
  BY <1>1, <1>4 DEF Locals
<1>6. TypeOK'
  <2>1. new \in Entry
    BY <1>1 DEF Entry, Times, Zero
  <2>2. entries' \in [Keys -> Entry]
    BY <1>2, <2>1, Zenon
  <2>3. claims' \in SUBSET (Nat \X Keys)
    BY <1>1 DEF IInv, TypeOK
  <2>4. rq' \in [Requests -> Locals]
    <3>1. \A v \in Requests : rq'[v] \in Locals
      BY <1>4, <1>5, Zenon DEF IInv, TypeOK
    <3> QED
      BY <3>1, Zenon DEF IInv, TypeOK
  <2> QED
    BY <1>1, <2>2, <2>3, <2>4, Zenon DEF IInv, TypeOK
<1>7. \A j \in Keys : j # k /\ entries'[j].status # "absent" => entries'[j] = entries[j]
  BY <1>2, <1>3 DEF Absent
<1>8. \A j \in Keys : j # k /\ entries[j].status = "processing" => entries'[j] = entries[j]
  BY <1>2, <1>3, Zenon
<1>9. EntryIDs'
  <2>1. \A j \in Keys : j # k /\ entries'[j].status # "absent" => entries'[j].id \in 1..nextID
    BY <1>7, Zenon DEF IInv, EntryIDs
  <2>2. entries'[k].id = nextID + 1
    BY <1>3
  <2>3. \A j \in Keys : entries'[j].status # "absent" => entries'[j].id \in 1..nextID'
    BY <1>1, <2>1, <2>2
  <2>4. ASSUME NEW i \in Keys, NEW j \in Keys, i # j,
               entries'[i].status # "absent", entries'[j].status # "absent"
        PROVE  entries'[i].id # entries'[j].id
    <3>1. CASE i # k /\ j # k
      BY <1>7, <2>4, <3>1 DEF IInv, EntryIDs
    <3>2. CASE i = k \/ j = k
      BY <1>1, <2>1, <2>2, <2>4, <3>2
    <3> QED
      BY <3>1, <3>2, Zenon
  <2> QED
    BY <2>3, <2>4, Zenon DEF EntryIDs
<1>10. IndexOf'
  <2> SUFFICES ASSUME NEW i \in Nat, NEW j \in Keys
               PROVE  <<i, j>> \in claims'
                        <=> entries'[j].status = "processing" /\ entries'[j].id = i
    BY Zenon DEF IndexOf
  <2>1. <<i, j>> \in claims <=> entries[j].status = "processing" /\ entries[j].id = i
    BY Zenon DEF IInv, IndexOf
  <2>2. CASE j = k
    <3>1. <<i, j>> \notin {c \in claims : c[1] \notin Superseded(kept[k])}
      <4> SUFFICES ASSUME <<i, j>> \in claims PROVE i \in Superseded(kept[k])
        BY Zenon
      <4>1. kept[k] = entries[k] /\ entries[k].status = "processing" /\ entries[k].id = i
        BY <1>2, <2>1, <2>2, Zenon
      <4> QED
        BY <4>1, Zenon DEF Superseded
    <3>2. <<i, j>> \in claims' <=> i = nextID + 1
      BY <2>2, <3>1, Zenon
    <3> QED
      BY <1>3, <2>2, <3>2
  <2>3. CASE j # k
    <3>1. <<i, j>> \in claims' <=> <<i, j>> \in claims /\ i \notin Superseded(kept[k])
      BY <2>3, Zenon
    <3>2. <<i, j>> \in claims => i \notin Superseded(kept[k])
      <4> SUFFICES ASSUME <<i, j>> \in claims, i \in Superseded(kept[k]) PROVE FALSE
        BY Zenon
      <4>1. kept[k].status # "absent" /\ kept[k].id = i
        BY Zenon DEF Superseded
      <4>2. entries[k].status # "absent" /\ entries[k].id = i
        BY <1>1, <1>2, <4>1 DEF Absent
      <4> QED
        BY <1>1, <2>1, <2>3, <4>2, Zenon DEF IInv, EntryIDs
    <3>3. entries'[j].status = "processing" /\ entries'[j].id = i
          <=> entries[j].status = "processing" /\ entries[j].id = i
      BY <1>7, <1>8, <2>3, Zenon
    <3> QED
      BY <2>1, <3>1, <3>2, <3>3, Zenon
  <2> QED
    BY <2>2, <2>3, Zenon
<1>11. \A v \in Requests : v # w /\ Engaged(v)' =>
         Engaged(v) /\ rq'[v] = rq[v] /\ rq[v].id \in 1..nextID /\ rq[v].key \in Keys
  BY <1>4, Zenon DEF Engaged, IInv, RequestIDs
<1>12. RequestIDs'
  <2>1. \A v \in Requests : rq'[v].at <= now' /\ (rq'[v].pc # "idle" => rq'[v].key \in Keys)
    <3> TAKE v \in Requests
    <3>1. CASE v = w
      BY <1>1, <1>5, <3>1, Zenon
    <3>2. CASE v # w
      BY <1>4, <3>2, Zenon DEF IInv, RequestIDs
    <3> QED
      BY <3>1, <3>2, Zenon
  <2>2. ASSUME NEW v \in Requests, Engaged(v)' PROVE rq'[v].id \in 1..nextID'
    <3>1. CASE v = w
      BY <1>1, <1>5, <3>1
    <3>2. CASE v # w
      <4>1. rq'[v].id \in 1..nextID
        BY <1>11, <2>2, <3>2, Zenon
      <4> QED
        BY <1>1, <4>1
    <3> QED
      BY <3>1, <3>2, Zenon
  <2>3. ASSUME NEW u \in Requests, NEW v \in Requests, u # v, Engaged(u)', Engaged(v)'
        PROVE  rq'[u].id # rq'[v].id
    <3>1. CASE u # w /\ v # w
      BY <1>11, <2>3, <3>1, Zenon DEF IInv, RequestIDs
    <3>2. CASE u = w
      <4>1. rq'[v].id \in 1..nextID
        BY <1>11, <2>3, <3>2, Zenon
      <4> QED
        BY <1>1, <1>5, <3>2, <4>1
    <3>3. CASE v = w
      <4>1. rq'[u].id \in 1..nextID
        BY <1>11, <2>3, <3>3, Zenon
      <4> QED
        BY <1>1, <1>5, <3>3, <4>1
    <3> QED
      BY <3>1, <3>2, <3>3, Zenon
  <2> QED
    BY <2>1, <2>2, <2>3, Zenon DEF RequestIDs
<1>13. OwnEntry'
  <2> SUFFICES ASSUME NEW v \in Requests, NEW j \in Keys, Engaged(v)',
                      entries'[j].status # "absent", entries'[j].id = rq'[v].id
               PROVE  /\ rq'[v].key = j
                      /\ entries'[j].status = "processing"
                           => entries'[j].lease = rq'[v].at + KeyTTL
    BY Zenon DEF OwnEntry
  <2>1. CASE v = w
    <3>1. j = k
      <4>1. j # k => entries'[j].id \in 1..nextID
        BY <1>7, Zenon DEF IInv, EntryIDs
      <4> QED
        BY <1>1, <1>5, <2>1, <4>1
    <3> QED
      BY <1>3, <1>5, <2>1, <3>1
  <2>2. CASE v # w
    <3>1. Engaged(v) /\ rq'[v] = rq[v] /\ rq[v].id \in 1..nextID
      BY <1>11, <2>2, Zenon
    <3>2. j # k
      BY <1>1, <1>3, <3>1
    <3>3. entries'[j] = entries[j]
      BY <1>7, <3>2, Zenon
    <3> QED
      BY <3>1, <3>3 DEF IInv, OwnEntry
  <2> QED
    BY <2>1, <2>2, Zenon
<1>14. InLease'
  <2> SUFFICES ASSUME NEW v \in Requests, Engaged(v)', ~LeaseOver(v)'
               PROVE  /\ entries'[rq'[v].key].status = "processing"
                      /\ entries'[rq'[v].key].id = rq'[v].id
    BY Zenon DEF InLease
  <2>1. CASE v = w
    BY <1>3, <1>5, <2>1
  <2>2. CASE v # w
    <3>1. Engaged(v) /\ rq'[v] = rq[v] /\ ~LeaseOver(v) /\ rq[v].key \in Keys
      BY <1>11, <2>2, Zenon DEF LeaseOver
    <3>2. entries[rq[v].key].status = "processing" /\ entries[rq[v].key].id = rq[v].id
      BY <3>1, Zenon DEF IInv, InLease
    <3>3. rq[v].key # k
      <4> SUFFICES ASSUME rq[v].key = k PROVE FALSE
        BY Zenon
      <4>1. entries[k].lease = rq[v].at + KeyTTL
        BY <3>1, <3>2, Zenon DEF IInv, OwnEntry
      <4>2. rq[v].at \in Nat /\ now < rq[v].at + KeyTTL
        BY <1>1, <3>1 DEF LeaseOver, IInv, TypeOK, Locals
      <4>3. kept[k] = entries[k] /\ t < entries[k].lease
        BY <1>1, <1>2, <3>2, <4>1, <4>2
      <4> QED
        BY <3>2, <4>3, Zenon DEF Rejected
    <3> QED
      BY <1>8, <3>1, <3>2, <3>3, Zenon
  <2> QED
    BY <2>1, <2>2, Zenon
<1>15. Window'
  <2> SUFFICES ASSUME NEW j \in Keys
               PROVE  IF entries'[j].status = "complete"
                      THEN doneAt'[j] \in Nat /\ entries'[j].lease = doneAt'[j] + KeyTTL
                      ELSE doneAt'[j] = Never \/ now' >= doneAt'[j] + KeyTTL
    BY Zenon DEF Window
  <2>1. ASSUME entries[j].status = "complete", entries[j].lease <= t
        PROVE  doneAt[j] \in Nat /\ now >= doneAt[j] + KeyTTL
    <3>1. doneAt[j] \in Nat /\ doneAt[j] + KeyTTL <= t
      BY <2>1, Zenon DEF IInv, Window
    <3> QED
      BY <1>1, <3>1
  <2>2. CASE j # k
    <3>1. CASE entries'[j] = entries[j]
      BY <3>1, Zenon DEF IInv, Window
    <3>2. CASE /\ entries'[j] = Absent /\ entries[j].status = "complete"
               /\ entries[j].lease <= t
      BY <2>1, <3>2 DEF Absent
    <3> QED
      BY <1>2, <1>3, <2>2, <3>1, <3>2, Zenon
  <2>3. CASE j = k
    <3>1. CASE entries[j].status = "complete" /\ entries[j].lease <= t
      BY <1>3, <2>1, <2>3, <3>1
    <3>2. CASE ~(entries[j].status = "complete" /\ entries[j].lease <= t)
      <4>1. kept[j] = entries[j]
        BY <1>2, <3>2, Zenon
      <4>2. entries[j].status = "complete" => entries[j].lease \in Times
        BY Zenon DEF IInv, TypeOK, Entry
      <4>3. entries[j].status # "complete"
        BY <1>1, <2>3, <3>2, <4>1, <4>2 DEF Rejected, Times, Zero
      <4> QED
        BY <1>3, <2>3, <4>3 DEF IInv, Window
    <3> QED
      BY <3>1, <3>2, Zenon
  <2> QED
    BY <2>2, <2>3, Zenon
<1> QED
  BY <1>6, <1>9, <1>10, <1>12, <1>13, <1>14, <1>15, Zenon DEF IInv

\* Claim evicts what has expired, then refuses, or records a new entry.
LEMMA ClaimPreserves ==
    ASSUME IInv, NEW w \in Requests, Claim(w) PROVE IInv'
<1>1. rq[w].at \in Nat
  BY Zenon DEF IInv, TypeOK, Locals
<1>2. EvictedClaims(rq[w].at) = claims
  BY <1>1, Eviction, Zenon
<1>3. CASE Rejected(EvictedEntries(rq[w].at)[rq[w].key], rq[w].at)
  BY <1>2, <1>3, Evicted, Zenon DEF Claim
<1>4. CASE ~Rejected(EvictedEntries(rq[w].at)[rq[w].key], rq[w].at)
  <2>1. /\ rq[w].pc = "claim" /\ nextID' = nextID + 1
        /\ UNCHANGED <<now, registered, doneAt>>
        /\ entries' = [EvictedEntries(rq[w].at) EXCEPT ![rq[w].key] =
                         [status |-> "processing", id |-> nextID + 1,
                          lease |-> rq[w].at + KeyTTL, retryAt |-> Zero]]
        /\ claims' = {c \in claims :
                        c[1] \notin Superseded(EvictedEntries(rq[w].at)[rq[w].key])}
                       \cup {<<nextID + 1, rq[w].key>>}
        /\ rq' = [rq EXCEPT ![w] = [pc |-> "lookup", key |-> rq[w].key,
                                    at |-> rq[w].at, id |-> nextID + 1]]
    BY <1>2, <1>4, Zenon DEF Claim
  <2> QED
    BY <1>4, <2>1, ClaimAccepted, Zenon
<1> QED
  BY <1>3, <1>4, Zenon

\* Every step preserves the invariant.
LEMMA NextIInv == IInv /\ [InboundNext]_vars => IInv'
<1> SUFFICES ASSUME IInv, [InboundNext]_vars PROVE IInv'
  BY Zenon
<1>1. CASE Register \/ UNCHANGED vars
  <2>1. UNCHANGED <<now, entries, claims, nextID, rq, doneAt>> /\ registered' \in BOOLEAN
    BY <1>1, Zenon DEF Register, vars, IInv, TypeOK
  <2>2. TypeOK' /\ EntryIDs' /\ IndexOf' /\ Window'
    BY <2>1, Zenon DEF IInv, TypeOK, EntryIDs, IndexOf, Window
  <2>3. RequestIDs' /\ OwnEntry' /\ InLease'
    BY <2>1, Zenon DEF IInv, RequestIDs, OwnEntry, InLease, Engaged, LeaseOver
  <2> QED
    BY <2>2, <2>3, Zenon DEF IInv
<1>2. CASE Tick
  <2>1. now \in Nat /\ now' = now + 1 /\ KeyTTL \in Nat
    BY <1>2, InboundAssumption, Zenon DEF Tick, IInv, TypeOK
  <2>2. TypeOK' /\ EntryIDs' /\ IndexOf' /\ OwnEntry'
    BY <1>2, <2>1 DEF Tick, IInv, TypeOK, EntryIDs, IndexOf, OwnEntry, Engaged
  <2>3. \A w \in Requests : rq[w].at \in Nat
    BY Zenon DEF IInv, TypeOK, Locals
  <2>4. RequestIDs' /\ InLease'
    BY <1>2, <2>1, <2>3 DEF Tick, IInv, RequestIDs, InLease, Engaged, LeaseOver
  <2>5. \A k \in Keys : doneAt[k] \in Times
    BY Zenon DEF IInv, TypeOK
  <2>6. Window'
    BY <1>2, <2>1, <2>5 DEF Tick, IInv, Window, Times, Zero
  <2> QED
    BY <2>2, <2>4, <2>6, Zenon DEF IInv
<1>3. ASSUME NEW w \in Requests, NEW k \in Keys, Arrive(w, k) PROVE IInv'
  <2> DEFINE l == [pc |-> "claim", key |-> k, at |-> now, id |-> 0]
  <2>1. l \in Locals /\ l.pc = "claim" /\ l.key \in Keys /\ l.at <= now
    BY DEF Locals, IInv, TypeOK
  <2>2. /\ rq' = [rq EXCEPT ![w] = l] /\ registered' \in BOOLEAN
        /\ UNCHANGED <<now, entries, claims, nextID, doneAt>>
    BY <1>3, Zenon DEF Arrive, IInv, TypeOK
  <2> HIDE DEF l
  <2> QED
    BY <2>1, <2>2, Moves, Zenon
<1>4. ASSUME NEW w \in Requests, Lookup(w) \/ Handle(w) PROVE IInv'
  <2>1. /\ rq[w] \in Locals /\ Engaged(w) /\ rq[w].at <= now /\ rq[w].key \in Keys
        /\ now \in Nat
    BY <1>4, Zenon DEF Lookup, Handle, Engaged, IInv, TypeOK, RequestIDs
  <2>2. ASSUME NEW pc \in {"handle", "complete", "fail"}, Goto(w, pc) PROVE IInv'
    <3> DEFINE l == [rq[w] EXCEPT !.pc = pc]
    <3>1. /\ l \in Locals /\ l.key = rq[w].key /\ l.at = rq[w].at /\ l.id = rq[w].id
          /\ rq' = [rq EXCEPT ![w] = l]
      BY <2>1, <2>2, Zenon DEF Locals, Goto
    <3> HIDE DEF l
    <3> QED
      BY <1>4, <2>1, <3>1, Moves, Zenon DEF Lookup, Handle, IInv, TypeOK
  <2>3. CASE Leave(w)
    <3>1. Idle \in Locals /\ Idle.at <= now /\ Idle.pc = "idle"
      BY <2>1 DEF Idle, Locals
    <3> QED
      BY <1>4, <2>3, <3>1, Moves, Zenon DEF Lookup, Handle, Leave, IInv, TypeOK
  <2> QED
    BY <1>4, <2>2, <2>3, Zenon DEF Lookup, Handle
<1>5. ASSUME NEW w \in Requests, Claim(w) \/ Complete(w) \/ Fail(w) PROVE IInv'
  BY <1>5, ClaimPreserves, CompletePreserves, FailPreserves, Zenon
<1> QED
  BY <1>1, <1>2, <1>3, <1>4, <1>5, Zenon DEF InboundNext

\* The invariant holds in every reachable state.
THEOREM Invariance == InboundSpec => []IInv
<1> QED
  BY InitIInv, NextIInv, PTL DEF InboundSpec

-----------------------------------------------------------------------------
\* TypeOK, ClaimIndexExact, LeaseExclusion and IdempotencyWindow hold for any
\* keys, requests, lease and clock: the claim store loses no claim, lets two
\* requests run one key only after a lease, and keeps its idempotency window.
THEOREM ClaimsSafe ==
    InboundSpec => [](TypeOK /\ ClaimIndexExact /\ LeaseExclusion /\ IdempotencyWindow)
<1>1. IInv => ClaimIndexExact
  <2> SUFFICES ASSUME IInv PROVE ClaimIndexExact
    BY Zenon
  <2> DEFINE S == {<<entries[k].id, k>> : k \in {k \in Keys : entries[k].status = "processing"}}
  <2>1. ASSUME NEW c \in claims PROVE c \in S
    <3>1. PICK i \in Nat, k \in Keys : c = <<i, k>>
      BY DEF IInv, TypeOK
    <3> QED
      BY <3>1, Zenon DEF IInv, IndexOf
  <2>2. ASSUME NEW c \in S PROVE c \in claims
    <3>1. PICK k \in Keys : entries[k].status = "processing" /\ c = <<entries[k].id, k>>
      BY Zenon
    <3>2. entries[k].id \in Nat
      BY Zenon DEF IInv, TypeOK, Entry
    <3> QED
      BY <3>1, <3>2, Zenon DEF IInv, IndexOf
  <2> QED
    BY <2>1, <2>2, Zenon DEF ClaimIndexExact
<1>2. IInv => LeaseExclusion
  BY DEF IInv, InLease, RequestIDs, LeaseExclusion
<1>3. IInv => IdempotencyWindow
  <2> SUFFICES ASSUME IInv, NEW w \in Requests, Engaged(w),
                      entries[rq[w].key].status = "processing"
               PROVE  doneAt[rq[w].key] = Never \/ now >= doneAt[rq[w].key] + KeyTTL
    BY Zenon DEF IdempotencyWindow
  <2>1. rq[w].key \in Keys
    BY Zenon DEF IInv, RequestIDs, Engaged
  <2> QED
    BY <2>1, Zenon DEF IInv, Window
<1>4. IInv => TypeOK
  BY Zenon DEF IInv
<1> QED
  BY Invariance, <1>1, <1>2, <1>3, <1>4, PTL

\* The idempotency window: a key that was completed is not run again under a
\* current claim before KeyTTL has passed, for any keys, requests and clock.
THEOREM WindowKept == InboundSpec => []IdempotencyWindow
BY ClaimsSafe, PTL

\* A request that completes or fails within its lease settles its own entry.
THEOREM SettlesWithinLease == InboundSpec => WithinLeaseSettles
<1> DEFINE A == \A w \in Requests :
          rq[w].pc \in {"complete", "fail"} /\ rq'[w].pc = "idle" /\ ~LeaseOver(w)
          => /\ entries[rq[w].key].status = "processing"
             /\ entries'[rq[w].key].id = rq[w].id
             /\ entries'[rq[w].key].status \in {"complete", "retry_ready"}
<1>1. ASSUME IInv, [InboundNext]_vars PROVE [A]_vars
  <2> SUFFICES ASSUME InboundNext, NEW w \in Requests, rq[w].pc \in {"complete", "fail"},
                      rq'[w].pc = "idle", ~LeaseOver(w)
               PROVE  /\ entries[rq[w].key].status = "processing"
                      /\ entries'[rq[w].key].id = rq[w].id
                      /\ entries'[rq[w].key].status \in {"complete", "retry_ready"}
    BY <1>1, Zenon
  <2>1. /\ Engaged(w) /\ rq[w].key \in Keys
        /\ entries[rq[w].key].status = "processing" /\ entries[rq[w].key].id = rq[w].id
    BY <1>1, Zenon DEF Engaged, IInv, InLease, RequestIDs
  <2>2. Complete(w) \/ Fail(w)
    <3>1. rq' # rq
      BY Zenon
    <3>2. ASSUME NEW v \in Requests, NEW l, rq' = [rq EXCEPT ![v] = l] PROVE v = w
      BY <1>1, <3>2, Zenon DEF IInv, TypeOK
    <3>3. ~Register /\ ~Tick
      BY <3>1, Zenon DEF Register, Tick
    <3>4. \A v \in Requests, k \in Keys : ~Arrive(v, k)
      BY <3>2, Zenon DEF Arrive
    <3>5. \A v \in Requests : ~Claim(v) /\ ~Lookup(v) /\ ~Handle(v)
      BY <3>2, Zenon DEF Claim, Lookup, Handle, Leave, Goto
    <3>6. \A v \in Requests : Complete(v) \/ Fail(v) => v = w
      BY <3>2, Zenon DEF Complete, Fail, Settle, Leave
    <3> QED
      BY <3>3, <3>4, <3>5, <3>6, Zenon DEF InboundNext
  <2>3. CASE Complete(w)
    <3>1. Settle(w, CompletedEntry(w))
      BY <2>3, Zenon DEF Complete
    <3>2. entries' = [entries EXCEPT ![rq[w].key] = CompletedEntry(w)]
      BY <1>1, <2>1, <3>1, SettleEffect, Zenon
    <3> QED
      BY <1>1, <2>1, <3>2, Zenon DEF CompletedEntry, IInv, TypeOK
  <2>4. CASE Fail(w)
    <3>1. Settle(w, FailedEntry(w))
      BY <2>4, Zenon DEF Fail
    <3>2. entries' = [entries EXCEPT ![rq[w].key] = FailedEntry(w)]
      BY <1>1, <2>1, <3>1, SettleEffect, Zenon
    <3> QED
      BY <1>1, <2>1, <3>2, Zenon DEF FailedEntry, IInv, TypeOK
  <2> QED
    BY <2>2, <2>3, <2>4, Zenon
<1> QED
  BY Invariance, <1>1, PTL DEF InboundSpec, WithinLeaseSettles

-----------------------------------------------------------------------------
(* Subscription channels.  What each caller is about to do to a channel,   *)
(* and which channels have gone astray.                                    *)

ChannelRecs == [channel : Nat, remote : Nat, status : ChannelStatuses]

ChannelLocals ==
    [pc : {"idle", "provider", "upsert", "state", "write"}, op : {"subscribe", "renew", "cancel"},
     id : Nat, rec : ChannelRecs, channel : Nat, remote : Nat, status : ChannelStatuses]

\* Caller locals l have to do with channel ch.
Concerns(l, ch) == l.rec.channel = ch \/ l.channel = ch

ChannelSound(l, stored, issued) ==
    /\ l.pc = "idle" => l.rec.channel = 0 /\ l.channel = 0
    /\ l.pc \in {"provider", "state", "write"} =>
         l.id \in DOMAIN stored /\ l.rec.channel = stored[l.id].channel /\ l.channel = 0
    /\ l.pc = "upsert" => l.channel \in 1 .. issued /\ l.rec.channel \in 0 .. issued
    /\ l.pc \in {"state", "write"} => l.status # "active"
    /\ l.pc = "write" => l.rec.status = l.status

ChannelTypes ==
    /\ channelRows \in Seq(ChannelRow)
    /\ remote \in Seq(Nat) /\ Len(remote) <= MaxChannels
    /\ live \subseteq 1 .. Len(remote)
    /\ channelAt \in [ChannelCallers -> ChannelLocals]
    /\ channelFaults \in Nat
    /\ \A c \in ChannelCallers : ChannelSound(channelAt[c], channelRows, Len(remote))

\* One row per channel, for issued channels.
RowsDistinct ==
    /\ \A i, j \in DOMAIN channelRows : channelRows[i].channel = channelRows[j].channel => i = j
    /\ \A i \in DOMAIN channelRows : channelRows[i].channel \in 1 .. Len(remote)

\* Two callers at work on one channel are a race.
OneAtWork ==
    \A c, o \in ChannelCallers, ch \in 1 .. Len(remote) :
       c # o /\ Concerns(channelAt[c], ch) /\ Concerns(channelAt[o], ch) => ch \in astray

\* What a caller is about to store agrees with the provider.
StoreSound(l, delivered, ids, touched) ==
    /\ l.pc = "upsert" /\ l.channel \notin touched => l.channel \in delivered
         /\ l.remote = ids[l.channel]
    /\ l.pc \in {"state", "write"} /\ l.rec.channel \notin touched /\ l.status = "cancelled"
         => l.rec.channel \notin delivered
    /\ l.pc = "write" /\ l.rec.channel \notin touched => l.rec.remote = ids[l.rec.channel]
    /\ l.pc = "upsert" => l.rec.channel \in {0, l.channel} \cup touched

AboutToStore == \A c \in ChannelCallers : StoreSound(channelAt[c], live, remote, astray)

\* Locals l are about to store the remote ID, or anything, of channel ch.
StoresID(l, ch) == l.pc = "upsert" /\ l.channel = ch
Stores(l, ch) == l.pc \in {"upsert", "state", "write"} /\ Concerns(l, ch)

StatusAgrees(r, delivered) ==
    /\ r.status = "active" => r.channel \in delivered
    /\ r.status = "cancelled" => r.channel \notin delivered

\* A row agrees with the provider unless a caller is about to store over it.
RemoteInStep ==
    \A i \in DOMAIN channelRows :
       \/ channelRows[i].channel \in astray
       \/ \E c \in ChannelCallers : StoresID(channelAt[c], channelRows[i].channel)
       \/ channelRows[i].remote = remote[channelRows[i].channel]

StatusInStep ==
    \A i \in DOMAIN channelRows :
       \/ channelRows[i].channel \in astray
       \/ \E c \in ChannelCallers : Stores(channelAt[c], channelRows[i].channel)
       \/ StatusAgrees(channelRows[i], live)

ChannelInv ==
    /\ ChannelTypes /\ RowsDistinct /\ LiveChannelsKnown
    /\ OneAtWork /\ AboutToStore /\ RemoteInStep /\ StatusInStep

\* The invariant contains what ChannelsTracked asks for.
LEMMA ChannelInvSafe == ChannelInv => ChannelsTracked
<1> SUFFICES ASSUME ChannelInv PROVE ChannelsTracked
  BY Zenon
<1>1. DOMAIN remote = 1 .. Len(remote)
  BY DEF ChannelInv, ChannelTypes
<1>2. OneRowPerChannel
  BY <1>1, Zenon DEF ChannelInv, ChannelTypes, RowsDistinct, OneRowPerChannel
<1>3. InStepAlone
  BY Zenon DEF ChannelInv, RemoteInStep, StatusInStep, InStepAlone, Concerns, StoresID, Stores,
         StatusAgrees
<1>4. QED
  BY <1>2, <1>3, Zenon DEF ChannelsTracked, ChannelInv

\* An idle caller has nothing to do with any channel.
LEMMA ChannelIdleSound ==
  ChannelIdle \in ChannelLocals
  /\ \A stored, n : ChannelSound(ChannelIdle, stored, n)
  BY Zenon DEF ChannelIdle, ChannelLocals, ChannelRecs, ChannelNoRow, ChannelStatuses, ChannelSound

\* There is no row and no channel to begin with.
LEMMA ChannelInitInv == ChannelInit => ChannelInv
<1> SUFFICES ASSUME ChannelInit PROVE ChannelInv
  BY Zenon
<1>1. channelRows = <<>> /\ remote = <<>> /\ live = {} /\ channelFaults = 0 /\ unstored = {}
      /\ channelAt = [c \in ChannelCallers |-> ChannelIdle]
  BY Zenon DEF ChannelInit
<1>2. Len(remote) = 0 /\ DOMAIN channelRows = {} /\ remote \in Seq(Nat)
        /\ channelRows \in Seq(ChannelRow)
  BY <1>1
<1>3. ChannelTypes
  BY <1>1, <1>2, ChannelIdleSound, SubscriptionsAssumption DEF ChannelTypes
<1>4. ChannelIdle.pc = "idle"
  BY Zenon DEF ChannelIdle
<1>5. QED
  BY <1>1, <1>2, <1>3, <1>4
     DEF ChannelInv, RowsDistinct, LiveChannelsKnown, OneAtWork, AboutToStore,
     StoreSound, RemoteInStep, StatusInStep

\* One caller moves to locals m; the stored keep their channels and the provider's
\* channels stay issued.
LEMMA OneCallerMoves ==
  ASSUME ChannelInv, NEW c \in ChannelCallers, NEW m \in ChannelLocals,
         channelAt' = [channelAt EXCEPT ![c] = m],
         channelRows' \in Seq(ChannelRow), remote' \in Seq(Nat),
         Len(remote) <= Len(remote'), Len(remote') <= MaxChannels,
         live' \subseteq 1 .. Len(remote'), channelFaults' \in Nat,
         DOMAIN channelRows \subseteq DOMAIN channelRows',
         \A i \in DOMAIN channelRows : channelRows'[i].channel = channelRows[i].channel,
         ChannelSound(m, channelRows', Len(remote'))
  PROVE  /\ ChannelTypes'
         /\ \A o \in ChannelCallers : channelAt'[o] = IF o = c THEN m ELSE channelAt[o]
<1>1. \A o \in ChannelCallers : channelAt'[o] = IF o = c THEN m ELSE channelAt[o]
  BY Zenon DEF ChannelInv, ChannelTypes
<1>2. Len(remote) \in Nat /\ Len(remote') \in Nat
  BY DEF ChannelInv, ChannelTypes
<1>3. ASSUME NEW o \in ChannelCallers PROVE ChannelSound(channelAt[o], channelRows', Len(remote'))
  <2>1. ChannelSound(channelAt[o], channelRows, Len(remote)) /\ channelAt[o] \in ChannelLocals
    BY Zenon DEF ChannelInv, ChannelTypes
  <2>2. QED
    BY <1>2, <2>1 DEF ChannelSound
<1>4. \A o \in ChannelCallers : ChannelSound(channelAt'[o], channelRows', Len(remote'))
  BY <1>1, <1>3, Zenon
<1>5. channelAt' \in [ChannelCallers -> ChannelLocals]
  BY Zenon DEF ChannelInv, ChannelTypes
<1>6. QED
  BY <1>1, <1>4, <1>5, Zenon DEF ChannelTypes

\* A caller is about channels the provider has issued.
LEMMA ConcernsIssued ==
  ASSUME ChannelInv, NEW o \in ChannelCallers
  PROVE  /\ channelAt[o] \in ChannelLocals
         /\ channelAt[o].rec \in ChannelRecs
         /\ channelAt[o].rec.channel \in 0 .. Len(remote)
         /\ channelAt[o].channel \in 0 .. Len(remote)
         /\ ChannelSound(channelAt[o], channelRows, Len(remote))
<1>1. channelAt[o] \in ChannelLocals /\ ChannelSound(channelAt[o], channelRows, Len(remote))
      /\ Len(remote) \in Nat
  BY DEF ChannelInv, ChannelTypes
<1>2. channelAt[o].rec \in ChannelRecs
      /\ channelAt[o].pc \in {"idle", "provider", "upsert", "state", "write"}
  BY <1>1, Zenon DEF ChannelLocals
<1>3. \A i \in DOMAIN channelRows : channelRows[i].channel \in 1 .. Len(remote)
  BY Zenon DEF ChannelInv, RowsDistinct
<1>4. QED
  BY <1>1, <1>2, <1>3 DEF ChannelSound

\* The provider issues the next channel.
LEMMA AppendRemote ==
  ASSUME ChannelInv, Issue
  PROVE  /\ Len(remote) \in Nat /\ remote' \in Seq(Nat)
         /\ Len(remote') = Len(remote) + 1 /\ Len(remote') <= MaxChannels
         /\ \A ch \in 1 .. Len(remote) : remote'[ch] = remote[ch]
         /\ remote'[Len(remote) + 1] = 1
         /\ MaxChannels \in Nat
<1>1. remote \in Seq(Nat) /\ Len(remote) < MaxChannels /\ remote' = Append(remote, 1)
  BY Zenon DEF ChannelInv, ChannelTypes, Issue
<1>2. QED
  BY <1>1, SubscriptionsAssumption

\* The stored' facts with the stored untouched.
LEMMA RowsKept ==
  ASSUME ChannelInv
  PROVE  /\ channelRows \in Seq(ChannelRow)
         /\ \A i \in DOMAIN channelRows : /\ channelRows[i] \in ChannelRow
                                          /\ channelRows[i].channel \in 1 .. Len(remote)
                                          /\ channelRows[i].channel \in Channels
         /\ live \subseteq 1 .. Len(remote) /\ Len(remote) \in Nat
<1>1. channelRows \in Seq(ChannelRow) /\ live \subseteq 1 .. Len(remote) /\ Len(remote) \in Nat
  BY DEF ChannelInv, ChannelTypes
<1>2. \A i \in DOMAIN channelRows : channelRows[i] \in ChannelRow
  BY <1>1
<1>3. \A i \in DOMAIN channelRows : channelRows[i].channel \in 1 .. Len(remote)
  BY Zenon DEF ChannelInv, RowsDistinct
<1>4. QED
  BY <1>1, <1>2, <1>3, Zenon DEF ChannelRow

\* Channel ch is to the provider what it was.
Untouched(ch) == (ch \in live' <=> ch \in live) /\ remote'[ch] = remote[ch]

\* A step of caller c to locals m that leaves the stored alone.  It changes no
\* channel at the provider but the ones c is at work on, unless they are astray.
NothingElse(c, m) ==
    /\ \A ch \in 1 .. Len(remote') :
         Concerns(m, ch) => \/ Concerns(channelAt[c], ch) \/ ch \in astray'
                            \/ \A o \in ChannelCallers \ {c} : ~Concerns(channelAt[o], ch)
    /\ \A ch \in 1 .. Len(remote) : ch \in astray' \/ Concerns(channelAt[c], ch) \/ Untouched(ch)
    /\ \A ch \in 1 .. Len(remote) :
         Concerns(channelAt[c], ch) /\ ch \notin astray' =>
            /\ StoresID(m, ch) \/ (remote'[ch] = remote[ch] /\ ~StoresID(channelAt[c], ch))
            /\ Stores(m, ch) \/ ((ch \in live' <=> ch \in live) /\ ~Stores(channelAt[c], ch))
    /\ \A ch \in live' : \/ ch \in live /\ channelAt[c].channel # ch
                         \/ m.channel = ch \/ ByChannel(ch) # {} \/ ch \in unstored'

ProviderTypes ==
    /\ remote' \in Seq(Nat) /\ Len(remote) <= Len(remote') /\ Len(remote') <= MaxChannels
    /\ live' \subseteq 1 .. Len(remote')
    /\ channelFaults' \in Nat
    /\ unstored \subseteq unstored' /\ astray \subseteq astray'

\* A caller moves and the stored stay.
LEMMA CallerStep ==
  ASSUME ChannelInv, NEW c \in ChannelCallers, NEW m \in ChannelLocals,
         channelAt' = [channelAt EXCEPT ![c] = m], channelRows' = channelRows, ProviderTypes,
         ChannelSound(m, channelRows, Len(remote')), StoreSound(m, live', remote', astray'),
         NothingElse(c, m)
  PROVE  ChannelInv'
<1> DEFINE n == Len(remote)
<1>1. n \in Nat /\ Len(remote') \in Nat /\ channelFaults \in Nat
  BY DEF ChannelInv, ChannelTypes, ProviderTypes
<1> USE DEF ProviderTypes, NothingElse
<1>2. /\ ChannelTypes'
      /\ \A o \in ChannelCallers : channelAt'[o] = IF o = c THEN m ELSE channelAt[o]
  <2>1. channelRows' \in Seq(ChannelRow) /\ DOMAIN channelRows \subseteq DOMAIN channelRows'
        /\ \A i \in DOMAIN channelRows : channelRows'[i].channel = channelRows[i].channel
    BY RowsKept, Zenon
  <2>2. ChannelSound(m, channelRows', Len(remote'))
    BY Zenon
  <2>3. QED
    BY <2>1, <2>2, OneCallerMoves, Zenon
<1>3. RowsDistinct'
  BY <1>1 DEF ChannelInv, RowsDistinct
<1>4. LiveChannelsKnown'
  <2> SUFFICES ASSUME NEW ch \in live', ch \notin unstored', ByChannel(ch) = {}
               PROVE  \E o \in ChannelCallers : channelAt'[o].channel = ch
    BY Zenon DEF LiveChannelsKnown, ByChannel
  <2>1. CASE m.channel = ch
    BY <1>2, <2>1, Zenon
  <2>2. CASE ch \in live /\ channelAt[c].channel # ch
    <3>1. ch \notin unstored
      BY Zenon
    <3>2. PICK o \in ChannelCallers : channelAt[o].channel = ch
      BY <2>2, <3>1, Zenon DEF ChannelInv, LiveChannelsKnown
    <3>3. QED
      BY <1>2, <2>2, <3>2, Zenon
  <2>3. QED
    BY <2>1, <2>2, Zenon
<1>5. OneAtWork'
  <2> SUFFICES ASSUME NEW a \in ChannelCallers, NEW b \in ChannelCallers,
        NEW ch \in 1 .. Len(remote'),
                      a # b, Concerns(channelAt'[a], ch), Concerns(channelAt'[b], ch)
               PROVE  ch \in astray'
    BY Zenon DEF OneAtWork
  <2>1. ASSUME NEW o \in ChannelCallers, Concerns(channelAt[o], ch) PROVE ch \in 1 .. n
    <3>1. channelAt[o].rec.channel \in 0 .. n /\ channelAt[o].channel \in 0 .. n
      BY ConcernsIssued, Zenon
    <3>2. QED
      BY <1>1, <2>1, <3>1 DEF Concerns
  <2>2. \A o, q \in ChannelCallers :
           o # q /\ Concerns(channelAt[o], ch) /\ Concerns(channelAt[q], ch) => ch \in astray'
    BY <2>1, Zenon DEF ChannelInv, OneAtWork
  <2>3. \A o \in ChannelCallers \ {c} :
           Concerns(m, ch) /\ Concerns(channelAt[o], ch) => ch \in astray'
    BY <2>2, Zenon
  <2>4. QED
    BY <1>2, <2>2, <2>3
<1>6. AboutToStore'
  <2>1. ASSUME NEW o \in ChannelCallers \ {c} PROVE StoreSound(channelAt[o], live', remote',
          astray')
    <3>1. StoreSound(channelAt[o], live, remote, astray)
          /\ ChannelSound(channelAt[o], channelRows, Len(remote))
      BY ConcernsIssued, Zenon DEF ChannelInv, AboutToStore
    <3>2. ASSUME NEW ch \in 1 .. n, Concerns(channelAt[o], ch),
            ch \notin astray' PROVE Untouched(ch)
      <4>1. ~Concerns(channelAt[c], ch)
        BY <3>2, Zenon DEF ChannelInv, OneAtWork
      <4>2. QED
        BY <3>2, <4>1, Zenon
    <3>3. QED
      BY <3>1, <3>2, RowsKept, Zenon DEF StoreSound, ChannelSound, Concerns, Untouched
  <2>2. QED
    BY <1>2, <2>1, Zenon DEF AboutToStore
<1>7. RemoteInStep'
  <2> SUFFICES ASSUME NEW i \in DOMAIN channelRows, channelRows[i].channel \notin astray',
                      \A o \in ChannelCallers : ~StoresID(channelAt'[o], channelRows[i].channel)
               PROVE  channelRows[i].remote = remote'[channelRows[i].channel]
    BY Zenon DEF RemoteInStep
  <2> DEFINE ch == channelRows[i].channel
  <2>1. ch \in 1 .. n
    BY RowsKept, Zenon
  <2>2. ~StoresID(m, ch) /\ \A o \in ChannelCallers \ {c} : ~StoresID(channelAt[o], ch)
    BY <1>2, Zenon
  <2>3. remote'[ch] = remote[ch] /\ ~StoresID(channelAt[c], ch)
    <3>1. CASE Concerns(channelAt[c], ch)
      BY <2>1, <2>2, <3>1, Zenon
    <3>2. CASE ~Concerns(channelAt[c], ch)
      BY <2>1, <3>2, Zenon DEF Untouched, StoresID, Concerns
    <3>3. QED
      BY <3>1, <3>2, Zenon
  <2>4. ch \notin astray /\ \A o \in ChannelCallers : ~StoresID(channelAt[o], ch)
    BY <2>2, <2>3, Zenon
  <2>5. channelRows[i].remote = remote[ch]
    BY <2>4, Zenon DEF ChannelInv, RemoteInStep
  <2>6. QED
    BY <2>3, <2>5, Zenon
<1>8. StatusInStep'
  <2> SUFFICES ASSUME NEW i \in DOMAIN channelRows, channelRows[i].channel \notin astray',
                      \A o \in ChannelCallers : ~Stores(channelAt'[o], channelRows[i].channel)
               PROVE  StatusAgrees(channelRows[i], live')
    BY Zenon DEF StatusInStep
  <2> DEFINE ch == channelRows[i].channel
  <2>1. ch \in 1 .. n
    BY RowsKept, Zenon
  <2>2. ~Stores(m, ch) /\ \A o \in ChannelCallers \ {c} : ~Stores(channelAt[o], ch)
    BY <1>2, Zenon
  <2>3. (ch \in live' <=> ch \in live) /\ ~Stores(channelAt[c], ch)
    <3>1. CASE Concerns(channelAt[c], ch)
      BY <2>1, <2>2, <3>1, Zenon
    <3>2. CASE ~Concerns(channelAt[c], ch)
      BY <2>1, <3>2, Zenon DEF Untouched, Stores
    <3>3. QED
      BY <3>1, <3>2, Zenon
  <2>4. ch \notin astray /\ \A o \in ChannelCallers : ~Stores(channelAt[o], ch)
    BY <2>2, <2>3, Zenon
  <2>5. StatusAgrees(channelRows[i], live)
    BY <2>4, Zenon DEF ChannelInv, StatusInStep
  <2>6. QED
    BY <2>3, <2>5, Zenon DEF StatusAgrees
<1>9. QED
  BY <1>2, <1>3, <1>4, <1>5, <1>6, <1>7, <1>8, Zenon DEF ChannelInv

\* The caller's locals before Upsert.
ToUpsert(l, ch, id) == [l EXCEPT !.pc = "upsert", !.channel = ch, !.remote = id]

\* The locals of a caller about to upsert.
LEMMA UpsertLocals ==
  ASSUME NEW l \in ChannelLocals, NEW ch \in Nat, NEW id \in Nat
  PROVE  /\ ToUpsert(l, ch, id) \in ChannelLocals
         /\ ToUpsert(l, ch, id).pc = "upsert" /\ ToUpsert(l, ch, id).rec = l.rec
         /\ ToUpsert(l, ch, id).channel = ch /\ ToUpsert(l, ch, id).remote = id
  BY Zenon DEF ChannelLocals, ToUpsert

\* Subscribe: the provider issues a channel, which the caller is about to store.
LEMMA SubscribeInv ==
  ASSUME ChannelInv, NEW c \in ChannelCallers, Subscribe(c) PROVE ChannelInv'
<1> DEFINE n == Len(remote)
           m == ToUpsert(ChannelIdle, n + 1, 1)
<1>1. Issue /\ channelAt' = [channelAt EXCEPT ![c] = ToUpsert(ChannelIdle, Len(remote'), 1)]
      /\ live' = live \cup {Len(remote')} /\ channelRows' = channelRows
      /\ channelFaults' = channelFaults /\ unstored' = unstored /\ astray' = astray
      /\ channelAt[c].pc = "idle"
  BY Zenon DEF Subscribe, ChannelGoto, ToUpsert
<1>2. n \in Nat /\ Len(remote') = n + 1 /\ remote' \in Seq(Nat) /\ Len(remote') <= MaxChannels
      /\ (\A ch \in 1 .. n : remote'[ch] = remote[ch]) /\ remote'[n + 1] = 1
  BY <1>1, AppendRemote, Zenon
<1>3. m \in ChannelLocals /\ m.pc = "upsert" /\ m.channel = n + 1 /\ m.remote = 1
        /\ m.rec.channel = 0
  <2>1. n + 1 \in Nat /\ 1 \in Nat /\ ChannelIdle.rec.channel = 0
    BY <1>2 DEF ChannelIdle, ChannelNoRow
  <2>2. ChannelIdle \in ChannelLocals
    BY ChannelIdleSound, Zenon
  <2>3. m \in ChannelLocals /\ m.pc = "upsert" /\ m.channel = n + 1 /\ m.remote = 1
        /\ m.rec = ChannelIdle.rec
    BY <2>1, <2>2, UpsertLocals
  <2>4. QED
    BY <2>1, <2>3, Zenon
<1>4. channelAt' = [channelAt EXCEPT ![c] = m]
  BY <1>1, <1>2, Zenon
<1> HIDE DEF m
<1>5. ChannelSound(m, channelRows, Len(remote')) /\ StoreSound(m, live', remote', astray')
  BY <1>1, <1>2, <1>3 DEF ChannelSound, StoreSound
<1>6. \A o \in ChannelCallers : channelAt[o].rec.channel \in 0 .. n
        /\ channelAt[o].channel \in 0 .. n
  BY ConcernsIssued, Zenon
<1>7. ProviderTypes
  <2>1. live' \subseteq 1 .. Len(remote')
    BY <1>1, <1>2, RowsKept
  <2>2. channelFaults \in Nat
    BY Zenon DEF ChannelInv, ChannelTypes
  <2>3. QED
    BY <1>1, <1>2, <2>1, <2>2 DEF ProviderTypes
<1>8. \A ch \in 1 .. Len(remote') :
        Concerns(m, ch) => \A o \in ChannelCallers \ {c} : ~Concerns(channelAt[o], ch)
  BY <1>2, <1>3, <1>6 DEF Concerns
<1>9. \A ch \in 1 .. n : Untouched(ch)
  BY <1>1, <1>2 DEF Untouched
<1>10. channelAt[c].rec.channel = 0 /\ channelAt[c].channel = 0
  BY <1>1, ConcernsIssued, Zenon DEF ChannelSound
<1>11. \A ch \in 1 .. n : ~Concerns(channelAt[c], ch)
  BY <1>2, <1>10 DEF Concerns
<1>12. \A ch \in live' : (ch \in live /\ channelAt[c].channel # ch) \/ m.channel = ch
  BY <1>1, <1>2, <1>3, <1>10, RowsKept
<1>13. NothingElse(c, m)
  BY <1>8, <1>9, <1>11, <1>12, Zenon DEF NothingElse
<1>14. QED
  BY <1>1, <1>3, <1>4, <1>5, <1>7, <1>13, CallerStep, Zenon

\* What a caller knows between its read of the store and its write.
LEMMA AtProvider ==
  ASSUME ChannelInv, NEW c \in ChannelCallers, channelAt[c].pc \in {"provider", "state", "write"}
  PROVE  /\ channelAt[c] \in ChannelLocals /\ channelAt[c].rec \in ChannelRecs
         /\ channelAt[c].id \in DOMAIN channelRows
         /\ channelAt[c].rec.channel = channelRows[channelAt[c].id].channel
         /\ channelAt[c].rec.channel \in 1 .. Len(remote)
         /\ channelAt[c].channel = 0
         /\ ByChannel(channelAt[c].rec.channel) # {}
<1>1. ChannelSound(channelAt[c], channelRows, Len(remote)) /\ channelAt[c] \in ChannelLocals
      /\ channelAt[c].rec \in ChannelRecs
  BY ConcernsIssued, Zenon
<1>2. channelAt[c].id \in DOMAIN channelRows /\ channelAt[c].channel = 0
      /\ channelAt[c].rec.channel = channelRows[channelAt[c].id].channel
  BY <1>1, Zenon DEF ChannelSound
<1>3. QED
  BY <1>1, <1>2, RowsKept, Zenon DEF ByChannel

\* RenewSubscription and CancelSubscription read the row.
LEMMA ReadInv ==
  ASSUME ChannelInv, NEW c \in ChannelCallers, NEW op \in {"renew", "cancel"},
         NEW i \in DOMAIN channelRows, Read(c, op, i)
  PROVE  ChannelInv'
<1> DEFINE n == Len(remote)
           r == channelRows[i]
           m == [ChannelIdle EXCEPT !.pc = "provider", !.op = op, !.id = i, !.rec = r]
<1>1. channelAt' = [channelAt EXCEPT ![c] = m] /\ channelRows' = channelRows /\ live' = live
      /\ remote' = remote /\ channelFaults' = channelFaults /\ unstored' = unstored
      /\ channelAt[c].pc = "idle"
      /\ astray' = IF Busy(c, r.channel) THEN astray \cup {r.channel} ELSE astray
  BY Zenon DEF Read, ChannelGoto
<1>2. r \in ChannelRow /\ r.channel \in 1 .. n /\ i \in Nat /\ n \in Nat
  <2>1. i \in 1 .. Len(channelRows) /\ Len(channelRows) \in Nat
    BY RowsKept
  <2>2. QED
    BY <2>1, RowsKept
<1>3. r \in ChannelRecs
  BY <1>2 DEF ChannelRow, ChannelRecs, Channels
<1> HIDE DEF r
<1>4. m \in ChannelLocals /\ m.pc = "provider" /\ m.id = i /\ m.rec = r /\ m.channel = 0
  BY <1>2, <1>3, Zenon DEF ChannelIdle, ChannelLocals, ChannelStatuses
<1> HIDE DEF m
<1>5. ChannelSound(m, channelRows, Len(remote')) /\ StoreSound(m, live', remote', astray')
  BY <1>4, Zenon DEF ChannelSound, StoreSound, r
<1>6. ProviderTypes
  BY <1>1 DEF ProviderTypes, ChannelInv, ChannelTypes
<1>7. channelAt[c].rec.channel = 0 /\ channelAt[c].channel = 0
  BY <1>1, ConcernsIssued, Zenon DEF ChannelSound
<1>8. \A ch \in 1 .. Len(remote') :
        Concerns(m, ch) => ch \in astray'
          \/ \A o \in ChannelCallers \ {c} : ~Concerns(channelAt[o], ch)
  BY <1>1, <1>2, <1>4 DEF Concerns, Busy
<1>9. \A ch \in 1 .. n : Untouched(ch) /\ ~Concerns(channelAt[c], ch)
  BY <1>1, <1>2, <1>7 DEF Untouched, Concerns
<1>10. \A ch \in live' : ch \in live /\ channelAt[c].channel # ch
  BY <1>1, <1>2, <1>7, RowsKept
<1>11. NothingElse(c, m)
  BY <1>8, <1>9, <1>10, Zenon DEF NothingElse
<1>12. QED
  BY <1>1, <1>4, <1>5, <1>6, <1>11, CallerStep, Zenon

\* A renewal under the same channel gives it a new remote id.
LEMMA RenewInPlaceInv ==
  ASSUME ChannelInv, NEW c \in ChannelCallers, RenewInPlace(c) PROVE ChannelInv'
<1> DEFINE n == Len(remote)
           l == channelAt[c]
           ch == l.rec.channel
           id == remote'[ch]
           m == ToUpsert(l, ch, id)
<1>1. channelAt' = [channelAt EXCEPT ![c] = m] /\ channelRows' = channelRows
        /\ live' = live \cup {ch}
      /\ remote' = [remote EXCEPT ![ch] = @ + 1] /\ channelFaults' = channelFaults
      /\ unstored' = unstored /\ astray' = astray /\ l.pc = "provider"
  BY Zenon DEF RenewInPlace, ChannelGoto, ToUpsert
<1>2. l \in ChannelLocals /\ l.id \in DOMAIN channelRows /\ ch = channelRows[l.id].channel
      /\ ch \in 1 .. n /\ l.channel = 0 /\ ByChannel(ch) # {}
  BY <1>1, AtProvider, Zenon
<1> HIDE DEF l, ch
<1>3. remote \in Seq(Nat) /\ n \in Nat /\ n <= MaxChannels
  BY DEF ChannelInv, ChannelTypes
<1>4. remote' \in Seq(Nat) /\ Len(remote') = n /\ remote'[ch] \in Nat
      /\ \A x \in 1 .. n : x # ch => remote'[x] = remote[x]
  BY <1>1, <1>2, <1>3
<1>5. m \in ChannelLocals /\ m.pc = "upsert" /\ m.channel = ch /\ m.remote = remote'[ch]
        /\ m.rec = l.rec
  <2>1. l \in ChannelLocals /\ ch \in Nat /\ id \in Nat
    BY <1>2, <1>3, <1>4
  <2> HIDE DEF id
  <2>2. m \in ChannelLocals /\ m.pc = "upsert" /\ m.channel = ch /\ m.remote = id /\ m.rec = l.rec
    BY <2>1, UpsertLocals
  <2>3. QED
    BY <2>2, Zenon DEF id
<1> HIDE DEF m
<1>6. m.rec.channel = ch
  BY <1>5, Zenon DEF ch
<1>7. ChannelSound(m, channelRows, Len(remote')) /\ StoreSound(m, live', remote', astray')
  BY <1>1, <1>2, <1>3, <1>4, <1>5, <1>6 DEF ChannelSound, StoreSound
<1>8. ProviderTypes
  <2>1. channelFaults \in Nat /\ live \subseteq 1 .. n
    BY Zenon DEF ChannelInv, ChannelTypes
  <2>2. live' \subseteq 1 .. n
    BY <1>1, <1>2, <2>1, Zenon
  <2>3. QED
    BY <1>1, <1>3, <1>4, <2>1, <2>2 DEF ProviderTypes
<1>9. \A x : Concerns(m, x) <=> x = ch
  BY <1>5, <1>6, Zenon DEF Concerns
<1>10. Concerns(l, ch) /\ StoresID(m, ch) /\ Stores(m, ch) /\ \A x \in 1 .. n : Concerns(l, x)
         => x = ch
  BY <1>2, <1>3, <1>5, <1>6 DEF Concerns, StoresID, Stores, ch
<1>11. \A x \in 1 .. n : x = ch \/ Untouched(x)
  BY <1>1, <1>4, Zenon DEF Untouched
<1>12. \A x \in live' : (x \in live /\ l.channel # x) \/ m.channel = x
  BY <1>1, <1>2, <1>3, <1>5, RowsKept
<1>13. NothingElse(c, m)
  BY <1>4, <1>9, <1>10, <1>11, <1>12, Zenon DEF NothingElse, l
<1>14. QED
  BY <1>1, <1>5, <1>7, <1>8, <1>13, CallerStep, Zenon

\* A renewal under another channel ends the old one.
LEMMA RenewElsewhereInv ==
  ASSUME ChannelInv, NEW c \in ChannelCallers, RenewElsewhere(c) PROVE ChannelInv'
<1> DEFINE n == Len(remote)
           l == channelAt[c]
           ch == l.rec.channel
           m == ToUpsert(l, n + 1, 1)
<1>1. channelAt' = [channelAt EXCEPT ![c] = ToUpsert(l, Len(remote'), 1)]
        /\ channelRows' = channelRows
      /\ live' = (live \ {ch}) \cup {Len(remote')} /\ Issue /\ channelFaults' = channelFaults
      /\ unstored' = unstored /\ astray' = astray \cup {ch} /\ l.pc = "provider"
  BY Zenon DEF RenewElsewhere, ChannelGoto, ToUpsert
<1>2. l \in ChannelLocals /\ ch \in 1 .. n /\ l.channel = 0
  BY <1>1, AtProvider, Zenon
<1> HIDE DEF l, ch
<1>3. n \in Nat /\ Len(remote') = n + 1 /\ remote' \in Seq(Nat) /\ Len(remote') <= MaxChannels
      /\ (\A x \in 1 .. n : remote'[x] = remote[x]) /\ remote'[n + 1] = 1
  BY <1>1, AppendRemote, Zenon
<1>4. channelAt' = [channelAt EXCEPT ![c] = m]
  BY <1>1, <1>3, Zenon
<1>5. m \in ChannelLocals /\ m.pc = "upsert" /\ m.channel = n + 1 /\ m.remote = 1 /\ m.rec = l.rec
  <2>1. n + 1 \in Nat /\ 1 \in Nat /\ l \in ChannelLocals
    BY <1>2, <1>3
  <2>2. QED
    BY <2>1, UpsertLocals
<1> HIDE DEF m
<1>6. m.rec.channel = ch
  BY <1>5, Zenon DEF ch
<1>7. ChannelSound(m, channelRows, Len(remote')) /\ StoreSound(m, live', remote', astray')
  BY <1>1, <1>2, <1>3, <1>5, <1>6 DEF ChannelSound, StoreSound
<1>8. ProviderTypes
  <2>1. channelFaults \in Nat /\ live \subseteq 1 .. n
    BY Zenon DEF ChannelInv, ChannelTypes
  <2>2. live' \subseteq 1 .. Len(remote')
    <3>1. \A x \in live : x \in 1 .. n + 1
      BY <1>3, <2>1
    <3>2. n + 1 \in 1 .. n + 1
      BY <1>3
    <3>3. QED
      BY <1>1, <1>3, <3>1, <3>2, Zenon
  <2>3. QED
    BY <1>1, <1>3, <2>1, <2>2 DEF ProviderTypes
<1>9. \A o \in ChannelCallers : ~Concerns(channelAt[o], n + 1)
  <2>1. ASSUME NEW o \in ChannelCallers PROVE ~Concerns(channelAt[o], n + 1)
    <3>1. channelAt[o].rec.channel \in 0 .. n /\ channelAt[o].channel \in 0 .. n
      BY ConcernsIssued, Zenon
    <3>2. QED
      BY <1>3, <3>1 DEF Concerns
  <2>2. QED
    BY <2>1, Zenon
<1>10. \A x : Concerns(m, x) => x = n + 1 \/ x \in astray'
  BY <1>1, <1>5, <1>6, Zenon DEF Concerns
<1>11. \A x \in 1 .. n : Concerns(l, x) => x \in astray'
  BY <1>1, <1>2, <1>3 DEF Concerns, ch
<1>12. \A x \in 1 .. n : x \in astray' \/ Untouched(x)
  BY <1>1, <1>3 DEF Untouched
<1>13. \A x \in live' : (x \in live /\ l.channel # x) \/ m.channel = x
  BY <1>1, <1>2, <1>3, <1>5, RowsKept
<1>14. NothingElse(c, m)
  BY <1>9, <1>10, <1>11, <1>12, <1>13, Zenon DEF NothingElse, l
<1>15. QED
  BY <1>1, <1>4, <1>5, <1>7, <1>8, <1>14, CallerStep, Zenon

\* The provider cancels or refuses: the caller goes to UpdateState.
LEMMA AnswerInv ==
  ASSUME ChannelInv, NEW c \in ChannelCallers, CancelRemote(c) \/ Refuse(c) PROVE ChannelInv'
<1>1. ASSUME NEW st \in {"cancelled", "errored"}, channelAt[c].pc = "provider",
             channelAt' =
               [channelAt EXCEPT ![c] = [channelAt[c] EXCEPT !.pc = "state", !.status = st]],
             channelRows' = channelRows, remote' = remote, channelFaults' = channelFaults,
             unstored' = unstored, astray' = astray,
             live' = live \ {channelAt[c].rec.channel} \/ (live' = live /\ st = "errored")
      PROVE  ChannelInv'
  <2> DEFINE n == Len(remote)
             l == channelAt[c]
             ch == l.rec.channel
             m == [l EXCEPT !.pc = "state", !.status = st]
  <2>1. l \in ChannelLocals /\ l.id \in DOMAIN channelRows /\ ch = channelRows[l.id].channel
        /\ ch \in 1 .. n /\ l.channel = 0
    BY <1>1, AtProvider, Zenon
  <2>2. m \in ChannelLocals /\ m.pc = "state" /\ m.status = st /\ m.rec = l.rec /\ m.id = l.id
        /\ m.channel = 0
    BY <2>1, <1>1, Zenon DEF ChannelLocals, ChannelStatuses
  <2>3. channelAt' = [channelAt EXCEPT ![c] = m] /\ l.pc = "provider"
        /\ (live' = live \ {ch} \/ (live' = live /\ st = "errored"))
    BY <1>1, Zenon
  <2> HIDE DEF m, l, ch
  <2>4. m.rec.channel = ch /\ n \in Nat
    BY <2>2, RowsKept, Zenon DEF ch
  <2>5. ChannelSound(m, channelRows, Len(remote')) /\ StoreSound(m, live', remote', astray')
    BY <1>1, <2>1, <2>2, <2>3, <2>4, Zenon DEF ChannelSound, StoreSound
  <2>6. ProviderTypes
    <3>1. remote \in Seq(Nat) /\ Len(remote) <= MaxChannels /\ Len(remote) \in Nat
          /\ live \subseteq 1 .. Len(remote) /\ channelFaults \in Nat
      BY DEF ChannelInv, ChannelTypes
    <3>2. live' \subseteq 1 .. Len(remote)
      BY <2>3, <3>1, Zenon
    <3>3. QED
      BY <1>1, <3>1, <3>2 DEF ProviderTypes
  <2>7. \A x \in 1 .. n : (Concerns(m, x) <=> x = ch) /\ (Concerns(l, x) <=> x = ch)
    BY <2>1, <2>2, <2>4 DEF Concerns, ch
  <2>8. Stores(m, ch) /\ \A x : ~StoresID(l, x)
    BY <2>2, <2>3, <2>4, Zenon DEF Stores, StoresID, Concerns
  <2>9. \A x \in 1 .. n : x = ch \/ Untouched(x)
    BY <1>1, <2>3, Zenon DEF Untouched
  <2>10. \A x \in live' : x \in live /\ l.channel # x
    BY <2>1, <2>3, <2>4, RowsKept
  <2>11. NothingElse(c, m)
    BY <1>1, <2>7, <2>8, <2>9, <2>10, Zenon DEF NothingElse, l
  <2>12. QED
    BY <1>1, <2>2, <2>3, <2>5, <2>6, <2>11, CallerStep, Zenon
<1>2. QED
  BY <1>1, Zenon DEF CancelRemote, Refuse, ChannelGoto

\* UpdateState reads the row before it writes it back.
LEMMA StateReadInv ==
  ASSUME ChannelInv, NEW c \in ChannelCallers, StateRead(c) PROVE ChannelInv'
<1> DEFINE n == Len(remote)
           l == channelAt[c]
           ch == l.rec.channel
           r == channelRows[l.id]
           new == [r EXCEPT !.status = l.status]
           m == [l EXCEPT !.pc = "write", !.rec = new]
<1>1. channelAt' = [channelAt EXCEPT ![c] = m] /\ channelRows' = channelRows /\ live' = live
      /\ remote' = remote /\ channelFaults' = channelFaults /\ unstored' = unstored
      /\ astray' = astray /\ l.pc = "state"
  BY Zenon DEF StateRead, ChannelGoto
<1>2. l \in ChannelLocals /\ l.id \in DOMAIN channelRows /\ ch = r.channel /\ ch \in 1 .. n
      /\ l.channel = 0
  BY <1>1, AtProvider, Zenon
<1>3. r \in ChannelRow /\ l.status \in ChannelStatuses /\ n \in Nat
  BY <1>2, RowsKept, Zenon DEF ChannelLocals
<1>4. l.status # "active" /\ (l.status = "cancelled" /\ ch \notin astray => ch \notin live)
  BY <1>1, ConcernsIssued, Zenon DEF ChannelInv, AboutToStore, StoreSound, ChannelSound
<1>5. ch \notin astray => r.remote = remote[ch]
  <2>1. ASSUME ch \notin astray, NEW o \in ChannelCallers, StoresID(channelAt[o], ch) PROVE FALSE
    <3>1. o # c
      BY <1>1, <2>1, Zenon DEF StoresID
    <3>2. Concerns(channelAt[c], ch) /\ Concerns(channelAt[o], ch)
      BY <2>1, Zenon DEF StoresID, Concerns
    <3>3. QED
      BY <1>2, <2>1, <3>1, <3>2, Zenon DEF ChannelInv, OneAtWork
  <2>2. QED
    BY <1>2, <2>1, Zenon DEF ChannelInv, RemoteInStep
<1> HIDE DEF l, ch, r
<1>6. new \in ChannelRecs /\ new.channel = r.channel /\ new.remote = r.remote
        /\ new.status = l.status
  BY <1>3 DEF ChannelRow, ChannelRecs, Channels
<1> HIDE DEF new
<1>7. m \in ChannelLocals /\ m.pc = "write" /\ m.rec = new /\ m.id = l.id /\ m.channel = l.channel
      /\ m.status = l.status
  BY <1>2, <1>6, Zenon DEF ChannelLocals
<1> HIDE DEF m
<1>8. m.rec.channel = ch /\ m.rec.status = m.status /\ m.rec.remote = r.remote
      /\ m.rec.channel = channelRows[m.id].channel
  BY <1>2, <1>6, <1>7, Zenon DEF r
<1>9. ChannelSound(m, channelRows, Len(remote'))
  BY <1>2, <1>4, <1>7, <1>8, Zenon DEF ChannelSound
<1>10. StoreSound(m, live', remote', astray')
  BY <1>1, <1>4, <1>5, <1>7, <1>8, Zenon DEF StoreSound
<1>11. ProviderTypes
  BY <1>1 DEF ProviderTypes, ChannelInv, ChannelTypes
<1>12. \A x \in 1 .. n : (Concerns(m, x) <=> x = ch) /\ (Concerns(l, x) <=> x = ch) /\ Untouched(x)
  BY <1>1, <1>2, <1>3, <1>7, <1>8 DEF Concerns, ch, Untouched
<1>13. Stores(m, ch) /\ \A x : ~StoresID(l, x)
  BY <1>1, <1>7, <1>8, Zenon DEF Stores, StoresID, Concerns
<1>14. \A x \in live' : x \in live /\ l.channel # x
  BY <1>1, <1>2, <1>3, RowsKept
<1>15. NothingElse(c, m)
  BY <1>1, <1>12, <1>13, <1>14, Zenon DEF NothingElse, l
<1>16. QED
  BY <1>1, <1>7, <1>9, <1>10, <1>11, <1>15, CallerStep, Zenon

\* A failed call leaves the channel astray.
LEMMA AbandonInv ==
  ASSUME ChannelInv, NEW c \in ChannelCallers, Abandon(c) PROVE ChannelInv'
<1> DEFINE n == Len(remote)
           l == channelAt[c]
           m == ChannelIdle
<1>1. channelAt' = [channelAt EXCEPT ![c] = m] /\ channelRows' = channelRows /\ live' = live
      /\ remote' = remote /\ channelFaults' = channelFaults + 1
      /\ unstored' = unstored \cup {ch \in Channels : ch = l.channel}
      /\ astray' = astray \cup {ch \in Channels : ch \in {l.rec.channel, l.channel}}
  BY Zenon DEF Abandon, ChannelGoto
<1>2. m \in ChannelLocals /\ m.pc = "idle" /\ m.rec.channel = 0 /\ m.channel = 0
      /\ ChannelSound(m, channelRows, Len(remote'))
  BY ChannelIdleSound, Zenon DEF ChannelIdle, ChannelNoRow
<1>3. StoreSound(m, live', remote', astray')
  BY <1>2, Zenon DEF StoreSound
<1>4. remote \in Seq(Nat) /\ Len(remote) <= MaxChannels /\ Len(remote) \in Nat
      /\ live \subseteq 1 .. Len(remote) /\ channelFaults \in Nat
  BY DEF ChannelInv, ChannelTypes
<1> HIDE DEF m, l
<1>5. ProviderTypes
  BY <1>1, <1>4 DEF ProviderTypes
<1>6. \A x \in 1 .. n : ~Concerns(m, x) /\ Untouched(x) /\ (Concerns(l, x) => x \in astray')
  BY <1>1, <1>2, <1>4, SubscriptionsAssumption DEF Concerns, Untouched, Channels
<1>7. \A x \in live' : (x \in live /\ l.channel # x) \/ x \in unstored'
  BY <1>1, <1>4, SubscriptionsAssumption DEF Channels
<1>8. NothingElse(c, m)
  BY <1>1, <1>6, <1>7, Zenon DEF NothingElse, l
<1>9. QED
  BY <1>1, <1>2, <1>3, <1>5, <1>8, CallerStep, Zenon

\* The stored of channel ch, at most one, are replaced by new, or new is appended.
StoresOver(ch, new) ==
    /\ channelRows' \in Seq(ChannelRow) /\ DOMAIN channelRows \subseteq DOMAIN channelRows'
    /\ \A i \in DOMAIN channelRows' :
          \/ i \in DOMAIN channelRows /\ channelRows[i].channel # ch
               /\ channelRows'[i] = channelRows[i]
          \/ channelRows'[i] = new /\ (i \in DOMAIN channelRows => channelRows[i].channel = ch)
    /\ \A i, j \in DOMAIN channelRows' : channelRows'[i] = new /\ channelRows'[j] = new => i = j
    /\ \E i \in DOMAIN channelRows' : channelRows'[i] = new

\* A caller stores a row and is idle.
LEMMA StoreStep ==
  ASSUME ChannelInv, NEW c \in ChannelCallers, NEW ch \in 1 .. Len(remote), NEW new \in ChannelRow,
         new.channel = ch, channelAt' = [channelAt EXCEPT ![c] = ChannelIdle],
         live' = live, remote' = remote, channelFaults' = channelFaults, unstored' = unstored,
         astray' = astray, StoresOver(ch, new),
         ch \notin astray => new.remote = remote[ch] /\ StatusAgrees(new, live),
         channelAt[c].channel \in {0, ch}, channelAt[c].rec.channel \in {0, ch} \cup astray
  PROVE  ChannelInv'
<1> DEFINE n == Len(remote)
<1> USE DEF StoresOver
<1>1. n \in Nat /\ n <= MaxChannels /\ remote \in Seq(Nat) /\ channelFaults \in Nat
      /\ live \subseteq 1 .. n
  BY DEF ChannelInv, ChannelTypes
<1>2. ChannelIdle \in ChannelLocals /\ ChannelSound(ChannelIdle, channelRows', Len(remote'))
      /\ ChannelIdle.pc = "idle" /\ ChannelIdle.rec.channel = 0 /\ ChannelIdle.channel = 0
  BY ChannelIdleSound, Zenon DEF ChannelIdle, ChannelNoRow
<1>3. \A i \in DOMAIN channelRows : channelRows'[i].channel = channelRows[i].channel
  BY Zenon
<1>4. /\ ChannelTypes'
      /\ \A o \in ChannelCallers : channelAt'[o] = IF o = c THEN ChannelIdle ELSE channelAt[o]
  <2>1. remote' \in Seq(Nat) /\ Len(remote) <= Len(remote') /\ Len(remote') <= MaxChannels
        /\ live' \subseteq 1 .. Len(remote') /\ channelFaults' \in Nat
    BY <1>1
  <2>2. channelRows' \in Seq(ChannelRow) /\ DOMAIN channelRows \subseteq DOMAIN channelRows'
    BY Zenon
  <2>3. QED
    BY <1>2, <1>3, <2>1, <2>2, OneCallerMoves, Zenon
<1>5. \A i \in DOMAIN channelRows' :
         \/ /\ i \in DOMAIN channelRows /\ channelRows[i].channel # ch
            /\ channelRows'[i] = channelRows[i] /\ channelRows'[i].channel # ch
         \/ channelRows'[i] = new /\ channelRows'[i].channel = ch
  BY Zenon
<1>6. RowsDistinct'
  <2>1. \A i \in DOMAIN channelRows' : channelRows'[i].channel \in 1 .. n
    BY <1>5, RowsKept, Zenon
  <2>2. ASSUME NEW i \in DOMAIN channelRows', NEW j \in DOMAIN channelRows',
               channelRows'[i].channel = channelRows'[j].channel
        PROVE  i = j
    <3>1. CASE channelRows'[i].channel = ch
      BY <1>5, <2>2, <3>1, Zenon
    <3>2. CASE channelRows'[i].channel # ch
      BY <1>5, <2>2, <3>2, Zenon DEF ChannelInv, RowsDistinct
    <3>3. QED
      BY <3>1, <3>2, Zenon
  <2>3. QED
    BY <2>1, <2>2, Zenon DEF RowsDistinct
<1>7. LiveChannelsKnown'
  <2> SUFFICES ASSUME NEW x \in live, x \notin unstored
               PROVE  \/ \E i \in DOMAIN channelRows' : channelRows'[i].channel = x
                      \/ \E o \in ChannelCallers : channelAt'[o].channel = x
    BY Zenon DEF LiveChannelsKnown, ByChannel
  <2>1. x # 0
    BY <1>1
  <2>2. CASE x = ch
    BY <2>2, Zenon
  <2>3. CASE x # ch
    <3>1. (\E i \in DOMAIN channelRows : channelRows[i].channel = x)
          \/ \E o \in ChannelCallers : channelAt[o].channel = x
      BY Zenon DEF ChannelInv, LiveChannelsKnown, ByChannel
    <3>2. channelAt[c].channel # x
      BY <2>1, <2>3, Zenon
    <3>3. QED
      BY <1>3, <1>4, <3>1, <3>2
  <2>4. QED
    BY <2>2, <2>3, Zenon
<1>8. OneAtWork'
  <2>1. \A x \in 1 .. n : ~Concerns(ChannelIdle, x)
    BY <1>1, <1>2 DEF Concerns
  <2>2. QED
    BY <1>4, <2>1 DEF ChannelInv, OneAtWork
<1>9. AboutToStore'
  <2>1. StoreSound(ChannelIdle, live, remote, astray)
    BY <1>2, Zenon DEF StoreSound
  <2>2. QED
    BY <1>4, <2>1 DEF ChannelInv, AboutToStore
<1>10. RemoteInStep'
  <2> SUFFICES ASSUME NEW i \in DOMAIN channelRows', channelRows'[i].channel \notin astray,
                      \A o \in ChannelCallers : ~StoresID(channelAt'[o], channelRows'[i].channel)
               PROVE  channelRows'[i].remote = remote[channelRows'[i].channel]
    BY Zenon DEF RemoteInStep
  <2>1. CASE channelRows'[i] = new
    BY <2>1, Zenon
  <2>2. CASE i \in DOMAIN channelRows /\ channelRows[i].channel # ch
          /\ channelRows'[i] = channelRows[i]
    <3>1. channelRows[i].channel # 0
      BY <1>1, <2>2, RowsKept
    <3>2. \A o \in ChannelCallers : ~StoresID(channelAt[o], channelRows[i].channel)
      BY <1>4, <2>2, <3>1 DEF StoresID
    <3>3. QED
      BY <2>2, <3>2, Zenon DEF ChannelInv, RemoteInStep
  <2>3. QED
    BY <2>1, <2>2, <1>5, Zenon
<1>11. StatusInStep'
  <2> SUFFICES ASSUME NEW i \in DOMAIN channelRows', channelRows'[i].channel \notin astray,
                      \A o \in ChannelCallers : ~Stores(channelAt'[o], channelRows'[i].channel)
               PROVE  StatusAgrees(channelRows'[i], live)
    BY Zenon DEF StatusInStep
  <2>1. CASE channelRows'[i] = new
    BY <2>1, Zenon
  <2>2. CASE i \in DOMAIN channelRows /\ channelRows[i].channel # ch
          /\ channelRows'[i] = channelRows[i]
    <3>1. channelRows[i].channel # 0
      BY <1>1, <2>2, RowsKept
    <3>2. ~Concerns(channelAt[c], channelRows[i].channel)
      BY <2>2, <3>1, Zenon DEF Concerns
    <3>3. \A o \in ChannelCallers : ~Stores(channelAt[o], channelRows[i].channel)
      BY <1>4, <2>2, <3>2, Zenon DEF Stores
    <3>4. QED
      BY <2>2, <3>3, Zenon DEF ChannelInv, StatusInStep
  <2>3. QED
    BY <2>1, <2>2, <1>5, Zenon
<1>12. QED
  BY <1>4, <1>6, <1>7, <1>8, <1>9, <1>10, <1>11, Zenon DEF ChannelInv

\* Upsert updates the row of the channel or inserts one.
LEMMA ChannelUpsertInv ==
  ASSUME ChannelInv, NEW c \in ChannelCallers, ChannelUpsert(c) PROVE ChannelInv'
<1> DEFINE n == Len(remote)
           l == channelAt[c]
           ch == l.channel
           new == [channel |-> ch, remote |-> l.remote, status |-> "active"]
<1>1. l.pc = "upsert" /\ channelAt' = [channelAt EXCEPT ![c] = ChannelIdle]
      /\ live' = live /\ remote' = remote /\ channelFaults' = channelFaults
      /\ unstored' = unstored /\ astray' = astray
      /\ IF ByChannel(ch) = {} THEN channelRows' = Append(channelRows, new)
         ELSE channelRows' =
           [i \in DOMAIN channelRows |-> IF i \in ByChannel(ch) THEN new ELSE channelRows[i]]
  BY Zenon DEF ChannelUpsert, ChannelGoto
<1>2. l \in ChannelLocals /\ ch \in 1 .. n /\ l.remote \in Nat /\ n \in Nat /\ n <= MaxChannels
  <2>1. l \in ChannelLocals /\ ch \in 1 .. n
    BY <1>1, ConcernsIssued, Zenon DEF ChannelSound
  <2>2. QED
    BY <2>1 DEF ChannelLocals, ChannelInv, ChannelTypes
<1>3. (ch \notin astray => ch \in live /\ l.remote = remote[ch])
      /\ l.rec.channel \in {0, ch} \cup astray
  BY <1>1, Zenon DEF ChannelInv, AboutToStore, StoreSound
<1> HIDE DEF l, ch
<1>4. new \in ChannelRow /\ new.channel = ch
  BY <1>2, SubscriptionsAssumption DEF ChannelRow, Channels, ChannelStatuses
<1>5. ch \notin astray => new.remote = remote[ch] /\ StatusAgrees(new, live)
  BY <1>3, Zenon DEF StatusAgrees
<1> HIDE DEF new
<1>6. channelRows \in Seq(ChannelRow) /\ Len(channelRows) \in Nat
      /\ DOMAIN channelRows = 1 .. Len(channelRows)
  BY RowsKept
<1>7. \A i, j \in DOMAIN channelRows : channelRows[i].channel = channelRows[j].channel => i = j
  BY Zenon DEF ChannelInv, RowsDistinct
<1>8. CASE ByChannel(ch) = {}
  <2>1. channelRows' = Append(channelRows, new)
    BY <1>1, <1>8, Zenon
  <2>2. channelRows' \in Seq(ChannelRow) /\ DOMAIN channelRows' = 1 .. Len(channelRows) + 1
        /\ channelRows'[Len(channelRows) + 1] = new
        /\ \A i \in DOMAIN channelRows : channelRows'[i] = channelRows[i]
    BY <1>4, <1>6, <2>1
  <2>3. \A i \in DOMAIN channelRows : channelRows[i].channel # ch
    BY <1>8, Zenon DEF ByChannel
  <2>4. \A i \in DOMAIN channelRows' : i \in DOMAIN channelRows \/ i = Len(channelRows) + 1
    BY <1>6, <2>2
  <2>5. Len(channelRows) + 1 \in DOMAIN channelRows'
          /\ Len(channelRows) + 1 \notin DOMAIN channelRows
        /\ DOMAIN channelRows \subseteq DOMAIN channelRows'
    BY <1>6, <2>2
  <2>6. \A i \in DOMAIN channelRows' :
          \/ i \in DOMAIN channelRows /\ channelRows[i].channel # ch
               /\ channelRows'[i] = channelRows[i]
          \/ channelRows'[i] = new /\ (i \in DOMAIN channelRows => channelRows[i].channel = ch)
    BY <2>2, <2>3, <2>4, <2>5, Zenon
  <2>7. \A i \in DOMAIN channelRows' : channelRows'[i] = new => i = Len(channelRows) + 1
    BY <1>4, <2>2, <2>3, <2>4, Zenon
  <2>8. l.channel \in {0, ch} /\ l.rec.channel \in {0, ch} \cup astray
    BY <1>3, Zenon DEF ch
  <2>9. StoresOver(ch, new)
    BY <2>2, <2>5, <2>6, <2>7, Zenon DEF StoresOver
  <2>10. QED
    BY <1>1, <1>2, <1>4, <1>5, <2>8, <2>9, StoreStep, Zenon DEF l
<1>9. CASE ByChannel(ch) # {}
  <2>1. channelRows' =
          [i \in DOMAIN channelRows |-> IF i \in ByChannel(ch) THEN new ELSE channelRows[i]]
    BY <1>1, <1>9, Zenon
  <2>2. DOMAIN channelRows' = DOMAIN channelRows
        /\ \A i \in DOMAIN channelRows :
              channelRows'[i] = IF channelRows[i].channel = ch THEN new ELSE channelRows[i]
    BY <2>1, Zenon DEF ByChannel
  <2>3. channelRows' \in Seq(ChannelRow)
    <3>1. \A i \in 1 .. Len(channelRows) : channelRows'[i] \in ChannelRow
      BY <1>4, <1>6, <2>2, RowsKept, Zenon
    <3>2. channelRows' \in [1 .. Len(channelRows) -> ChannelRow]
      BY <1>6, <2>1, <3>1, Zenon
    <3>3. QED
      BY <1>6, <3>2
  <2>4. \A i \in DOMAIN channelRows' :
          \/ i \in DOMAIN channelRows /\ channelRows[i].channel # ch
               /\ channelRows'[i] = channelRows[i]
          \/ channelRows'[i] = new /\ (i \in DOMAIN channelRows => channelRows[i].channel = ch)
    BY <2>2, Zenon
  <2>5. \A i, j \in DOMAIN channelRows' : channelRows'[i] = new /\ channelRows'[j] = new => i = j
    BY <1>4, <1>7, <2>2, Zenon
  <2>6. \E i \in DOMAIN channelRows' : channelRows'[i] = new
    BY <1>9, <2>2, Zenon DEF ByChannel
  <2>7. l.channel \in {0, ch} /\ l.rec.channel \in {0, ch} \cup astray
    BY <1>3, Zenon DEF ch
  <2>8. DOMAIN channelRows \subseteq DOMAIN channelRows'
    BY <2>2, Zenon
  <2>9. StoresOver(ch, new)
    BY <2>3, <2>4, <2>5, <2>6, <2>8, Zenon DEF StoresOver
  <2>10. QED
    BY <1>1, <1>2, <1>4, <1>5, <2>7, <2>9, StoreStep, Zenon DEF l
<1>10. QED
  BY <1>8, <1>9, Zenon

\* UpdateState writes the row it read, with the new status.
LEMMA StateWriteInv ==
  ASSUME ChannelInv, NEW c \in ChannelCallers, StateWrite(c) PROVE ChannelInv'
<1> DEFINE n == Len(remote)
           l == channelAt[c]
           k == l.id
           new == l.rec
           ch == new.channel
<1>1. l.pc = "write" /\ channelAt' = [channelAt EXCEPT ![c] = ChannelIdle]
      /\ live' = live /\ remote' = remote /\ channelFaults' = channelFaults
      /\ unstored' = unstored /\ astray' = astray
      /\ channelRows' = [channelRows EXCEPT ![k] = new]
  BY Zenon DEF StateWrite, ChannelGoto
<1>2. new \in ChannelRecs /\ k \in DOMAIN channelRows /\ ch = channelRows[k].channel
        /\ ch \in 1 .. n
      /\ l.channel = 0
  BY <1>1, AtProvider, Zenon
<1>3. l.status # "active" /\ new.status = l.status
  BY <1>1, ConcernsIssued, Zenon DEF ChannelSound
<1>4. ch \notin astray => (l.status = "cancelled" => ch \notin live) /\ new.remote = remote[ch]
  BY <1>1, Zenon DEF ChannelInv, AboutToStore, StoreSound
<1>5. ch \in Channels
  BY <1>2, RowsKept, Zenon
<1> HIDE DEF l, k, new, ch
<1>6. new \in ChannelRow /\ new.channel = ch
  BY <1>2, <1>5, Zenon DEF ChannelRow, ChannelRecs, ch
<1>7. ch \notin astray => new.remote = remote[ch] /\ StatusAgrees(new, live)
  BY <1>3, <1>4, <1>6, Zenon DEF StatusAgrees
<1>8. channelRows \in Seq(ChannelRow)
      /\ \A i, j \in DOMAIN channelRows : channelRows[i].channel = channelRows[j].channel => i = j
  BY RowsKept, Zenon DEF ChannelInv, RowsDistinct
<1>9. channelRows' \in Seq(ChannelRow) /\ DOMAIN channelRows' = DOMAIN channelRows
      /\ \A i \in DOMAIN channelRows : channelRows'[i] = IF i = k THEN new ELSE channelRows[i]
  BY <1>1, <1>2, <1>6, <1>8
<1>10. \A i \in DOMAIN channelRows' :
          \/ i \in DOMAIN channelRows /\ channelRows[i].channel # ch
               /\ channelRows'[i] = channelRows[i]
          \/ channelRows'[i] = new /\ (i \in DOMAIN channelRows => channelRows[i].channel = ch)
  BY <1>2, <1>8, <1>9, Zenon
<1>11. \A i \in DOMAIN channelRows' : channelRows'[i] = new => i = k
  BY <1>2, <1>6, <1>8, <1>9, Zenon
<1>12. \E i \in DOMAIN channelRows' : channelRows'[i] = new
  BY <1>2, <1>9, Zenon
<1>13. l.channel \in {0, ch} /\ l.rec.channel \in {0, ch} \cup astray
  BY <1>2, Zenon DEF ch, new
<1>14. DOMAIN channelRows \subseteq DOMAIN channelRows'
  BY <1>9, Zenon
<1>15. \A i, j \in DOMAIN channelRows' : channelRows'[i] = new /\ channelRows'[j] = new => i = j
  BY <1>11, Zenon
<1>16. StoresOver(ch, new)
  BY <1>9, <1>10, <1>12, <1>14, <1>15, Zenon DEF StoresOver
<1>17. QED
  BY <1>1, <1>2, <1>6, <1>7, <1>13, <1>16, StoreStep, Zenon DEF l

\* The invariant is inductive.
LEMMA ChannelNextInv == ChannelInv /\ [ChannelNext]_channelVars => ChannelInv'
<1> SUFFICES ASSUME ChannelInv, [ChannelNext]_channelVars PROVE ChannelInv'
  BY Zenon
<1>1. CASE UNCHANGED channelVars
  BY <1>1, Zenon
     DEF channelVars, ChannelInv, ChannelTypes, RowsDistinct, LiveChannelsKnown, ByChannel,
              OneAtWork, AboutToStore, RemoteInStep, StatusInStep
<1>2. CASE ChannelNext
  <2>1. PICK c \in ChannelCallers :
           \/ Subscribe(c)
           \/ \E op \in {"renew", "cancel"}, i \in DOMAIN channelRows : Read(c, op, i)
           \/ RenewInPlace(c) \/ RenewElsewhere(c) \/ CancelRemote(c) \/ Refuse(c)
           \/ ChannelUpsert(c) \/ StateRead(c) \/ StateWrite(c) \/ Abandon(c)
    BY <1>2, Zenon DEF ChannelNext
  <2>2. QED
    BY <2>1, SubscribeInv, ReadInv, RenewInPlaceInv, RenewElsewhereInv, AnswerInv,
       ChannelUpsertInv, StateReadInv, StateWriteInv, AbandonInv, Zenon
<1>3. QED
  BY <1>1, <1>2, Zenon

\* Whatever calls of Subscribe, Renew and Cancel interleave or fail, a channel that
\* the provider delivers on has a row or a caller about to store one, unless the
\* write of that very channel's row failed; and a row agrees with the provider on
\* the remote id and on the status, unless two calls raced over its channel or one
\* failed half way.
THEOREM ChannelsStayTracked == ChannelSpec => []ChannelsTracked
<1>1. ChannelInit => ChannelInv
  BY ChannelInitInv, Zenon
<1>2. ChannelInv /\ [ChannelNext]_channelVars => ChannelInv'
  BY ChannelNextInv, Zenon
<1>3. ChannelInv => ChannelsTracked
  BY ChannelInvSafe, Zenon
<1>4. QED
  BY <1>1, <1>2, <1>3, PTL DEF ChannelSpec

=============================================================================
