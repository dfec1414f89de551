---------------------------- MODULE MappingSpecs ----------------------------
(***************************************************************************)
(* MappingSpecLifecycle (core/mapping_spec_lifecycle.go): the versions of  *)
(* one mapping spec are drafted, validated and published.  Every operation *)
(* reads the version, decides, writes through the store and announces the  *)
(* change on the event bus, each in a call of its own.                     *)
(*                                                                         *)
(* MappingSpecStore and LifecycleEventBus are external.  The store writes  *)
(* one row at a time and keeps versions unique; a bus may fail to publish. *)
(***************************************************************************)
EXTENDS Integers, FiniteSets, FiniteSetsExt

CONSTANTS
    MappingCallers,  \* concurrent callers
    Contents,        \* what a spec may say; Broken fails Validate
    Broken,
    MappingUnset,    \* an absent value
    MaxVersion,      \* bound: versions
    MaxMappingCalls, \* bound: operations begun
    MaxMappingFaults \* bound: calls of the store or the bus that fail

ASSUME MappingSpecsAssumption ==
    /\ MaxVersion \in Nat \ {0} /\ {MaxMappingCalls, MaxMappingFaults} \subseteq Nat
    /\ MappingUnset \notin [content : Contents, status : {"draft", "validated", "published"}]

Versions == 1..MaxVersion

VARIABLES
    rows,             \* rows[v]: [content, status], or Unset
    mappingAt,        \* mappingAt[c]: the operation of caller c
    mappingCalls,     \* operations begun
    mappingFaults,    \* calls of the store or the bus that failed
    passed,           \* history: passed[v], the contents MarkValidated set a status on
    announced,        \* history: the versions whose publishing was announced
    mappingOverlapped \* history: the versions two calls have worked on at once

mappingVars == <<rows, mappingAt, mappingCalls, mappingFaults, passed, announced, mappingOverlapped>>

MappingIdle == [pc |-> "idle", op |-> MappingUnset, v |-> 0, content |-> MappingUnset]

MappingInit ==
    /\ rows = [v \in Versions |-> MappingUnset] /\ mappingAt = [c \in MappingCallers |-> MappingIdle]
    /\ mappingCalls = 0 /\ mappingFaults = 0
    /\ passed = [v \in Versions |-> {}] /\ announced = {} /\ mappingOverlapped = {}

MappingGoto(c, pc) == mappingAt' = [mappingAt EXCEPT ![c].pc = pc] /\ UNCHANGED mappingCalls
Return(c) == mappingAt' = [mappingAt EXCEPT ![c] = MappingIdle] /\ UNCHANGED mappingCalls
MappingFault == mappingFaults < MaxMappingFaults /\ mappingFaults' = mappingFaults + 1
NoFault == UNCHANGED mappingFaults
Turns(c, v) ==
    mappingOverlapped' = IF v # 0 /\ \E d \in MappingCallers \ {c} : mappingAt[d].v = v
                         THEN mappingOverlapped \cup {v} ELSE mappingOverlapped
MappingBegin(c, pc, op, v, content) ==
    /\ mappingAt[c].pc = "idle" /\ mappingCalls < MaxMappingCalls /\ mappingCalls' = mappingCalls + 1
    /\ mappingAt' = [mappingAt EXCEPT ![c] = [pc |-> pc, op |-> op, v |-> v, content |-> content]]
    /\ Turns(c, v)
    /\ UNCHANGED <<rows, mappingFaults, passed, announced>>

Existing == {v \in Versions : rows[v] # MappingUnset}

-----------------------------------------------------------------------------
CreateDraft(c, v, content) ==
    MappingBegin(c, IF v = 0 THEN "latest" ELSE "exists", "create", v, content)

\* Version 0 asks for the one after the latest, which must be published.
Latest(c) ==
    /\ mappingAt[c].pc = "latest" /\ NoFault
    /\ LET last == IF Existing = {} THEN 0 ELSE Max(Existing) IN
       IF last = 0 \/ (last < MaxVersion /\ rows[last].status = "published")
       THEN mappingAt' = [mappingAt EXCEPT ![c].pc = "exists", ![c].v = last + 1]
            /\ Turns(c, last + 1) /\ UNCHANGED mappingCalls
       ELSE Return(c) /\ UNCHANGED mappingOverlapped
    /\ UNCHANGED <<rows, passed, announced>>

\* The version must be new and the spec must validate.
Exists(c) ==
    /\ mappingAt[c].pc = "exists" /\ NoFault
    /\ IF rows[mappingAt[c].v] = MappingUnset /\ mappingAt[c].content # Broken THEN MappingGoto(c, "write") ELSE Return(c)
    /\ UNCHANGED <<rows, passed, announced, mappingOverlapped>>

UpdateDraft(c, v, content) == MappingBegin(c, "get", "update", v, content)
MarkValidated(c, v) == MappingBegin(c, "get", "validate", v, MappingUnset)
MappingPublish(c, v) == MappingBegin(c, "get", "publish", v, MappingUnset)

\* What a caller of each operation may do to a version in this state.
Allowed_Published(op, status, content) ==
    CASE op = "update"   -> content # Broken
      [] op = "validate" -> status \in {"draft", "validated"}
      [] op = "publish"  -> status = "validated"

Allowed(op, status, content) ==
    CASE op = "update"   -> status # "published" /\ content # Broken
      [] op = "validate" -> status \in {"draft", "validated"}
      [] op = "publish"  -> status = "validated"

\* GetVersion and the checks on what it returned; publishing what is published
\* is done at once.  A read that fails returns as one that is refused does.
Get(c) ==
    /\ mappingAt[c].pc = "get" /\ NoFault
    /\ LET row == rows[mappingAt[c].v] IN
       IF row # MappingUnset /\ ~(mappingAt[c].op = "publish" /\ row.status = "published")
          /\ Allowed(mappingAt[c].op, row.status, mappingAt[c].content)
       THEN MappingGoto(c, "write") ELSE Return(c)
    /\ UNCHANGED <<rows, passed, announced, mappingOverlapped>>

\* The store: CreateDraft and UpdateDraft write the whole row, SetStatus and
\* PublishVersion the status of the row that is there.
Written(op, row, content) ==
    CASE op \in {"create", "update"} -> [content |-> content, status |-> "draft"]
      [] op = "validate"             -> [row EXCEPT !.status = "validated"]
      [] op = "publish"              -> [row EXCEPT !.status = "published"]

Write(c) ==
    /\ mappingAt[c].pc = "write"
    /\ \/ /\ mappingAt[c].op = "create" => rows[mappingAt[c].v] = MappingUnset
          /\ rows' = [rows EXCEPT ![mappingAt[c].v] = Written(mappingAt[c].op, @, mappingAt[c].content)]
          /\ passed' = IF mappingAt[c].op = "validate"
                       THEN [passed EXCEPT ![mappingAt[c].v] = @ \cup {rows[mappingAt[c].v].content}]
                       ELSE passed
          /\ MappingGoto(c, "announce") /\ NoFault
       \/ /\ mappingAt[c].op = "create" /\ rows[mappingAt[c].v] # MappingUnset
          /\ Return(c) /\ UNCHANGED <<rows, passed>> /\ NoFault
       \/ /\ MappingFault /\ Return(c) /\ UNCHANGED <<rows, passed>>
    /\ UNCHANGED <<announced, mappingOverlapped>>

\* publishMappingSpecEvent: a bus that fails fails the operation, which stays done.
Announce(c) ==
    /\ mappingAt[c].pc = "announce"
    /\ \/ /\ NoFault
          /\ announced' = IF mappingAt[c].op = "publish" THEN announced \cup {mappingAt[c].v} ELSE announced
       \/ MappingFault /\ UNCHANGED announced
    /\ Return(c)
    /\ UNCHANGED <<rows, passed, mappingOverlapped>>

MappingNext ==
    \E c \in MappingCallers :
        \/ \E v \in Versions :
              \/ \E content \in Contents :
                    CreateDraft(c, v, content) \/ UpdateDraft(c, v, content)
              \/ MarkValidated(c, v) \/ MappingPublish(c, v)
        \/ \E content \in Contents : CreateDraft(c, 0, content)
        \/ Latest(c) \/ Exists(c) \/ Get(c) \/ Write(c) \/ Announce(c)

MappingSpec == MappingInit /\ [][MappingNext]_mappingVars

-----------------------------------------------------------------------------
\* "must be validated before publish": what is published is a content that
\* MarkValidated was called for, not one an UpdateDraft put in its place, unless
\* two calls have worked on the version at once.
PublishedWasValidated ==
    \A v \in Existing \ mappingOverlapped :
        rows[v].status = "published" => rows[v].content \in passed[v]

\* Publish writes first and tells the event bus after, and one that finds the
\* version published returns at once.  However calls overlap, once every caller
\* has returned the published versions have been announced, unless a call failed.
AnnouncedUnlessFailed ==
    (mappingFaults = 0 /\ \A c \in MappingCallers : mappingAt[c].pc = "idle") =>
        \A v \in Existing : rows[v].status = "published" => v \in announced

\* The step changes no published version, unless two calls have worked on it at
\* once: each decides on the row it read and the store writes what it is given.
PublishedStays ==
    \A v \in Versions \ mappingOverlapped' :
        rows[v] # MappingUnset /\ rows[v].status = "published" => rows'[v] = rows[v]

\* "is immutable once published": no later operation changes a published version,
\* unless two calls have worked on it at once; and what is published was
\* validated and gets announced.
PublishedForGood ==
    [][PublishedStays /\ PublishedWasValidated' /\ AnnouncedUnlessFailed']_mappingVars
=============================================================================
