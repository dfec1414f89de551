------------------------------- MODULE MCSync -------------------------------
(***************************************************************************)
(* The sync side for TLC: sync cursors, jobs, runs, conflicts, identity    *)
(* bindings, mapping specs and the mapping compiler. No state is shared    *)
(* between these, so a behaviour takes the steps of one of them, chosen at *)
(* the start, and the others keep their initial state. Jobs are looked at  *)
(* twice: as CreateSyncJob creates them and as the orchestrator does.      *)
(*                                                                         *)
(* Page2 and PAGE2 are two cursors that EqualFold does not tell apart.     *)
(***************************************************************************)
EXTENDS SyncCursor, SyncJobs, SyncRun, SyncConflicts, IdentityBindings,
        MappingSpecs, TLC

CONSTANTS c1, c2, n1, n2, k1, k2, bad

VARIABLES
    part,   \* the component whose steps this behaviour takes
    mt_req, mt_out, mt_again, mp_req, mp_out, mp_again

mtVars == <<mt_req, mt_out, mt_again>>
mpVars == <<mp_req, mp_out, mp_again>>

MCCursors == {"page1", "page2", "PAGE2"}
MCFold(c) == IF c = "PAGE2" THEN "page2" ELSE c

\* Every operation of the service and the orchestrator.
AllOps == {"start", "create", "resume", "save", "complete", "fail"}

\* The third change repeats the first one's key, the last one has no ID.
MCFeed == <<"a", "b", "a", NoID>>

\* Confidences on both sides of every threshold and of the margin, a blank id
\* and one out of range.
SomeCandidates ==
    {[id |-> 1, confidence |-> p] : p \in {79, 94, 100}}
      \cup {[id |-> 2, confidence |-> p] : p \in {80, 99}}
      \cup {[id |-> 0, confidence |-> 100], [id |-> 1, confidence |-> 101]}

Rule(id, source, target, transform, type) ==
    [id |-> id, source |-> source, target |-> target, transform |-> transform,
     type |-> type]
Field(type, required) == [type |-> type, required |-> required]

OneField ==
    {(<<1>> :> Field(t, TRUE)) :
        t \in {"int", "decimal", "bool", "text", "date_time", ""}}
OneRule ==
    {<<Rule(1, <<1>>, <<1>>, f, t)>> :
        f \in {"identity", "to_string", "to_int", "to_float", "to_bool", "trim",
               "lowercase", "uppercase", "unix_time_to_rfc3339", "reverse"},
        t \in {"integer", "number", "boolean", "string", "datetime", ""}}
      \cup {<<Rule(1, <<2>>, <<1>>, "identity", "")>>}
OneLeaf ==
    {(<<1>> :> k) : k \in {"numeral", "decimal", "one", "yes", "word", "whole",
                           "fraction", "bool"}} \cup {<<>>}

TwoFields ==
    {(<<1>> :> Field("text", TRUE)) @@ (<<2, 2>> :> Field("int", TRUE))}
Targets == {<<1>>, <<1, 1>>, <<1, 2>>, <<2, 1, 1>>, <<>>}
RuleAt(id, transform) ==
    {Rule(id, s, t, transform, "") : s \in {<<1>>, <<2, 2>>}, t \in Targets}
LastRules ==
    {r \in RuleAt(1, "trim") \cup RuleAt(0, "uppercase") : r.target \in {<<1>>, <<1, 2>>}}
ThreeRules ==
    {<<a, b, c>> : a \in RuleAt(2, "trim"), b \in RuleAt(0, "trim"), c \in LastRules}
TwoLeaves == {(<<1>> :> "word") @@ (<<2, 2>> :> k) : k \in {"whole", "one"}}
Wrongs == {{}, {"schema", "drift"}, {"object"}}

\* One rule: every type, transform and kind of value.
Types == INSTANCE MappingCompiler WITH
    Schemas <- OneField, RuleSets <- OneRule, Samples <- OneLeaf,
    Flags <- {{}},
    req <- mt_req, out <- mt_out, again <- mt_again

\* Three rules: every triple of paths.  The IDs are out of order, and the last two
\* rules may both have none and then differ in nothing but the transform.
Paths == INSTANCE MappingCompiler WITH
    Schemas <- TwoFields, RuleSets <- ThreeRules, Samples <- TwoLeaves,
    Flags <- Wrongs,
    req <- mp_req, out <- mp_out, again <- mp_again

-----------------------------------------------------------------------------
allVars == <<part, vars, jobVars, runVars, conflictVars, bindingVars,
             mappingVars, mtVars, mpVars>>

ComposedInit ==
    /\ part \in {"cursor", "create", "jobs", "runs", "conflicts", "identity",
                 "specs", "types", "paths"}
    /\ Init
    /\ JobInit /\ (part # "create" => active = {n1})
    /\ RunInit
    /\ ConflictInit
    /\ BindingInit
    /\ MappingInit
    /\ Types!Init
    /\ Paths!Init

\* Only CreateSyncJob is called, up to three times.
CreatesOnly ==
    /\ \A c \in JobCallers : jobAt'[c].pc \in {"idle", "tx", "find"}
    /\ jobCalls' <= 3 /\ UNCHANGED cursor

\* Only the orchestrator is called, for one connection that stays active.
OrchestratesOnly ==
    /\ \A c \in JobCallers :
          jobAt'[c].op # "create" /\ jobAt'[c].rec.connection # n2
    /\ UNCHANGED active

JobStep ==
    /\ JobNext
    /\ \/ part = "create" /\ CreatesOnly
       \/ part = "jobs" /\ OrchestratesOnly

ComposedNext ==
    \/ /\ part = "cursor" /\ Next
       /\ UNCHANGED <<part, jobVars, runVars, conflictVars, bindingVars,
                      mappingVars, mtVars, mpVars>>
    \/ /\ JobStep
       /\ UNCHANGED <<part, vars, runVars, conflictVars, bindingVars,
                      mappingVars, mtVars, mpVars>>
    \/ /\ part = "runs" /\ RunNext
       /\ UNCHANGED <<part, vars, jobVars, conflictVars, bindingVars,
                      mappingVars, mtVars, mpVars>>
    \/ /\ part = "conflicts" /\ ConflictNext
       /\ UNCHANGED <<part, vars, jobVars, runVars, bindingVars, mappingVars,
                      mtVars, mpVars>>
    \/ /\ part = "identity" /\ BindingNext
       /\ UNCHANGED <<part, vars, jobVars, runVars, conflictVars, mappingVars,
                      mtVars, mpVars>>
    \/ /\ part = "specs" /\ MappingNext
       /\ UNCHANGED <<part, vars, jobVars, runVars, conflictVars, bindingVars,
                      mtVars, mpVars>>
    \/ /\ part = "types" /\ Types!Next
       /\ UNCHANGED <<part, vars, jobVars, runVars, conflictVars, bindingVars,
                      mappingVars, mpVars>>
    \/ /\ part = "paths" /\ Paths!Next
       /\ UNCHANGED <<part, vars, jobVars, runVars, conflictVars, bindingVars,
                      mappingVars, mtVars>>

ComposedSpec == ComposedInit /\ [][ComposedNext]_allVars

-----------------------------------------------------------------------------
(* Properties. *)


=============================================================================
