-------------------------- MODULE MappingCompiler --------------------------
(***************************************************************************)
(* CompileMappingSpec, PreviewMappingSpec and applyMappingTransform        *)
(* (core/mapping_compiler.go, core/mapping_previewer.go,                   *)
(* core/mapping_transforms.go): a spec is compiled against a schema and    *)
(* its compiled rules are applied to a sample.                             *)
(*                                                                         *)
(* A path is the sequence of its parts and a part is a number, so that     *)
(* paths are ordered.  A value is a kind, which tells apart what the       *)
(* conversions accept, and the transforms it went through.  Samples are    *)
(* sets of scalar leaves; the wording of issues is left out.  The ID of a  *)
(* rule is a number, 0 a blank one; IDs need not be unique.                *)
(***************************************************************************)
EXTENDS Integers, Sequences, FiniteSets, SequencesExt

CONSTANTS
    Schemas,        \* [path -> [type, required]] of the source object
    RuleSets,       \* the rules of a spec, a sequence of MappingRule
    Samples,        \* [path -> kind] of the leaves
    Flags           \* subsets of {"schema", "drift", "object"}: what is wrong

VARIABLES
    req,            \* the request, or <<>>
    out,            \* its preview, or <<>>
    again           \* history: the preview of the same rules listed in reverse

vars == <<req, out, again>>

Transforms == {"identity", "to_string", "to_int", "to_float", "to_bool", "trim",
               "lowercase", "uppercase", "unix_time_to_rfc3339"}

canonicalFieldType(t) ==
    CASE t \in {"int", "integer"} -> "integer"
      [] t \in {"float", "double", "decimal", "number"} -> "number"
      [] t \in {"bool", "boolean"} -> "boolean"
      [] t \in {"str", "string", "text"} -> "string"
      [] t \in {"timestamp", "datetime", "date_time"} -> "datetime"
      [] OTHER -> t

isMappingTypeCompatible(source, target, transform) ==
    \/ target = "" \/ source = ""
    \/ CASE transform = "identity"  -> source = target
         [] transform = "to_string" -> target = "string"
         [] transform = "to_int" ->
              target = "integer" /\ source \in {"string", "integer", "number", "boolean"}
         [] transform = "to_float" -> target = "number" /\ source \in {"string", "integer", "number"}
         [] transform = "to_bool" ->
              target = "boolean" /\ source \in {"string", "integer", "boolean"}
         [] transform \in {"trim", "lowercase", "uppercase"} -> source = "string" /\ target = "string"
         [] transform = "unix_time_to_rfc3339" ->
              target = "string" /\ source \in {"integer", "number", "string"}
         [] OTHER -> FALSE

-----------------------------------------------------------------------------
\* Paths in the order of the strings they are joined to.
PathLess(p, q) ==
    \E i \in 1..Len(q) : /\ i - 1 <= Len(p) /\ SubSeq(p, 1, i - 1) = SubSeq(q, 1, i - 1)
                         /\ i > Len(p) \/ p[i] < q[i]

\* The order of the compiled rules: by target, source and ID.
RuleLess(a, b) ==
    IF a.target # b.target THEN PathLess(a.target, b.target)
    ELSE IF a.source # b.source THEN PathLess(a.source, b.source) ELSE a.id < b.id

Error(code, rule) == [code |-> code, rule |-> rule, severity |-> "error"]
Warning(code, rule) == [Error(code, rule) EXCEPT !.severity = "warning"]
When(cond, issue) == IF cond THEN <<issue>> ELSE <<>>

\* The issues of rule i of the spec.
RuleIssues(fields, rules, i) ==
    LET r == rules[i]
        found == r.source \in DOMAIN fields
    IN  When(~found, Error("source_field_not_found", r.id))
        \o When(r.transform \notin Transforms, Error("transform_unknown", r.id))
        \o When(/\ found /\ r.transform \in Transforms /\ r.type # ""
                /\ ~isMappingTypeCompatible(canonicalFieldType(fields[r.source].type),
                                            canonicalFieldType(r.type), r.transform),
                Error("type_incompatible", r.id))
        \o When(r.target # <<>> /\ \E j \in 1..(i - 1) : rules[j].target = r.target,
                Error("target_path_duplicate", r.id))

CompiledRule(fields, r) ==
    [id |-> r.id, source |-> r.source, target |-> r.target, transform |-> r.transform,
     sourceType |-> IF r.source \in DOMAIN fields THEN canonicalFieldType(fields[r.source].type)
                    ELSE "",
     targetType |-> canonicalFieldType(r.type)]


\* The compiled rules, sorted; the sort is stable, so rules that neither target,
\* source nor ID tells apart stay as listed.
CompiledRules(fields, rules) ==
    LET before(i) == {j \in DOMAIN rules : \/ RuleLess(rules[j], rules[i])
                                           \/ j <= i /\ ~RuleLess(rules[i], rules[j])}
        at(n) == CHOOSE i \in DOMAIN rules : Cardinality(before(i)) = n
    IN  [n \in DOMAIN rules |-> CompiledRule(fields, rules[at(n)])]

CompileMappingSpec(fields, rules, wrong) ==
    LET head == When("schema" \in wrong, Error("invalid_schema", 0))
                \o When(\E i \in DOMAIN rules : <<>> \in {rules[i].source, rules[i].target},
                        Error("invalid_spec", 0))
                \o When("drift" \in wrong, Warning("schema_drift_detected", 0))
        unmapped == {p \in DOMAIN fields : /\ fields[p].required
                                           /\ \A i \in DOMAIN rules : rules[i].source # p}
    IN  IF "object" \in wrong
        THEN [rules |-> <<>>, issues |-> head \o <<Error("source_object_not_found", 0)>>]
        ELSE [rules |-> CompiledRules(fields, rules),
              issues |-> head
                         \o FlattenSeq([i \in DOMAIN rules |-> RuleIssues(fields, rules, i)])
                         \o [n \in 1..Cardinality(unmapped) |-> Error("required_field_unmapped", 0)]]

containsMappingErrors(issues) == \E i \in DOMAIN issues : issues[i].severity = "error"

-----------------------------------------------------------------------------
\* The kinds of value: "whole" and "fraction" are numbers, "numeral" ("41"),
\* "decimal" ("4.5"), "one" ("1"), "yes" and "word" are strings.
Strings == {"numeral", "decimal", "one", "yes", "word"}
toIntValue == {"whole", "fraction", "bool", "numeral", "one"}
toFloatValue == toIntValue \cup {"decimal"}
toBoolValue == {"whole", "fraction", "bool", "one", "yes"}

Applies(transform, kind) ==
    CASE transform \in {"identity", "to_string"} -> TRUE
      [] transform \in {"to_int", "unix_time_to_rfc3339"} -> kind \in toIntValue
      [] transform = "to_float" -> kind \in toFloatValue
      [] transform = "to_bool" -> kind \in toBoolValue
      [] transform \in {"trim", "lowercase", "uppercase"} -> kind \in Strings
      [] OTHER -> FALSE

applyMappingTransform(transform, kind) ==
    [of |-> kind, by |-> transform,
     type |-> CASE transform = "to_int" -> "integer"
                [] transform = "to_float" -> "number"
                [] transform = "to_bool" -> "boolean"
                [] transform # "identity" \/ kind \in Strings -> "string"
                [] kind = "whole" -> "integer"
                [] kind = "fraction" -> "number"
                [] kind = "bool" -> "boolean"]

\* Setting a path keeps the other leaves below the maps it goes through, and
\* replaces the scalar it would go through and whatever it ends at.
setPathValue(output, path, value) ==
    IF path = <<>> THEN output
    ELSE {leaf \in output : ~IsPrefix(leaf.path, path) /\ ~IsPrefix(path, leaf.path)}
         \cup {[path |-> path, value |-> value]}

\* One compiled rule applied to the sample.
ApplyRule(sample, rule, rec) ==
    IF rule.source \notin DOMAIN sample
    THEN [rec EXCEPT !.issues = Append(@, Warning("preview_source_missing", rule.id))]
    ELSE IF ~Applies(rule.transform, sample[rule.source])
    THEN [rec EXCEPT !.issues = Append(@, Error("preview_transform_failed", rule.id))]
    ELSE LET value == applyMappingTransform(rule.transform, sample[rule.source]) IN
         [rec EXCEPT !.output = setPathValue(@, rule.target, value),
                     !.diffs = Append(@, [id |-> rule.id, target |-> rule.target, value |-> value])]

Preview(fields, rules, sample, wrong) ==
    LET compiled == CompileMappingSpec(fields, rules, wrong)
        record == FoldLeft(LAMBDA rec, rule : ApplyRule(sample, rule, rec),
                           [output |-> {}, diffs |-> <<>>, issues |-> <<>>], compiled.rules)
    IN  [valid |-> ~containsMappingErrors(compiled.issues), compiled |-> compiled.rules,
         record |-> record, issueCount |-> Len(compiled.issues) + Len(record.issues),
         applied |-> Len(record.diffs)]

-----------------------------------------------------------------------------
Init == req = <<>> /\ out = <<>> /\ again = <<>>

Request(fields, rules, sample, wrong) ==
    /\ req = <<>>
    /\ req' = [fields |-> fields, rules |-> rules, sample |-> sample, wrong |-> wrong]
    /\ UNCHANGED <<out, again>>

PreviewMappingSpec ==
    /\ req # <<>> /\ out = <<>>
    /\ out' = Preview(req.fields, req.rules, req.sample, req.wrong)
    /\ again' = Preview(req.fields, Reverse(req.rules), req.sample, req.wrong)
    /\ UNCHANGED req

Done == out # <<>> /\ req' = <<>> /\ out' = <<>> /\ again' = <<>>

Next ==
    \/ \E fields \in Schemas, rules \in RuleSets, sample \in Samples, wrong \in Flags :
          Request(fields, rules, sample, wrong)
    \/ PreviewMappingSpec
    \/ Done

Spec == Init /\ [][Next]_vars

-----------------------------------------------------------------------------
\* The kinds a value of a field of this type has.
Conforming(type) ==
    CASE type = "integer" -> {"whole"} [] type = "number" -> {"whole", "fraction"}
      [] type = "boolean" -> {"bool"} [] OTHER -> Strings

\* A whole number is a number too.
HasType(value, type) ==
    value.type = type \/ (type = "number" /\ value.type = "integer") \/ type = "datetime"

\* For a spec the compiler found valid, a sample that conforms to the schema is
\* converted to values of the target types, and only a string can fail to
\* convert: the compiler's table of types agrees with what the transforms do.
ValidConverts ==
    out # <<>> => (out.valid =>
        \A i \in DOMAIN out.compiled :
            LET r == out.compiled[i] IN
            (/\ r.sourceType # "" /\ r.targetType # "" /\ r.source \in DOMAIN req.sample
             /\ req.sample[r.source] \in Conforming(r.sourceType)) =>
                \/ \E j \in DOMAIN out.record.diffs :
                      /\ out.record.diffs[j].target = r.target
                      /\ HasType(out.record.diffs[j].value, r.targetType)
                \/ req.sample[r.source] \in Strings)

\* What the sort compares, and whether it leaves two different rules in the order
\* they are listed in.
SortKey(r) == <<r.target, r.source, r.id>>
Tied(rules) ==
    \E i, j \in DOMAIN rules : rules[i] # rules[j] /\ SortKey(rules[i]) = SortKey(rules[j])

\* Whether a spec is valid, how many issues it has and what its compiled rules
\* are sorted by do not depend on the order the rules are listed in.  Nor do, for
\* a valid spec, the compiled rules, and so the deterministic hash, and the output
\* of a preview; for an invalid one, also when two rules write the same path,
\* unless different rules tie in target, source and ID.
RuleOrderIrrelevant ==
    out # <<>> =>
        /\ out.valid = again.valid /\ out.issueCount = again.issueCount
        /\ \A n \in DOMAIN out.compiled : SortKey(out.compiled[n]) = SortKey(again.compiled[n])
        /\ out.valid \/ ~Tied(req.rules) =>
              out.compiled = again.compiled /\ out.record.output = again.record.output

\* What a preview reports a rule to have written is in the output, when no
\* target path goes through another.
ReportedIsWritten ==
    out # <<>> => \A i \in DOMAIN out.record.diffs :
        (\A k \in DOMAIN out.record.diffs : k # i =>
            /\ ~IsPrefix(out.record.diffs[k].target, out.record.diffs[i].target)
            /\ ~IsPrefix(out.record.diffs[i].target, out.record.diffs[k].target)) =>
        (out.record.diffs[i].target # <<>> =>
            out.record.diffs[i].value
                \in {l.value : l \in {m \in out.record.output : m.path = out.record.diffs[i].target}})

=============================================================================
