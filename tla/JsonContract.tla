------------------------------ MODULE JsonContract ------------------------------
(***************************************************************************)
(* The subset of JSON Schema the Python tools check documents against      *)
(* (tool/plan_compiler.py).  A value carries its type; a schema is a       *)
(* function of the keywords it has.  The result is the set of keywords     *)
(* that some part of the value violates.                                   *)
(***************************************************************************)
EXTENDS Integers, FiniteSets, Sequences

Has(s, keyword) == keyword \in DOMAIN s

\* _matches_type: an integer is a number too, a boolean is neither.
MatchesType(v, types) == v.t \in types \/ (v.t = "integer" /\ "number" \in types)

RECURSIVE SchemaIssues(_, _)

ObjectIssues(v, s) ==
    LET properties == IF Has(s, "properties") THEN s.properties ELSE [p \in {} |-> {}]
        issuesOf(p) ==
            IF p \in DOMAIN properties THEN SchemaIssues(v.members[p], properties[p])
            ELSE IF ~Has(s, "additionalProperties") THEN {}
            ELSE IF s.additionalProperties = {} THEN {"additionalProperties"}
            ELSE UNION {SchemaIssues(v.members[p], a) : a \in s.additionalProperties}
    IN UNION {issuesOf(p) : p \in DOMAIN v.members}
       \cup IF Has(s, "required") /\ ~(s.required \subseteq DOMAIN v.members)
            THEN {"required"} ELSE {}

ArrayIssues(v, s) ==
    {k \in {"minItems", "maxItems", "uniqueItems"} : Has(s, k) /\
        CASE k = "minItems" -> Len(v.items) < s[k]
          [] k = "maxItems" -> Len(v.items) > s[k]
          [] k = "uniqueItems" ->
                s[k] /\ Cardinality({v.items[i] : i \in DOMAIN v.items}) < Len(v.items)}
    \cup IF Has(s, "items") THEN UNION {SchemaIssues(v.items[i], s.items) : i \in DOMAIN v.items}
         ELSE {}

\* Patterns and formats are named; a string knows which of them it matches.
StringIssues(v, s) ==
    {k \in {"minLength", "maxLength", "pattern", "format"} : Has(s, k) /\
        CASE k = "minLength" -> v.length < s[k]
          [] k = "maxLength" -> v.length > s[k]
          [] OTHER -> s[k] \notin v.matches}

NumberIssues(v, s) ==
    {k \in {"minimum", "maximum", "exclusiveMinimum", "exclusiveMaximum"} : Has(s, k) /\
        CASE k = "minimum" -> v.n < s[k]
          [] k = "maximum" -> v.n > s[k]
          [] k = "exclusiveMinimum" -> v.n <= s[k]
          [] k = "exclusiveMaximum" -> v.n >= s[k]}

BranchIssues(v, s) ==
    {k \in {"allOf", "anyOf", "oneOf"} : Has(s, k) /\ s[k] # <<>> /\
        LET passing == Cardinality({i \in DOMAIN s[k] : SchemaIssues(v, s[k][i]) = {}}) IN
        ~CASE k = "allOf" -> passing = Len(s[k])
           [] k = "oneOf" -> passing = 1
           [] k = "anyOf" -> passing >= 1}

\* _validate_value: a wrong constant, a value that is not listed or a wrong type ends
\* the check of that value.
SchemaIssues(v, s) ==
    IF Has(s, "const") /\ v # s["const"] THEN {"const"}
    ELSE IF Has(s, "enum") /\ v \notin s["enum"] THEN {"enum"}
    ELSE IF Has(s, "type") /\ ~MatchesType(v, s["type"]) THEN {"type"}
    ELSE BranchIssues(v, s) \cup
         CASE v.t = "object" -> ObjectIssues(v, s)
           [] v.t = "array" -> ArrayIssues(v, s)
           [] v.t = "string" -> StringIssues(v, s)
           [] v.t \in {"integer", "number"} -> NumberIssues(v, s)
           [] OTHER -> {}
=============================================================================
