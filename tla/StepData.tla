------------------------------ MODULE StepData ------------------------------
(***************************************************************************)
(* What the worker computes from a step's config and the payload context:  *)
(* paths, filters, templates, and validation against the input schema of   *)
(* an action.  A JavaScript value is kept as what these functions ask of   *)
(* it: its type, String(value), Number(value).                             *)
(***************************************************************************)
EXTENDS Integers, FiniteSets, TLC

CONSTANTS
    NumSteps,        \* number of steps of the zap: their outputs are step_1 ..
    Keys,       \* names of fields in payloads and outputs, dots included
    Fields,     \* names of fields in the config of an action
    Includes    \* pairs of texts, the first of which includes the second

(***************************************************************************)
(* Values.  num is Number(value), {} for NaN.  parts is what a template    *)
(* with text around its tokens has put into them; texts are never taken    *)
(* apart, so such a value is the text and the parts.                       *)
(***************************************************************************)
Types == {"undefined", "null", "string", "number", "boolean", "object"}

Plain(type, text, num) ==
    [type |-> type, text |-> text, num |-> num, parts |-> {}]

Undef   == Plain("undefined", "undefined", {})
Null    == Plain("null", "null", {0})
Str(t)  == Plain("string", t, {})
Empty   == Plain("string", "", {0})
Num(n)  == Plain("number", ToString(n), {n})
Digits(n) == Plain("string", ToString(n), {n})
Bool(b) == Plain("boolean", ToString(b), {IF b THEN 1 ELSE 0})
Obj     == Plain("object", "[object Object]", {})

Truthy(v) ==
    \/ v.type = "string" /\ (v.text # "" \/ v.parts # {})
    \/ v.type = "number" /\ v.num \notin {{}, {0}}
    \/ v.type = "boolean" /\ v.num = {1}
    \/ v.type = "object"

(***************************************************************************)
(* Contexts.  <<0, k>> is the field k of the webhook payload, <<n, k>> the *)
(* field k of step_n.  A context gives every path its value, Undef where   *)
(* an object on the way is missing.                                        *)
(***************************************************************************)
Paths == (0 .. NumSteps) \X Keys

ResolvePath(context, path) ==
    [value |-> context[path], found |-> context[path] # Undef]

(***************************************************************************)
(* filter-evaluator.ts                                                     *)
(***************************************************************************)
Operators == {"eq", "neq", "contains", "gt", "lt", "gte", "lte", "exists"}

Contains(a, b) ==
    /\ a.type = "string" /\ b.type = "string"
    /\ <<a.text, b.text>> \in Includes

Compare(operator, x, y) ==
    \/ operator = "gt"  /\ x > y
    \/ operator = "lt"  /\ x < y
    \/ operator = "gte" /\ x >= y
    \/ operator = "lte" /\ x <= y

EvaluateCondition(c, context) ==
    LET actual == ResolvePath(context, c.field).value
    IN  CASE c.operator = "eq"       -> actual.text = c.value.text
          [] c.operator = "neq"      -> actual.text # c.value.text
          [] c.operator = "contains" -> Contains(actual, c.value)
          [] c.operator = "exists"   -> actual.type \notin {"undefined", "null"}
          [] OTHER -> \E x \in actual.num, y \in c.value.num :
                          Compare(c.operator, x, y)

(* Mutant of Evaluate: conditions on a missing field are left out.         *)
EvaluateSkipsMissing(filter, context) ==
    LET present == {c \in filter.conditions :
                        ResolvePath(context, c.field).found}
    IN  IF filter.logic = "AND"
        THEN \A c \in present : EvaluateCondition(c, context)
        ELSE present = {} \/ \E c \in present : EvaluateCondition(c, context)

Evaluate(filter, context) ==
    \/ filter.conditions = {}
    \/ /\ filter.logic = "AND"
       /\ \A c \in filter.conditions : EvaluateCondition(c, context)
    \/ /\ filter.logic # "AND"
       /\ \E c \in filter.conditions : EvaluateCondition(c, context)

(***************************************************************************)
(* template-substitution.ts.  A template is a literal that is not a string *)
(* or has no token, a single token, or a text with tokens in it.           *)
(***************************************************************************)
Literal(v)     == [kind |-> "literal", value |-> v, paths |-> {}]
Token(path)    == [kind |-> "token", value |-> Undef, paths |-> {path}]
Mixed(t, refs) == [kind |-> "mixed", value |-> Str(t), paths |-> refs]

Parts(paths, context) == {<<p, ResolvePath(context, p).value.text>> : p \in paths}

SubstituteValue(t, context) ==
    LET found == \A p \in t.paths : ResolvePath(context, p).found
    IN  [resolved |-> found,
         value |->
            CASE t.kind = "literal" -> t.value
              [] t.kind = "token" ->
                    IF found THEN context[CHOOSE p \in t.paths : TRUE]
                             ELSE Null
              [] t.kind = "mixed" ->
                    [t.value EXCEPT !.parts = Parts(t.paths, context)]]

(* apply.  A field that the config does not have is undefined.             *)
Substituted(config, context) ==
    [f \in DOMAIN config |-> SubstituteValue(config[f], context)]

Apply(config, context) ==
    LET result == Substituted(config, context)
        failed == {f \in DOMAIN config : ~result[f].resolved}
    IN  [mappedPayload |->
            [f \in Fields |-> IF f \notin DOMAIN config THEN Undef
                              ELSE IF f \in failed THEN Null
                              ELSE result[f].value],
         unresolvedFields |-> failed]

(***************************************************************************)
(* payload-validator.ts.  A schema has the required fields and one type    *)
(* for each property; ajv coerces a value of another type in place, or     *)
(* fails.                                                                  *)
(***************************************************************************)
(* Mutant of Relax: only the list of required fields is relaxed.           *)
RelaxRequired(schema, unresolved) ==
    [required |-> schema.required \ unresolved,
     types    |-> [f \in DOMAIN schema.types |-> {schema.types[f]}]]

Relax(schema, unresolved) ==
    [required |-> schema.required \ unresolved,
     types    |-> [f \in DOMAIN schema.types |->
                     {schema.types[f]} \cup
                     (IF f \in unresolved THEN {"null"} ELSE {})]]

(* Ajv's option coerceTypes, for the types that occur: the set of the      *)
(* value that v becomes, empty when it cannot be coerced.                  *)
CoerceTo(v, type) ==
    CASE type = "string" /\ v.type = "null"                -> {Empty}
      [] type = "string" /\ v.type \in {"number", "boolean"} ->
            {[v EXCEPT !.type = "string"]}
      [] type = "number" /\ v.type \in {"null", "boolean"}   ->
            {Plain("number", ToString(n), {n}) : n \in v.num}
      [] type = "number" /\ v.type = "string" /\ Truthy(v)   ->
            {[v EXCEPT !.type = "number"] : n \in v.num}
      [] OTHER                                             -> {}

Coerced(v, types) ==
    IF v = Undef \/ v.type \in types THEN {v}
    ELSE UNION {CoerceTo(v, type) : type \in types}

FieldValues(f, mapped, relaxed) ==
    IF f \in DOMAIN relaxed.types THEN Coerced(mapped[f], relaxed.types[f])
                                  ELSE {mapped[f]}

ValidateMappedPayload(mapped, schema, unresolved) ==
    LET relaxed == Relax(schema, unresolved)
    IN  [success |->
            /\ \A f \in relaxed.required : mapped[f] # Undef
            /\ \A f \in Fields : FieldValues(f, mapped, relaxed) # {},
         payload |->
            [f \in Fields |-> IF FieldValues(f, mapped, relaxed) = {}
                              THEN mapped[f]
                              ELSE CHOOSE v \in FieldValues(f, mapped, relaxed) : TRUE]]
=============================================================================
