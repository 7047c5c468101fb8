-------------------------- MODULE StepContextProofs --------------------------
(***************************************************************************)
(* What a restart can do to the data of a run: theorems for every zap,     *)
(* payload, response and number of steps.  All of them rest on one fact:   *)
(* the context is part of the context of a run without a restart.          *)
(***************************************************************************)
EXTENDS StepContext, TLAPS

LEMMA UndefIsValue == Undef \in Value
  <1>1. {} \in SUBSET Int /\ {} \in SUBSET (Paths \X Texts)
    OBVIOUS
  <1>2. "undefined" \in Types /\ "undefined" \in Texts
    BY ContextAssumption DEF Types
  <1>3. Undef = [type |-> "undefined", text |-> "undefined", num |-> {},
                 parts |-> {}]
    BY DEF Undef, Plain
  <1> HIDE DEF Types, Paths
  <1>4. Undef \in [type : Types, text : Texts, num : SUBSET Int,
                  parts : SUBSET (Paths \X Texts)]
    BY <1>1, <1>2, <1>3, Zenon
  <1>5. Undef.type \notin {"number", "boolean"}
    BY <1>3
  <1> QED  BY <1>4, <1>5 DEF Value

LEMMA PathsAreFields ==
  ASSUME NEW p \in Paths
  PROVE  p[1] \in 0 .. NumSteps /\ p[2] \in Keys
  BY DEF Paths

(* Complete stores an output in the same place of the context and of the   *)
(* table, and changes nothing else.                                        *)
LEMMA CompleteTypes ==
  ASSUME TypeOK, position < NumSteps, NEW fields \in [Keys -> Value],
         Complete(fields)
  PROVE  /\ output' \in [1 .. NumSteps -> [Keys -> Value]]
         /\ position' \in 0 .. NumSteps
         /\ context' \in [Paths -> Value]
         /\ status' \in Statuses
  <1> USE ContextAssumption
  <1>1. context' \in [Paths -> Value]
    <2>1. \A p \in Paths : (IF p[1] = position + 1 THEN fields[p[2]]
                            ELSE context[p]) \in Value
      BY PathsAreFields DEF TypeOK
    <2> QED  BY <2>1 DEF Complete, With
  <1>2. output' \in [1 .. NumSteps -> [Keys -> Value]]
    BY DEF Complete, TypeOK
  <1>3. position' \in 0 .. NumSteps
    BY DEF Complete, TypeOK
  <1> QED  BY <1>1, <1>2, <1>3 DEF Complete, TypeOK

LEMMA StartTypes ==
  ASSUME payload \in Payloads
  PROVE  Start \in [Paths -> Value]
  <1>1. \A p \in Paths :
            (IF p[1] = 0 THEN payload[p[2]] ELSE Undef) \in Value
    BY ContextAssumption, PathsAreFields, UndefIsValue
  <1> QED  BY <1>1 DEF Start

LEMMA InitTypes == Init => TypeOK
  <1> SUFFICES ASSUME Init PROVE TypeOK
    OBVIOUS
  <1>1. Blank \in [Keys -> Value]
    BY UndefIsValue DEF Blank
  <1>2. output \in [1 .. NumSteps -> [Keys -> Value]]
    BY <1>1 DEF Init
  <1>3. context \in [Paths -> Value]
    BY StartTypes DEF Init
  <1>4. 0 \in 0 .. NumSteps
    BY ContextAssumption
  <1> QED  BY <1>2, <1>3, <1>4 DEF Init, TypeOK, Statuses

(* What a step of the executor does to the data: it completes a step with  *)
(* the payload or with what an adapter makes of a response, or it does not *)
(* touch outputs and context.                                              *)
LEMMA StepKinds ==
  ASSUME TypeOK, Step
  PROVE  /\ UNCHANGED <<zap, payload, resumed>>
         /\ status = "in_progress"
         /\ \/ /\ position < NumSteps
               /\ \E fields \in [Keys -> Value] : Complete(fields)
            \/ /\ UNCHANGED <<output, context>>
               /\ position' \in 0 .. NumSteps
               /\ status' \in Statuses
  <1> USE ContextAssumption
  <1>1. CASE FireTrigger
    BY <1>1 DEF FireTrigger, At, TypeOK, Step
  <1>2. CASE EvaluateFilter
    BY <1>2 DEF EvaluateFilter, At, End, TypeOK, Statuses, Step
  <1>3. CASE RunAction
    <2>1. status = "in_progress" /\ position < NumSteps /\ position \in Positions
      BY <1>3 DEF RunAction, At, TypeOK, Positions
    <2>2. zap[position].action \in AvailableActions
      BY <1>3, <2>1 DEF RunAction, At, TypeOK, IsStep
    <2>3. CASE End("failed") \/ End("thrown")
      BY <2>1, <2>3 DEF End, TypeOK, Statuses, Step
    <2>4. CASE \E r \in Responses :
                  Complete(ParseResponse(zap[position].action, r).output)
      BY <2>1, <2>2, <2>4 DEF Step
    <2> QED  BY <1>3, <2>3, <2>4 DEF RunAction
  <1>4. CASE MarkCompleted
    BY <1>4 DEF MarkCompleted, End, TypeOK, Statuses, Step
  <1> QED  BY <1>1, <1>2, <1>3, <1>4 DEF Step

LEMMA NextTypes == TypeOK /\ [Next]_vars => TypeOK'
  <1> SUFFICES ASSUME TypeOK, [Next]_vars PROVE TypeOK'
    OBVIOUS
  <1>1. CASE Step
    BY <1>1, StepKinds, CompleteTypes DEF TypeOK
  <1>2. CASE Restart
    BY <1>2, StartTypes DEF Restart, TypeOK
  <1>3. CASE UNCHANGED vars
    BY <1>3 DEF vars, TypeOK
  <1> QED  BY <1>1, <1>2, <1>3 DEF Next

(* TypeOK for every instance: contexts and outputs hold values only.       *)
THEOREM TypeCorrect == Spec => []TypeOK
  BY InitTypes, NextTypes, PTL DEF Spec

(***************************************************************************)
(* The context.                                                            *)
(***************************************************************************)
ContextInv == TypeOK /\ UninterruptedContextIsWhole /\ ContextIsPartOfWhole

LEMMA WholeOf ==
  ASSUME NEW p \in Paths
  PROVE  Whole[p] = IF p[1] = 0 THEN payload[p[2]] ELSE output[p[1]][p[2]]
  BY DEF Whole

LEMMA InitContext == Init => ContextInv
  <1> SUFFICES ASSUME Init PROVE ContextInv
    OBVIOUS
  <1>1. \A p \in Paths : p[1] # 0 => output[p[1]][p[2]] = Undef
    BY PathsAreFields, ContextAssumption DEF Init, Blank
  <1>2. context = Whole
    BY <1>1 DEF Init, Start, Whole
  <1>3. ContextIsPartOfWhole
    BY <1>2 DEF ContextIsPartOfWhole
  <1> QED  BY <1>2, <1>3, InitTypes DEF ContextInv, UninterruptedContextIsWhole

(* Completing a step keeps what the context and the whole have in common.  *)
LEMMA CompleteContext ==
  ASSUME TypeOK, position < NumSteps, NEW fields \in [Keys -> Value],
         Complete(fields), UNCHANGED payload, NEW p \in Paths
  PROVE  IF p[1] = position + 1
         THEN context'[p] = Whole'[p]
         ELSE context'[p] = context[p] /\ Whole'[p] = Whole[p]
  <1> USE ContextAssumption
  <1>1. p[1] \in 0 .. NumSteps /\ p[2] \in Keys /\ position + 1 \in 1 .. NumSteps
    BY PathsAreFields DEF TypeOK
  <1>2. context'[p] = IF p[1] = position + 1 THEN fields[p[2]] ELSE context[p]
    BY DEF Complete, With
  <1>3. Whole'[p] = IF p[1] = 0 THEN payload[p[2]] ELSE output'[p[1]][p[2]]
    BY DEF Whole
  <1>4. output' = [output EXCEPT ![position + 1] = fields]
    BY DEF Complete
  <1> QED  BY <1>1, <1>2, <1>3, <1>4, WholeOf DEF TypeOK

LEMMA NextContext == ContextInv /\ [Next]_vars => ContextInv'
  <1> SUFFICES ASSUME ContextInv, [Next]_vars PROVE ContextInv'
    OBVIOUS
  <1> USE DEF ContextInv
  <1>t. TypeOK /\ TypeOK'
    BY NextTypes
  <1>d. context' \in [Paths -> Value] /\ context \in [Paths -> Value]
    BY <1>t DEF TypeOK
  <1>w. DOMAIN Whole = Paths /\ DOMAIN Whole' = Paths
        /\ Whole = [p \in Paths |-> Whole[p]]
        /\ Whole' = [p \in Paths |-> Whole'[p]]
    BY DEF Whole
  <1>1. CASE Step
    <2>1. UNCHANGED <<payload, resumed>>
      BY <1>1, StepKinds
    <2>2. CASE UNCHANGED <<output, context>>
      BY <1>t, <2>1, <2>2
         DEF Whole, UninterruptedContextIsWhole, ContextIsPartOfWhole
    <2>3. CASE position < NumSteps /\ \E fields \in [Keys -> Value] : Complete(fields)
      <3>1. \A p \in Paths : \/ context'[p] = Whole'[p]
                             \/ context'[p] = context[p] /\ Whole'[p] = Whole[p]
        BY <2>1, <2>3, <1>t, CompleteContext
      <3>2. ContextIsPartOfWhole'
        BY <3>1 DEF ContextIsPartOfWhole
      <3>3. UninterruptedContextIsWhole'
        <4> SUFFICES ASSUME ~resumed' PROVE context' = Whole'
          BY DEF UninterruptedContextIsWhole
        <4>1. context = Whole
          BY <2>1 DEF UninterruptedContextIsWhole
        <4>2. \A p \in Paths : context'[p] = Whole'[p]
          BY <3>1, <4>1
        <4> QED  BY <4>2, <1>d, <1>w
      <3> QED  BY <1>t, <3>2, <3>3
    <2> QED  BY <1>1, <1>t, <2>2, <2>3, StepKinds
  <1>2. CASE Restart
    <2>1. \A p \in Paths : context'[p] \in {Undef, Whole'[p]}
      <3> SUFFICES ASSUME NEW p \in Paths PROVE context'[p] \in {Undef, Whole'[p]}
        OBVIOUS
      <3>1. context'[p] = IF p[1] = 0 THEN payload[p[2]] ELSE Undef
        BY <1>2 DEF Restart, Start
      <3>2. Whole'[p] = IF p[1] = 0 THEN payload[p[2]] ELSE output[p[1]][p[2]]
        BY <1>2 DEF Restart, Whole
      <3> QED  BY <3>1, <3>2
    <2> QED  BY <1>2, <1>t, <2>1
             DEF Restart, ContextIsPartOfWhole, UninterruptedContextIsWhole
  <1>3. CASE UNCHANGED vars
    BY <1>3, <1>t DEF vars, Whole, UninterruptedContextIsWhole,
                      ContextIsPartOfWhole
  <1> QED  BY <1>1, <1>2, <1>3 DEF Next

LEMMA ContextInvariant == Spec => []ContextInv
  BY InitContext, NextContext, PTL DEF Spec

(* The context that resume builds is complete as long as nobody restarts,  *)
(* for any number of steps: step_n is the output of the step at n - 1.     *)
THEOREM UninterruptedIsWhole == Spec => []UninterruptedContextIsWhole
  <1>1. ContextInv => UninterruptedContextIsWhole
    BY DEF ContextInv
  <1> QED  BY <1>1, ContextInvariant, PTL

(* A restart may lose outputs; it changes none.                            *)
THEOREM PartOfWhole == Spec => []ContextIsPartOfWhole
  <1>1. ContextInv => ContextIsPartOfWhole
    BY DEF ContextInv
  <1> QED  BY <1>1, ContextInvariant, PTL

(***************************************************************************)
(* Filters.                                                                *)
(***************************************************************************)

(* Whatever is missing compares with nothing, contains nothing, and is not *)
(* equal to a text other than "undefined".                                 *)
LEMMA MissingFailsCondition ==
  ASSUME NEW c \in Condition, c.operator # "neq",
         c.operator = "eq" => c.value.text # "undefined",
         NEW ctx, ctx[c.field] = Undef
  PROVE  ~EvaluateCondition(c, ctx)
  <1>1. c.operator \in Operators
    BY DEF Condition
  <1>2. /\ Undef.type = "undefined" /\ Undef.text = "undefined"
        /\ Undef.num = {}
    BY DEF Undef, Plain
  <1>3. ResolvePath(ctx, c.field).value = Undef
    BY DEF ResolvePath
  <1> QED  BY <1>1, <1>2, <1>3 DEF EvaluateCondition, Contains, Operators

LEMMA SameValueSameCondition ==
  ASSUME NEW c, NEW ctx, NEW other, ctx[c.field] = other[c.field]
  PROVE  EvaluateCondition(c, ctx) = EvaluateCondition(c, other)
  <1>1. ResolvePath(ctx, c.field).value = ResolvePath(other, c.field).value
    BY DEF ResolvePath
  <1> QED  BY <1>1 DEF EvaluateCondition

LEMMA FilterConservative ==
  ASSUME ContextInv
  PROVE  ResumedFilterIsConservative
  <1> SUFFICES ASSUME At("filter"), Positive(zap[position].config),
                      Evaluate(zap[position].config, context)
               PROVE  Evaluate(zap[position].config, Whole)
    BY DEF ResumedFilterIsConservative
  <1> DEFINE filter == zap[position].config
  <1>1. filter.conditions \subseteq Condition
    <2>1. position \in Positions
      BY ContextAssumption DEF ContextInv, TypeOK, At, Positions
    <2>2. IsStep(zap[position])
      BY <2>1, ContextAssumption DEF ContextInv, TypeOK
    <2> QED  BY <2>2 DEF IsStep, At
  <1>2. ASSUME NEW c \in filter.conditions, EvaluateCondition(c, context)
        PROVE  EvaluateCondition(c, Whole)
    <2>1. c \in Condition /\ c.field \in Paths
      BY <1>1 DEF Condition
    <2>2. context[c.field] # Undef
      BY <1>2, <2>1, MissingFailsCondition DEF Positive
    <2>3. context[c.field] = Whole[c.field]
      BY <2>1, <2>2 DEF ContextInv, ContextIsPartOfWhole
    <2> QED  BY <1>2, <2>3, SameValueSameCondition
  <1> QED  BY <1>2 DEF Evaluate

(* ResumedFilterIsConservative for every zap and payload: a restart lets   *)
(* no run through a positive filter that would have stopped it.            *)
THEOREM FiltersStayShut == Spec => []ResumedFilterIsConservative
  BY FilterConservative, ContextInvariant, PTL

(***************************************************************************)
(* Requests.                                                               *)
(***************************************************************************)

(* A template that is resolved in a part of the context has the same value *)
(* in the whole of it.                                                     *)
LEMMA ResolvedIsSame ==
  ASSUME ContextIsPartOfWhole, NEW t \in Template,
         SubstituteValue(t, context).resolved
  PROVE  SubstituteValue(t, context) = SubstituteValue(t, Whole)
  <1>1. \A p \in t.paths : p \in Paths /\ context[p] # Undef
    BY DEF SubstituteValue, ResolvePath, Template
  <1>2. \A p \in t.paths : context[p] = Whole[p]
    BY <1>1 DEF ContextIsPartOfWhole
  <1>3. \A p \in t.paths : /\ ResolvePath(context, p).found
                          /\ ResolvePath(Whole, p).found
                          /\ ResolvePath(context, p).value = Whole[p]
                          /\ ResolvePath(Whole, p).value = Whole[p]
    BY <1>1, <1>2 DEF ResolvePath
  <1>4. Parts(t.paths, context) = Parts(t.paths, Whole)
    BY <1>3 DEF Parts
  <1>5. t.kind = "token" => \E p \in Paths : t.paths = {p}
    BY DEF Template
  <1>6. t.kind = "token" =>
          context[CHOOSE p \in t.paths : TRUE] = Whole[CHOOSE p \in t.paths : TRUE]
    BY <1>2, <1>5
  <1>7. t.kind \in {"literal", "token", "mixed"}
    BY DEF Template
  <1>8. (\A p \in t.paths : ResolvePath(context, p).found)
          /\ (\A p \in t.paths : ResolvePath(Whole, p).found)
    BY <1>3
  <1>9. CASE t.kind = "literal"
    BY <1>8, <1>9 DEF SubstituteValue
  <1>10. CASE t.kind = "token"
    <2> DEFINE q == CHOOSE p \in t.paths : TRUE
    <2>1. SubstituteValue(t, context) = [resolved |-> TRUE, value |-> context[q]]
      BY <1>8, <1>10 DEF SubstituteValue
    <2>2. SubstituteValue(t, Whole) = [resolved |-> TRUE, value |-> Whole[q]]
      BY <1>8, <1>10 DEF SubstituteValue
    <2> QED  BY <1>6, <1>10, <2>1, <2>2
  <1>11. CASE t.kind = "mixed"
    BY <1>4, <1>8, <1>11 DEF SubstituteValue
  <1> QED  BY <1>7, <1>9, <1>10, <1>11

(* The action step that is next, as the assumption on zaps has it.         *)
LEMMA ActionStep ==
  ASSUME ContextInv, At("action")
  PROVE  /\ zap[position].action \in AvailableActions
         /\ DOMAIN zap[position].config \subseteq Fields
         /\ \A f \in DOMAIN zap[position].config :
                zap[position].config[f] \in Template
  <1>1. position \in Positions
    BY ContextAssumption DEF ContextInv, TypeOK, At, Positions
  <1>2. IsStep(zap[position])
    BY <1>1, ContextAssumption DEF ContextInv, TypeOK
  <1> QED  BY <1>2 DEF IsStep, At

(* apply: a field is unresolved and null, or has the value of the whole.   *)
LEMMA ApplyPart ==
  ASSUME ContextIsPartOfWhole, NEW config, DOMAIN config \subseteq Fields,
         \A f \in DOMAIN config : config[f] \in Template,
         NEW f \in Fields
  PROVE  LET part  == Apply(config, context)
             whole == Apply(config, Whole)
         IN  \/ /\ f \in part.unresolvedFields
                /\ part.mappedPayload[f] = Null
             \/ /\ f \notin part.unresolvedFields
                /\ f \notin whole.unresolvedFields
                /\ part.mappedPayload[f] = whole.mappedPayload[f]
  <1>1. CASE f \notin DOMAIN config
    BY <1>1 DEF Apply, Substituted
  <1>2. CASE f \in DOMAIN config /\ ~SubstituteValue(config[f], context).resolved
    BY <1>2 DEF Apply, Substituted
  <1>3. CASE f \in DOMAIN config /\ SubstituteValue(config[f], context).resolved
    <2>1. SubstituteValue(config[f], context) = SubstituteValue(config[f], Whole)
      BY <1>3, ResolvedIsSame
    <2> QED  BY <1>3, <2>1 DEF Apply, Substituted
  <1> QED  BY <1>1, <1>2, <1>3

(* Validation sees the same types for a field that is resolved, and lets   *)
(* null through where it is not.                                           *)
LEMMA ValidatePart ==
  ASSUME NEW schema, NEW part, NEW whole, NEW lost, NEW missing, NEW f \in Fields,
         \/ f \in lost /\ part[f] = Null
         \/ f \notin lost /\ f \notin missing /\ part[f] = whole[f]
  PROVE  LET got   == FieldValues(f, part, Relax(schema, lost))
             meant == FieldValues(f, whole, Relax(schema, missing))
         IN  \/ f \in lost /\ got = {Null}
             \/ f \notin lost /\ got = meant
  <1>1. Null.type = "null"
    BY DEF Null, Plain
  <1>2. CASE f \notin lost
    BY <1>2 DEF FieldValues, Relax
  <1>3. CASE f \in lost /\ f \in DOMAIN schema.types
    <2>1. Relax(schema, lost).types[f] = {schema.types[f], "null"}
      BY <1>3 DEF Relax
    <2>2. f \in DOMAIN Relax(schema, lost).types
      BY <1>3 DEF Relax
    <2>3. Coerced(Null, {schema.types[f], "null"}) = {Null}
      BY <1>1 DEF Coerced
    <2> QED  BY <1>3, <2>1, <2>2, <2>3 DEF FieldValues
  <1>4. CASE f \in lost /\ f \notin DOMAIN schema.types
    <2>1. f \notin DOMAIN Relax(schema, lost).types
      BY <1>4 DEF Relax
    <2> QED  BY <1>4, <2>1 DEF FieldValues
  <1> QED  BY <1>2, <1>3, <1>4

(* Adapters copy field by field.                                           *)
LEMMA RequestPart ==
  ASSUME NEW action \in AvailableActions, NEW kind, NEW part, NEW whole,
         NEW f \in Fields, part[f] = whole[f] \/ part[f] = Null
  PROVE  LET got   == BuildRequest(action, part, kind).request
             meant == BuildRequest(action, whole, kind).request
         IN  got[f] = meant[f] \/ got[f] = Null \/ f = "description"
  <1>1. CASE action = SendMessage
    BY <1>1 DEF SendMessage, BuildRequest, SlackRequest, Request
  <1>2. CASE action = CreatePayment
    BY <1>2 DEF CreatePayment, BuildRequest, RazorpayRequest, Request
  <1>3. CASE action = CreateIssue
    BY <1>3 DEF CreateIssue, BuildRequest, GithubRequest, Request
  <1> QED  BY <1>1, <1>2, <1>3 DEF AvailableActions

LEMMA SameRequest ==
  ASSUME NEW action \in AvailableActions, NEW kind, NEW part, NEW whole,
         NEW f \in Fields, part[f] = whole[f]
  PROVE  BuildRequest(action, part, kind).request[f]
            = BuildRequest(action, whole, kind).request[f]
  <1>1. CASE action = SendMessage
    BY <1>1 DEF SendMessage, BuildRequest, SlackRequest, Request
  <1>2. CASE action = CreatePayment
    BY <1>2 DEF CreatePayment, BuildRequest, RazorpayRequest, Request
  <1>3. CASE action = CreateIssue
    BY <1>3 DEF CreateIssue, BuildRequest, GithubRequest, Request
  <1> QED  BY <1>1, <1>2, <1>3 DEF AvailableActions

(* The two preparations of the next action, field by field.                *)
LEMMA PayloadPart ==
  ASSUME ContextInv, At("action"), NEW s, s = zap[position], NEW f \in Fields
  PROVE  \/ /\ f \in Apply(s.config, context).unresolvedFields
            /\ Validated(s, context).payload[f] = Null
         \/ /\ f \notin Apply(s.config, context).unresolvedFields
            /\ Validated(s, context).payload[f] = Validated(s, Whole).payload[f]
  <1> DEFINE part  == Apply(s.config, context)
             whole == Apply(s.config, Whole)
             got   == FieldValues(f, part.mappedPayload,
                          Relax(s.action.inputSchema, part.unresolvedFields))
             meant == FieldValues(f, whole.mappedPayload,
                          Relax(s.action.inputSchema, whole.unresolvedFields))
  <1>1. \/ /\ f \in part.unresolvedFields
           /\ part.mappedPayload[f] = Null
        \/ /\ f \notin part.unresolvedFields
           /\ f \notin whole.unresolvedFields
           /\ part.mappedPayload[f] = whole.mappedPayload[f]
    BY ActionStep, ApplyPart DEF ContextInv
  <1> HIDE DEF part, whole
  <1>2. \/ f \in part.unresolvedFields /\ got = {Null}
        \/ f \notin part.unresolvedFields /\ got = meant
    BY <1>1, ValidatePart
  <1>3. Validated(s, context).payload[f]
          = IF got = {} THEN part.mappedPayload[f] ELSE CHOOSE v \in got : TRUE
    BY DEF Validated, ValidateMappedPayload, part
  <1>4. Validated(s, Whole).payload[f]
          = IF meant = {} THEN whole.mappedPayload[f] ELSE CHOOSE v \in meant : TRUE
    BY DEF Validated, ValidateMappedPayload, whole
  <1>5. (CHOOSE v \in {Null} : TRUE) = Null
    OBVIOUS
  <1> HIDE DEF got, meant
  <1>6. CASE f \in part.unresolvedFields
    BY <1>2, <1>3, <1>5, <1>6 DEF part
  <1>7. CASE f \notin part.unresolvedFields
    BY <1>1, <1>2, <1>3, <1>4, <1>7 DEF part
  <1> QED  BY <1>6, <1>7

(* What is valid in the whole context is valid in a part of it.            *)
LEMMA PartIsValid ==
  ASSUME ContextInv, At("action"), NEW s, s = zap[position],
         Validated(s, Whole).success
  PROVE  Validated(s, context).success
  <1> DEFINE part  == Apply(s.config, context)
             whole == Apply(s.config, Whole)
             lost  == Relax(s.action.inputSchema, part.unresolvedFields)
             missing == Relax(s.action.inputSchema, whole.unresolvedFields)
  <1>1. \A f \in Fields :
          \/ /\ f \in part.unresolvedFields
             /\ part.mappedPayload[f] = Null
          \/ /\ f \notin part.unresolvedFields
             /\ f \notin whole.unresolvedFields
             /\ part.mappedPayload[f] = whole.mappedPayload[f]
    BY ActionStep, ApplyPart DEF ContextInv
  <1>2. \A f \in s.action.inputSchema.required : f \in Fields
    BY ActionStep, ContextAssumption
  <1>h. lost.required = s.action.inputSchema.required \ part.unresolvedFields
        /\ missing.required = s.action.inputSchema.required \ whole.unresolvedFields
    BY DEF Relax
  <1> HIDE DEF part, whole
  <1>3. /\ \A f \in missing.required : whole.mappedPayload[f] # Undef
        /\ \A f \in Fields : FieldValues(f, whole.mappedPayload, missing) # {}
    BY DEF Validated, ValidateMappedPayload, whole
  <1>4. ASSUME NEW f \in Fields
        PROVE  FieldValues(f, part.mappedPayload, lost) # {}
    BY <1>1, <1>3, ValidatePart
  <1>5. \A f \in lost.required : part.mappedPayload[f] # Undef
    BY <1>1, <1>2, <1>3, <1>h
  <1> QED  BY <1>4, <1>5 DEF Validated, ValidateMappedPayload, part

LEMMA RequestLacks ==
  ASSUME ContextInv
  PROVE  RequestLacksOnlyUnresolved
  <1> SUFFICES ASSUME At("action"), NEW f \in Fields,
                      Prepare(zap[position], context).request[f]
                        # Prepare(zap[position], Whole).request[f]
               PROVE  /\ f \in Prepare(zap[position], context).unresolved
                      /\ \/ Prepare(zap[position], context).request[f] = Null
                         \/ f = "description"
    BY DEF RequestLacksOnlyUnresolved
  <1> DEFINE s == zap[position]
             kind == AuthType[s.action.connectorId]
             P == Validated(s, context).payload
             W == Validated(s, Whole).payload
  <1>2. \/ /\ f \in Apply(s.config, context).unresolvedFields
           /\ Validated(s, context).payload[f] = Null
        \/ /\ f \notin Apply(s.config, context).unresolvedFields
           /\ Validated(s, context).payload[f] = Validated(s, Whole).payload[f]
    BY PayloadPart
  <1>3. s.action \in AvailableActions
    BY ActionStep
  <1>4. /\ Prepare(s, context).request = BuildRequest(s.action, P, kind).request
        /\ Prepare(s, Whole).request = BuildRequest(s.action, W, kind).request
        /\ Prepare(s, context).unresolved = Apply(s.config, context).unresolvedFields
    BY DEF Prepare, Built
  <1>5. P[f] = W[f] \/ P[f] = Null
    BY <1>2
  <1>6. \/ Prepare(s, context).request[f] = Prepare(s, Whole).request[f]
        \/ Prepare(s, context).request[f] = Null
        \/ f = "description"
    <2> HIDE DEF s, kind, P, W
    <2> QED  BY <1>3, <1>4, <1>5, RequestPart
  <1>7. Prepare(s, context).request[f] # Prepare(s, Whole).request[f]
    OBVIOUS
  <1>8. f \in Prepare(s, context).unresolved
    <2>1. CASE P[f] = W[f]
      <3> HIDE DEF s, kind, P, W
      <3> QED  BY <1>3, <1>4, <1>7, <2>1, SameRequest
    <2>2. CASE P[f] # W[f]
      BY <1>2, <1>4, <2>2
    <2> QED  BY <2>1, <2>2
  <1> QED  BY <1>6, <1>7, <1>8

(* RequestLacksOnlyUnresolved for every zap and payload: what a resumed    *)
(* run sends is what it should send, or null where outputs are lost.       *)
THEOREM RequestsLackOnlyUnresolved == Spec => []RequestLacksOnlyUnresolved
  BY RequestLacks, ContextInvariant, PTL

LEMMA RestartLoses ==
  ASSUME ContextInv
  PROVE  RestartLosesOnlyTargets
  <1> SUFFICES ASSUME At("action"), Prepare(zap[position], Whole).outcome = "sent",
                      NEW s, s = zap[position],
                      "owner" \notin Apply(s.config, context).unresolvedFields,
                      "repo" \notin Apply(s.config, context).unresolvedFields
               PROVE  Prepare(zap[position], context).outcome = "sent"
    BY DEF RestartLosesOnlyTargets, Prepare
  <1>1. Validated(s, Whole).success /\ Built(s, Whole).ok
    BY DEF Prepare
  <1>2. Validated(s, context).success
    BY <1>1, PartIsValid
  <1>3. s.action \in AvailableActions
    BY ActionStep
  <1>o. {"owner", "repo"} \subseteq Fields
    <2>1. CreateIssue \in AvailableActions
      BY DEF AvailableActions
    <2>2. CreateIssue.inputSchema.required = {"owner", "repo", "title"}
      BY DEF CreateIssue
    <2> QED  BY <2>1, <2>2, ContextAssumption
  <1>4. \A f \in {"owner", "repo"} :
          Validated(s, context).payload[f] = Validated(s, Whole).payload[f]
    BY <1>o, PayloadPart
  <1>5. Built(s, context).ok
    <2>1. CASE s.action = SendMessage
      BY <1>1, <2>1 DEF Built, BuildRequest, SendMessage, SlackAccepts
    <2>2. CASE s.action = CreatePayment
      BY <1>1, <2>2 DEF Built, BuildRequest, CreatePayment, RazorpayAccepts
    <2>3. CASE s.action = CreateIssue
      BY <1>1, <1>4, <2>3 DEF Built, BuildRequest, CreateIssue, GithubAccepts
    <2> QED  BY <1>3, <2>1, <2>2, <2>3 DEF AvailableActions
  <1> QED  BY <1>2, <1>5 DEF Prepare

(* RestartLosesOnlyTargets for every zap and payload: losing outputs does  *)
(* not make a request invalid.                                             *)
THEOREM RestartKeepsRequestsValid == Spec => []RestartLosesOnlyTargets
  BY RestartLoses, ContextInvariant, PTL

(***************************************************************************)
(* Exceptions.                                                             *)
(***************************************************************************)

(* resume is left by an exception only at an action whose payload is valid *)
(* and whose request cannot be built; nothing happens to the run after it. *)
ThrownInv ==
    status = "thrown" =>
        /\ position \in Positions
        /\ zap[position].stepType = "action"
        /\ Prepare(zap[position], context).outcome = "thrown"

LEMMA InitThrown == Init => ThrownInv
  BY DEF Init, ThrownInv

LEMMA NextThrown == TypeOK /\ ThrownInv /\ [Next]_vars => ThrownInv'
  <1> SUFFICES ASSUME TypeOK, ThrownInv, [Next]_vars, status' = "thrown"
               PROVE  ThrownInv'
    BY DEF ThrownInv
  <1>1. CASE Step
    <2>1. CASE RunAction
      <3>1. position \in Positions /\ zap[position].stepType = "action"
        BY <2>1, ContextAssumption DEF RunAction, At, TypeOK, Positions
      <3>2. /\ End("thrown")
            /\ Prepare(zap[position], context).outcome = "thrown"
        BY <2>1 DEF RunAction, At, End, Complete
      <3>3. UNCHANGED <<zap, position, context>>
        BY <1>1, <3>2 DEF Step, End
      <3> QED  BY <3>1, <3>2, <3>3 DEF ThrownInv, Prepare, Validated, Built
    <2>2. CASE FireTrigger \/ EvaluateFilter \/ MarkCompleted
      BY <2>2 DEF FireTrigger, EvaluateFilter, MarkCompleted, At, End, Complete
    <2> QED  BY <1>1, <2>1, <2>2 DEF Step
  <1>2. CASE Restart
    BY <1>2 DEF Restart
  <1>3. CASE UNCHANGED vars
    BY <1>3 DEF vars, ThrownInv, Prepare, Validated, Built
  <1> QED  BY <1>1, <1>2, <1>3 DEF Next

LEMMA TargetFields == {"owner", "repo"} \subseteq Fields
  <1>1. CreateIssue \in AvailableActions
    BY DEF AvailableActions
  <1>2. CreateIssue.inputSchema.required = {"owner", "repo", "title"}
    BY DEF CreateIssue
  <1> QED  BY <1>1, <1>2, ContextAssumption

LEMMA WithParts ==
  ASSUME NEW A, NEW B, NEW C, NEW D, NEW parts,
         NEW x \in [type : A, text : B, num : C, parts : D]
  PROVE  [x EXCEPT !.parts = parts]
            = [type |-> x.type, text |-> x.text, num |-> x.num, parts |-> parts]
  OBVIOUS

(* A template puts out its literal, a value of the context, null, or the   *)
(* text around its tokens: a value whose text is blank only for a string,  *)
(* undefined, null or an object.                                           *)
LEMMA SubstitutedHasText ==
  ASSUME NEW ctx \in [Paths -> Value], NEW t \in Template,
         SubstituteValue(t, ctx).resolved
  PROVE  LET v == SubstituteValue(t, ctx).value
         IN  /\ v = [type |-> v.type, text |-> v.text, num |-> v.num,
                     parts |-> v.parts]
             /\ v.type \in Types
             /\ v.type \in {"number", "boolean"} => v.text # ""
  <1> DEFINE v == SubstituteValue(t, ctx).value
  <1> HIDE DEF v
  <1>1. t.kind \in {"literal", "token", "mixed"} /\ t.value \in Value
        /\ (t.kind = "token" => \E p \in Paths : t.paths = {p})
    BY DEF Template
  <1>2. ASSUME NEW x \in Value
        PROVE  /\ x = [type |-> x.type, text |-> x.text, num |-> x.num,
                       parts |-> x.parts]
               /\ x.type \in Types
               /\ x.type \in {"number", "boolean"} => x.text # ""
    BY DEF Value
  <1>3. CASE t.kind = "literal"
    <2>1. v = t.value
      BY <1>3 DEF v, SubstituteValue
    <2> QED  BY <1>1, <1>2, <2>1 DEF v
  <1>4. CASE t.kind = "token"
    <2>1. v \in Value
      BY <1>1, <1>4 DEF v, SubstituteValue
    <2> QED  BY <1>2, <2>1 DEF v
  <1>5. CASE t.kind = "mixed"
    <2>1. v = [t.value EXCEPT !.parts = Parts(t.paths, ctx)]
      BY <1>5 DEF v, SubstituteValue
    <2>2. PICK x \in Value : t.value = x
      BY <1>1
    <2> DEFINE parts == Parts(t.paths, ctx)
    <2> HIDE DEF parts
    <2>3. [x EXCEPT !.parts = parts] = [type |-> x.type, text |-> x.text,
                                        num |-> x.num, parts |-> parts]
      <3>1. x \in [type : Types, text : Texts, num : SUBSET Int,
                   parts : SUBSET (Paths \X Texts)]
        BY DEF Value
      <3> QED  BY <3>1, WithParts
    <2>4. v = [type |-> x.type, text |-> x.text, num |-> x.num,
               parts |-> parts]
      BY <2>1, <2>2, <2>3 DEF parts
    <2>5. /\ v.type = x.type /\ v.text = x.text
          /\ v.num = x.num /\ v.parts = parts
      BY <2>4
    <2>6. /\ v = [type |-> v.type, text |-> v.text, num |-> v.num,
                  parts |-> v.parts]
          /\ v.type \in Types
          /\ v.type \in {"number", "boolean"} => v.text # ""
      BY <1>2, <2>4, <2>5
    <2> QED  BY <2>6 DEF v
  <1> QED  BY <1>1, <1>3, <1>4, <1>5

(* Validation against { type: "string" } keeps what is truthy truthy, or   *)
(* fails.                                                                  *)
LEMMA CoercedStaysTruthy ==
  ASSUME NEW v,
         v = [type |-> v.type, text |-> v.text, num |-> v.num,
              parts |-> v.parts],
         v.type \in {"number", "boolean"} => v.text # "",
         Truthy(v),
         NEW w \in Coerced(v, {"string"})
  PROVE  Truthy(w)
  <1>1. v.type \in {"string", "number", "boolean", "object"}
    BY DEF Truthy
  <1>2. v # Undef
    <2>1. Undef.type = "undefined"
      BY DEF Undef, Plain
    <2> QED  BY <1>1, <2>1
  <1>3. CASE v.type = "string"
    BY <1>2, <1>3 DEF Coerced
  <1>4. CASE v.type \in {"number", "boolean"}
    <2>1. Coerced(v, {"string"}) = CoerceTo(v, "string")
      BY <1>2, <1>4 DEF Coerced
    <2>2. CoerceTo(v, "string") = {[v EXCEPT !.type = "string"]}
      BY <1>4 DEF CoerceTo
    <2>3. w = [type |-> "string", text |-> v.text, num |-> v.num,
               parts |-> v.parts]
      BY <2>1, <2>2
    <2> QED  BY <1>4, <2>3 DEF Truthy
  <1>5. CASE v.type = "object"
    <2>1. Coerced(v, {"string"}) = CoerceTo(v, "string")
      BY <1>2, <1>5 DEF Coerced
    <2>2. CoerceTo(v, "string") = {}
      BY <1>5 DEF CoerceTo
    <2> QED  BY <2>1, <2>2
  <1> QED  BY <1>1, <1>3, <1>4, <1>5

(* What becomes of owner and repo: a truthy value of the config reaches    *)
(* the adapter as a truthy value.                                          *)
LEMMA TargetStaysTruthy ==
  ASSUME NEW s, s.action = CreateIssue, DOMAIN s.config \subseteq Fields,
         \A f \in DOMAIN s.config : s.config[f] \in Template,
         NEW ctx \in [Paths -> Value],
         Validated(s, ctx).success,
         NEW f \in {"owner", "repo"}, f \in DOMAIN s.config,
         SubstituteValue(s.config[f], ctx).resolved,
         Truthy(SubstituteValue(s.config[f], ctx).value)
  PROVE  Truthy(Validated(s, ctx).payload[f])
  <1> DEFINE applied == Apply(s.config, ctx)
             relaxed == Relax(s.action.inputSchema, applied.unresolvedFields)
             values  == FieldValues(f, applied.mappedPayload, relaxed)
             v       == SubstituteValue(s.config[f], ctx).value
  <1>1. f \in Fields
    BY TargetFields
  <1>2. applied.mappedPayload[f] = v /\ f \notin applied.unresolvedFields
    BY <1>1 DEF Apply, Substituted
  <1>3. /\ f \in DOMAIN s.action.inputSchema.types
        /\ s.action.inputSchema.types[f] = "string"
    BY DEF CreateIssue
  <1> HIDE DEF applied
  <1>4. f \in DOMAIN relaxed.types /\ relaxed.types[f] = {"string"}
    BY <1>2, <1>3 DEF Relax
  <1> HIDE DEF relaxed, v
  <1>5. values = Coerced(v, {"string"})
    BY <1>2, <1>4 DEF FieldValues
  <1> HIDE DEF values
  <1>6. values # {}
    BY <1>1 DEF Validated, ValidateMappedPayload, applied, relaxed, values
  <1>7. Validated(s, ctx).payload[f] = CHOOSE w \in values : TRUE
    BY <1>1, <1>6 DEF Validated, ValidateMappedPayload, applied, relaxed, values
  <1>8. \A w \in values : Truthy(w)
    BY <1>5, SubstitutedHasText, CoercedStaysTruthy DEF v
  <1>9. (CHOOSE w \in values : TRUE) \in values
    BY <1>6
  <1> QED  BY <1>7, <1>8, <1>9

LEMMA ThrownIsBlank ==
  ASSUME TypeOK, ThrownInv
  PROVE  ThrownOnlyByBlankTarget
  <1> SUFFICES ASSUME status = "thrown", NEW s, s = zap[position]
               PROVE  /\ s.action = CreateIssue
                      /\ \E f \in {"owner", "repo"} :
                            \/ f \notin DOMAIN s.config
                            \/ ~Truthy(SubstituteValue(s.config[f], context).value)
                            \/ f \in Prepare(s, context).unresolved
    BY DEF ThrownOnlyByBlankTarget
  <1>1. Validated(s, context).success /\ ~Built(s, context).ok
    BY DEF ThrownInv, Prepare
  <1>2. /\ s.action \in AvailableActions
        /\ DOMAIN s.config \subseteq Fields
        /\ \A f \in DOMAIN s.config : s.config[f] \in Template
    BY ContextAssumption DEF ThrownInv, TypeOK, IsStep
  <1>3. s.action = CreateIssue
    <2> DEFINE valid == Validated(s, context).payload
               kind  == AuthType[s.action.connectorId]
    <2>1. ASSUME s.action = SendMessage PROVE FALSE
      <3>1. AuthType[s.action.connectorId] = "oauth"
        BY <2>1 DEF SendMessage, AuthType
      <3>2. Built(s, context).ok = SlackAccepts(valid, kind)
        BY <2>1 DEF Built, BuildRequest, SendMessage
      <3> QED  BY <1>1, <3>1, <3>2 DEF SlackAccepts
    <2>2. ASSUME s.action = CreatePayment PROVE FALSE
      <3>1. AuthType[s.action.connectorId] = "api_key"
        BY <2>2 DEF CreatePayment, AuthType
      <3>2. Built(s, context).ok = RazorpayAccepts(valid, kind)
        BY <2>2 DEF Built, BuildRequest, CreatePayment
      <3> QED  BY <1>1, <3>1, <3>2 DEF RazorpayAccepts
    <2> QED  BY <1>2, <2>1, <2>2 DEF AvailableActions
  <1>4. PICK f \in {"owner", "repo"} : ~Truthy(Validated(s, context).payload[f])
    BY <1>1, <1>3 DEF Built, BuildRequest, CreateIssue, GithubAccepts, AuthType
  <1>5. \/ f \notin DOMAIN s.config
        \/ ~Truthy(SubstituteValue(s.config[f], context).value)
        \/ ~SubstituteValue(s.config[f], context).resolved
    BY <1>1, <1>2, <1>3, <1>4, TargetStaysTruthy DEF TypeOK
  <1>6. ASSUME f \in DOMAIN s.config,
               ~SubstituteValue(s.config[f], context).resolved
        PROVE  f \in Prepare(s, context).unresolved
    BY <1>6 DEF Prepare, Apply, Substituted
  <1> QED  BY <1>3, <1>5, <1>6

(* ThrownOnlyByBlankTarget for every zap, payload and response: no request *)
(* but one with a blank GitHub target validates and then cannot be built.  *)
THEOREM ThrownIsBlankTarget == Spec => []ThrownOnlyByBlankTarget
  <1>1. Init => TypeOK /\ ThrownInv
    BY InitTypes, InitThrown
  <1>2. TypeOK /\ ThrownInv /\ [Next]_vars => (TypeOK /\ ThrownInv)'
    BY NextTypes, NextThrown
  <1> QED  BY <1>1, <1>2, ThrownIsBlank, PTL DEF Spec
=============================================================================
