---------------------------- MODULE StepContext -----------------------------
(***************************************************************************)
(* The data of one run: the context that resume builds up step by step,    *)
(* what filters and actions make of it, and what becomes of it when the    *)
(* worker dies between two steps and the message is delivered again.       *)
(* Control, claims and repeated calls are the subject of RunExecution.     *)
(***************************************************************************)
EXTENDS Connectors

CONSTANTS
    Texts,      \* what String(value) can be
    Zaps,       \* snapshots: functions from positions to steps
    Payloads,   \* payloads of the webhook, functions from Keys
    Responses   \* what APIs answer with status 2xx

Positions == 0 .. NumSteps - 1

(* String(v) is never blank for a number or a boolean.                     *)
Value ==
    {v \in [type : Types, text : Texts, num : SUBSET Int,
            parts : SUBSET (Paths \X Texts)] :
        v.type \in {"number", "boolean"} => v.text # ""}

Condition == [field : Paths, operator : Operators, value : Value]
Template  ==
    {t \in [kind : {"literal", "token", "mixed"}, value : Value,
            paths : SUBSET Paths] :
        t.kind = "token" => \E p \in Paths : t.paths = {p}}

IsStep(s) ==
    \/ s.stepType = "trigger"
    \/ /\ s.stepType = "filter"
       /\ s.config.conditions \subseteq Condition
       /\ s.config.logic \in {"AND", "OR"}
    \/ /\ s.stepType = "action"
       /\ s.action \in AvailableActions
       /\ DOMAIN s.config \subseteq Fields
       /\ \A f \in DOMAIN s.config : s.config[f] \in Template

ASSUME ContextAssumption ==
    /\ NumSteps \in Nat
    /\ "undefined" \in Texts
    /\ \A a \in AvailableActions : DOMAIN a.inputSchema.types \subseteq Fields
    /\ \A a \in AvailableActions : a.inputSchema.required \subseteq Fields
    /\ \A z \in Zaps :
         /\ DOMAIN z = Positions
         /\ \A n \in Positions : IsStep(z[n])
    /\ Payloads \subseteq [Keys -> Value]
    /\ \A r \in Responses, a \in AvailableActions :
         ParseResponse(a, r).output \in [Keys -> Value]

VARIABLES
    zap,        \* zap_runs.step_snapshot
    payload,    \* event.payload, the same in every delivery
    output,     \* history: what step_n stands for, once step n has completed
    position,   \* currentPosition, after a restart maxCompletedPosition + 1
    context,    \* currentContext
    status,     \* of the run; "thrown": resume was left by an exception
    resumed     \* history: the worker has died during this run

vars == <<zap, payload, output, position, context, status, resumed>>

Blank == [k \in Keys |-> Undef]

(* payloadContext as resume gets it, and { ...context, step_n: fields }.   *)
Start == [p \in Paths |-> IF p[1] = 0 THEN payload[p[2]] ELSE Undef]
With(n, fields) ==
    [p \in Paths |-> IF p[1] = n THEN fields[p[2]] ELSE context[p]]

Init ==
    /\ zap \in Zaps
    /\ payload \in Payloads
    /\ output = [n \in 1 .. NumSteps |-> Blank]
    /\ position = 0
    /\ context = Start
    /\ status = "in_progress"
    /\ resumed = FALSE

(* The request of an action step: templates, validation, adapter.          *)
Validated(s, ctx) ==
    LET applied == Apply(s.config, ctx)
    IN  ValidateMappedPayload(applied.mappedPayload, s.action.inputSchema,
                              applied.unresolvedFields)

Built(s, ctx) ==
    BuildRequest(s.action, Validated(s, ctx).payload,
                 AuthType[s.action.connectorId])

Prepare(s, ctx) ==
    [outcome |-> IF ~Validated(s, ctx).success THEN "invalid"
                 ELSE IF ~Built(s, ctx).ok THEN "thrown" ELSE "sent",
     request |-> Built(s, ctx).request,
     unresolved |-> Apply(s.config, ctx).unresolvedFields]

At(type) ==
    /\ status = "in_progress"
    /\ position < NumSteps
    /\ zap[position].stepType = type

(* Mutant of Complete: the position is used as the number of the step.     *)
CompleteAtPosition(fields) ==
    /\ output' = [output EXCEPT ![position + 1] = fields]
    /\ context' = With(position, fields)
    /\ position' = position + 1
    /\ UNCHANGED status

(* The step is completed and its output merged into the context.  (Its row *)
(* keeps an output too, which nothing reads back.)                         *)
Complete(fields) ==
    /\ output' = [output EXCEPT ![position + 1] = fields]
    /\ context' = With(position + 1, fields)
    /\ position' = position + 1
    /\ UNCHANGED status

End(final) ==
    /\ status' = final
    /\ UNCHANGED <<output, position, context>>

FireTrigger == At("trigger") /\ Complete(payload)

(* The output of a filter, { passed }, is not part of the context.         *)
EvaluateFilter ==
    /\ At("filter")
    /\ IF Evaluate(zap[position].config, context)
       THEN /\ position' = position + 1
            /\ UNCHANGED <<output, context, status>>
       ELSE End("filtered")

RunAction ==
    /\ At("action")
    /\ LET s == zap[position]
           prepared == Prepare(s, context)
       IN  \/ prepared.outcome = "invalid" /\ End("failed")
           \/ prepared.outcome = "thrown" /\ End("thrown")
           \/ prepared.outcome = "sent" /\ End("failed")    \* no 2xx
           \/ /\ prepared.outcome = "sent"
              /\ \E r \in Responses :
                    LET result == ParseResponse(s.action, r)
                    IN  IF result.completed THEN Complete(result.output)
                                            ELSE End("failed")

MarkCompleted ==
    /\ status = "in_progress"
    /\ position = NumSteps
    /\ End("completed")

(* The worker dies between two steps; the next delivery starts behind the  *)
(* highest completed position, with the payload of the message.            *)
Restart ==
    /\ status = "in_progress"
    /\ context' = Start
    /\ resumed' = TRUE
    /\ UNCHANGED <<zap, payload, output, position, status>>

Step ==
    /\ \/ FireTrigger
       \/ EvaluateFilter
       \/ RunAction
       \/ MarkCompleted
    /\ UNCHANGED <<zap, payload, resumed>>

Next == Step \/ Restart

Spec == Init /\ [][Next]_vars

(***************************************************************************)
(* Properties.                                                             *)
(***************************************************************************)
Statuses == {"in_progress", "completed", "filtered", "failed", "thrown"}

(* The state has its types: contexts and outputs hold values only.         *)
TypeOK ==
    /\ zap \in Zaps
    /\ payload \in Payloads
    /\ output \in [1 .. NumSteps -> [Keys -> Value]]
    /\ position \in 0 .. NumSteps
    /\ context \in [Paths -> Value]
    /\ status \in Statuses
    /\ resumed \in BOOLEAN

(* The context of a run that has never been interrupted.                   *)
Whole == [p \in Paths |-> IF p[1] = 0 THEN payload[p[2]] ELSE output[p[1]][p[2]]]

(* step_1 is the payload and step_n the output of the step at position     *)
(* n - 1, for every step that has completed, as long as nobody restarts.   *)
UninterruptedContextIsWhole == ~resumed => context = Whole

(* A restart may lose outputs but never changes one or shows it under the  *)
(* name of another step.                                                   *)
ContextIsPartOfWhole == \A p \in Paths : context[p] \in {Undef, Whole[p]}

(* Filters that say nothing of a field that is missing.                    *)
Positive(filter) ==
    \A c \in filter.conditions :
        /\ c.operator # "neq"
        /\ c.operator = "eq" => c.value.text # "undefined"

(* A resumed run may lose the outputs a filter refers to, but then the     *)
(* filter stops it: what passes would have passed without the restart.     *)
ResumedFilterIsConservative ==
    At("filter") /\ Positive(zap[position].config) =>
        (Evaluate(zap[position].config, context) =>
            Evaluate(zap[position].config, Whole))

(* The request of a resumed run differs from the one it would have sent    *)
(* only in fields that are listed as unresolved, and these are null (or    *)
(* the default of the adapter): ajv does not coerce them to "" or 0, and   *)
(* no text goes out with holes in it.                                      *)
RequestLacksOnlyUnresolved ==
    At("action") =>
        LET got   == Prepare(zap[position], context)
            meant == Prepare(zap[position], Whole)
        IN  got.outcome = "sent" /\ meant.outcome = "sent" =>
                \A f \in Fields : got.request[f] # meant.request[f] =>
                    /\ f \in got.unresolved
                    /\ got.request[f] = Null \/ f = "description"

(* A restart does not turn a request that can be sent into a failure,      *)
(* except for the two fields that GitHub's url is made of.                 *)
RestartLosesOnlyTargets ==
    At("action") =>
        LET got   == Prepare(zap[position], context)
            meant == Prepare(zap[position], Whole)
        IN  meant.outcome = "sent" =>
                \/ got.outcome = "sent"
                \/ {"owner", "repo"} \cap got.unresolved # {}

(* The catalogue and the adapters agree: with a connection of the action's *)
(* connector, the only request that cannot be built is one with a blank    *)
(* GitHub target.                                                          *)
ThrownOnlyByBlankTarget ==
    status = "thrown" =>
        LET s == zap[position]
        IN  /\ s.action = CreateIssue
            /\ \E f \in {"owner", "repo"} :
                  \/ f \notin DOMAIN s.config
                  \/ ~Truthy(SubstituteValue(s.config[f], context).value)
                  \/ f \in Prepare(s, context).unresolved
=============================================================================
