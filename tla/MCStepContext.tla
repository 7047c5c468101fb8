--------------------------- MODULE MCStepContext ----------------------------
(* Instances of StepContext for TLC: payments arrive, later steps refer to *)
(* the payload, to the trigger's alias step_1 and to outputs of actions.   *)
EXTENDS StepContext

Amount == "payload.payment.entity.amount"
Email  == "payload.payment.entity.email"

MCKeys   == {Amount, Email, "channel", "id"}
MCTexts  == STRING
MCFields == {"channel", "text", "amount", "currency", "description",
             "owner", "repo", "title", "body"}
MCIncludes == {<<"a@b.c", "a@b.c">>, <<"a@b.c", "">>, <<"", "">>, <<"C1", "">>}

ASSUME {Amount, Email} \subseteq PaymentCaptured

MCPayloads ==
    {[k \in MCKeys |-> CASE k = Amount -> a [] k = Email -> e [] OTHER -> Undef] :
        a \in {Undef, Null, Num(0), Digits(700), Obj},
        e \in {Undef, Str("a@b.c"), Empty}}

(* Undef in both makes the response an error of each of the three APIs.    *)
ResponseKeys == {"ok", "ts", "channel", "id", "entity", "amount", "currency",
                 "status", "error", "html_url", "number"}
Response(given) ==
    [k \in ResponseKeys |-> IF k \in DOMAIN given THEN given[k] ELSE Undef]

MCResponses ==
    {Response([ok |-> Bool(TRUE), channel |-> Str("C1"), id |-> Str("plink1"),
               number |-> Num(7), html_url |-> Str("u")]),
     Response([ok |-> Bool(TRUE), number |-> Num(7), html_url |-> Str("u")]),
     Response([ok |-> Bool(FALSE), error |-> Obj])}

(***************************************************************************)
(* Zaps: the trigger, then any two of these steps.                         *)
(***************************************************************************)
Trigger == [stepType |-> "trigger"]
Filter(logic, conditions) ==
    [stepType |-> "filter",
     config |-> [logic |-> logic, conditions |-> conditions]]
Action(action, config) ==
    [stepType |-> "action", action |-> action, config |-> config]
If(path, operator, value) ==
    [field |-> path, operator |-> operator, value |-> value]

Filters ==
    {Filter("AND", {If(<<0, Amount>>, "gte", Num(0)),
                    If(<<1, Email>>, "exists", Undef)}),
     Filter("OR", {If(<<2, "id">>, "lt", Num(9)),
                   If(<<1, Amount>>, "lte", Digits(700)),
                   If(<<2, "channel">>, "eq", Str("C1"))}),
     Filter("AND", {If(<<2, "channel">>, "neq", Str("C1"))}),
     Filter("OR", {If(<<1, Email>>, "contains", Str("a@b.c")),
                   If(<<1, Amount>>, "gt", Num(0))}),
     Filter("AND", {})}

Actions ==
    {Action(SendMessage,
        [channel |-> Literal(Str("#ops")),
         text |-> Mixed("paid", {<<0, Amount>>, <<1, Email>>})]),
     Action(SendMessage,
        [channel |-> Token(<<2, "channel">>), text |-> Token(<<1, Amount>>)]),
     Action(CreatePayment,
        [amount |-> Token(<<1, Amount>>), currency |-> Literal(Str("INR")),
         description |-> Token(<<2, "id">>)]),
     Action(CreatePayment, [amount |-> Literal(Num(100))]),
     Action(CreateIssue,
        [owner |-> Token(<<2, "channel">>), repo |-> Literal(Str("r")),
         title |-> Mixed("from", {<<1, Email>>}),
         body |-> Token(<<2, "id">>)])}

MCZaps ==
    {0 :> Trigger @@ 1 :> s @@ 2 :> t @@ 3 :> u :
        s \in Actions, t \in Filters \cup Actions, u \in Filters \cup Actions}
=============================================================================
