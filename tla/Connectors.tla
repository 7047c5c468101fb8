----------------------------- MODULE Connectors -----------------------------
(***************************************************************************)
(* The catalogue of connectors that the seed scripts store, and the        *)
(* adapters of the worker, which turn a validated payload into a request   *)
(* and a response into the output of the step.                             *)
(***************************************************************************)
EXTENDS StepData

(***************************************************************************)
(* The catalogue, in which the two seed scripts agree.                     *)
(***************************************************************************)
(* Mutant of AuthType: GitHub by OAuth, like Slack.                        *)
AuthTypeByOAuth == [slack |-> "oauth", razorpay |-> "api_key",
                    github |-> "oauth"]

AuthType == [slack |-> "oauth", razorpay |-> "api_key", github |-> "api_key"]

SendMessage ==
    [id |-> "slack:send-message", connectorId |-> "slack",
     inputSchema |->
        [required |-> {"channel", "text"},
         types |-> [channel |-> "string", text |-> "string"]]]

CreatePayment ==
    [id |-> "razorpay:create-payment", connectorId |-> "razorpay",
     inputSchema |->
        [required |-> {"amount", "currency"},
         types |-> [amount |-> "number", currency |-> "string",
                    description |-> "string"]]]

CreateIssue ==
    [id |-> "github:create-issue", connectorId |-> "github",
     inputSchema |->
        [required |-> {"owner", "repo", "title"},
         types |-> [owner |-> "string", repo |-> "string",
                    title |-> "string", body |-> "string"]]]

AvailableActions == {SendMessage, CreatePayment, CreateIssue}

(* The fields that the trigger's payloadSchema offers to the editor.       *)
PaymentCaptured ==
    {"payload.payment.entity.id", "payload.payment.entity.amount",
     "payload.payment.entity.currency", "payload.payment.entity.email",
     "payload.payment.entity.contact"}

(***************************************************************************)
(* The adapters.  Requests are the values that the user can tell apart:    *)
(* the target in the url and the body.  buildRequest throws on the wrong   *)
(* type of credentials and, for GitHub, on a blank owner or repository.    *)
(***************************************************************************)
Request(payload, target, body) ==
    [f \in Fields |-> IF f \in target \cup body THEN payload[f] ELSE Undef]

(* Mutant of SlackAccepts: a blank channel is refused, as GitHub's target. *)
SlackAcceptsChannel(payload, credentials) ==
    credentials = "oauth" /\ Truthy(payload["channel"])

SlackAccepts(payload, credentials) == credentials = "oauth"
SlackRequest(payload) == Request(payload, {}, {"channel", "text"})

RazorpayAccepts(payload, credentials) == credentials = "api_key"
RazorpayRequest(payload) ==
    LET body == Request(payload, {}, {"amount", "currency", "description"})
    IN  [body EXCEPT !["description"] =
            IF @.type \in {"undefined", "null"} THEN Empty ELSE @]

GithubAccepts(payload, credentials) ==
    /\ credentials = "api_key"
    /\ Truthy(payload["owner"]) /\ Truthy(payload["repo"])
GithubRequest(payload) == Request(payload, {"owner", "repo"}, {"title", "body"})

BuildRequest(action, payload, credentials) ==
    CASE action.id = "slack:send-message" ->
            [ok |-> SlackAccepts(payload, credentials),
             request |-> SlackRequest(payload)]
      [] action.id = "razorpay:create-payment" ->
            [ok |-> RazorpayAccepts(payload, credentials),
             request |-> RazorpayRequest(payload)]
      [] action.id = "github:create-issue" ->
            [ok |-> GithubAccepts(payload, credentials),
             request |-> GithubRequest(payload)]

(* parseResponse: a response is a function from Keys; names maps a field   *)
(* of the output to the field of the response it is taken from.            *)
Output(response, names) ==
    [k \in Keys |-> IF k \in DOMAIN names THEN response[names[k]] ELSE Undef]

SlackParse(r) ==
    [completed |-> Truthy(r["ok"]),
     output |-> Output(r, [ok |-> "ok", ts |-> "ts", channel |-> "channel"])]

RazorpayParse(r) ==
    [completed |-> ~Truthy(r["error"]),
     output |-> Output(r, [id |-> "id", entity |-> "entity",
                           amount |-> "amount", currency |-> "currency",
                           status |-> "status"])]

GithubParse(r) ==
    [completed |-> Truthy(r["html_url"]) /\ Truthy(r["number"]),
     output |-> Output(r, [issue_number |-> "number",
                           issue_url |-> "html_url"])]

ParseResponse(action, response) ==
    CASE action.id = "slack:send-message"      -> SlackParse(response)
      [] action.id = "razorpay:create-payment" -> RazorpayParse(response)
      [] action.id = "github:create-issue"     -> GithubParse(response)
=============================================================================
