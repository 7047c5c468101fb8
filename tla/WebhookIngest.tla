---------------------------- MODULE WebhookIngest ----------------------------
(***************************************************************************)
(* hooks-api: a provider delivers webhooks to the trigger of one zap and   *)
(* tries again until it gets a 200; answers and processes get lost, and    *)
(* deliveries of one event overlap.  What is accepted is stored in one     *)
(* transaction as event, queued run and outbox row, from where OutboxRelay *)
(* takes over.                                                             *)
(***************************************************************************)
EXTENDS Integers, FiniteSets

CONSTANTS
    Events,     \* things that happen at the provider
    Hooks,      \* what a provider may send of an event
    Triggers,   \* the values of available_trigger_id, NoTrigger for NULL
    NoTrigger,
    Requests,   \* requests that hooks-api serves at the same time
    NoEvent,
    MaxTries,   \* bound: deliveries of an event without an id
    Faults      \* what may go wrong, a subset of FaultKinds

(* "lose": an answer or a process is lost, or the request rate limiter     *)
(* refuses; "throw": a statement is rejected; "edit": the owner switches   *)
(* the zap on and off; "delete": the owner deletes it.                     *)
FaultKinds == {"lose", "throw", "edit", "delete"}

(* id: there is a delivery id in a header; signed: with the secret of the  *)
(* step; large: over 5 MB; header: x-github-event, "" for other providers; *)
(* action, ref_type: of the payload.                                       *)
ASSUME IngestAssumption ==
    /\ \A h \in Hooks : {h.id, h.signed, h.large} \subseteq BOOLEAN
    /\ NoEvent \notin Events
    /\ MaxTries \in Nat \ {0}
    /\ Faults \subseteq FaultKinds

VARIABLES
    zap,        \* "active", "inactive" or "deleted"
    hook,       \* the webhook of each event
    trigger,    \* available_trigger_id of the trigger step
    request,    \* what each request awaits
    tries,      \* deliveries so far
    acked,      \* the provider has got a 200
    events,     \* table webhook_events: rows per event id
    runs,       \* table zap_runs: rows per event id
    outbox,     \* table outbox: rows per event id
    dropped     \* history: a delivery has met an inactive or deleted zap

tables   == <<events, runs, outbox>>
provider == <<tries, acked>>
vars     == <<zap, hook, trigger, request, provider, tables, dropped>>

(* The provider's id, <<e, 0>>, or a random one for delivery n.            *)
Ids == Events \X (0 .. MaxTries)

Idle == [at |-> "idle", event |-> NoEvent, id |-> <<NoEvent, 0>>, status |-> ""]
Statuses == {"ingested", "duplicate", "unauthorized", "not_found", "skipped",
             "too_large", "error"}
Request ==
    {Idle} \cup
    [at : {"lookup", "insert"}, event : Events, id : Ids, status : {""}] \cup
    [at : {"answer"}, event : Events, id : Ids, status : Statuses]

Init ==
    /\ zap = "active"
    /\ hook \in [Events -> Hooks]
    /\ trigger \in Triggers
    /\ request = [r \in Requests |-> Idle]
    /\ tries = [e \in Events |-> 0]
    /\ acked = [e \in Events |-> FALSE]
    /\ events = [i \in Ids |-> 0]
    /\ runs = [i \in Ids |-> 0]
    /\ outbox = [i \in Ids |-> 0]
    /\ dropped = [e \in Events |-> FALSE]

(***************************************************************************)
(* Routing of GitHub's events.                                             *)
(***************************************************************************)
Rule(header, action, ref_type) ==
    [githubEvent |-> header, actionFilter |-> action, refTypeFilter |-> ref_type]

GITHUB_TRIGGER_ROUTING ==
    [t \in {"github:push", "github:pull_request_opened", "github:issue_opened",
            "github:branch_created", "github:release_published"} |->
        CASE t = "github:push"                -> Rule("push", "", "")
          [] t = "github:pull_request_opened" -> Rule("pull_request", "opened", "")
          [] t = "github:issue_opened"        -> Rule("issues", "opened", "")
          [] t = "github:branch_created"      -> Rule("create", "", "branch")
          [] t = "github:release_published"   -> Rule("release", "published", "")]

MatchesGitHubTrigger(id, h) ==
    id \in DOMAIN GITHUB_TRIGGER_ROUTING =>
        LET rule == GITHUB_TRIGGER_ROUTING[id]
        IN  /\ h.header = rule.githubEvent
            /\ rule.actionFilter \in {"", h.action}
            /\ rule.refTypeFilter \in {"", h.ref_type}

(***************************************************************************)
(* The provider.                                                           *)
(***************************************************************************)
EventId(e) == IF hook[e].id THEN <<e, 0>> ELSE <<e, tries[e] + 1>>

(* A delivery, also while an earlier one has not been answered; a body     *)
(* over 5 MB is refused before the handler.                                *)
Deliver(r, e) ==
    /\ request[r] = Idle
    /\ ~acked[e]
    /\ hook[e].id \/ tries[e] < MaxTries
    /\ tries' = [tries EXCEPT ![e] = IF @ < MaxTries THEN @ + 1 ELSE @]
    /\ request' = [request EXCEPT ![r] =
            IF hook[e].large
            THEN [at |-> "answer", event |-> e, id |-> EventId(e),
                  status |-> "too_large"]
            ELSE [at |-> "lookup", event |-> e, id |-> EventId(e),
                  status |-> ""]]
    /\ UNCHANGED <<zap, hook, trigger, acked, tables, dropped>>

Lose(r) ==
    /\ "lose" \in Faults
    /\ request[r] # Idle
    /\ request' = [request EXCEPT ![r] = Idle]
    /\ UNCHANGED <<zap, hook, trigger, provider, tables, dropped>>

(***************************************************************************)
(* handleWebhook, ingestWebhook.                                           *)
(***************************************************************************)
Return(r, status) ==
    request' = [request EXCEPT ![r].at = "answer", ![r].status = status]

(* The step is read, then the signature, then GitHub's event is checked.   *)
Lookup(r) ==
    LET e == request[r].event
        h == hook[e]
    IN  /\ request[r].at = "lookup"
        /\ IF zap # "active" THEN Return(r, "not_found")
           ELSE IF ~h.signed THEN Return(r, "unauthorized")
           ELSE IF h.header # "" /\ ~MatchesGitHubTrigger(trigger, h)
                THEN Return(r, "skipped")
           ELSE request' = [request EXCEPT ![r].at = "insert"]
        /\ dropped' = [dropped EXCEPT ![e] = @ \/ zap # "active"]
        /\ UNCHANGED <<zap, hook, trigger, provider, tables>>

Store(table, i) == [table EXCEPT ![i] = @ + 1]

(* Mutant of Insert: no transaction, a rejected statement leaves the event.*)
InsertPiecewise(r) ==
    LET i == request[r].id
    IN  /\ request[r].at = "insert"
        /\ zap # "deleted"
        /\ IF events[i] > 0
           THEN Return(r, "duplicate") /\ UNCHANGED tables
           ELSE /\ events' = Store(events, i)
                /\ \/ /\ runs' = Store(runs, i)
                      /\ outbox' = Store(outbox, i)
                      /\ Return(r, "ingested")
                   \/ /\ "throw" \in Faults
                      /\ UNCHANGED <<runs, outbox>>
                      /\ Return(r, "error")
        /\ UNCHANGED <<zap, hook, trigger, provider, dropped>>

(* Mutant of Insert: duplicates are not looked for when the row is written.*)
InsertAlways(r) ==
    LET i == request[r].id
    IN  /\ request[r].at = "insert"
        /\ zap # "deleted"
        /\ events' = Store(events, i)
        /\ runs' = Store(runs, i)
        /\ outbox' = Store(outbox, i)
        /\ Return(r, "ingested")
        /\ UNCHANGED <<zap, hook, trigger, provider, dropped>>

(* The transaction.  ON CONFLICT (event_id, zap_id) DO NOTHING; the        *)
(* foreign key on the zap refuses an event of a deleted one (Fail).        *)
Insert(r) ==
    LET i == request[r].id
    IN  /\ request[r].at = "insert"
        /\ zap # "deleted"
        /\ IF events[i] > 0
           THEN Return(r, "duplicate") /\ UNCHANGED tables
           ELSE /\ events' = Store(events, i)
                /\ runs' = Store(runs, i)
                /\ outbox' = Store(outbox, i)
                /\ Return(r, "ingested")
        /\ UNCHANGED <<zap, hook, trigger, provider, dropped>>

(* A rejected statement rolls the transaction back.                        *)
Fail(r) ==
    /\ \/ request[r].at \in {"lookup", "insert"} /\ "throw" \in Faults
       \/ request[r].at = "insert" /\ zap = "deleted"
    /\ Return(r, "error")
    /\ UNCHANGED <<zap, hook, trigger, provider, tables, dropped>>

(* Mutant of Answer: whatever was handled is answered with 200.            *)
AnswerOk(r) ==
    /\ request[r].at = "answer"
    /\ acked' = [acked EXCEPT ![request[r].event] = TRUE]
    /\ request' = [request EXCEPT ![r] = Idle]
    /\ UNCHANGED <<zap, hook, trigger, tries, tables, dropped>>

(* 200 unless unauthorized (401), too large (413) or an exception (500).   *)
Answer(r) ==
    /\ request[r].at = "answer"
    /\ acked' = [acked EXCEPT ![request[r].event] =
            @ \/ request[r].status \notin {"unauthorized", "too_large", "error"}]
    /\ request' = [request EXCEPT ![r] = Idle]
    /\ UNCHANGED <<zap, hook, trigger, tries, tables, dropped>>

(***************************************************************************)
(* The owner, at app-api.                                                  *)
(***************************************************************************)
SetActive(state) ==
    /\ "edit" \in Faults
    /\ zap # "deleted"
    /\ zap' = state
    /\ UNCHANGED <<hook, trigger, request, provider, tables, dropped>>

(* deleteZap: the cascade from zaps to webhook_events stops at the runs of *)
(* the zap (ON DELETE RESTRICT), so a zap that has stored an event stays.  *)
DeleteZap ==
    /\ "delete" \in Faults
    /\ zap # "deleted"
    /\ \A i \in Ids : runs[i] = 0
    /\ zap' = "deleted"
    /\ UNCHANGED <<hook, trigger, request, provider, tables, dropped>>

Handle(r) == Lookup(r) \/ Insert(r) \/ Fail(r) \/ Answer(r)

Next ==
    \/ \E r \in Requests : \/ \E e \in Events : Deliver(r, e)
                           \/ Handle(r) \/ Lose(r)
    \/ \E state \in {"active", "inactive"} : SetActive(state)
    \/ DeleteZap

Spec == Init /\ [][Next]_vars

(* Handlers go on.  The provider tries until it gets a 200, and not every  *)
(* one of its deliveries is lost or rejected at the same place.            *)
For(e, r, A) == request[r].event = e /\ A

FairSpec ==
    /\ Spec
    /\ \A e \in Events :
        /\ SF_vars(\E r \in Requests : Deliver(r, e))
        /\ SF_vars(\E r \in Requests : For(e, r, Lookup(r)))
        /\ SF_vars(\E r \in Requests : For(e, r, Insert(r)))
    /\ \A r \in Requests : WF_vars(Handle(r))

(***************************************************************************)
(* Properties.                                                             *)
(***************************************************************************)
TypeOK ==
    /\ zap \in {"active", "inactive", "deleted"}
    /\ hook \in [Events -> Hooks]
    /\ trigger \in Triggers
    /\ request \in [Requests -> Request]
    /\ tries \in [Events -> 0 .. MaxTries]
    /\ acked \in [Events -> BOOLEAN]
    /\ events \in [Ids -> Nat]
    /\ runs \in [Ids -> Nat]
    /\ outbox \in [Ids -> Nat]
    /\ dropped \in [Events -> BOOLEAN]

(* What the catalogue tells the user of each GitHub trigger: "Fires when   *)
(* commits are pushed", "when a new branch is created (ref_type: branch)". *)
Fires(t, h) ==
    \/ t = "github:push" /\ h.header = "push"
    \/ t = "github:pull_request_opened" /\ h.header = "pull_request"
       /\ h.action = "opened"
    \/ t = "github:issue_opened" /\ h.header = "issues"
       /\ h.action = "opened"
    \/ t = "github:branch_created" /\ h.header = "create"
       /\ h.ref_type = "branch"
    \/ t = "github:release_published" /\ h.header = "release"
       /\ h.action = "published"

GithubTriggers == DOMAIN GITHUB_TRIGGER_ROUTING

Wanted(e) ==
    /\ hook[e].signed /\ ~hook[e].large
    /\ \/ hook[e].header = ""
       \/ trigger \notin GithubTriggers
       \/ Fires(trigger, hook[e])

(* What the provider may forget is kept: an event that was answered with   *)
(* 200 has its run and its outbox row, or it was not wanted, or the zap    *)
(* was off.                                                                *)
AcknowledgedHasRun ==
    \A e \in Events : acked[e] =>
        \/ dropped[e] \/ ~Wanted(e)
        \/ \E i \in Ids : i[1] = e /\ runs[i] > 0 /\ outbox[i] > 0

(* An event is stored once per event id, whole, and only if it is wanted:  *)
(* for a provider that sends ids, one run per event, however often and     *)
(* concurrently it is delivered.                                           *)
StoredOnceAndWhole ==
    \A i \in Ids :
        /\ events[i] <= 1 /\ runs[i] = events[i] /\ outbox[i] = events[i]
        /\ events[i] > 0 => Wanted(i[1])

(* A wanted event with an id gets its run, if the provider retries, unless *)
(* the zap is switched off or deleted.                                     *)
WantedEventRuns ==
    \A e \in Events : hook[e].id /\ Wanted(e) ~>
        dropped[e] \/ runs[<<e, 0>>] > 0

(* What is stored of a delivery, until the relay finds its outbox row.     *)
Lifecycle == INSTANCE EventLifecycle
                WITH Events <- Ids,
                     stage <- [i \in Ids |->
                                 IF events[i] = 0 THEN "none" ELSE "queued"],
                     kept <- [i \in Ids |-> runs[i] > 0 /\ outbox[i] > 0],
                     offered <- [i \in Ids |-> FALSE]

(* What hooks-api owes the outbox: an event appears together with its run  *)
(* and its row, in one step, whatever is rejected or lost on the way.      *)
ImplementsLifecycle == Lifecycle!Spec
=============================================================================
