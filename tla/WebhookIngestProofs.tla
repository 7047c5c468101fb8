------------------------ MODULE WebhookIngestProofs ------------------------
(***************************************************************************)
(* Proofs about WebhookIngest, for any number of events and requests,      *)
(* everything a provider may send and every set of faults.                 *)
(***************************************************************************)
EXTENDS WebhookIngest, TLAPS

(* The table of rules says of a GitHub trigger what the catalogue says.    *)
LEMMA Routing ==
    ASSUME NEW t \in GithubTriggers, NEW h
    PROVE  MatchesGitHubTrigger(t, h) <=> Fires(t, h)
<1>1. CASE t = "github:push"
      BY <1>1 DEF MatchesGitHubTrigger, Fires, GITHUB_TRIGGER_ROUTING, Rule
<1>2. CASE t = "github:pull_request_opened"
      BY <1>2 DEF MatchesGitHubTrigger, Fires, GITHUB_TRIGGER_ROUTING, Rule
<1>3. CASE t = "github:issue_opened"
      BY <1>3 DEF MatchesGitHubTrigger, Fires, GITHUB_TRIGGER_ROUTING, Rule
<1>4. CASE t = "github:branch_created"
      BY <1>4 DEF MatchesGitHubTrigger, Fires, GITHUB_TRIGGER_ROUTING, Rule
<1>5. CASE t = "github:release_published"
      BY <1>5 DEF MatchesGitHubTrigger, Fires, GITHUB_TRIGGER_ROUTING, Rule
<1> QED BY <1>1, <1>2, <1>3, <1>4, <1>5 DEF GithubTriggers, GITHUB_TRIGGER_ROUTING

(* What the handler skips is what nobody wants.                            *)
LEMMA SkippedIsUnwanted ==
    ASSUME NEW e \in Events, hook[e].signed, ~hook[e].large
    PROVE  Wanted(e) <=> hook[e].header = "" \/ MatchesGitHubTrigger(trigger, hook[e])
<1>1. CASE trigger \in GithubTriggers
      BY <1>1, Routing DEF Wanted
<1>2. CASE trigger \notin GithubTriggers
      BY <1>2 DEF Wanted, MatchesGitHubTrigger, GithubTriggers
<1> QED BY <1>1, <1>2

LEMMA EventIds ==
    ASSUME TypeOK, NEW e \in Events, hook[e].id \/ tries[e] < MaxTries
    PROVE  EventId(e) \in Ids /\ EventId(e)[1] = e
<1>1. tries[e] \in 0 .. MaxTries /\ MaxTries \in Nat
      BY IngestAssumption DEF TypeOK, IngestAssumption
<1> QED BY <1>1 DEF EventId, Ids

-----------------------------------------------------------------------------
(* Types *)

Handled  == [at : {"lookup", "insert"}, event : Events, id : Ids, status : {""}]
Answered == [at : {"answer"}, event : Events, id : Ids, status : Statuses]

(* The label of a request tells of which kind it is.                       *)
LEMMA RequestKinds ==
    ASSUME NEW x \in Request
    PROVE  /\ x.at \in {"lookup", "insert"} => x \in Handled
           /\ x.at = "answer" => x \in Answered
           /\ x.at \in {"idle", "lookup", "insert", "answer"}
<1>1. CASE x = Idle
      BY <1>1 DEF Idle
<1>2. CASE x \in Handled
      BY <1>2 DEF Handled
<1>3. CASE x \in Answered
      BY <1>3 DEF Answered
<1> QED BY <1>1, <1>2, <1>3 DEF Request, Handled, Answered

LEMMA KindsAreRequests ==
    /\ Idle \in Request
    /\ Handled \subseteq Request
    /\ Answered \subseteq Request
BY DEF Request, Handled, Answered

(* What a step does that gives request r the value x.                      *)
LEMMA RequestEffect ==
    ASSUME TypeOK, NEW r \in Requests, NEW x \in Request,
           request' = [request EXCEPT ![r] = x]
    PROVE  /\ request' \in [Requests -> Request]
           /\ request'[r] = x
           /\ \A q \in Requests \ {r} : request'[q] = request[q]
BY DEF TypeOK

(* Return turns a request that is handled into an answer.                  *)
LEMMA ReturnEffect ==
    ASSUME TypeOK, NEW r \in Requests, NEW status \in Statuses,
           request[r].at \in {"lookup", "insert"}, Return(r, status)
    PROVE  /\ request' = [request EXCEPT ![r] = request'[r]]
           /\ request'[r] \in Answered
           /\ request'[r].event = request[r].event
           /\ request'[r].id = request[r].id
           /\ request'[r].status = status
<1>1. request[r] \in Handled
      BY RequestKinds DEF TypeOK
<1>2. request'[r] = [request[r] EXCEPT !.at = "answer", !.status = status]
      BY DEF Return, TypeOK
<1>3. request' = [request EXCEPT ![r] = request'[r]]
      BY <1>2 DEF Return, TypeOK
<1> QED BY <1>1, <1>2, <1>3 DEF Handled, Answered

(* Where a step may leave request r.                                       *)
Moved(r) ==
    /\ request'[r] \in Request
    /\ request' = [request EXCEPT ![r] = request'[r]]

LEMMA DeliverMoves ==
    ASSUME TypeOK, NEW r \in Requests, NEW e \in Events, Deliver(r, e)
    PROVE  /\ Moved(r)
           /\ request'[r].event = e /\ request'[r].id[1] = e
           /\ IF hook[e].large
              THEN request'[r].at = "answer" /\ request'[r].status = "too_large"
              ELSE request'[r].at = "lookup"
<1> DEFINE x == IF hook[e].large
                THEN [at |-> "answer", event |-> e, id |-> EventId(e),
                      status |-> "too_large"]
                ELSE [at |-> "lookup", event |-> e, id |-> EventId(e),
                      status |-> ""]
<1>1. EventId(e) \in Ids /\ EventId(e)[1] = e
      BY EventIds DEF Deliver
<1>2. x \in Request
      BY <1>1, KindsAreRequests DEF Handled, Answered, Statuses
<1>3. request' = [request EXCEPT ![r] = x]
      BY DEF Deliver
<1>4. request'[r] = x
      BY <1>2, <1>3, RequestEffect
<1>5. x.event = e /\ x.id = EventId(e)
      OBVIOUS
<1>6. IF hook[e].large THEN x.at = "answer" /\ x.status = "too_large"
                       ELSE x.at = "lookup"
      OBVIOUS
<1> HIDE DEF x
<1> QED BY <1>1, <1>2, <1>3, <1>4, <1>5, <1>6 DEF Moved

LEMMA HandleMoves ==
    ASSUME TypeOK, NEW r \in Requests, Handle(r) \/ Lose(r)
    PROVE  Moved(r)
<1>1. ASSUME NEW status \in Statuses, Return(r, status),
             request[r].at \in {"lookup", "insert"}
      PROVE  Moved(r)
      BY <1>1, ReturnEffect, KindsAreRequests DEF Moved
<1>2. CASE Lookup(r)
  <2>1. CASE request' = [request EXCEPT ![r].at = "insert"]
    <3>1. request[r] \in Handled
          BY <1>2, RequestKinds DEF Lookup, TypeOK
    <3>2. request'[r] = [request[r] EXCEPT !.at = "insert"]
          BY <2>1 DEF TypeOK
    <3>3. request'[r] \in Handled
          BY <3>1, <3>2 DEF Handled
    <3> QED BY <2>1, <3>2, <3>3, KindsAreRequests DEF Moved, TypeOK
  <2>2. CASE Return(r, "not_found") \/ Return(r, "unauthorized") \/ Return(r, "skipped")
        BY <1>1, <1>2, <2>2 DEF Lookup, Statuses
  <2> QED BY <1>2, <2>1, <2>2 DEF Lookup
<1>3. CASE Insert(r) \/ Fail(r)
      BY <1>1, <1>3 DEF Insert, Fail, Statuses
<1>4. CASE Answer(r) \/ Lose(r)
  <2>1. request' = [request EXCEPT ![r] = Idle]
        BY <1>4 DEF Answer, Lose
  <2> QED BY <2>1, KindsAreRequests, RequestEffect DEF Moved
<1> QED BY <1>2, <1>3, <1>4 DEF Handle

LEMMA StoreType ==
    ASSUME NEW table \in [Ids -> Nat], NEW i \in Ids
    PROVE  /\ Store(table, i) \in [Ids -> Nat]
           /\ \A k \in Ids : Store(table, i)[k] = IF k = i THEN table[k] + 1 ELSE table[k]
BY DEF Store

LEMMA InitTypes == Init => TypeOK
<1> SUFFICES ASSUME Init PROVE TypeOK
    OBVIOUS
<1>1. MaxTries \in Nat
      BY IngestAssumption DEF IngestAssumption
<1> QED BY <1>1, KindsAreRequests DEF Init, TypeOK

LEMMA NextTypes == TypeOK /\ [Next]_vars => TypeOK'
<1> SUFFICES ASSUME TypeOK, [Next]_vars PROVE TypeOK'
    OBVIOUS
<1>1. ASSUME NEW r \in Requests, NEW e \in Events, Deliver(r, e) PROVE TypeOK'
  <2>1. request' \in [Requests -> Request]
        BY <1>1, DeliverMoves, RequestEffect DEF Moved
  <2>2. tries' \in [Events -> 0 .. MaxTries]
    <3>1. MaxTries \in Nat
          BY IngestAssumption DEF IngestAssumption
    <3>2. tries' = [tries EXCEPT ![e] = IF @ < MaxTries THEN @ + 1 ELSE @]
          BY <1>1 DEF Deliver
    <3> QED BY <3>1, <3>2 DEF TypeOK
  <2> QED BY <1>1, <2>1, <2>2 DEF Deliver, TypeOK, tables
<1>2. ASSUME NEW r \in Requests, Handle(r) \/ Lose(r) PROVE TypeOK'
  <2>1. request' \in [Requests -> Request]
        BY <1>2, HandleMoves, RequestEffect DEF Moved
  <2>2. CASE Lookup(r) \/ Fail(r) \/ Answer(r) \/ Lose(r)
        BY <2>1, <2>2 DEF Lookup, Fail, Answer, Lose, TypeOK, tables, provider
  <2>3. CASE Insert(r)
    <3>1. request[r].id \in Ids
          BY <2>3, RequestKinds DEF Insert, TypeOK, Handled
    <3>2. events' \in [Ids -> Nat] /\ runs' \in [Ids -> Nat] /\ outbox' \in [Ids -> Nat]
          BY <2>3, <3>1, StoreType DEF Insert, TypeOK, tables
    <3> QED BY <2>1, <2>3, <3>2 DEF Insert, TypeOK, provider
  <2> QED BY <1>2, <2>2, <2>3 DEF Handle
<1>3. ASSUME NEW state \in {"active", "inactive"}, SetActive(state) PROVE TypeOK'
      BY <1>3 DEF SetActive, TypeOK, tables, provider
<1>4. CASE DeleteZap
      BY <1>4 DEF DeleteZap, TypeOK, tables, provider
<1>5. CASE UNCHANGED vars
      BY <1>5 DEF vars, tables, provider, TypeOK
<1> QED BY <1>1, <1>2, <1>3, <1>4, <1>5 DEF Next

(* Requests, tables and histories keep their types.                        *)
THEOREM TypeCorrect == Spec => []TypeOK
BY InitTypes, NextTypes, PTL DEF Spec

-----------------------------------------------------------------------------
(* Storing once *)

(* What a request knows of its event: the id is the event's, the body is   *)
(* not too large once it is looked up, it is wanted once it is inserted,   *)
(* and each answer that is a 200 has its reason.                           *)
RequestInv(r) ==
    LET x == request[r]
    IN  /\ x.id[1] = x.event
        /\ x.at = "lookup" => ~hook[x.event].large
        /\ x.at = "insert" => Wanted(x.event)
        /\ x.at = "answer" =>
               /\ x.status = "not_found" => dropped[x.event]
               /\ x.status = "skipped" => ~Wanted(x.event)
               /\ x.status \in {"ingested", "duplicate"} => events[x.id] > 0

IngestInv == \A r \in Requests : RequestInv(r)

(* What every step leaves to the requests: webhooks do not change, events  *)
(* stay stored, and what was dropped was.                                  *)
Grows ==
    /\ hook' = hook /\ trigger' = trigger
    /\ \A i \in Ids : events[i] > 0 => events'[i] > 0
    /\ \A e \in Events : dropped[e] => dropped'[e]

LEMMA SameWanted ==
    ASSUME hook' = hook, trigger' = trigger
    PROVE  \A e : Wanted(e)' <=> Wanted(e)
BY DEF Wanted, Fires, GithubTriggers, GITHUB_TRIGGER_ROUTING

LEMMA InsertGrows ==
    ASSUME TypeOK, NEW r \in Requests, Insert(r)
    PROVE  /\ Grows
           /\ request[r].id \in Ids
           /\ IF events[request[r].id] > 0
              THEN UNCHANGED tables
              ELSE \A i \in Ids : i = request[r].id =>
                       /\ events'[i] = events[i] + 1
                       /\ runs'[i] = runs[i] + 1
                       /\ outbox'[i] = outbox[i] + 1
           /\ \A i \in Ids \ {request[r].id} :
                  events'[i] = events[i] /\ runs'[i] = runs[i] /\ outbox'[i] = outbox[i]
<1>1. request[r].id \in Ids
      BY RequestKinds DEF Insert, TypeOK, Handled
<1>2. CASE events[request[r].id] > 0
      BY <1>1, <1>2 DEF Insert, Grows, tables
<1>3. CASE ~(events[request[r].id] > 0)
  <2> DEFINE i == request[r].id
  <2>1. /\ events' = Store(events, i) /\ runs' = Store(runs, i)
        /\ outbox' = Store(outbox, i)
        /\ hook' = hook /\ trigger' = trigger /\ dropped' = dropped
        BY <1>3 DEF Insert
  <2>2. \A k \in Ids : /\ events'[k] = IF k = i THEN events[k] + 1 ELSE events[k]
                       /\ runs'[k] = IF k = i THEN runs[k] + 1 ELSE runs[k]
                       /\ outbox'[k] = IF k = i THEN outbox[k] + 1 ELSE outbox[k]
        BY <1>1, <2>1, StoreType DEF TypeOK
  <2>3. \A k \in Ids : events[k] \in Nat
        BY DEF TypeOK
  <2>4. \A k \in Ids : events[k] > 0 => events'[k] > 0
        BY <2>2, <2>3
  <2> HIDE DEF i
  <2> QED BY <1>1, <1>3, <2>1, <2>2, <2>4 DEF Grows, i
<1> QED BY <1>2, <1>3

LEMMA NextGrows ==
    ASSUME TypeOK, [Next]_vars
    PROVE  Grows
<1>1. ASSUME NEW r \in Requests, NEW e \in Events, Deliver(r, e) PROVE Grows
      BY <1>1 DEF Deliver, Grows, tables
<1>2. ASSUME NEW r \in Requests, Lookup(r) PROVE Grows
      BY <1>2 DEF Lookup, Grows, tables, TypeOK
<1>3. ASSUME NEW r \in Requests, Fail(r) \/ Answer(r) \/ Lose(r) PROVE Grows
      BY <1>3 DEF Fail, Answer, Lose, Grows, tables
<1>4. ASSUME NEW state, SetActive(state) PROVE Grows
      BY <1>4 DEF SetActive, Grows, tables
<1>5. CASE DeleteZap
      BY <1>5 DEF DeleteZap, Grows, tables
<1>6. CASE UNCHANGED vars
      BY <1>6 DEF vars, tables, Grows
<1> QED BY <1>1, <1>2, <1>3, <1>4, <1>5, <1>6, InsertGrows DEF Next, Handle

(* A request that a step leaves alone keeps what it knows.                 *)
LEMMA Bystander ==
    ASSUME TypeOK, Grows, NEW q \in Requests, RequestInv(q), request'[q] = request[q]
    PROVE  RequestInv(q)'
<1>1. CASE request[q].at = "answer"
  <2>1. request[q] \in Answered
        BY <1>1, RequestKinds DEF TypeOK
  <2>2. request[q].event \in Events /\ request[q].id \in Ids
        BY <2>1 DEF Answered
  <2> QED BY <1>1, <2>2, SameWanted DEF RequestInv, Grows
<1>2. CASE request[q].at # "answer"
      BY <1>2, SameWanted DEF RequestInv, Grows
<1> QED BY <1>1, <1>2

(* A request that returns knows the reason of its answer.                  *)
LEMMA AnswerKnows ==
    ASSUME TypeOK, Grows, NEW r \in Requests, RequestInv(r),
           request[r].at \in {"lookup", "insert"},
           NEW status \in Statuses, Return(r, status),
           status = "not_found" => dropped'[request[r].event],
           status = "skipped" => ~Wanted(request[r].event),
           status \in {"ingested", "duplicate"} => events'[request[r].id] > 0
    PROVE  RequestInv(r)'
<1>1. /\ request'[r].at = "answer"
      /\ request'[r].event = request[r].event
      /\ request'[r].id = request[r].id
      /\ request'[r].status = status
      BY ReturnEffect DEF Answered
<1> QED BY <1>1, SameWanted DEF RequestInv, Grows

(* The request that acts knows what its new label says.                    *)
LEMMA ActingRequest ==
    ASSUME TypeOK, Grows, NEW r \in Requests, RequestInv(r), Handle(r) \/ Lose(r)
    PROVE  RequestInv(r)'
<1> DEFINE e == request[r].event
<1>1. CASE Lookup(r)
  <2>1. request[r] \in Handled /\ e \in Events
        BY <1>1, RequestKinds DEF Lookup, TypeOK, Handled
  <2>2. ~hook[e].large
        BY <1>1 DEF Lookup, RequestInv
  <2>3. CASE zap # "active"
    <3>1. Return(r, "not_found") /\ dropped'[e]
          BY <1>1, <2>1, <2>3 DEF Lookup, TypeOK
    <3> QED BY <1>1, <3>1, AnswerKnows DEF Statuses, Lookup
  <2>4. CASE zap = "active" /\ ~hook[e].signed
    <3>1. Return(r, "unauthorized")
          BY <1>1, <2>4 DEF Lookup
    <3> QED BY <1>1, <3>1, AnswerKnows DEF Statuses, Lookup
  <2>5. CASE zap = "active" /\ hook[e].signed /\ ~Wanted(e)
    <3>1. Return(r, "skipped")
          BY <1>1, <2>1, <2>2, <2>5, SkippedIsUnwanted DEF Lookup
    <3> QED BY <1>1, <2>5, <3>1, AnswerKnows DEF Statuses, Lookup
  <2>6. CASE zap = "active" /\ hook[e].signed /\ Wanted(e)
    <3>1. request' = [request EXCEPT ![r].at = "insert"]
          BY <1>1, <2>1, <2>2, <2>6, SkippedIsUnwanted DEF Lookup
    <3>2. request'[r] = [request[r] EXCEPT !.at = "insert"]
          BY <3>1 DEF TypeOK
    <3>3. /\ request'[r].at = "insert"
          /\ request'[r].event = e
          /\ request'[r].id = request[r].id
          BY <2>1, <3>2 DEF Handled
    <3> QED BY <2>6, <3>3, SameWanted DEF RequestInv, Grows
  <2> QED BY <2>3, <2>4, <2>5, <2>6
<1>2. CASE Insert(r)
  <2>1. request[r].id \in Ids /\ events'[request[r].id] > 0
        BY <1>2, InsertGrows DEF TypeOK, Grows
  <2>2. Return(r, "ingested") \/ Return(r, "duplicate")
        BY <1>2 DEF Insert
  <2> QED BY <1>2, <2>1, <2>2, AnswerKnows DEF Insert, Statuses
<1>3. CASE Fail(r)
      BY <1>3, AnswerKnows DEF Fail, Statuses
<1>4. CASE Answer(r) \/ Lose(r)
  <2>1. request'[r] = Idle
        BY <1>4 DEF Answer, Lose, TypeOK
  <2>2. Idle.id[1] = Idle.event /\ Idle.at = "idle"
        BY DEF Idle
  <2> QED BY <2>1, <2>2 DEF RequestInv
<1> QED BY <1>1, <1>2, <1>3, <1>4 DEF Handle

LEMMA InitIngest == Init => IngestInv
<1> SUFFICES ASSUME Init, NEW r \in Requests PROVE RequestInv(r)
    BY DEF IngestInv
<1>1. request[r] = Idle
      BY DEF Init
<1>2. Idle.id[1] = Idle.event /\ Idle.at = "idle"
      BY DEF Idle
<1> QED BY <1>1, <1>2 DEF RequestInv

LEMMA NextIngest == TypeOK /\ IngestInv /\ [Next]_vars => IngestInv'
<1> SUFFICES ASSUME TypeOK, IngestInv, [Next]_vars, NEW q \in Requests
             PROVE  RequestInv(q)'
    BY DEF IngestInv
<1>1. Grows /\ RequestInv(q)
      BY NextGrows DEF IngestInv
<1>2. ASSUME NEW r \in Requests, NEW e \in Events, Deliver(r, e)
      PROVE  RequestInv(q)'
  <2>1. CASE q = r
    <3>1. hook' = hook
          BY <1>1 DEF Grows
    <3>2. /\ request'[r].event = e /\ request'[r].id[1] = e
          /\ request'[r].at = "lookup" => ~hook[e].large
          /\ request'[r].at # "insert"
          /\ request'[r].at = "answer" => request'[r].status = "too_large"
          BY <1>2, DeliverMoves
    <3> QED BY <2>1, <3>1, <3>2 DEF RequestInv
  <2>2. CASE q # r
        BY <1>1, <1>2, <2>2, DeliverMoves, RequestEffect, Bystander DEF Moved
  <2> QED BY <2>1, <2>2
<1>3. ASSUME NEW r \in Requests, Handle(r) \/ Lose(r)
      PROVE  RequestInv(q)'
  <2>1. CASE q = r
        BY <1>1, <1>3, <2>1, ActingRequest
  <2>2. CASE q # r
        BY <1>1, <1>3, <2>2, HandleMoves, RequestEffect, Bystander DEF Moved
  <2> QED BY <2>1, <2>2
<1>4. CASE DeleteZap \/ (\E state \in {"active", "inactive"} : SetActive(state))
  <2>1. request' = request
        BY <1>4 DEF DeleteZap, SetActive
  <2> QED BY <1>1, <2>1, Bystander
<1>5. CASE UNCHANGED vars
  <2>1. request' = request
        BY <1>5 DEF vars
  <2> QED BY <1>1, <2>1, Bystander
<1> QED BY <1>2, <1>3, <1>4, <1>5 DEF Next

(* Only Insert writes to the tables.                                       *)
LEMMA InsertOnly ==
    ASSUME [Next]_vars
    PROVE  UNCHANGED tables \/ \E r \in Requests : Insert(r)
<1>1. ASSUME NEW r \in Requests, NEW e \in Events, Deliver(r, e)
      PROVE  UNCHANGED tables
      BY <1>1 DEF Deliver
<1>2. ASSUME NEW r \in Requests, Lookup(r) \/ Fail(r) \/ Answer(r) \/ Lose(r)
      PROVE  UNCHANGED tables
      BY <1>2 DEF Lookup, Fail, Answer, Lose
<1>3. CASE DeleteZap \/ \E state \in {"active", "inactive"} : SetActive(state)
      BY <1>3 DEF DeleteZap, SetActive
<1>4. CASE UNCHANGED vars
      BY <1>4 DEF vars
<1> QED BY <1>1, <1>2, <1>3, <1>4 DEF Next, Handle

LEMMA StoredStep ==
    ASSUME TypeOK, IngestInv, StoredOnceAndWhole, [Next]_vars
    PROVE  StoredOnceAndWhole'
<1> SUFFICES ASSUME NEW i \in Ids
             PROVE  /\ events'[i] <= 1 /\ runs'[i] = events'[i]
                    /\ outbox'[i] = events'[i]
                    /\ events'[i] > 0 => Wanted(i[1])
    BY NextGrows, SameWanted DEF StoredOnceAndWhole, Grows
<1>1. /\ events[i] \in Nat /\ events[i] <= 1
      /\ runs[i] = events[i] /\ outbox[i] = events[i]
      /\ events[i] > 0 => Wanted(i[1])
      BY DEF TypeOK, StoredOnceAndWhole
<1>2. CASE UNCHANGED tables
      BY <1>1, <1>2 DEF tables
<1>3. ASSUME NEW r \in Requests, Insert(r), i # request[r].id PROVE UNCHANGED <<events[i], runs[i], outbox[i]>>
      BY <1>3, InsertGrows
<1>4. ASSUME NEW r \in Requests, Insert(r), i = request[r].id, ~UNCHANGED tables
      PROVE  /\ events'[i] = 1 /\ runs'[i] = 1 /\ outbox'[i] = 1
             /\ Wanted(i[1])
  <2>1. ~(events[i] > 0)
        BY <1>4 DEF Insert
  <2>2. events'[i] = 1 /\ runs'[i] = 1 /\ outbox'[i] = 1
        BY <1>1, <1>4, <2>1, InsertGrows
  <2>3. Wanted(i[1])
        BY <1>4 DEF IngestInv, RequestInv, Insert
  <2> QED BY <2>2, <2>3
<1> QED BY <1>1, <1>2, <1>3, <1>4, InsertOnly

(* However often and concurrently an event is delivered, it is stored once *)
(* per event id, with its run and its outbox row, and only if it is wanted *)
(* (the transaction and the unique key of ingestWebhook).                  *)
THEOREM StoredOnce == Spec => []StoredOnceAndWhole
<1>1. Init => StoredOnceAndWhole
      BY DEF Init, StoredOnceAndWhole
<1>2. TypeOK /\ IngestInv /\ StoredOnceAndWhole /\ [Next]_vars => StoredOnceAndWhole'
      BY StoredStep
<1> QED BY <1>1, <1>2, InitTypes, NextTypes, InitIngest, NextIngest, PTL DEF Spec

-----------------------------------------------------------------------------
(* Acknowledging *)

(* Why an event may be answered with 200.                                  *)
Settled(e) ==
    \/ dropped[e] \/ ~Wanted(e)
    \/ \E i \in Ids : i[1] = e /\ events[i] > 0

(* Stored whole, an event that is settled has its run.                     *)
LEMMA SettledHasRun ==
    ASSUME StoredOnceAndWhole
    PROVE  AcknowledgedHasRun <=> \A e \in Events : acked[e] => Settled(e)
BY DEF StoredOnceAndWhole, AcknowledgedHasRun, Settled

LEMMA SettledStays ==
    ASSUME Grows, NEW e \in Events, Settled(e)
    PROVE  Settled(e)'
BY SameWanted DEF Grows, Settled

LEMMA AnswerSettles ==
    ASSUME TypeOK, IngestInv, NEW r \in Requests, Answer(r), NEW e \in Events,
           acked'[e], ~acked[e]
    PROVE  Settled(e)
<1>1. /\ e = request[r].event
      /\ request[r].status \notin {"unauthorized", "too_large", "error"}
      BY DEF Answer, TypeOK
<1>2. /\ request[r].status \in {"not_found", "skipped", "ingested", "duplicate"}
      /\ request[r].id \in Ids
      BY <1>1, RequestKinds DEF Answer, TypeOK, Answered, Statuses
<1> QED BY <1>1, <1>2 DEF IngestInv, RequestInv, Answer, Settled

LEMMA AckedStep ==
    ASSUME TypeOK, IngestInv, StoredOnceAndWhole, AcknowledgedHasRun, [Next]_vars
    PROVE  AcknowledgedHasRun'
<1>1. Grows /\ StoredOnceAndWhole'
      BY NextGrows, StoredStep
<1>2. ASSUME NEW e \in Events, acked'[e], ~acked[e] PROVE Settled(e)
  <2>1. ASSUME acked' = acked PROVE FALSE
        BY <1>2, <2>1
  <2>2. \E r \in Requests : Answer(r)
        BY <2>1 DEF Next, Handle, Deliver, Lookup, Insert, Fail, Lose, SetActive,
                    DeleteZap, vars, provider
  <2> QED BY <1>2, <2>2, AnswerSettles
<1>3. \A e \in Events : acked'[e] => Settled(e)'
      BY <1>1, <1>2, SettledHasRun, SettledStays
<1> QED
  <2>1. ASSUME NEW e \in Events, acked'[e]
        PROVE  \/ dropped'[e] \/ ~Wanted(e)'
               \/ \E i \in Ids : i[1] = e /\ runs'[i] > 0 /\ outbox'[i] > 0
    <3>1. Settled(e)'
          BY <1>3, <2>1
    <3> QED BY <1>1, <3>1 DEF Settled, StoredOnceAndWhole
  <2> QED BY <2>1 DEF AcknowledgedHasRun

(* A 200 lets the provider forget the event: whoever got one has a stored  *)
(* event with its run, unless nobody wanted it or the zap was off          *)
(* (handleWebhook).                                                        *)
THEOREM AcknowledgedHasItsRun == Spec => []AcknowledgedHasRun
<1>1. Init => StoredOnceAndWhole /\ AcknowledgedHasRun
      BY DEF Init, StoredOnceAndWhole, AcknowledgedHasRun
<1>2. /\ TypeOK /\ IngestInv /\ StoredOnceAndWhole /\ AcknowledgedHasRun
      /\ [Next]_vars
      => AcknowledgedHasRun'
      BY AckedStep
<1> QED BY <1>1, <1>2, InitTypes, NextTypes, InitIngest, NextIngest, StoredOnce, PTL
        DEF Spec

-----------------------------------------------------------------------------
(* The lifecycle of an event *)

(* The tables, as the relay finds them.                                    *)
StageOf(i) == IF events[i] = 0 THEN "none" ELSE "queued"
Kept(i)    == runs[i] > 0 /\ outbox[i] > 0

(* The row that Insert adds is a queued run with an outbox row, and no     *)
(* other row changes.                                                      *)
LEMMA InsertStores ==
    ASSUME TypeOK, NEW r \in Requests, Insert(r), events[request[r].id] = 0
    PROVE  Lifecycle!Next
<1>1. PICK i \in Ids : i = request[r].id
      BY InsertGrows
<1> DEFINE stage == [k \in Ids |-> StageOf(k)]
           after == [k \in Ids |-> StageOf(k)']
           kept  == [k \in Ids |-> Kept(k)]
           whole == [k \in Ids |-> Kept(k)']
<1>2. /\ \A k \in Ids : k = i => /\ events'[k] = events[k] + 1
                                 /\ runs'[k] = runs[k] + 1
                                 /\ outbox'[k] = outbox[k] + 1
      /\ \A k \in Ids \ {i} :
             events'[k] = events[k] /\ runs'[k] = runs[k] /\ outbox'[k] = outbox[k]
      BY <1>1, InsertGrows
<1>3. events[i] \in Nat /\ runs[i] \in Nat /\ outbox[i] \in Nat
      BY <1>1 DEF TypeOK
<1>4. stage[i] = "none" /\ after[i] = "queued" /\ Kept(i)' = TRUE
  <2>1. events'[i] # 0 /\ runs'[i] > 0 /\ outbox'[i] > 0
        BY <1>1, <1>2, <1>3
  <2>2. StageOf(i) = "none"
        BY <1>1 DEF StageOf
  <2>3. StageOf(i)' = "queued"
        BY <2>1 DEF StageOf
  <2>4. Kept(i)' = TRUE
        BY <2>1 DEF Kept
  <2>5. stage[i] = StageOf(i) /\ after[i] = StageOf(i)'
        BY <1>1
  <2> QED BY <2>2, <2>3, <2>4, <2>5
<1>5. \A k \in Ids \ {i} : after[k] = stage[k] /\ whole[k] = kept[k]
      BY <1>2 DEF StageOf, Kept
<1>6. whole[i] = TRUE
  <2>1. whole[i] = Kept(i)'
        BY <1>1
  <2> QED BY <1>4, <2>1
<1>7. /\ stage = [k \in Ids |-> stage[k]] /\ after = [k \in Ids |-> after[k]]
      /\ kept = [k \in Ids |-> kept[k]] /\ whole = [k \in Ids |-> whole[k]]
      OBVIOUS
<1> HIDE DEF stage, after, kept, whole
<1>8. after = [stage EXCEPT ![i] = "queued"] /\ whole = [kept EXCEPT ![i] = TRUE]
      BY <1>1, <1>4, <1>5, <1>6, <1>7
<1> QED BY <1>1, <1>4, <1>8
        DEF Lifecycle!Next, Lifecycle!Store, Lifecycle!Advance, stage, after,
            kept, whole, StageOf, Kept

LEMMA LifecycleStep ==
    ASSUME TypeOK, [Next]_vars
    PROVE  [Lifecycle!Next]_(Lifecycle!vars)
<1>1. CASE UNCHANGED tables
      BY <1>1 DEF Lifecycle!vars, tables
<1>2. CASE \E r \in Requests : Insert(r)
  <2>1. PICK r \in Requests : Insert(r)
        BY <1>2
  <2>2. request[r].id \in Ids /\ events[request[r].id] \in Nat
        BY <2>1, InsertGrows DEF TypeOK
  <2>3. CASE events[request[r].id] > 0
        BY <1>1, <2>1, <2>3, InsertGrows
  <2>4. CASE ~(events[request[r].id] > 0)
        BY <2>1, <2>2, <2>4, InsertStores
  <2> QED BY <2>3, <2>4
<1> QED BY <1>1, <1>2 DEF Next, Handle, Deliver, Lookup, Fail, Answer, Lose,
                          SetActive, DeleteZap, vars, tables

(* hooks-api is where the life of an event begins: with its run and its    *)
(* outbox row in one step, whatever is rejected, lost or delivered again.  *)
THEOREM Refinement == Spec => ImplementsLifecycle
<1>1. Init => Lifecycle!Init
      BY DEF Init, Lifecycle!Init
<1> QED BY <1>1, InitTypes, NextTypes, LifecycleStep, PTL
        DEF Spec, ImplementsLifecycle, Lifecycle!Spec
=============================================================================
