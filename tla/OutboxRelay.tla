---------------------------- MODULE OutboxRelay ----------------------------
(***************************************************************************)
(* The outbox: from the transaction of hooks-api that stores a webhook     *)
(* event, over the relay (apps/relay) that hands the event to Kafka, to    *)
(* the worker that marks the row consumed, with the cron jobs of app-api   *)
(* that recover and delete rows.  Several relay processes poll the same    *)
(* table.  One action is one awaited statement, one producer call, or one  *)
(* sweep of a job.  Of the worker only what touches the outbox row is      *)
(* here; RunExecution has the rest of it.                                  *)
(***************************************************************************)
EXTENDS Integers, FiniteSets

CONSTANTS
    Pollers,        \* relay processes
    NumEvents,      \* webhook events, numbered in the order of created_at
    BatchSize,      \* RELAY_BATCH_SIZE
    MaxAttempts,    \* outbox.max_attempts
    Faults          \* what may go wrong in this instance, a subset of FaultKinds

Events == 1 .. NumEvents

(* "crash": a relay or a worker process dies; "connect": the producer does *)
(* not reach Kafka; "broker": Kafka refuses a message; "ack": it stores    *)
(* the message but the acknowledgement is lost; "throw": the database      *)
(* refuses a statement.                                                    *)
FaultKinds == {"crash", "connect", "broker", "ack", "throw"}

ASSUME OutboxAssumption ==
    /\ NumEvents \in Nat
    /\ BatchSize \in Nat \ {0}
    /\ MaxAttempts \in Nat \ {0}
    /\ Faults \subseteq FaultKinds

VARIABLES
    \* tables
    status,     \* outbox.status; "none" before the row, "deleted" after it
    attempts,   \* outbox.attempts, up to AttemptCap
    age,        \* 0: young, 1: created over 15 minutes ago, 2: over 7 days
    run,        \* zap_runs.status of the event, the terminal ones taken together
    \* relay processes
    hold,       \* what the process is doing with a row of its batch
    snap,       \* row.attempts as its SELECT returned it
    link,       \* the module variable producer, and whether it is connected
    \* Kafka and the worker
    published,  \* the topic holds a message of the event
    work        \* what the worker that received the message has still to do

relay == <<hold, snap, link>>
vars  == <<status, attempts, age, run, hold, snap, link, published, work>>

(* attempts is only ever compared with max_attempts. *)
AttemptCap == MaxAttempts
Saturate(n) == IF n > AttemptCap THEN AttemptCap ELSE n

RowStatus == {"none", "pending", "dispatched", "consumed", "dead", "deleted"}

TypeOK ==
    /\ status \in [Events -> RowStatus]
    /\ attempts \in [Events -> 0 .. AttemptCap]
    /\ age \in [Events -> 0 .. 2]
    /\ run \in [Events -> {"none", "queued", "in_progress", "terminal"}]
    /\ hold \in [Pollers -> [Events ->
                    {"none", "locked", "produce", "connect", "send", "error"}]]
    /\ snap \in [Pollers -> [Events -> 0 .. AttemptCap]]
    /\ link \in [Pollers -> {"none", "connecting", "connected", "broken"}]
    /\ published \in [Events -> BOOLEAN]
    /\ work \in [Events -> {"none", "marking", "executing"}]

Init ==
    /\ status = [e \in Events |-> "none"]
    /\ attempts = [e \in Events |-> 0]
    /\ age = [e \in Events |-> 0]
    /\ run = [e \in Events |-> "none"]
    /\ hold = [p \in Pollers |-> [e \in Events |-> "none"]]
    /\ snap = [p \in Pollers |-> [e \in Events |-> 0]]
    /\ link = [p \in Pollers |-> "none"]
    /\ published = [e \in Events |-> FALSE]
    /\ work = [e \in Events |-> "none"]

-----------------------------------------------------------------------------
(* hooks-api *)

(* One transaction stores the event, its queued run and its outbox row. *)
Ingest(e) ==
    /\ status[e] = "none"
    /\ status' = [status EXCEPT ![e] = "pending"]
    /\ run' = [run EXCEPT ![e] = "queued"]
    /\ UNCHANGED <<attempts, age, relay, published, work>>

-----------------------------------------------------------------------------
(* pollOutbox *)

Locked(e) == \E p \in Pollers : hold[p][e] = "locked"

Hold(p, e, label) == hold' = [hold EXCEPT ![p][e] = label]

(* ORDER BY created_at ASC LIMIT. *)
OldestOf(rows) ==
    {e \in rows : Cardinality({d \in rows : d < e}) < BatchSize}

(* A sweep starts when every row of the previous one has settled. *)
SelectRows(p, batch) ==
    /\ \A e \in Events : hold[p][e] = "none"
    /\ batch # {}
    /\ hold' = [hold EXCEPT ![p] =
                   [e \in Events |-> IF e \in batch THEN "locked" ELSE "none"]]
    /\ snap' = [snap EXCEPT ![p] =
                   [e \in Events |-> IF e \in batch THEN attempts[e] ELSE 0]]
    /\ UNCHANGED <<status, attempts, age, run, link, published, work>>

(* Mutant of Select: a plain SELECT of the pending rows. *)
SelectIgnoresLocks(p) ==
    SelectRows(p, OldestOf({e \in Events : status[e] = "pending"}))

(* SELECT ... WHERE status = 'pending' ... FOR UPDATE OF o SKIP LOCKED. *)
Select(p) ==
    SelectRows(p, OldestOf({e \in Events : status[e] = "pending" /\ ~Locked(e)}))

(* UPDATE ... SET status = 'dispatched', attempts = attempts + 1, and the  *)
(* commit: now produceRow runs for every row of the batch.                 *)
Dispatch(p) ==
    LET batch == {e \in Events : hold[p][e] = "locked"} IN
    /\ batch # {}
    /\ status' = [e \in Events |-> IF e \in batch THEN "dispatched" ELSE status[e]]
    /\ attempts' = [e \in Events |->
                       IF e \in batch THEN Saturate(attempts[e] + 1) ELSE attempts[e]]
    /\ hold' = [hold EXCEPT ![p] =
                   [e \in Events |-> IF e \in batch THEN "produce" ELSE @[e]]]
    /\ UNCHANGED <<age, run, snap, link, published, work>>

-----------------------------------------------------------------------------
(* produceRow *)

(* getProducer: the first call of the process creates the producer and     *)
(* waits for its connection; every later one gets the producer as it is.   *)
GetProducer(p, e) ==
    /\ hold[p][e] = "produce"
    /\ \/ /\ link[p] = "none"
          /\ link' = [link EXCEPT ![p] = "connecting"]
          /\ Hold(p, e, "connect")
       \/ /\ link[p] # "none"
          /\ Hold(p, e, "send")
          /\ UNCHANGED link
    /\ UNCHANGED <<status, attempts, age, run, snap, published, work>>

(* producer.connect() resolves or rejects; the call stands outside of the  *)
(* try, and the producer stays in its variable.                            *)
Connect(p, e) ==
    /\ hold[p][e] = "connect"
    /\ \/ /\ link' = [link EXCEPT ![p] = "connected"]
          /\ Hold(p, e, "send")
       \/ /\ "connect" \in Faults
          /\ link' = [link EXCEPT ![p] = "broken"]
          /\ Hold(p, e, "none")
    /\ UNCHANGED <<status, attempts, age, run, snap, published, work>>

(* Mutant of Send: a rejected send is logged and forgotten. *)
SendForgetsFailure(p, e) ==
    /\ hold[p][e] = "send"
    /\ Hold(p, e, "none")
    /\ \/ link[p] = "connected" /\ published' = [published EXCEPT ![e] = TRUE]
       \/ UNCHANGED published
    /\ UNCHANGED <<status, attempts, age, run, snap, link, work>>

(* producer.send: a producer that is not connected rejects at once. *)
Send(p, e) ==
    /\ hold[p][e] = "send"
    /\ \/ /\ link[p] = "connected"
          /\ published' = [published EXCEPT ![e] = TRUE]
          /\ \/ Hold(p, e, "none")
             \/ "ack" \in Faults /\ Hold(p, e, "error")
       \/ /\ link[p] # "connected" \/ "broker" \in Faults
          /\ Hold(p, e, "error")
          /\ UNCHANGED published
    /\ UNCHANGED <<status, attempts, age, run, snap, link, work>>

(* The catch: the row goes back to 'pending', or to 'dead' once its        *)
(* attempts are used up, whatever it is by now.  The update waits for the  *)
(* transaction that locks the row, and rejects when the row is gone.       *)
Revert(p, e) ==
    LET newAttempts == snap[p][e] + 1 IN
    /\ hold[p][e] = "error"
    /\ ~Locked(e)
    /\ Hold(p, e, "none")
    /\ \/ status[e] = "deleted" /\ UNCHANGED <<status, attempts>>
       \/ /\ status[e] # "deleted"
          /\ status' = [status EXCEPT ![e] =
                           IF newAttempts >= MaxAttempts THEN "dead" ELSE "pending"]
          /\ attempts' = [attempts EXCEPT ![e] = Saturate(newAttempts)]
    /\ UNCHANGED <<age, run, snap, link, published, work>>

(* The database refuses the transaction, or the update in the catch. *)
Throw(p) ==
    /\ "throw" \in Faults
    /\ \/ /\ \E e \in Events : hold[p][e] = "locked"
          /\ hold' = [hold EXCEPT ![p] = [e \in Events |-> "none"]]
       \/ \E e \in Events : hold[p][e] = "error" /\ Hold(p, e, "none")
    /\ UNCHANGED <<status, attempts, age, run, snap, link, published, work>>

(* The process dies (its open transaction rolls back) and starts again. *)
Crash(p) ==
    /\ "crash" \in Faults
    /\ \E e \in Events : hold[p][e] # "none"
    /\ hold' = [hold EXCEPT ![p] = [e \in Events |-> "none"]]
    /\ snap' = [snap EXCEPT ![p] = [e \in Events |-> 0]]
    /\ link' = [link EXCEPT ![p] = "none"]
    /\ UNCHANGED <<status, attempts, age, run, published, work>>

-----------------------------------------------------------------------------
(* The cron jobs of app-api *)

Age(e) ==
    /\ status[e] # "none"
    /\ age[e] < 2
    /\ age' = [age EXCEPT ![e] = @ + 1]
    /\ UNCHANGED <<status, attempts, run, relay, published, work>>

(* A sweep gives the rows that it finds a new status. *)
Sweep(rows, new) ==
    /\ rows # {}
    /\ status' = [e \in Events |-> IF e \in rows THEN new ELSE status[e]]
    /\ UNCHANGED <<attempts, age, run, relay, published, work>>

(* Mutant of Recover: rows whose attempts are used up are left alone. *)
RecoverUntilMax ==
    Sweep({e \in Events : /\ status[e] = "dispatched" /\ age[e] >= 1
                          /\ attempts[e] < MaxAttempts}, "pending")

(* Mutant of Recover: dead letters are recovered too. *)
RecoverDeadToo ==
    Sweep({e \in Events : status[e] \in {"dispatched", "dead"} /\ age[e] >= 1}, "pending")

(* recover-dispatched-outbox: dispatched and created over 15 minutes ago.  *)
(* A row has that age whenever it was dispatched.                          *)
Recover == Sweep({e \in Events : status[e] = "dispatched" /\ age[e] >= 1}, "pending")

(* Mutant of Cleanup: everything of over 7 days goes. *)
CleanupEverything == Sweep({e \in Events : age[e] >= 2 /\ status[e] # "deleted"}, "deleted")

(* outbox-cleanup: consumed and created over 7 days ago. *)
Cleanup == Sweep({e \in Events : status[e] = "consumed" /\ age[e] >= 2}, "deleted")

-----------------------------------------------------------------------------
(* The worker, as far as the outbox row is concerned *)

(* Mutant of Receive: a run is taken over whatever its status.             *)
ReceiveInAnyStatus(e) ==
    /\ published[e]
    /\ work[e] = "none"
    /\ run' = [run EXCEPT ![e] = "in_progress"]
    /\ work' = [work EXCEPT ![e] = "marking"]
    /\ UNCHANGED <<status, attempts, age, relay, published>>

(* A message of the event is delivered, for the first time or again; the   *)
(* handler of a terminal run returns before it gets to the outbox.         *)
Receive(e) ==
    /\ published[e]
    /\ work[e] = "none"
    /\ run[e] # "terminal"
    /\ run' = [run EXCEPT ![e] = "in_progress"]
    /\ work' = [work EXCEPT ![e] = "marking"]
    /\ UNCHANGED <<status, attempts, age, relay, published>>

(* updateMany: no error when the row is gone, and it waits for a lock. *)
MarkConsumed(e) ==
    /\ work[e] = "marking"
    /\ ~Locked(e)
    /\ status' = [status EXCEPT ![e] = IF @ = "deleted" THEN @ ELSE "consumed"]
    /\ work' = [work EXCEPT ![e] = "executing"]
    /\ UNCHANGED <<attempts, age, run, relay, published>>

FinishRun(e) ==
    /\ work[e] = "executing"
    /\ run' = [run EXCEPT ![e] = "terminal"]
    /\ work' = [work EXCEPT ![e] = "none"]
    /\ UNCHANGED <<status, attempts, age, relay, published>>

(* The worker dies, or a statement of its handler rejects. *)
LoseHandler(e) ==
    /\ Faults \cap {"crash", "throw"} # {}
    /\ work[e] # "none"
    /\ work' = [work EXCEPT ![e] = "none"]
    /\ UNCHANGED <<status, attempts, age, run, relay, published>>

-----------------------------------------------------------------------------

Poll(p) == Select(p) \/ Dispatch(p)

ProduceRow(p, e) ==
    GetProducer(p, e) \/ Connect(p, e) \/ Send(p, e) \/ Revert(p, e)

Handle(e) == Receive(e) \/ MarkConsumed(e) \/ FinishRun(e)

Next ==
    \/ \E e \in Events : Ingest(e) \/ Age(e) \/ Handle(e) \/ LoseHandler(e)
    \/ \E p \in Pollers : Poll(p) \/ Throw(p) \/ Crash(p)
    \/ \E p \in Pollers, e \in Events : ProduceRow(p, e)
    \/ Recover \/ Cleanup

Spec == Init /\ [][Next]_vars

(* The poll loops, the jobs and the worker go on, and time passes.  SF: it *)
(* is not at the same point that some process dies in every sweep, a lock  *)
(* is not held at every moment at which somebody asks for it, and Kafka    *)
(* does not refuse every single message.                                   *)
SomeRow(A(_, _)) == \E p \in Pollers, e \in Events : A(p, e)

Accept(p, e) == Send(p, e) /\ published'[e]

Fairness ==
    /\ WF_vars(\E p \in Pollers : Select(p))
    /\ SF_vars(\E p \in Pollers : Dispatch(p))
    /\ SF_vars(SomeRow(GetProducer)) /\ SF_vars(SomeRow(Connect))
    /\ SF_vars(SomeRow(Accept)) /\ SF_vars(SomeRow(Revert))
    /\ \A e \in Events : WF_vars(Age(e)) /\ SF_vars(Handle(e))
    /\ WF_vars(Recover) /\ WF_vars(Cleanup)

FairSpec == Spec /\ Fairness

-----------------------------------------------------------------------------
(* Safety *)

(* No event is lost on its way: while its run waits in the queue the row   *)
(* is there and has not been ticked off, whichever process died, whatever  *)
(* the jobs swept and however late an update of the relay arrives.         *)
QueuedRunKeepsRow ==
    \A e \in Events :
        run[e] = "queued" => status[e] \in {"pending", "dispatched", "dead"}

(* SKIP LOCKED lets several relays run: two of them never work on the same *)
(* row, as long as it is too young for the recovery job.                   *)
OneRelayPerYoungRow ==
    \A p, q \in Pollers, e \in Events :
        hold[p][e] # "none" /\ hold[q][e] # "none" /\ age[e] = 0 => p = q

(* produceRow handles its own errors: a row is left 'dispatched' only if   *)
(* its message is in the topic or a relay is still at work on it, unless a *)
(* relay could not connect: that rejection escapes it.                     *)
DispatchedIsPublishedOrHeld ==
    \A e \in Events :
        status[e] = "dispatched" =>
            \/ published[e]
            \/ \E p \in Pollers : hold[p][e] # "none" \/ link[p] = "broken"

-----------------------------------------------------------------------------
(* Steps of the system *)

(* A dead row is out of the retry loop of the relay for good. *)
DeadStaysDead ==
    [][\A e \in Events : status[e] = "dead" => status'[e] # "pending"]_vars

-----------------------------------------------------------------------------
(* Liveness *)

(* A stored event reaches the topic or becomes a dead letter, although     *)
(* relays crash between dispatching a row and producing it.                *)
StoredIsProduced ==
    \A e \in Events :
        status[e] = "pending" ~> published[e] \/ status[e] = "dead"

-----------------------------------------------------------------------------
(* What the outbox implements *)

Lifecycle == INSTANCE EventLifecycle
                WITH Events <- Events, stage <- run, offered <- published,
                     kept <- [e \in Events |->
                                status[e] \in {"pending", "dispatched", "dead"}]

(* From the transaction of hooks-api to the end of the run: the row is not *)
(* ticked off before a worker has claimed the run, only what is in the     *)
(* topic is claimed, and no late message or job opens a run again.         *)
ImplementsLifecycle == Lifecycle!Spec

=============================================================================
