---------------------------- MODULE RunExecution ----------------------------
(***************************************************************************)
(* The worker (apps/worker): what happens to a zap run from the moment its *)
(* Kafka message is delivered until the run is terminal.  Every worker     *)
(* process handles one message at a time (onMessage, then resume over the  *)
(* steps of the snapshot) and also runs the retry-stuck-steps cron job.    *)
(* One action is one awaited statement: the database serialises            *)
(* statements, nothing else orders them, so handlers of several processes, *)
(* their cron jobs and the passing of the lease interleave between any two *)
(* awaits.                                                                 *)
(***************************************************************************)
EXTENDS Integers

CONSTANTS
    Workers,    \* worker processes
    Runs,       \* zap runs, one for each webhook event (zap_runs is unique on it)
    NoRun,      \* what an idle worker is handling
    NumSteps,   \* how many steps step_snapshot holds
    StepType,   \* stepType of the snapshot step at each position
    Faults      \* what may go wrong in this instance, a subset of FaultKinds

Positions == 0 .. NumSteps - 1

(* "throw": a statement rejects and eachBatch swallows it; "crash": the     *)
(* process dies; "slow": a lease expires while its owner is still alive;   *)
(* "limit": the rate limiter refuses a connection.                         *)
FaultKinds == {"throw", "crash", "slow", "limit"}

ASSUME StepsAssumption ==
    /\ NumSteps \in Nat
    /\ StepType \in [Positions -> {"trigger", "filter", "action"}]
    /\ NoRun \notin Runs
    /\ Faults \subseteq FaultKinds

VARIABLES
    \* tables
    run,        \* zap_runs.status; "absent" when there is no row
    row,        \* zap_run_steps.status of each position; "none" when there is no row
    stale,      \* positions whose claimed_at is older than the lease
    consumed,   \* outbox.status is 'consumed'
    \* worker processes
    pc,         \* the statement the handler awaits next
    cur,        \* the run whose message it is handling
    pos,        \* currentPosition
    out,        \* the status it is about to write
    picked,     \* <<run, position>> pairs the cron job of the process has selected
    \* history
    done,       \* positions that were once marked completed
    rejected,   \* filter positions that evaluated to false
    sent        \* how often the API of the action at a position accepted a call

tables  == <<run, row, stale, consumed>>
process == <<pc, cur, pos, out>>
history == <<done, rejected, sent>>
vars    == <<run, row, stale, consumed, pc, cur, pos, out, picked,
             done, rejected, sent>>

Terminal == {"completed", "failed", "filtered"}

RunStatus == {"absent", "queued", "in_progress"} \cup Terminal

RowStatus == {"none", "processing", "completed", "failed", "ambiguous"}

Labels ==
    {"idle", "claimRun", "insertRun", "fetchRun", "consume", "checkZap",
     "checkCap", "resume", "claim", "inspect", "reclaim", "complete",
     "evaluate", "rate", "release", "send", "resend", "await", "refresh",
     "record", "finish"}

(* Where a handler is while it owns the step it has freshly claimed. *)
OwnerLabels ==
    {"complete", "evaluate", "rate", "release", "send", "resend", "await",
     "refresh", "record"}

Owns(w, r, p) == pc[w] \in OwnerLabels /\ cur[w] = r /\ pos[w] = p

TypeOK ==
    /\ run \in [Runs -> RunStatus]
    /\ row \in [Runs -> [Positions -> RowStatus]]
    /\ stale \in [Runs -> SUBSET Positions]
    /\ consumed \in [Runs -> BOOLEAN]
    /\ pc \in [Workers -> Labels]
    /\ cur \in [Workers -> Runs \cup {NoRun}]
    /\ pos \in [Workers -> 0 .. NumSteps]
    /\ out \in [Workers -> {"none", "processing", "ambiguous"} \cup Terminal]
    /\ picked \in [Workers -> SUBSET (Runs \X Positions)]
    /\ done \in [Runs -> SUBSET Positions]
    /\ rejected \in [Runs -> SUBSET Positions]
    /\ sent \in [Runs -> [Positions -> Nat]]

(* A run exists as 'queued' (the ingest transaction inserted it) or not at *)
(* all (webhooks of before the 'queued' status existed).                   *)
Init ==
    /\ run \in [Runs -> {"absent", "queued"}]
    /\ row = [r \in Runs |-> [p \in Positions |-> "none"]]
    /\ stale = [r \in Runs |-> {}]
    /\ consumed = [r \in Runs |-> FALSE]
    /\ pc = [w \in Workers |-> "idle"]
    /\ cur = [w \in Workers |-> NoRun]
    /\ pos = [w \in Workers |-> 0]
    /\ out = [w \in Workers |-> "none"]
    /\ picked = [w \in Workers |-> {}]
    /\ done = [r \in Runs |-> {}]
    /\ rejected = [r \in Runs |-> {}]
    /\ sent = [r \in Runs |-> [p \in Positions |-> 0]]

-----------------------------------------------------------------------------
(* Control flow of a handler. *)

Goto(w, label) ==
    /\ pc' = [pc EXCEPT ![w] = label]
    /\ UNCHANGED <<cur, pos, out>>

(* The handler leaves with a last write of the given status still to do. *)
GotoWith(w, label, status) ==
    /\ pc' = [pc EXCEPT ![w] = label]
    /\ out' = [out EXCEPT ![w] = status]
    /\ UNCHANGED <<cur, pos>>

(* resolveOffset: the process is ready for its next message. *)
Return(w) ==
    /\ pc' = [pc EXCEPT ![w] = "idle"]
    /\ cur' = [cur EXCEPT ![w] = NoRun]
    /\ pos' = [pos EXCEPT ![w] = 0]
    /\ out' = [out EXCEPT ![w] = "none"]

(* Mutant of LoopAt: the loop ends one position early. *)
LoopAtStopsEarly(w, p) ==
    LET more == p + 1 \in Positions IN
    /\ pos' = [pos EXCEPT ![w] = p]
    /\ pc' = [pc EXCEPT ![w] = IF more THEN "claim" ELSE "finish"]
    /\ out' = [out EXCEPT ![w] = IF more THEN "none" ELSE "completed"]
    /\ UNCHANGED cur

(* The loop of resume at position p: claim the step there, or no step is   *)
(* left and the run is completed.                                          *)
LoopAt(w, p) ==
    /\ pos' = [pos EXCEPT ![w] = p]
    /\ pc' = [pc EXCEPT ![w] = IF p \in Positions THEN "claim" ELSE "finish"]
    /\ out' = [out EXCEPT ![w] = IF p \in Positions THEN "none" ELSE "completed"]
    /\ UNCHANGED cur

SetRow(r, p, status) == row' = [row EXCEPT ![r][p] = status]
SetRun(r, status)    == run' = [run EXCEPT ![r] = status]

-----------------------------------------------------------------------------
(* onMessage *)

(* Kafka hands the message of r to an idle process.  Delivery is           *)
(* at-least-once: the same message comes again after a rebalance, after a  *)
(* restart, or because the relay produced it again.                        *)
Deliver(w, r) ==
    /\ pc[w] = "idle"
    /\ pc' = [pc EXCEPT ![w] = "claimRun"]
    /\ cur' = [cur EXCEPT ![w] = r]
    /\ UNCHANGED <<tables, pos, out, picked, history>>

(* Mutants of ClaimRun: without AND status = 'queued', and without the     *)
(* change of status.                                                       *)
ClaimRunInAnyStatus(w) ==
    /\ pc[w] = "claimRun"
    /\ \/ run[cur[w]] # "absent" /\ SetRun(cur[w], "in_progress") /\ Goto(w, "consume")
       \/ run[cur[w]] = "absent" /\ Goto(w, "insertRun") /\ UNCHANGED run
    /\ UNCHANGED <<row, stale, consumed, picked, history>>

ClaimRunKeepsStatus(w) ==
    /\ pc[w] = "claimRun"
    /\ Goto(w, IF run[cur[w]] = "queued" THEN "consume" ELSE "insertRun")
    /\ UNCHANGED <<tables, picked, history>>

(* UPDATE zap_runs ... WHERE status = 'queued'. *)
ClaimRun(w) ==
    /\ pc[w] = "claimRun"
    /\ \/ /\ run[cur[w]] = "queued"
          /\ SetRun(cur[w], "in_progress")
          /\ Goto(w, "consume")
       \/ /\ run[cur[w]] # "queued"
          /\ Goto(w, "insertRun")
          /\ UNCHANGED run
    /\ UNCHANGED <<row, stale, consumed, picked, history>>

(* Mutant of InsertRun: ON CONFLICT DO UPDATE. *)
InsertRunUpserts(w) ==
    /\ pc[w] = "insertRun"
    /\ SetRun(cur[w], "in_progress")
    /\ Goto(w, "consume")
    /\ UNCHANGED <<row, stale, consumed, picked, history>>

(* INSERT INTO zap_runs ... ON CONFLICT (webhook_event_id) DO NOTHING. *)
InsertRun(w) ==
    /\ pc[w] = "insertRun"
    /\ \/ /\ run[cur[w]] = "absent"
          /\ SetRun(cur[w], "in_progress")
          /\ Goto(w, "consume")
       \/ /\ run[cur[w]] # "absent"
          /\ Goto(w, "fetchRun")
          /\ UNCHANGED run
    /\ UNCHANGED <<row, stale, consumed, picked, history>>

(* Mutant of FetchRun: a run in progress is somebody else's. *)
FetchRunLeavesRunning(w) ==
    /\ pc[w] = "fetchRun"
    /\ \/ run[cur[w]] # "queued" /\ Return(w)
       \/ run[cur[w]] = "queued" /\ Goto(w, "consume")
    /\ UNCHANGED <<tables, picked, history>>

(* The run is there already: leave if it is missing or terminal. *)
FetchRun(w) ==
    /\ pc[w] = "fetchRun"
    /\ \/ run[cur[w]] \in Terminal \cup {"absent"} /\ Return(w)
       \/ run[cur[w]] \notin Terminal \cup {"absent"} /\ Goto(w, "consume")
    /\ UNCHANGED <<tables, picked, history>>

MarkConsumed(w) ==
    /\ pc[w] = "consume"
    /\ consumed' = [consumed EXCEPT ![cur[w]] = TRUE]
    /\ Goto(w, "checkZap")
    /\ UNCHANGED <<run, row, stale, picked, history>>

(* The user may have switched the zap off, or deleted it, by now. *)
CheckZap(w) ==
    /\ pc[w] = "checkZap"
    /\ \/ Goto(w, "checkCap")
       \/ GotoWith(w, "finish", "filtered")
    /\ UNCHANGED <<tables, picked, history>>

(* underRunCap: other runs of the zap decide the answer. *)
CheckCap(w) ==
    /\ pc[w] = "checkCap"
    /\ \/ Goto(w, "resume")
       \/ GotoWith(w, "finish", "failed")
    /\ UNCHANGED <<tables, picked, history>>

(* markCompleted, markFiltered, markFailed, and the same update written    *)
(* out in onMessage: the run gets its status, whatever it was.             *)
FinishRun(w) ==
    /\ pc[w] = "finish"
    /\ SetRun(cur[w], out[w])
    /\ Return(w)
    /\ UNCHANGED <<row, stale, consumed, picked, history>>

-----------------------------------------------------------------------------
(* resume *)

(* Mutant of ResumeAt: the position after the highest one that has a row. *)
ResumeAfterAnyRow(r, p) ==
    /\ \A q \in Positions : row[r][q] # "none" => q < p
    /\ p > 0 => row[r][p - 1] # "none"

(* The position after the highest completed one. *)
ResumeAt(r, p) ==
    /\ \A q \in Positions : row[r][q] = "completed" => q < p
    /\ p > 0 => row[r][p - 1] = "completed"

ReadCompleted(w) ==
    /\ pc[w] = "resume"
    /\ \E p \in 0 .. NumSteps : ResumeAt(cur[w], p) /\ LoopAt(w, p)
    /\ UNCHANGED <<tables, picked, history>>

(* Where the loop goes with a step it has just claimed. *)
EntryLabel(type) ==
    CASE type = "trigger" -> "complete"
      [] type = "filter"  -> "evaluate"
      [] type = "action"  -> "rate"

(* Mutant of ClaimStep: ON CONFLICT DO UPDATE when the step is processing. *)
ClaimStepUpserts(w) ==
    /\ pc[w] = "claim"
    /\ LET r == cur[w]  p == pos[w] IN
       \/ /\ row[r][p] \in {"none", "processing"}
          /\ SetRow(r, p, "processing")
          /\ stale' = [stale EXCEPT ![r] = @ \ {p}]
          /\ Goto(w, EntryLabel(StepType[p]))
       \/ /\ row[r][p] \notin {"none", "processing"}
          /\ Goto(w, "inspect")
          /\ UNCHANGED <<row, stale>>
    /\ UNCHANGED <<run, consumed, picked, history>>

(* INSERT INTO zap_run_steps ... ON CONFLICT DO NOTHING. *)
ClaimStep(w) ==
    /\ pc[w] = "claim"
    /\ LET r == cur[w]  p == pos[w] IN
       \/ /\ row[r][p] = "none"
          /\ SetRow(r, p, "processing")
          /\ stale' = [stale EXCEPT ![r] = @ \ {p}]
          /\ Goto(w, EntryLabel(StepType[p]))
       \/ /\ row[r][p] # "none"
          /\ Goto(w, "inspect")
          /\ UNCHANGED <<row, stale>>
    /\ UNCHANGED <<run, consumed, picked, history>>

(* Mutant of InspectRow: the step of an expired lease is executed again. *)
InspectRowTakesOver(w) ==
    /\ pc[w] = "inspect"
    /\ LET expired == row[cur[w]][pos[w]] = "processing" /\ pos[w] \in stale[cur[w]] IN
       \/ expired /\ Goto(w, EntryLabel(StepType[pos[w]]))
       \/ ~expired /\ Return(w)
    /\ UNCHANGED <<tables, picked, history>>

(* The claim met a row: only an expired lease is acted upon. *)
InspectRow(w) ==
    /\ pc[w] = "inspect"
    /\ LET expired == row[cur[w]][pos[w]] = "processing" /\ pos[w] \in stale[cur[w]] IN
       \/ expired /\ Goto(w, "reclaim")
       \/ ~expired /\ Return(w)
    /\ UNCHANGED <<tables, picked, history>>

(* reclaim: never executes the step again; the run is failed next. *)
Reclaim(w) ==
    /\ pc[w] = "reclaim"
    /\ SetRow(cur[w], pos[w], "ambiguous")
    /\ GotoWith(w, "finish", "failed")
    /\ UNCHANGED <<run, stale, consumed, picked, history>>

(* markStepCompleted writes 'completed'; history notes the position. *)
Complete(r, p) ==
    /\ SetRow(r, p, "completed")
    /\ done' = [done EXCEPT ![r] = @ \cup {p}]

CompleteTrigger(w) ==
    /\ pc[w] = "complete"
    /\ Complete(cur[w], pos[w])
    /\ LoopAt(w, pos[w] + 1)
    /\ UNCHANGED <<run, stale, consumed, picked, rejected, sent>>

(* A filter is completed whether it passed or not; when it did not, the    *)
(* run still has to be marked filtered.                                    *)
EvaluateFilter(w) ==
    /\ pc[w] = "evaluate"
    /\ Complete(cur[w], pos[w])
    /\ \/ LoopAt(w, pos[w] + 1) /\ UNCHANGED rejected
       \/ /\ rejected' = [rejected EXCEPT ![cur[w]] = @ \cup {pos[w]}]
          /\ GotoWith(w, "finish", "filtered")
    /\ UNCHANGED <<run, stale, consumed, picked, sent>>

-----------------------------------------------------------------------------
(* runStep *)

(* The checks before the call: a misconfigured step or an invalid payload  *)
(* fails, a refused rate limit releases, anything else is sent.            *)
CheckStep(w) ==
    /\ pc[w] = "rate"
    /\ \/ Goto(w, "send")
       \/ GotoWith(w, "record", "failed")
       \/ "limit" \in Faults /\ Goto(w, "release")
    /\ UNCHANGED <<tables, picked, history>>

(* releaseWithDelay: claimed_at is set to now, the row is left processing. *)
Release(w) ==
    /\ pc[w] = "release"
    /\ stale' = [stale EXCEPT ![cur[w]] = @ \ {pos[w]}]
    /\ GotoWith(w, "record", "processing")
    /\ UNCHANGED <<run, row, consumed, picked, history>>

(* The API accepts the call, or it answers 401 without executing it and    *)
(* the first time the token is refreshed, or the call is not accepted (a   *)
(* second 401, a rejected API key, a host that is not reached).            *)
Send(w) ==
    /\ pc[w] \in {"send", "resend"}
    /\ \/ /\ sent' = [sent EXCEPT ![cur[w]][pos[w]] = @ + 1]
          /\ Goto(w, "await")
       \/ /\ pc[w] = "send"
          /\ Goto(w, "refresh")
          /\ UNCHANGED sent
       \/ /\ \E status \in {"failed", "ambiguous"} : GotoWith(w, "record", status)
          /\ UNCHANGED sent
    /\ UNCHANGED <<tables, picked, done, rejected>>

(* refreshToken, then the same request once more. *)
Refresh(w) ==
    /\ pc[w] = "refresh"
    /\ Goto(w, "resend")
    /\ UNCHANGED <<tables, picked, history>>

(* What became of an accepted call, as the worker learns it: an answer, an *)
(* error answer, or a timeout or 5xx that leaves the outcome unknown.      *)
Respond(w) ==
    /\ pc[w] = "await"
    /\ \E status \in {"completed", "failed", "ambiguous"} : GotoWith(w, "record", status)
    /\ UNCHANGED <<tables, picked, history>>

(* Mutant of RecordResult: a rate limited step counts as completed. *)
RecordLimitedAsCompleted(w) ==
    /\ pc[w] = "record"
    /\ LET r == cur[w]  p == pos[w] IN
       \/ out[w] \in {"completed", "processing"} /\ Complete(r, p) /\ LoopAt(w, p + 1)
       \/ /\ out[w] \in {"failed", "ambiguous"}
          /\ SetRow(r, p, out[w])
          /\ GotoWith(w, "finish", "failed")
          /\ UNCHANGED done
    /\ UNCHANGED <<run, stale, consumed, picked, rejected, sent>>

(* recordStepResult, then the loop advances, leaves or fails the run. *)
RecordResult(w) ==
    /\ pc[w] = "record"
    /\ LET r == cur[w]  p == pos[w] IN
       \/ out[w] = "completed" /\ Complete(r, p) /\ LoopAt(w, p + 1)
       \/ out[w] = "processing" /\ SetRow(r, p, out[w]) /\ Return(w) /\ UNCHANGED done
       \/ /\ out[w] \in {"failed", "ambiguous"}
          /\ SetRow(r, p, out[w])
          /\ GotoWith(w, "finish", "failed")
          /\ UNCHANGED done
    /\ UNCHANGED <<run, stale, consumed, picked, rejected, sent>>

-----------------------------------------------------------------------------
(* Time, the cron job, failures *)

(* claimed_at of a processing row falls behind the lease; while its owner  *)
(* is alive only in instances with the "slow" fault.                       *)
Expire(r, p) ==
    /\ row[r][p] = "processing"
    /\ p \notin stale[r]
    /\ "slow" \in Faults \/ \A w \in Workers : ~Owns(w, r, p)
    /\ stale' = [stale EXCEPT ![r] = @ \cup {p}]
    /\ UNCHANGED <<run, row, consumed, process, picked, history>>

(* Mutant of StuckRows: only the steps of runs that are still in progress. *)
StuckRowsInProgress == {rp \in Runs \X Positions :
                           /\ row[rp[1]][rp[2]] = "processing" /\ rp[2] \in stale[rp[1]]
                           /\ run[rp[1]] = "in_progress"}

(* findMany: processing, and claimed before the cutoff. *)
StuckRows == {rp \in Runs \X Positions :
                 row[rp[1]][rp[2]] = "processing" /\ rp[2] \in stale[rp[1]]}

(* retryStuckSteps, first statement: findMany; an instance has fewer rows  *)
(* than its take: 50.                                                      *)
JobSelect(w) ==
    /\ picked[w] = {}
    /\ StuckRows # {}
    /\ picked' = [picked EXCEPT ![w] = StuckRows]
    /\ UNCHANGED <<tables, process, history>>

(* Its transaction: the rows it selected become 'failed', whatever they    *)
(* are by now; the update of the runs writes the status they already have. *)
JobUpdate(w) ==
    /\ picked[w] # {}
    /\ row' = [r \in Runs |-> [p \in Positions |->
                  IF <<r, p>> \in picked[w] THEN "failed" ELSE row[r][p]]]
    /\ picked' = [picked EXCEPT ![w] = {}]
    /\ UNCHANGED <<run, stale, consumed, process, history>>

(* An awaited statement rejects.  In the handler, eachBatch logs the error *)
(* and resolves the offset; in the cron job, its caller logs it.           *)
Throw(w) ==
    /\ "throw" \in Faults
    /\ \/ pc[w] # "idle" /\ Return(w) /\ UNCHANGED picked
       \/ /\ picked[w] # {}
          /\ picked' = [picked EXCEPT ![w] = {}]
          /\ UNCHANGED process
    /\ UNCHANGED <<tables, history>>

(* The process dies and is restarted, with nothing in its memory. *)
Crash(w) ==
    /\ "crash" \in Faults
    /\ pc[w] # "idle" \/ picked[w] # {}
    /\ Return(w)
    /\ picked' = [picked EXCEPT ![w] = {}]
    /\ UNCHANGED <<tables, history>>

-----------------------------------------------------------------------------

OnMessage(w) ==
    \/ ClaimRun(w) \/ InsertRun(w) \/ FetchRun(w) \/ MarkConsumed(w)
    \/ CheckZap(w) \/ CheckCap(w) \/ FinishRun(w)

Resume(w) ==
    \/ ReadCompleted(w) \/ ClaimStep(w) \/ InspectRow(w) \/ Reclaim(w)
    \/ CompleteTrigger(w) \/ EvaluateFilter(w)

RunStep(w) ==
    \/ CheckStep(w) \/ Release(w) \/ Send(w) \/ Refresh(w) \/ Respond(w)
    \/ RecordResult(w)

Handler(w) == OnMessage(w) \/ Resume(w) \/ RunStep(w)

Next ==
    \/ \E w \in Workers, r \in Runs : Deliver(w, r)
    \/ \E w \in Workers : Handler(w)
    \/ \E r \in Runs, p \in Positions : Expire(r, p)
    \/ \E w \in Workers : JobSelect(w) \/ JobUpdate(w)
    \/ \E w \in Workers : Throw(w) \/ Crash(w)

Spec == Init /\ [][Next]_vars

(* The event loop of a live process runs its handler and its cron job, and *)
(* time passes.  SF for the job's transaction: a process does not die, nor *)
(* does the database refuse, between the two statements of every single    *)
(* run of the job.                                                         *)
Fairness ==
    /\ \A w \in Workers : WF_vars(Handler(w))
    /\ \A w \in Workers : WF_vars(JobSelect(w)) /\ SF_vars(JobUpdate(w))
    /\ \A r \in Runs, p \in Positions : WF_vars(Expire(r, p))

(* At-least-once delivery at its most generous: a process that is idle     *)
(* again and again is handed the message of every run again and again.     *)
Redelivery ==
    \A w \in Workers, r \in Runs : SF_vars(Deliver(w, r))

FairSpec      == Spec /\ Fairness
RedeliverSpec == Spec /\ Fairness /\ Redelivery

-----------------------------------------------------------------------------
(* Safety *)

(* However often the message of a run is delivered and whichever worker    *)
(* loses its lease, crashes or is overtaken by the cron job, the API of an *)
(* action accepts at most one call for it: claim inserts the row of a step *)
(* once and nothing ever executes a step whose row was there.              *)
SentAtMostOnce ==
    \A r \in Runs, p \in Positions : sent[r][p] <= 1

(* Two handlers never hold the same step of the same run between claim and *)
(* recordStepResult, lease expiry and reclaim included.                    *)
OneOwner ==
    \A w, v \in Workers, r \in Runs, p \in Positions :
        Owns(w, r, p) /\ Owns(v, r, p) => w = v

(* A step is claimed only after every step before it was completed once:   *)
(* resume starts after the highest completed position, so a gap would be   *)
(* skipped for good.                                                       *)
ClaimedInOrder ==
    \A r \in Runs, p, q \in Positions :
        row[r][p] # "none" /\ q < p => q \in done[r]

(* A run shown as completed had all of its steps completed, whichever of   *)
(* several concurrent handlers marked it.                                  *)
CompletedRunIsWhole ==
    \A r \in Runs : run[r] = "completed" => done[r] = Positions

(* The outbox row is marked consumed, and steps get rows, only after the   *)
(* run has left the queue: a crash in between loses no event.              *)
ConsumedRunIsClaimed ==
    \A r \in Runs :
        run[r] \in {"absent", "queued"} =>
            ~consumed[r] /\ \A p \in Positions : row[r][p] = "none"

-----------------------------------------------------------------------------
(* Steps of the system *)

(* No delivery opens a run again: once some handler has made it terminal   *)
(* it is never queued or in progress again, and a run in progress is never *)
(* queued again, so its snapshot is taken once.                            *)
RunNeverReopened ==
    [][\A r \in Runs :
          /\ run[r] \in Terminal => run'[r] \in Terminal
          /\ run[r] = "in_progress" => run'[r] \notin {"absent", "queued"}]_vars

(* A filter that evaluates to false halts the run: no action behind it is  *)
(* called any more.                                                        *)
FilterHalts ==
    \A r \in Runs, p, q \in Positions :
        q \in rejected[r] /\ q < p => sent[r][p] = 0

-----------------------------------------------------------------------------
(* Liveness *)

(* No step stays 'processing': its owner records a result, a redelivery    *)
(* finds the lease expired, or the cron job gives up on it.                *)
StepsSettle ==
    \A r \in Runs, p \in Positions :
        row[r][p] = "processing" ~> row[r][p] # "processing"

(* No run is left stuck at in_progress forever (sequential-executor,       *)
(* run-state.service).                                                     *)
NoRunLeftInProgress ==
    \A r \in Runs : run[r] = "in_progress" ~> run[r] \in Terminal

(* From some point on no process crashes and no statement rejects (a step  *)
(* that a handler takes too, an early return, is not a failure).           *)
FailuresStop ==
    <>[][\A w \in Workers :
            Throw(w) \/ Crash(w) => Handler(w) \/ JobUpdate(w)]_vars

(* Whatever failed before, a run whose message is delivered again resumes: *)
(* it becomes terminal, or it stops at a step that has failed or whose     *)
(* outcome is unknown.                                                     *)
RunsResume ==
    FailuresStop =>
        \A r \in Runs :
            run[r] = "in_progress" ~>
                \/ run[r] \in Terminal
                \/ \E p \in Positions : row[r][p] \in {"failed", "ambiguous"}

-----------------------------------------------------------------------------
(* What the engine implements *)

Ledger == INSTANCE StepLedger
            WITH Runs <- Runs, NumSteps <- NumSteps, StepType <- StepType,
                 done <- done, sent <- sent

(* The steps of every run finish in order, each action is called before it *)
(* finishes and never twice (sequential-executor and claim together).      *)
ImplementsLedger == Ledger!Spec

(* An event of before the status 'queued' existed waits without a run.     *)
Lifecycle == INSTANCE EventLifecycle
                WITH Events <- Runs,
                     stage <- [r \in Runs |->
                                 IF run[r] \in {"absent", "queued"} THEN "queued"
                                 ELSE IF run[r] = "in_progress" THEN run[r]
                                 ELSE "terminal"],
                     kept <- [r \in Runs |-> ~consumed[r]],
                     offered <- [r \in Runs |-> TRUE]

(* What the worker owes the outbox: however many handlers race for a run,  *)
(* it is claimed once, its row is ticked off only after that, and nothing  *)
(* opens it again.                                                         *)
ImplementsLifecycle == Lifecycle!Spec

=============================================================================
