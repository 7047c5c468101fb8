----------------------------- MODULE ZapEditor -----------------------------
(***************************************************************************)
(* Editing a zap while it runs: the requests of app-api that create a zap  *)
(* and add and delete its steps (zap.controller), and the executor of the  *)
(* worker as far as it depends on them.  A request reads the steps in one  *)
(* statement and writes in another; several requests and runs interleave   *)
(* between any two statements.  A run executes the steps of the snapshot   *)
(* it took when it started, but resumes by the positions that zap_steps    *)
(* holds now, and its rows in zap_run_steps refer to zap_steps by foreign  *)
(* keys.                                                                   *)
(***************************************************************************)
EXTENDS Integers, FiniteSets

CONSTANTS
    Requests,   \* HTTP requests that may be under way at the same time
    Runs,       \* zap runs, one for each webhook event
    MaxSteps,   \* bound: steps ever created
    Faults      \* {"lose"}: a handler of the worker may die or throw at any await

Steps  == 1 .. MaxSteps     \* zap_steps.id, in the order of the inserts
Absent == -1                \* the position of a step that has no row
Layout == [Steps -> Absent .. MaxSteps]

ASSUME EditorAssumption ==
    /\ MaxSteps \in Nat \ {0}
    /\ Faults \subseteq {"lose"}

VARIABLES
    \* tables
    zap,        \* the row in zaps
    created,    \* how many steps were ever inserted
    position,   \* zap_steps.position
    triggers,   \* steps inserted with stepType = 'trigger'
    run,        \* zap_runs.status; "stopped" for failed and filtered
    snapshot,   \* zap_runs.step_snapshot
    row,        \* zap_run_steps.status; "open" for processing, failed, ambiguous
    \* app-api
    request,    \* what the request still has to do, with what it has read
    \* worker
    phase,      \* the statement that the handler of the run awaits next
    at,         \* currentPosition
    \* history
    overlapped  \* a request wrote while another one had read but not written

zapTables == <<zap, created, position, triggers>>
runTables == <<run, snapshot, row>>
handler   == <<phase, at>>
vars == <<zap, created, position, triggers, run, snapshot, row, request,
          phase, at, overlapped>>

PresentIn(layout) == {s \in Steps : layout[s] # Absent}
PositionsOf(layout) == {layout[s] : s \in PresentIn(layout)}
Referenced(s) == \E r \in Runs : row[r][s] # "none"

Idle == [do |-> "nothing"]
AddJobs == [do : {"add"}, trigger : BOOLEAN, to : 0 .. MaxSteps]
DeleteJobs == [do : {"delete"}, step : Steps, seen : Layout]

TypeOK ==
    /\ zap \in {"none", "live", "deleted"}
    /\ created \in 0 .. MaxSteps
    /\ position \in Layout
    /\ triggers \in SUBSET Steps
    /\ run \in [Runs -> {"absent", "queued", "in_progress", "completed", "stopped"}]
    /\ snapshot \in [Runs -> Layout]
    /\ row \in [Runs -> [Steps -> {"none", "open", "completed"}]]
    /\ request \in [Requests -> {Idle} \cup AddJobs \cup DeleteJobs]
    /\ phase \in [Runs -> {"idle", "resume", "claim", "execute", "fail"}]
    /\ at \in [Runs -> 0 .. MaxSteps + 1]
    /\ overlapped \in BOOLEAN

Nothing == [s \in Steps |-> Absent]

Init ==
    /\ zap = "none"
    /\ created = 0
    /\ position = Nothing
    /\ triggers = {}
    /\ run = [r \in Runs |-> "absent"]
    /\ snapshot = [r \in Runs |-> Nothing]
    /\ row = [r \in Runs |-> [s \in Steps |-> "none"]]
    /\ request = [q \in Requests |-> Idle]
    /\ phase = [r \in Runs |-> "idle"]
    /\ at = [r \in Runs |-> 0]
    /\ overlapped = FALSE

-----------------------------------------------------------------------------
(* app-api: zap.controller *)

(* createZap: the list of steps it accepts has its trigger first and no    *)
(* gap (validateZapSteps); the zap and its steps are inserted at once.     *)
CreateZap ==
    /\ zap = "none"
    /\ zap' = "live"
    /\ \E n \in 1 .. MaxSteps :
          /\ created' = n
          /\ position' = [s \in Steps |-> IF s <= n THEN s - 1 ELSE Absent]
    /\ triggers' = {1}
    /\ UNCHANGED <<runTables, request, handler, overlapped>>

(* deleteZap: the cascade from zaps to zap_steps and webhook_events stops  *)
(* at the runs of the zap (ON DELETE RESTRICT).                            *)
DeleteZap ==
    /\ zap = "live"
    /\ \A r \in Runs : run[r] = "absent"
    /\ zap' = "deleted"
    /\ position' = Nothing
    /\ UNCHANGED <<created, triggers, runTables, request, handler, overlapped>>

Start(q, job) ==
    /\ request[q] = Idle
    /\ zap = "live"
    /\ request' = [request EXCEPT ![q] = job]
    /\ UNCHANGED <<zapTables, runTables, handler, overlapped>>

End(q) == request' = [request EXCEPT ![q] = Idle]

(* The request has written; it may have overtaken another one.             *)
Commit(q) ==
    /\ End(q)
    /\ overlapped' = (overlapped \/ \E p \in Requests \ {q} : request[p] # Idle)

(* validateZapSteps of the steps that exist together with a new one, which *)
(* is the trigger or not: positions are distinct and contiguous from 0,    *)
(* there is one trigger and it is at position 0.                           *)
Valid(trigger, to) ==
    LET known == PresentIn(position) IN
    /\ to \notin PositionsOf(position)
    /\ PositionsOf(position) \cup {to} = 0 .. Cardinality(known)
    /\ IF trigger THEN to = 0 /\ known \cap triggers = {}
                  ELSE \E s \in known : known \cap triggers = {s} /\ position[s] = 0

(* Mutant of AddRead: only the position of the new step is looked at. *)
AddReadChecksPosition(q) ==
    \E trigger \in BOOLEAN, to \in 0 .. MaxSteps :
        /\ to = Cardinality(PresentIn(position))
        /\ Start(q, [do |-> "add", trigger |-> trigger, to |-> to])

(* addStep, up to its INSERT: the steps are read and validated. *)
AddRead(q) ==
    \E trigger \in BOOLEAN, to \in 0 .. MaxSteps :
        /\ Valid(trigger, to)
        /\ Start(q, [do |-> "add", trigger |-> trigger, to |-> to])

(* The INSERT of addStep; zap_steps is unique on (zap_id, position). *)
AddInsert(q) ==
    /\ request[q].do = "add"
    /\ created < MaxSteps
    /\ zap = "live"
    /\ request[q].to \notin PositionsOf(position)
    /\ created' = created + 1
    /\ position' = [position EXCEPT ![created + 1] = request[q].to]
    /\ triggers' = IF request[q].trigger THEN triggers \cup {created + 1} ELSE triggers
    /\ Commit(q)
    /\ UNCHANGED <<zap, runTables, handler>>

(* deleteStep, up to its transaction: the steps are read. *)
DeleteRead(q) ==
    \E s \in PresentIn(position) :
        Start(q, [do |-> "delete", step |-> s, seen |-> position])

(* The index of s among the steps that are to remain, as they were read. *)
IndexIn(seen, gone, s) ==
    Cardinality({t \in PresentIn(seen) \ {gone} : seen[t] < seen[s]})

(* Mutant of Resequenced: the remaining steps keep their positions. *)
ResequencedNot(seen, gone) ==
    [s \in Steps |-> IF s = gone THEN Absent ELSE position[s]]

(* DELETE, then one UPDATE that sets the position of every remaining step  *)
(* that was read and is still there to its index.                          *)
Resequenced(seen, gone) ==
    [s \in Steps |->
        CASE s = gone -> Absent
          [] s # gone /\ Absent \notin {position[s], seen[s]} -> IndexIn(seen, gone, s)
          [] OTHER -> position[s]]

(* The transaction of deleteStep: the row must be there and no row of      *)
(* zap_run_steps may refer to it, and the new positions must be distinct.  *)
DeleteCommit(q) ==
    /\ request[q].do = "delete"
    /\ LET gone == request[q].step
           new  == Resequenced(request[q].seen, gone)
       IN
       /\ position[gone] # Absent
       /\ ~Referenced(gone)
       /\ \A s, t \in PresentIn(new) : new[s] = new[t] => s = t
       /\ position' = new
    /\ Commit(q)
    /\ UNCHANGED <<zap, created, triggers, runTables, handler>>

(* The write is rejected: by a constraint, by the order in which the       *)
(* UPDATE moves the rows past each other, by a deadlock; or app-api dies.  *)
Reject(q) ==
    /\ request[q] # Idle
    /\ End(q)
    /\ UNCHANGED <<zapTables, runTables, handler, overlapped>>

-----------------------------------------------------------------------------
(* hooks-api and worker *)

Goto(r, label) == phase' = [phase EXCEPT ![r] = label]

(* ingestWebhook stores an event; its trigger was looked up before and may *)
(* be gone by now.                                                         *)
Ingest(r) ==
    /\ zap = "live"
    /\ run[r] = "absent"
    /\ run' = [run EXCEPT ![r] = "queued"]
    /\ UNCHANGED <<zapTables, snapshot, row, request, handler, overlapped>>

(* onMessage claims the run and freezes the steps in the same statement;   *)
(* the zap may be inactive or over its cap.                                *)
StartRun(r) ==
    /\ run[r] = "queued"
    /\ run' = [run EXCEPT ![r] = "in_progress"]
    /\ snapshot' = [snapshot EXCEPT ![r] = position]
    /\ \E label \in {"resume", "fail"} : Goto(r, label)
    /\ UNCHANGED <<zapTables, row, request, at, overlapped>>

(* Mutant of Redeliver: a run in progress is taken for somebody else's. *)
RedeliverLeavesRunning(r) ==
    /\ run[r] = "in_progress"
    /\ phase[r] = "idle"
    /\ UNCHANGED vars

(* The message is delivered again. *)
Redeliver(r) ==
    /\ run[r] = "in_progress"
    /\ phase[r] = "idle"
    /\ \E label \in {"resume", "fail"} : Goto(r, label)
    /\ UNCHANGED <<zapTables, runTables, request, at, overlapped>>

(* resume: the position after the highest one that a completed step has    *)
(* today.                                                                  *)
ResumeRun(r) ==
    /\ phase[r] = "resume"
    /\ \E p \in 0 .. MaxSteps + 1 :
          LET completed == {position[s] : s \in {t \in Steps : row[r][t] = "completed"}} IN
          /\ \A c \in completed : c < p
          /\ p > 0 => p - 1 \in completed
          /\ at' = [at EXCEPT ![r] = p]
    /\ Goto(r, "claim")
    /\ UNCHANGED <<zapTables, runTables, request, overlapped>>

(* Mutant of CompleteRun: the loop looks further behind a gap, for ever. *)
CompleteRunLooksFurther(r) ==
    /\ phase[r] = "claim"
    /\ at[r] \notin PositionsOf(snapshot[r])
    /\ at' = [at EXCEPT ![r] = @ + 1]
    /\ UNCHANGED <<zapTables, runTables, request, phase, overlapped>>

(* The snapshot has no step at this position: the run is completed. *)
CompleteRun(r) ==
    /\ phase[r] = "claim"
    /\ at[r] \notin PositionsOf(snapshot[r])
    /\ run' = [run EXCEPT ![r] = "completed"]
    /\ Goto(r, "idle")
    /\ UNCHANGED <<zapTables, snapshot, row, request, at, overlapped>>

(* Mutant of ClaimStep: a step that is gone is passed over. *)
ClaimStepSkipsGone(r) ==
    /\ phase[r] = "claim"
    /\ \E s \in PresentIn(snapshot[r]) :
          /\ snapshot[r][s] = at[r]
          /\ \/ /\ row[r][s] = "none"
                /\ position[s] # Absent
                /\ row' = [row EXCEPT ![r][s] = "open"]
                /\ Goto(r, "execute")
                /\ UNCHANGED at
             \/ /\ position[s] = Absent
                /\ at' = [at EXCEPT ![r] = @ + 1]
                /\ UNCHANGED <<row, phase>>
             \/ /\ row[r][s] # "none"
                /\ \E label \in {"idle", "fail"} : Goto(r, label)
                /\ UNCHANGED <<row, at>>
    /\ UNCHANGED <<zapTables, run, snapshot, request, overlapped>>

(* claim: the INSERT is rejected when the step is gone (foreign key), and  *)
(* the handler throws; when the row is there, the worker backs off, or     *)
(* fails the run once the lease has expired.                               *)
ClaimStep(r) ==
    /\ phase[r] = "claim"
    /\ \E s \in PresentIn(snapshot[r]) :
          /\ snapshot[r][s] = at[r]
          /\ \/ /\ row[r][s] = "none"
                /\ position[s] # Absent
                /\ row' = [row EXCEPT ![r][s] = "open"]
                /\ Goto(r, "execute")
             \/ /\ row[r][s] = "none"
                /\ position[s] = Absent
                /\ Goto(r, "idle")
                /\ UNCHANGED row
             \/ /\ row[r][s] = "completed"
                /\ Goto(r, "idle")
                /\ UNCHANGED row
             \/ /\ row[r][s] = "open"
                /\ \E label \in {"idle", "fail"} : Goto(r, label)
                /\ UNCHANGED row
    /\ UNCHANGED <<zapTables, run, snapshot, request, at, overlapped>>

(* The step is executed: the loop goes on, or the run is stopped next,     *)
(* because the step failed or is a filter that did not match.              *)
ExecuteStep(r) ==
    /\ phase[r] = "execute"
    /\ \E s \in PresentIn(snapshot[r]) :
          /\ snapshot[r][s] = at[r]
          /\ \/ /\ row' = [row EXCEPT ![r][s] = "completed"]
                /\ at' = [at EXCEPT ![r] = @ + 1]
                /\ Goto(r, "claim")
             \/ /\ \E status \in {"open", "completed"} :
                      row' = [row EXCEPT ![r][s] = status]
                /\ Goto(r, "fail")
                /\ UNCHANGED at
    /\ UNCHANGED <<zapTables, run, snapshot, request, overlapped>>

StopRun(r) ==
    /\ phase[r] = "fail"
    /\ run' = [run EXCEPT ![r] = "stopped"]
    /\ Goto(r, "idle")
    /\ UNCHANGED <<zapTables, snapshot, row, request, at, overlapped>>

(* The process dies, or a statement of the handler rejects. *)
LoseHandler(r) ==
    /\ "lose" \in Faults
    /\ phase[r] # "idle"
    /\ Goto(r, "idle")
    /\ UNCHANGED <<zapTables, runTables, request, at, overlapped>>

-----------------------------------------------------------------------------

Edit(q) ==
    AddRead(q) \/ AddInsert(q) \/ DeleteRead(q) \/ DeleteCommit(q) \/ Reject(q)

Handle(r) ==
    StartRun(r) \/ ResumeRun(r) \/ CompleteRun(r) \/ ClaimStep(r)
        \/ ExecuteStep(r) \/ StopRun(r)

Next ==
    \/ CreateZap \/ DeleteZap
    \/ \E q \in Requests : Edit(q)
    \/ \E r \in Runs : Ingest(r) \/ Handle(r) \/ Redeliver(r) \/ LoseHandler(r)

Spec == Init /\ [][Next]_vars

(* A worker handles the message of every run, and again when it is         *)
(* delivered again, which it is as long as the run is in progress.         *)
Fairness == \A r \in Runs : WF_vars(Handle(r)) /\ WF_vars(Redeliver(r))

FairSpec == Spec /\ Fairness

-----------------------------------------------------------------------------
(* Properties *)

(* Whatever requests interleave, a trigger is at position 0: nothing but   *)
(* validateZapSteps and the unique index sees to it, and with that index   *)
(* there is never a second trigger.                                        *)
TriggerFirst ==
    \A s \in triggers : position[s] \in {0, Absent}

(* The steps of a zap are at 0, 1, 2, ... (zap-validation.service rule 2;  *)
(* deleteStep: "set position = its new 0-based index"): a gap comes only   *)
(* from a request that wrote what another one had made stale.              *)
StepsContiguous ==
    overlapped \/ PositionsOf(position) = 0 .. Cardinality(PresentIn(position)) - 1

(* A run that is shown as completed has executed every step of the         *)
(* snapshot that was frozen when it started.                               *)
CompletedRunIsWhole ==
    \A r \in Runs :
        run[r] = "completed" => \A s \in PresentIn(snapshot[r]) : row[r][s] = "completed"

(* So it is however the zap is edited meanwhile, one request at a time.    *)
CompletedRunIsWholeUnlessOverlapped == overlapped \/ CompletedRunIsWhole

(* A step is executed only after all the steps that stand before it in the *)
(* snapshot, although resumption goes by the positions of today.           *)
ExecutedInOrder ==
    overlapped \/
    \A r \in Runs, s, t \in Steps :
        /\ row[r][t] # "none"
        /\ s \in PresentIn(snapshot[r]) /\ snapshot[r][s] < snapshot[r][t]
        => row[r][s] = "completed"

(* From some point on no handler is lost.                                  *)
LossesStop == <>[][\A r \in Runs : LoseHandler(r) => Handle(r)]_vars

(* Edits leave a run in flight alone: delivered again, it goes on until it *)
(* is completed or stopped.  It does not when a step of its snapshot was   *)
(* deleted, which it can not claim, or when a handler was lost at one.     *)
RunInFlightFinishes ==
    LossesStop =>
        \A r \in Runs :
            run[r] = "in_progress" ~>
                \/ run[r] \in {"completed", "stopped"}
                \/ overlapped
                \/ \E s \in PresentIn(snapshot[r]) :
                      \/ position[s] = Absent
                      \/ row[r][s] = "open" /\ phase[r] = "idle"

=============================================================================
