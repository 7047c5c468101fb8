------------------------- MODULE RunExecutionProofs -------------------------
(* Theorems about RunExecution, for every number of workers, runs and steps *)
(* and every set of faults.                                                 *)
EXTENDS RunExecution, TLAPS

(* Labels at which the handler is at a step of the snapshot. *)
StepLabels == OwnerLabels \cup {"claim", "inspect", "reclaim"}

(* What the local variables of a handler may hold: label l, run r, position *)
(* p, status s.                                                             *)
LocalOK(l, r, p, s) ==
    /\ l \in Labels
    /\ r \in Runs \cup {NoRun}
    /\ p \in 0 .. NumSteps
    /\ s \in {"none", "processing", "ambiguous"} \cup Terminal
    /\ l # "idle" => r \in Runs
    /\ l \in StepLabels => p \in Positions
    /\ l = "complete" => StepType[p] = "trigger"
    /\ l = "evaluate" => StepType[p] = "filter"
    /\ l \in OwnerLabels \ {"complete", "evaluate"} => StepType[p] = "action"
    /\ l = "record" => s \in {"completed", "failed", "ambiguous", "processing"}
    /\ l = "finish" => s \in Terminal

Local(w) == LocalOK(pc[w], cur[w], pos[w], out[w])

(* The inductive strengthening of TypeOK: a run or row is given the status  *)
(* a handler holds, so what the handler holds has to be known.              *)
ControlInv == TypeOK /\ \A w \in Workers : Local(w)

-----------------------------------------------------------------------------
(* Types and control *)

USE DEF tables, process, history

LEMMA ControlInit == Init => ControlInv
BY StepsAssumption DEF Init, ControlInv, Local, LocalOK, TypeOK, RunStatus, RowStatus,
   Labels, Positions, Terminal, StepLabels, OwnerLabels

(* What the four ways to move on do to the local variables. *)
LocalsOK ==
    /\ pc \in [Workers -> Labels]
    /\ cur \in [Workers -> Runs \cup {NoRun}]
    /\ pos \in [Workers -> 0 .. NumSteps]
    /\ out \in [Workers -> {"none", "processing", "ambiguous"} \cup Terminal]

Others(w) ==
    \A v \in Workers \ {w} :
        pc'[v] = pc[v] /\ cur'[v] = cur[v] /\ pos'[v] = pos[v] /\ out'[v] = out[v]

Now(w, l, r, p, s) ==
    /\ LocalsOK'
    /\ pc'[w] = l /\ cur'[w] = r /\ pos'[w] = p /\ out'[w] = s
    /\ Others(w)

LEMMA GotoEffect ==
    ASSUME LocalsOK, NEW w \in Workers, NEW label \in Labels, Goto(w, label)
    PROVE  Now(w, label, cur[w], pos[w], out[w])
BY DEF LocalsOK, Goto, Now, Others

LEMMA GotoWithEffect ==
    ASSUME LocalsOK, NEW w \in Workers, NEW label \in Labels,
           NEW s \in {"none", "processing", "ambiguous"} \cup Terminal, GotoWith(w, label, s)
    PROVE  Now(w, label, cur[w], pos[w], s)
BY DEF LocalsOK, GotoWith, Now, Others

LEMMA ReturnEffect ==
    ASSUME LocalsOK, NEW w \in Workers, Return(w)
    PROVE  Now(w, "idle", NoRun, 0, "none")
BY StepsAssumption DEF LocalsOK, Return, Now, Others, Labels

LEMMA LoopAtEffect ==
    ASSUME LocalsOK, NEW w \in Workers, NEW p \in 0 .. NumSteps, LoopAt(w, p)
    PROVE  \/ p \in Positions /\ Now(w, "claim", cur[w], p, "none")
           \/ p = NumSteps /\ Now(w, "finish", cur[w], p, "completed")
BY StepsAssumption DEF LocalsOK, LoopAt, Now, Others, Labels, Terminal, Positions

(* Where each statement of a handler takes it. *)
LEMMA HandlerMove ==
    ASSUME ControlInv, NEW w \in Workers, Handler(w)
    PROVE  \E l \in Labels, r \in Runs \cup {NoRun}, p \in 0 .. NumSteps,
              s \in {"none", "processing", "ambiguous"} \cup Terminal :
                  Now(w, l, r, p, s) /\ LocalOK(l, r, p, s)
<1>1. LocalsOK /\ LocalOK(pc[w], cur[w], pos[w], out[w])
      BY DEF ControlInv, TypeOK, LocalsOK, Local
<1> DEFINE Moved == \E l \in Labels, r \in Runs \cup {NoRun}, p \in 0 .. NumSteps,
                       s \in {"none", "processing", "ambiguous"} \cup Terminal :
                           Now(w, l, r, p, s) /\ LocalOK(l, r, p, s)
<1> SUFFICES Moved
    OBVIOUS
<1> HIDE DEF Moved
<1>2. ASSUME NEW l \in Labels, Goto(w, l), LocalOK(l, cur[w], pos[w], out[w]) PROVE Moved
      BY <1>1, <1>2, GotoEffect DEF Moved, LocalOK
<1>3. ASSUME NEW l \in Labels, NEW s \in {"none", "processing", "ambiguous"} \cup Terminal,
             GotoWith(w, l, s), LocalOK(l, cur[w], pos[w], s) PROVE Moved
      BY <1>1, <1>3, GotoWithEffect DEF Moved, LocalOK
<1>4. ASSUME Return(w) PROVE Moved
  <2>1. LocalOK("idle", NoRun, 0, "none")
        BY StepsAssumption DEF LocalOK, Labels, StepLabels, OwnerLabels
  <2> QED BY <1>1, <1>4, <2>1, ReturnEffect DEF Moved, LocalOK
<1>5. ASSUME NEW p \in 0 .. NumSteps, LoopAt(w, p), cur[w] \in Runs PROVE Moved
  <2>1. p \in Positions => LocalOK("claim", cur[w], p, "none")
        BY <1>5 DEF LocalOK, Labels, StepLabels, OwnerLabels
  <2>2. LocalOK("finish", cur[w], p, "completed")
        BY <1>5 DEF LocalOK, Labels, StepLabels, OwnerLabels, Terminal
  <2> QED BY <1>1, <1>5, <2>1, <2>2, LoopAtEffect DEF Moved, LocalOK
<1> USE <1>1, <1>2, <1>3, <1>4, <1>5
<1> USE DEF LocalOK, Labels, Terminal, StepLabels, OwnerLabels
<1>6. CASE OnMessage(w)
  <2>1. CASE ClaimRun(w)      BY <2>1 DEF ClaimRun
  <2>2. CASE InsertRun(w)     BY <2>2 DEF InsertRun
  <2>3. CASE FetchRun(w)      BY <2>3 DEF FetchRun
  <2>4. CASE MarkConsumed(w)  BY <2>4 DEF MarkConsumed
  <2>5. CASE CheckZap(w)      BY <2>5 DEF CheckZap
  <2>6. CASE CheckCap(w)      BY <2>6 DEF CheckCap
  <2>7. CASE FinishRun(w)     BY <2>7 DEF FinishRun
  <2> QED BY <1>6, <2>1, <2>2, <2>3, <2>4, <2>5, <2>6, <2>7 DEF OnMessage
<1>7. CASE Resume(w)
  <2>1. CASE ReadCompleted(w)   BY <2>1 DEF ReadCompleted
  <2>2. CASE ClaimStep(w)       BY <2>2, StepsAssumption DEF ClaimStep, EntryLabel
  <2>3. CASE InspectRow(w)      BY <2>3 DEF InspectRow
  <2>4. CASE Reclaim(w)         BY <2>4 DEF Reclaim
  <2>5. CASE CompleteTrigger(w) BY <2>5, StepsAssumption DEF CompleteTrigger, Positions
  <2>6. CASE EvaluateFilter(w)  BY <2>6, StepsAssumption DEF EvaluateFilter, Positions
  <2> QED BY <1>7, <2>1, <2>2, <2>3, <2>4, <2>5, <2>6 DEF Resume
<1>8. CASE RunStep(w)
  <2>1. CASE CheckStep(w)    BY <2>1 DEF CheckStep
  <2>2. CASE Release(w)      BY <2>2 DEF Release
  <2>3. CASE Send(w)         BY <2>3 DEF Send
  <2>4. CASE Refresh(w)      BY <2>4 DEF Refresh
  <2>5. CASE Respond(w)      BY <2>5 DEF Respond
  <2>6. CASE RecordResult(w) BY <2>6, StepsAssumption DEF RecordResult, Positions
  <2> QED BY <1>8, <2>1, <2>2, <2>3, <2>4, <2>5, <2>6 DEF RunStep
<1> QED BY <1>6, <1>7, <1>8 DEF Handler

(* What a handler writes into the tables is legal. *)
TablesOK ==
    /\ run \in [Runs -> RunStatus]
    /\ row \in [Runs -> [Positions -> RowStatus]]
    /\ stale \in [Runs -> SUBSET Positions]
    /\ consumed \in [Runs -> BOOLEAN]
    /\ picked \in [Workers -> SUBSET (Runs \X Positions)]
    /\ done \in [Runs -> SUBSET Positions]
    /\ rejected \in [Runs -> SUBSET Positions]
    /\ sent \in [Runs -> [Positions -> Nat]]

LEMMA HandlerTables ==
    ASSUME ControlInv, NEW w \in Workers, Handler(w)
    PROVE  TablesOK'
<1>1. /\ TablesOK
      /\ pc[w] # "idle" => cur[w] \in Runs
      /\ pc[w] \in StepLabels => pos[w] \in Positions
      /\ pc[w] = "record" => out[w] \in {"completed", "failed", "ambiguous", "processing"}
      /\ pc[w] = "finish" => out[w] \in Terminal
      BY DEF ControlInv, TypeOK, TablesOK, Local, LocalOK
<1> USE <1>1
<1> USE DEF TablesOK, RunStatus, RowStatus, Terminal, StepLabels, OwnerLabels, SetRun, SetRow,
        Complete
<1>2. CASE OnMessage(w)
  <2>1. CASE ClaimRun(w)      BY <2>1 DEF ClaimRun
  <2>2. CASE InsertRun(w)     BY <2>2 DEF InsertRun
  <2>3. CASE FetchRun(w)      BY <2>3 DEF FetchRun
  <2>4. CASE MarkConsumed(w)  BY <2>4 DEF MarkConsumed
  <2>5. CASE CheckZap(w)      BY <2>5 DEF CheckZap
  <2>6. CASE CheckCap(w)      BY <2>6 DEF CheckCap
  <2>7. CASE FinishRun(w)     BY <2>7 DEF FinishRun
  <2> QED BY <1>2, <2>1, <2>2, <2>3, <2>4, <2>5, <2>6, <2>7 DEF OnMessage
<1>3. CASE Resume(w)
  <2>1. CASE ReadCompleted(w)   BY <2>1 DEF ReadCompleted
  <2>2. CASE ClaimStep(w)
    <3>1. CASE row' = row /\ stale' = stale
          BY <2>2, <3>1 DEF ClaimStep
    <3>2. CASE /\ row' = [row EXCEPT ![cur[w]][pos[w]] = "processing"]
               /\ stale' = [stale EXCEPT ![cur[w]] = @ \ {pos[w]}]
          BY <2>2, <3>2 DEF ClaimStep
    <3> QED BY <2>2, <3>1, <3>2 DEF ClaimStep
  <2>3. CASE InspectRow(w)      BY <2>3 DEF InspectRow
  <2>4. CASE Reclaim(w)         BY <2>4 DEF Reclaim
  <2>5. CASE CompleteTrigger(w) BY <2>5 DEF CompleteTrigger
  <2>6. CASE EvaluateFilter(w)
    <3>1. CASE rejected' = rejected
          BY <2>6, <3>1 DEF EvaluateFilter
    <3>2. CASE rejected' = [rejected EXCEPT ![cur[w]] = @ \cup {pos[w]}]
          BY <2>6, <3>2 DEF EvaluateFilter
    <3> QED BY <2>6, <3>1, <3>2 DEF EvaluateFilter
  <2> QED BY <1>3, <2>1, <2>2, <2>3, <2>4, <2>5, <2>6 DEF Resume
<1>4. CASE RunStep(w)
  <2>1. CASE CheckStep(w)    BY <2>1 DEF CheckStep
  <2>2. CASE Release(w)      BY <2>2 DEF Release
  <2>3. CASE Send(w)
    <3>1. CASE sent' = sent
          BY <2>3, <3>1 DEF Send
    <3>2. CASE sent' = [sent EXCEPT ![cur[w]][pos[w]] = @ + 1]
          BY <2>3, <3>2 DEF Send
    <3> QED BY <2>3, <3>1, <3>2 DEF Send
  <2>4. CASE Refresh(w)      BY <2>4 DEF Refresh
  <2>5. CASE Respond(w)      BY <2>5 DEF Respond
  <2>6. CASE RecordResult(w)
    <3>1. CASE out[w] = "completed"
      <4>1. Complete(cur[w], pos[w]) /\ UNCHANGED <<run, stale, consumed, picked, rejected, sent>>
            BY <2>6, <3>1 DEF RecordResult
      <4> QED BY <2>6, <4>1 DEF RecordResult
    <3>2. CASE out[w] # "completed"
      <4>1. done' = done /\ SetRow(cur[w], pos[w], out[w])
            BY <2>6, <3>2 DEF RecordResult
      <4> QED BY <2>6, <4>1 DEF RecordResult
    <3> QED BY <3>1, <3>2
  <2> QED BY <1>4, <2>1, <2>2, <2>3, <2>4, <2>5, <2>6 DEF RunStep
<1> QED BY <1>2, <1>3, <1>4 DEF Handler

LEMMA HandlerControl ==
    ASSUME ControlInv, NEW w \in Workers, Handler(w)
    PROVE  ControlInv'
<1>1. Local(w)' /\ LocalsOK' /\ Others(w)
      BY HandlerMove DEF Now, Local
<1>2. \A v \in Workers : Local(v)'
      BY <1>1 DEF ControlInv, Others, Local
<1> QED BY <1>1, <1>2, HandlerTables DEF ControlInv, TypeOK, TablesOK, LocalsOK

LEMMA ControlStep == ControlInv /\ [Next]_vars => ControlInv'
<1> SUFFICES ASSUME ControlInv, [Next]_vars PROVE ControlInv'
    OBVIOUS
<1>1. ASSUME NEW w \in Workers, Handler(w) PROVE ControlInv'
      BY <1>1, HandlerControl
<1>2. ASSUME NEW w \in Workers, NEW r \in Runs, Deliver(w, r) PROVE ControlInv'
      BY <1>2 DEF Deliver, ControlInv, Local, LocalOK, TypeOK, Labels, StepLabels, OwnerLabels
<1>3. ASSUME NEW r \in Runs, NEW p \in Positions, Expire(r, p) PROVE ControlInv'
      BY <1>3 DEF Expire, ControlInv, Local, TypeOK
<1>4. ASSUME NEW w \in Workers, JobSelect(w) PROVE ControlInv'
      BY <1>4 DEF JobSelect, StuckRows, ControlInv, Local, TypeOK
<1>5. ASSUME NEW w \in Workers, JobUpdate(w) PROVE ControlInv'
      BY <1>5 DEF JobUpdate, RowStatus, ControlInv, Local, TypeOK
<1>6. ASSUME NEW w \in Workers, Return(w), UNCHANGED <<tables, history>>,
             picked' \in [Workers -> SUBSET (Runs \X Positions)]
      PROVE  ControlInv'
  <2>1. LocalsOK' /\ Others(w) /\ Local(w)'
        BY <1>6, ReturnEffect, StepsAssumption
        DEF ControlInv, TypeOK, LocalsOK, Now, Local, LocalOK, Labels, StepLabels, OwnerLabels
  <2> QED BY <1>6, <2>1 DEF ControlInv, Local, TypeOK, LocalsOK, Others
<1>7. ASSUME NEW w \in Workers, Throw(w) PROVE ControlInv'
  <2>1. CASE Return(w)
        BY <1>6, <1>7, <2>1 DEF Throw, ControlInv, TypeOK
  <2>2. CASE UNCHANGED process
        BY <1>7, <2>2 DEF Throw, ControlInv, Local, TypeOK
  <2> QED BY <1>7, <2>1, <2>2 DEF Throw
<1>8. ASSUME NEW w \in Workers, Crash(w) PROVE ControlInv'
      BY <1>6, <1>8 DEF Crash, ControlInv, TypeOK
<1>9. CASE UNCHANGED vars
      BY <1>9 DEF vars, ControlInv, Local, TypeOK
<1> QED BY <1>1, <1>2, <1>3, <1>4, <1>5, <1>7, <1>8, <1>9 DEF Next

(* Every variable keeps its type: whatever handlers, cron jobs, crashes and *)
(* redeliveries do, statuses, positions and selections stay legal.          *)
THEOREM TypeCorrect == Spec => []TypeOK
<1>1. ControlInv => TypeOK
      BY DEF ControlInv
<1> QED BY ControlInit, ControlStep, <1>1, PTL DEF Spec

-----------------------------------------------------------------------------
(* The inductive invariant behind the safety properties *)

Claimed(r)  == run[r] \notin {"absent", "queued"}
Prior(r, p) == \A q \in Positions : q < p => q \in done[r]

(* A row marks that its step has been claimed: without a row nothing has    *)
(* happened at the step, with one everything before it has.                 *)
RowInv(r, p) ==
    /\ sent[r][p] \in {0, 1}
    /\ row[r][p] = "none" => p \notin done[r] /\ sent[r][p] = 0
    /\ row[r][p] = "completed" => p \in done[r]
    /\ row[r][p] # "none" => Claimed(r) /\ Prior(r, p)

RunInv(r) ==
    /\ run[r] = "completed" => done[r] = Positions
    /\ consumed[r] => Claimed(r)

(* The cron job only ever selects rows that exist, and rows are not deleted. *)
PickInv(w) ==
    \A r \in Runs, p \in Positions : <<r, p>> \in picked[w] => row[r][p] # "none"

(* An owner has not finished its step, and has called it only if it is      *)
(* past the call.                                                           *)
OwnerInv(l, s, r, p) ==
    /\ row[r][p] # "none"
    /\ p \notin done[r]
    /\ l \notin {"await", "record"} => sent[r][p] = 0
    /\ l = "await" => sent[r][p] = 1
    /\ l = "record" /\ s = "completed" => sent[r][p] = 1

HandlerInv(l, s, r, p) ==
    /\ l = "insertRun" => run[r] # "queued"
    /\ l \notin {"idle", "claimRun", "insertRun"} => Claimed(r)
    /\ l \in StepLabels => Prior(r, p)
    /\ l = "finish" /\ s = "completed" => done[r] = Positions
    /\ l \in OwnerLabels => OwnerInv(l, s, r, p)

WorkInv(w) == HandlerInv(pc[w], out[w], cur[w], pos[w])

LedgerInv ==
    /\ \A r \in Runs, p \in Positions : RowInv(r, p)
    /\ \A r \in Runs : RunInv(r)
    /\ \A w \in Workers : PickInv(w) /\ WorkInv(w)
    /\ OneOwner

LEMMA LedgerInit == Init => LedgerInv
BY DEF Init, LedgerInv, RowInv, RunInv, PickInv, WorkInv, HandlerInv, OneOwner, Owns,
   StepLabels, OwnerLabels, Claimed

(* What is never undone, and what only the owner of a step does to it. *)
Grows ==
    /\ \A r \in Runs : Claimed(r) => Claimed(r)'
    /\ \A r \in Runs : run[r] # "queued" => run'[r] # "queued"
    /\ \A r \in Runs, p \in Positions : p \in done[r] => p \in done'[r]
    /\ \A r \in Runs, p \in Positions : row[r][p] # "none" => row'[r][p] # "none"

OnlyOwner(w) ==
    \A r \in Runs, p \in Positions :
        ~Owns(w, r, p) => (p \in done'[r] => p \in done[r]) /\ sent'[r][p] = sent[r][p]

LEMMA HandlerGrows ==
    ASSUME ControlInv, NEW w \in Workers, Handler(w)
    PROVE  Grows /\ OnlyOwner(w) /\ picked' = picked
<1>1. /\ TablesOK
      /\ pc[w] # "idle" => cur[w] \in Runs
      /\ pc[w] \in StepLabels => pos[w] \in Positions
      /\ pc[w] = "record" => out[w] \in {"completed", "failed", "ambiguous", "processing"}
      /\ pc[w] = "finish" => out[w] \in Terminal
      BY DEF ControlInv, TypeOK, TablesOK, Local, LocalOK
<1> USE <1>1
<1> USE DEF TablesOK, Terminal, StepLabels, OwnerLabels, Claimed, Grows, OnlyOwner, Owns
<1>2. CASE UNCHANGED <<run, row, done, sent, picked>>
      BY <1>2
<1>3. CASE OnMessage(w)
  <2>1. CASE ClaimRun(w)      BY <2>1, <1>2 DEF ClaimRun, SetRun
  <2>2. CASE InsertRun(w)     BY <2>2, <1>2 DEF InsertRun, SetRun
  <2>3. CASE FetchRun(w)      BY <2>3, <1>2 DEF FetchRun
  <2>4. CASE MarkConsumed(w)  BY <2>4, <1>2 DEF MarkConsumed
  <2>5. CASE CheckZap(w)      BY <2>5, <1>2 DEF CheckZap
  <2>6. CASE CheckCap(w)      BY <2>6, <1>2 DEF CheckCap
  <2>7. CASE FinishRun(w)     BY <2>7 DEF FinishRun, SetRun
  <2> QED BY <1>3, <2>1, <2>2, <2>3, <2>4, <2>5, <2>6, <2>7 DEF OnMessage
<1>4. CASE Resume(w)
  <2>1. CASE ReadCompleted(w)   BY <2>1, <1>2 DEF ReadCompleted
  <2>2. CASE ClaimStep(w)
    <3>1. CASE SetRow(cur[w], pos[w], "processing")
          BY <2>2, <3>1 DEF ClaimStep, SetRow
    <3> QED BY <1>2, <2>2, <3>1 DEF ClaimStep
  <2>3. CASE InspectRow(w)      BY <2>3, <1>2 DEF InspectRow
  <2>4. CASE Reclaim(w)         BY <2>4 DEF Reclaim, SetRow
  <2>5. CASE CompleteTrigger(w) BY <2>5 DEF CompleteTrigger, Complete, SetRow
  <2>6. CASE EvaluateFilter(w)  BY <2>6 DEF EvaluateFilter, Complete, SetRow
  <2> QED BY <1>4, <2>1, <2>2, <2>3, <2>4, <2>5, <2>6 DEF Resume
<1>5. CASE RunStep(w)
  <2>1. CASE CheckStep(w)    BY <2>1, <1>2 DEF CheckStep
  <2>2. CASE Release(w)      BY <2>2, <1>2 DEF Release
  <2>3. CASE Send(w)         BY <2>3, <1>2 DEF Send
  <2>4. CASE Refresh(w)      BY <2>4, <1>2 DEF Refresh
  <2>5. CASE Respond(w)      BY <2>5, <1>2 DEF Respond
  <2>6. CASE RecordResult(w)
    <3>1. CASE out[w] = "completed"
      <4>1. Complete(cur[w], pos[w]) /\ UNCHANGED <<run, picked, sent>>
            BY <2>6, <3>1 DEF RecordResult
      <4> QED BY <2>6, <4>1 DEF RecordResult, Complete, SetRow
    <3>2. CASE out[w] # "completed"
      <4>1. SetRow(cur[w], pos[w], out[w]) /\ UNCHANGED <<run, done, picked, sent>>
            BY <2>6, <3>2 DEF RecordResult
      <4> QED BY <2>6, <4>1 DEF RecordResult, SetRow
    <3> QED BY <3>1, <3>2
  <2> QED BY <1>5, <2>1, <2>2, <2>3, <2>4, <2>5, <2>6 DEF RunStep
<1> QED BY <1>3, <1>4, <1>5 DEF Handler

(* The invariant of a handler that did not move survives any step that      *)
(* undoes nothing and leaves the steps it owns alone.                       *)
LEMMA Bystander ==
    ASSUME ControlInv, Grows, NEW v \in Workers, WorkInv(v), done' \in [Runs -> SUBSET Positions],
           pc'[v] = pc[v] /\ cur'[v] = cur[v] /\ pos'[v] = pos[v] /\ out'[v] = out[v],
           \A r \in Runs, p \in Positions :
               Owns(v, r, p) => (p \in done'[r] => p \in done[r]) /\ sent'[r][p] = sent[r][p]
    PROVE  WorkInv(v)'
<1>1. Local(v)
      BY DEF ControlInv
<1>2. CASE pc[v] = "idle"
      BY <1>2 DEF WorkInv, HandlerInv, StepLabels, OwnerLabels
<1>3. CASE pc[v] # "idle"
  <2>1. cur[v] \in Runs /\ (pc[v] \in StepLabels => pos[v] \in Positions)
        BY <1>1, <1>3 DEF Local, LocalOK
  <2>2. (Claimed(cur[v]) => Claimed(cur[v])') /\ (run[cur[v]] # "queued" => run'[cur[v]] # "queued") /\ (pc[v] \in StepLabels /\ Prior(cur[v], pos[v]) => Prior(cur[v], pos[v])')
        BY <2>1 DEF Grows, Claimed, Prior
  <2>3. done[cur[v]] = Positions => done'[cur[v]] = Positions
        BY <2>1 DEF Grows
  <2>4. pc[v] \in OwnerLabels => OwnerInv(pc[v], out[v], cur[v], pos[v])'
        BY <2>1 DEF Grows, Owns, WorkInv, HandlerInv, OwnerInv, StepLabels
  <2> QED BY <2>1, <2>2, <2>3, <2>4 DEF WorkInv, HandlerInv
<1> QED BY <1>2, <1>3

(* The invariant of the handler that moves. *)
LEMMA HandlerWork ==
    ASSUME ControlInv, LedgerInv, NEW w \in Workers, Handler(w)
    PROVE  WorkInv(w)'
<1>1. /\ LocalsOK /\ TablesOK /\ WorkInv(w)
      /\ pc[w] # "idle" => cur[w] \in Runs
      /\ pc[w] \in StepLabels => pos[w] \in Positions
      /\ pc[w] = "record" => out[w] \in {"completed", "failed", "ambiguous", "processing"}
      BY DEF ControlInv, TypeOK, LocalsOK, TablesOK, Local, LocalOK, LedgerInv
<1>2. \A r \in Runs, p \in Positions : RowInv(r, p)
      BY DEF LedgerInv
<1>3. Grows
      BY HandlerGrows
<1>4. CASE pc'[w] = "idle"
      BY <1>4 DEF WorkInv, HandlerInv, StepLabels, OwnerLabels
<1>5. ASSUME Return(w) PROVE WorkInv(w)'
      BY <1>1, <1>4, <1>5, ReturnEffect DEF Now
<1> USE <1>1
<1> USE DEF WorkInv, HandlerInv, StepLabels, OwnerLabels, Labels, Terminal, Now
<1>6. CASE OnMessage(w)
  <2>1. CASE ClaimRun(w)
    <3>1. CASE Goto(w, "consume") /\ SetRun(cur[w], "in_progress")
          BY <2>1, <3>1, GotoEffect DEF ClaimRun, SetRun, TablesOK, Claimed
    <3>2. CASE Goto(w, "insertRun")
          BY <2>1, <3>2, GotoEffect DEF ClaimRun
    <3> QED BY <2>1, <3>1, <3>2 DEF ClaimRun
  <2>2. CASE InsertRun(w)
    <3>1. CASE Goto(w, "consume") /\ SetRun(cur[w], "in_progress")
          BY <2>2, <3>1, GotoEffect DEF InsertRun, SetRun, TablesOK, Claimed
    <3>2. CASE Goto(w, "fetchRun") /\ run[cur[w]] # "absent" /\ UNCHANGED run
          BY <2>2, <3>2, GotoEffect DEF InsertRun, Claimed
    <3> QED BY <2>2, <3>1, <3>2 DEF InsertRun
  <2>3. CASE FetchRun(w)
    <3>1. CASE Goto(w, "consume")
          BY <2>3, <3>1, GotoEffect DEF FetchRun, Claimed
    <3> QED BY <1>5, <2>3, <3>1 DEF FetchRun
  <2>4. CASE MarkConsumed(w)
        BY <2>4, GotoEffect DEF MarkConsumed, Claimed
  <2>5. CASE CheckZap(w)
    <3>1. CASE Goto(w, "checkCap")
          BY <2>5, <3>1, GotoEffect DEF CheckZap, Claimed
    <3>2. CASE GotoWith(w, "finish", "filtered")
          BY <2>5, <3>2, GotoWithEffect DEF CheckZap, Claimed
    <3> QED BY <2>5, <3>1, <3>2 DEF CheckZap
  <2>6. CASE CheckCap(w)
    <3>1. CASE Goto(w, "resume")
          BY <2>6, <3>1, GotoEffect DEF CheckCap, Claimed
    <3>2. CASE GotoWith(w, "finish", "failed")
          BY <2>6, <3>2, GotoWithEffect DEF CheckCap, Claimed
    <3> QED BY <2>6, <3>1, <3>2 DEF CheckCap
  <2>7. CASE FinishRun(w)
        BY <1>5, <2>7 DEF FinishRun
  <2> QED BY <1>6, <2>1, <2>2, <2>3, <2>4, <2>5, <2>6, <2>7 DEF OnMessage
<1>7. ASSUME NEW p \in 0 .. NumSteps, LoopAt(w, p), cur[w] \in Runs, Claimed(cur[w]),
             \A q \in Positions : q < p => q \in done'[cur[w]]
      PROVE  WorkInv(w)'
  <2>1. cur'[w] = cur[w] /\ Claimed(cur[w])'
        BY <1>3, <1>7, LoopAtEffect DEF Grows
  <2>2. CASE pc'[w] = "claim" /\ pos'[w] = p
        BY <1>7, <2>1, <2>2 DEF Claimed, Prior
  <2>3. CASE pc'[w] = "finish" /\ p = NumSteps
    <3>1. done'[cur'[w]] = Positions
      <4>1. done'[cur[w]] \subseteq Positions
            BY <1>7, HandlerTables DEF TablesOK
      <4>2. \A q \in Positions : q < NumSteps
            BY StepsAssumption DEF Positions
      <4>3. Positions \subseteq done'[cur[w]]
            BY <1>7, <2>3, <4>2
      <4> QED BY <2>1, <4>1, <4>3
    <3> QED BY <2>1, <2>3, <3>1 DEF Claimed
  <2> QED BY <1>7, <2>2, <2>3, LoopAtEffect
<1>8. CASE Resume(w)
  <2>1. CASE ReadCompleted(w)
    <3>1. PICK p \in 0 .. NumSteps : ResumeAt(cur[w], p) /\ LoopAt(w, p)
          BY <2>1 DEF ReadCompleted
    <3>2. p > 0 => p - 1 \in Positions /\ RowInv(cur[w], p - 1) /\ row[cur[w]][p - 1] = "completed"
          BY <1>2, <2>1, <3>1, StepsAssumption DEF ReadCompleted, ResumeAt, Positions
    <3>3. \A q \in Positions : q < p => q \in done'[cur[w]]
          BY <2>1, <3>2, StepsAssumption DEF ReadCompleted, RowInv, Prior, Positions
    <3> QED BY <1>7, <2>1, <3>1, <3>3 DEF ReadCompleted
  <2>2. CASE ClaimStep(w)
    <3>1. CASE Goto(w, "inspect")
          BY <2>2, <3>1, GotoEffect DEF ClaimStep, Claimed, Prior
    <3>2. CASE /\ row[cur[w]][pos[w]] = "none"
               /\ SetRow(cur[w], pos[w], "processing")
               /\ Goto(w, EntryLabel(StepType[pos[w]]))
      <4>1. RowInv(cur[w], pos[w]) /\ row'[cur[w]][pos[w]] = "processing"
            BY <1>2, <2>2, <3>2 DEF ClaimStep, SetRow, TablesOK
      <4>2. EntryLabel(StepType[pos[w]]) \in {"complete", "evaluate", "rate"}
            BY <2>2, StepsAssumption DEF ClaimStep, EntryLabel
      <4>3. Now(w, EntryLabel(StepType[pos[w]]), cur[w], pos[w], out[w])
            BY <3>2, <4>2, GotoEffect
      <4> QED BY <2>2, <3>2, <4>1, <4>2, <4>3 DEF ClaimStep, Claimed, Prior, OwnerInv, RowInv
    <3> QED BY <2>2, <3>1, <3>2 DEF ClaimStep
  <2>3. CASE InspectRow(w)
    <3>1. CASE Goto(w, "reclaim")
          BY <2>3, <3>1, GotoEffect DEF InspectRow, Claimed, Prior
    <3> QED BY <1>5, <2>3, <3>1 DEF InspectRow
  <2>4. CASE Reclaim(w)
        BY <2>4, GotoWithEffect DEF Reclaim, Claimed
  <2>5. ASSUME pos[w] \in Positions, cur[w] \in Runs, Complete(cur[w], pos[w]),
               LoopAt(w, pos[w] + 1), Claimed(cur[w]), Prior(cur[w], pos[w])
        PROVE  WorkInv(w)'
    <3>1. pos[w] + 1 \in 0 .. NumSteps
          BY <2>5, StepsAssumption DEF Positions
    <3>2. \A q \in Positions : q < pos[w] + 1 => q \in done'[cur[w]]
          BY <2>5, StepsAssumption DEF Complete, TablesOK, Prior, Positions
    <3> QED BY <1>7, <2>5, <3>1, <3>2
  <2>6. CASE CompleteTrigger(w)
        BY <2>5, <2>6 DEF CompleteTrigger
  <2>7. CASE EvaluateFilter(w)
    <3>1. CASE GotoWith(w, "finish", "filtered")
          BY <2>7, <3>1, GotoWithEffect DEF EvaluateFilter, Claimed
    <3>2. CASE LoopAt(w, pos[w] + 1)
          BY <2>5, <2>7, <3>2 DEF EvaluateFilter
    <3> QED BY <2>7, <3>1, <3>2 DEF EvaluateFilter
  <2> QED BY <1>8, <2>1, <2>2, <2>3, <2>4, <2>6, <2>7 DEF Resume
<1>9. CASE RunStep(w)
  <2> USE DEF OwnerInv, Claimed, Prior
  <2>1. CASE CheckStep(w)
    <3>1. CASE Goto(w, "send")
          BY <2>1, <3>1, GotoEffect DEF CheckStep
    <3>2. CASE GotoWith(w, "record", "failed")
          BY <2>1, <3>2, GotoWithEffect DEF CheckStep
    <3>3. CASE Goto(w, "release")
          BY <2>1, <3>3, GotoEffect DEF CheckStep
    <3> QED BY <2>1, <3>1, <3>2, <3>3 DEF CheckStep
  <2>2. CASE Release(w)
        BY <2>2, GotoWithEffect DEF Release
  <2>3. CASE Send(w)
    <3>1. CASE Goto(w, "await") /\ sent' = [sent EXCEPT ![cur[w]][pos[w]] = @ + 1]
      <4>1. sent[cur[w]][pos[w]] = 0 /\ sent'[cur[w]][pos[w]] = 1
            BY <2>3, <3>1 DEF Send, TablesOK
      <4> QED BY <2>3, <3>1, <4>1, GotoEffect DEF Send
    <3>2. CASE Goto(w, "refresh") /\ UNCHANGED sent
          BY <2>3, <3>2, GotoEffect DEF Send
    <3>3. ASSUME NEW s \in {"failed", "ambiguous"}, GotoWith(w, "record", s), UNCHANGED sent
          PROVE  WorkInv(w)'
          BY <2>3, <3>3, GotoWithEffect DEF Send
    <3> QED BY <2>3, <3>1, <3>2, <3>3 DEF Send
  <2>4. CASE Refresh(w)
        BY <2>4, GotoEffect DEF Refresh
  <2>5. CASE Respond(w)
    <3>1. PICK s \in {"completed", "failed", "ambiguous"} : GotoWith(w, "record", s)
          BY <2>5 DEF Respond
    <3> QED BY <2>5, <3>1, GotoWithEffect DEF Respond
  <2>6. CASE RecordResult(w)
    <3>1. CASE Return(w)
          BY <1>5, <3>1
    <3>2. CASE GotoWith(w, "finish", "failed")
          BY <2>6, <3>2, GotoWithEffect DEF RecordResult
    <3>3. CASE Complete(cur[w], pos[w]) /\ LoopAt(w, pos[w] + 1)
      <4>1. pos[w] + 1 \in 0 .. NumSteps
            BY <2>6, StepsAssumption DEF RecordResult, Positions
      <4>2. \A q \in Positions : q < pos[w] + 1 => q \in done'[cur[w]]
            BY <2>6, <3>3, StepsAssumption DEF RecordResult, Complete, TablesOK, Positions
      <4> QED BY <1>7, <2>6, <3>3, <4>1, <4>2 DEF RecordResult
    <3> QED BY <2>6, <3>1, <3>2, <3>3 DEF RecordResult
  <2> QED BY <1>9, <2>1, <2>2, <2>3, <2>4, <2>5, <2>6 DEF RunStep
<1> QED BY <1>6, <1>8, <1>9 DEF Handler

(* A handler comes to own a step only by inserting its row. *)
LEMMA HandlerOwns ==
    ASSUME ControlInv, NEW w \in Workers, Handler(w), NEW r \in Runs, NEW p \in Positions,
           Owns(w, r, p)'
    PROVE  Owns(w, r, p) \/ row[r][p] = "none"
<1>1. LocalsOK
      BY DEF ControlInv, TypeOK, LocalsOK
<1> USE <1>1
<1> USE DEF Owns, OwnerLabels, Labels, Terminal, Now
<1>2. ~Return(w) /\ \A q \in 0 .. NumSteps : ~LoopAt(w, q)
      BY ReturnEffect, LoopAtEffect
<1>3. \A s \in {"none", "processing", "ambiguous"} \cup Terminal : ~GotoWith(w, "finish", s)
      BY GotoWithEffect
<1>4. CASE OnMessage(w)
      BY <1>2, <1>3, <1>4, GotoEffect DEF OnMessage, ClaimRun, InsertRun, FetchRun,
         MarkConsumed, CheckZap, CheckCap, FinishRun
<1>5. CASE Resume(w)
  <2>1. CASE ClaimStep(w)
    <3>1. CASE Goto(w, "inspect")
          BY <3>1, GotoEffect
    <3>2. CASE Goto(w, EntryLabel(StepType[pos[w]])) /\ row[cur[w]][pos[w]] = "none"
      <4>1. cur'[w] = cur[w] /\ pos'[w] = pos[w]
            BY <3>2 DEF Goto
      <4> QED BY <3>2, <4>1
    <3> QED BY <2>1, <3>1, <3>2 DEF ClaimStep
  <2>2. CASE ReadCompleted(w) \/ InspectRow(w) \/ Reclaim(w)
        BY <1>2, <1>3, <2>2, GotoEffect DEF ReadCompleted, InspectRow, Reclaim
  <2>3. CASE CompleteTrigger(w) \/ EvaluateFilter(w)
    <3>1. pos[w] + 1 \in 0 .. NumSteps
          BY <2>3, StepsAssumption DEF ControlInv, Local, LocalOK, CompleteTrigger,
             EvaluateFilter, Positions, StepLabels
    <3> QED BY <1>2, <1>3, <2>3, <3>1 DEF CompleteTrigger, EvaluateFilter
  <2> QED BY <1>5, <2>1, <2>2, <2>3 DEF Resume
<1>6. CASE RunStep(w)
  <2>1. pc[w] \in OwnerLabels
        BY <1>6 DEF RunStep, CheckStep, Release, Send, Refresh, Respond, RecordResult
  <2>2. UNCHANGED <<cur, pos>> \/ Return(w) \/ LoopAt(w, pos[w] + 1)
        BY <1>6 DEF RunStep, CheckStep, Release, Send, Refresh, Respond, RecordResult,
           Goto, GotoWith
  <2>3. pos[w] + 1 \in 0 .. NumSteps
        BY <2>1, StepsAssumption DEF ControlInv, Local, LocalOK, Positions, StepLabels
  <2> QED BY <1>2, <2>1, <2>2, <2>3
<1> QED BY <1>4, <1>5, <1>6 DEF Handler

(* So two handlers never own the same step. *)
LEMMA HandlerOneOwner ==
    ASSUME ControlInv, LedgerInv, NEW w \in Workers, Handler(w)
    PROVE  OneOwner'
<1> SUFFICES ASSUME NEW u \in Workers, NEW v \in Workers, NEW r \in Runs, NEW p \in Positions,
                    Owns(u, r, p)', Owns(v, r, p)', u # v
             PROVE  FALSE
    BY DEF OneOwner
<1>1. \A x \in Workers : x # w => (Owns(x, r, p)' => Owns(x, r, p))
      BY HandlerMove DEF Now, Others, Owns
<1>2. \A x \in Workers : Owns(x, r, p) => row[r][p] # "none"
      BY DEF LedgerInv, WorkInv, HandlerInv, OwnerInv, Owns
<1>3. Owns(w, r, p)' => Owns(w, r, p) \/ row[r][p] = "none"
      BY HandlerOwns
<1> QED BY <1>1, <1>2, <1>3 DEF LedgerInv, OneOwner

(* A row in a new status still tells what happened at its step. *)
LEMMA HandlerRow ==
    ASSUME ControlInv, LedgerInv, NEW w \in Workers, Handler(w),
           NEW r \in Runs, NEW p \in Positions
    PROVE  RowInv(r, p)'
<1>1. /\ TablesOK /\ WorkInv(w) /\ RowInv(r, p)
      /\ pc[w] # "idle" => cur[w] \in Runs
      /\ pc[w] \in StepLabels => pos[w] \in Positions
      /\ pc[w] = "record" => out[w] \in {"completed", "failed", "ambiguous", "processing"}
      BY DEF ControlInv, TypeOK, TablesOK, Local, LocalOK, LedgerInv
<1>2. Grows /\ OnlyOwner(w)
      BY HandlerGrows
<1>3. (Claimed(r) => Claimed(r)') /\ (Prior(r, p) => Prior(r, p)')
      BY <1>2 DEF Grows, Prior
<1>4. ASSUME UNCHANGED <<row, done, sent>> PROVE RowInv(r, p)'
      BY <1>1, <1>3, <1>4 DEF RowInv
<1>5. ASSUME UNCHANGED <<done, sent>>, NEW s \in RowStatus \ {"none", "completed"},
             SetRow(cur[w], pos[w], s), pc[w] \in StepLabels
      PROVE  RowInv(r, p)'
      BY <1>1, <1>2, <1>3, <1>5 DEF RowInv, SetRow, TablesOK, WorkInv, HandlerInv, Grows,
         StepLabels, OwnerLabels, Prior
<1>6. ASSUME Complete(cur[w], pos[w]), pc[w] \in OwnerLabels, UNCHANGED sent
      PROVE  RowInv(r, p)'
      BY <1>1, <1>2, <1>3, <1>6 DEF RowInv, Complete, SetRow, TablesOK, WorkInv, HandlerInv,
         OwnerInv, StepLabels, OwnerLabels, Prior
<1> USE DEF StepLabels, OwnerLabels, RowStatus
<1>7. CASE OnMessage(w)
      BY <1>4, <1>7 DEF OnMessage, ClaimRun, InsertRun, FetchRun, MarkConsumed, CheckZap,
         CheckCap, FinishRun
<1>8. CASE Resume(w)
  <2>1. CASE ReadCompleted(w) \/ InspectRow(w)
        BY <1>4, <2>1 DEF ReadCompleted, InspectRow
  <2>2. CASE ClaimStep(w)
        BY <1>4, <1>5, <2>2 DEF ClaimStep
  <2>3. CASE Reclaim(w)
        BY <1>5, <2>3 DEF Reclaim
  <2>4. CASE CompleteTrigger(w) \/ EvaluateFilter(w)
        BY <1>6, <2>4 DEF CompleteTrigger, EvaluateFilter
  <2> QED BY <1>8, <2>1, <2>2, <2>3, <2>4 DEF Resume
<1>9. CASE RunStep(w)
  <2>1. CASE CheckStep(w) \/ Release(w) \/ Refresh(w) \/ Respond(w)
        BY <1>4, <2>1 DEF CheckStep, Release, Refresh, Respond
  <2>2. CASE Send(w)
    <3>1. CASE UNCHANGED sent
          BY <1>4, <2>2, <3>1 DEF Send
    <3>2. CASE sent' = [sent EXCEPT ![cur[w]][pos[w]] = @ + 1]
      <4>1. sent[cur[w]][pos[w]] = 0 /\ row[cur[w]][pos[w]] # "none"
            BY <1>1, <2>2 DEF Send, WorkInv, HandlerInv, OwnerInv
      <4>2. sent'[r][p] \in {0, 1} /\ (row[r][p] = "none" => sent'[r][p] = 0)
            BY <1>1, <2>2, <3>2, <4>1 DEF Send, TablesOK, RowInv
      <4> QED BY <1>1, <1>3, <2>2, <4>2 DEF Send, RowInv
    <3> QED BY <2>2, <3>1, <3>2 DEF Send
  <2>3. CASE RecordResult(w)
    <3>1. CASE out[w] = "completed"
          BY <1>6, <2>3, <3>1 DEF RecordResult
    <3>2. CASE out[w] # "completed"
      <4>1. SetRow(cur[w], pos[w], out[w]) /\ UNCHANGED <<done, sent>>
            BY <2>3, <3>2 DEF RecordResult
      <4> QED BY <1>1, <1>5, <2>3, <3>2, <4>1 DEF RecordResult
    <3> QED BY <3>1, <3>2
  <2> QED BY <1>9, <2>1, <2>2, <2>3 DEF RunStep
<1> QED BY <1>7, <1>8, <1>9 DEF Handler

(* Completed runs stay whole and consumed runs stay claimed. *)
LEMMA HandlerRun ==
    ASSUME ControlInv, LedgerInv, NEW w \in Workers, Handler(w), NEW r \in Runs
    PROVE  RunInv(r)'
<1>1. /\ TablesOK /\ TablesOK' /\ WorkInv(w) /\ RunInv(r)
      /\ pc[w] # "idle" => cur[w] \in Runs
      BY HandlerTables DEF ControlInv, TypeOK, TablesOK, Local, LocalOK, LedgerInv
<1>2. Grows
      BY HandlerGrows
<1>3. (Claimed(r) => Claimed(r)') /\ (done[r] = Positions => done'[r] = Positions)
  <2>1. done'[r] \subseteq Positions /\ \A p \in Positions : p \in done[r] => p \in done'[r]
        BY <1>1, <1>2 DEF Grows, TablesOK
  <2> QED BY <1>2, <2>1 DEF Grows
<1>4. ASSUME UNCHANGED <<run, consumed>> PROVE RunInv(r)'
      BY <1>1, <1>3, <1>4 DEF RunInv, Claimed
<1>5. ASSUME UNCHANGED consumed, SetRun(cur[w], "in_progress"), cur[w] \in Runs
      PROVE  RunInv(r)'
      BY <1>1, <1>3, <1>5 DEF RunInv, SetRun, TablesOK
<1>6. CASE OnMessage(w)
  <2>1. CASE ClaimRun(w) \/ InsertRun(w)
        BY <1>1, <1>4, <1>5, <2>1 DEF ClaimRun, InsertRun
  <2>2. CASE FetchRun(w) \/ CheckZap(w) \/ CheckCap(w)
        BY <1>4, <2>2 DEF FetchRun, CheckZap, CheckCap
  <2>3. CASE MarkConsumed(w)
    <3>1. Claimed(cur[w])
          BY <1>1, <2>3 DEF MarkConsumed, WorkInv, HandlerInv
    <3> QED BY <1>1, <1>3, <2>3, <3>1 DEF MarkConsumed, RunInv, TablesOK, Claimed
  <2>4. CASE FinishRun(w)
    <3>1. out[w] = "completed" => done[cur[w]] = Positions
          BY <1>1, <2>4 DEF FinishRun, WorkInv, HandlerInv
    <3> QED BY <1>1, <1>3, <2>4, <3>1 DEF FinishRun, SetRun, RunInv, TablesOK
  <2> QED BY <1>6, <2>1, <2>2, <2>3, <2>4 DEF OnMessage
<1>7. CASE Resume(w)
      BY <1>4, <1>7 DEF Resume, ReadCompleted, ClaimStep, InspectRow, Reclaim,
         CompleteTrigger, EvaluateFilter
<1>8. CASE RunStep(w)
      BY <1>4, <1>8 DEF RunStep, CheckStep, Release, Send, Refresh, Respond, RecordResult
<1> QED BY <1>6, <1>7, <1>8 DEF Handler

LEMMA LedgerStep == ControlInv /\ LedgerInv /\ [Next]_vars => LedgerInv'
<1> SUFFICES ASSUME ControlInv, LedgerInv, [Next]_vars PROVE LedgerInv'
    OBVIOUS
<1>1. ASSUME NEW w \in Workers, Handler(w) PROVE LedgerInv'
  <2>1. Grows /\ OnlyOwner(w) /\ picked' = picked /\ Others(w) /\ TablesOK'
        BY <1>1, HandlerGrows, HandlerMove, HandlerTables DEF Now
  <2>2. ASSUME NEW v \in Workers PROVE WorkInv(v)'
    <3>1. CASE v = w
          BY <1>1, <3>1, HandlerWork
    <3>2. CASE v # w
      <4>1. \A r \in Runs, p \in Positions : Owns(v, r, p) => ~Owns(w, r, p)
            BY <3>2 DEF LedgerInv, OneOwner
      <4> QED BY <2>1, <3>2, <4>1, Bystander DEF OnlyOwner, Others, TablesOK, LedgerInv
    <3> QED BY <3>1, <3>2
  <2>3. ASSUME NEW v \in Workers PROVE PickInv(v)'
        BY <2>1 DEF LedgerInv, PickInv, Grows
  <2> QED BY <1>1, <2>2, <2>3, HandlerRow, HandlerRun, HandlerOneOwner DEF LedgerInv
<1>2. ASSUME NEW w \in Workers, pc' = [pc EXCEPT ![w] = "idle"] \/ pc' = [pc EXCEPT ![w] = "claimRun"],
             \A v \in Workers \ {w} : cur'[v] = cur[v] /\ pos'[v] = pos[v] /\ out'[v] = out[v],
             UNCHANGED <<tables, history>>
      PROVE  (\A v \in Workers : WorkInv(v)') /\ OneOwner'
  <2>1. pc'[w] \in {"idle", "claimRun"} /\ \A v \in Workers \ {w} : pc'[v] = pc[v]
        BY <1>2 DEF ControlInv, TypeOK
  <2>2. WorkInv(w)'
        BY <2>1 DEF WorkInv, HandlerInv, StepLabels, OwnerLabels
  <2>3. \A v \in Workers \ {w} : WorkInv(v)'
        BY <1>2, <2>1 DEF LedgerInv, WorkInv, HandlerInv, OwnerInv, Claimed, Prior
  <2>4. \A v \in Workers, r \in Runs, p \in Positions : Owns(v, r, p)' => Owns(v, r, p)
        BY <1>2, <2>1 DEF Owns, OwnerLabels
  <2> QED BY <2>2, <2>3, <2>4 DEF LedgerInv, OneOwner
<1>3. ASSUME UNCHANGED <<run, row, consumed, done, sent>>
      PROVE  /\ \A r \in Runs, p \in Positions : RowInv(r, p)'
             /\ \A r \in Runs : RunInv(r)'
      BY <1>3 DEF LedgerInv, RowInv, RunInv, Claimed, Prior
<1>4. ASSUME UNCHANGED <<run, row, done, sent, process>>
      PROVE  (\A v \in Workers : WorkInv(v)') /\ OneOwner'
      BY <1>4 DEF LedgerInv, WorkInv, HandlerInv, OwnerInv, Claimed, Prior, OneOwner, Owns
<1>5. ASSUME UNCHANGED row, \A w \in Workers : picked'[w] \subseteq picked[w] \/ picked'[w] = StuckRows
      PROVE  \A w \in Workers : PickInv(w)'
      BY <1>5 DEF LedgerInv, PickInv, StuckRows
<1>6. ASSUME NEW w \in Workers, NEW r \in Runs, Deliver(w, r) PROVE LedgerInv'
      BY <1>2, <1>3, <1>5, <1>6 DEF Deliver, LedgerInv, ControlInv, TypeOK
<1>7. ASSUME NEW r \in Runs, NEW p \in Positions, Expire(r, p) PROVE LedgerInv'
      BY <1>3, <1>4, <1>5, <1>7 DEF Expire, LedgerInv
<1>8. ASSUME NEW w \in Workers, JobSelect(w) PROVE LedgerInv'
      BY <1>3, <1>4, <1>5, <1>8 DEF JobSelect, LedgerInv, ControlInv, TypeOK
<1>9. ASSUME NEW w \in Workers, JobUpdate(w) PROVE LedgerInv'
  <2>1. \A r \in Runs, p \in Positions :
            /\ <<r, p>> \in picked[w] => row[r][p] # "none" /\ row'[r][p] = "failed"
            /\ <<r, p>> \notin picked[w] => row'[r][p] = row[r][p]
        BY <1>9 DEF JobUpdate, LedgerInv, PickInv
  <2>2. /\ UNCHANGED <<run, consumed, done, sent, process>>
        /\ \A v \in Workers : picked'[v] \subseteq picked[v]
        BY <1>9 DEF JobUpdate, ControlInv, TypeOK
  <2>3. ASSUME NEW r \in Runs, NEW p \in Positions PROVE RowInv(r, p)'
    <3>1. RowInv(r, p) /\ (Claimed(r) => Claimed(r)') /\ (Prior(r, p) => Prior(r, p)')
          BY <2>2 DEF LedgerInv, Claimed, Prior
    <3> QED BY <2>1, <2>2, <3>1 DEF RowInv
  <2>4. \A r \in Runs : RunInv(r)'
        BY <2>2 DEF LedgerInv, RunInv, Claimed
  <2>5. \A v \in Workers : PickInv(v)'
        BY <2>1, <2>2 DEF LedgerInv, PickInv
  <2>6. \A v \in Workers : WorkInv(v)'
    <3>1. Grows
          BY <2>1, <2>2 DEF Grows, Claimed
    <3> QED BY <2>2, <3>1, Bystander DEF LedgerInv, ControlInv, TypeOK
  <2>7. OneOwner'
        BY <2>2 DEF LedgerInv, OneOwner, Owns
  <2> QED BY <2>3, <2>4, <2>5, <2>6, <2>7 DEF LedgerInv
<1>10. ASSUME NEW w \in Workers, Return(w), UNCHANGED <<tables, history>>,
              picked' = picked \/ picked' = [picked EXCEPT ![w] = {}]
       PROVE  LedgerInv'
      BY <1>2, <1>3, <1>5, <1>10 DEF Return, LedgerInv, ControlInv, TypeOK
<1>11. ASSUME NEW w \in Workers, Throw(w) PROVE LedgerInv'
  <2>1. CASE Return(w) /\ UNCHANGED picked
        BY <1>10, <1>11, <2>1 DEF Throw
  <2>2. CASE picked' = [picked EXCEPT ![w] = {}] /\ UNCHANGED process
        BY <1>3, <1>4, <1>5, <1>11, <2>2 DEF Throw, LedgerInv, ControlInv, TypeOK
  <2> QED BY <1>11, <2>1, <2>2 DEF Throw
<1>12. ASSUME NEW w \in Workers, Crash(w) PROVE LedgerInv'
      BY <1>10, <1>12 DEF Crash
<1>13. CASE UNCHANGED vars
      BY <1>3, <1>4, <1>5, <1>13 DEF vars, LedgerInv
<1> QED BY <1>1, <1>6, <1>7, <1>8, <1>9, <1>11, <1>12, <1>13 DEF Next

LEMMA Inductive == Spec => [](ControlInv /\ LedgerInv)
BY ControlInit, ControlStep, LedgerInit, LedgerStep, PTL DEF Spec

-----------------------------------------------------------------------------
(* The safety properties *)

(* No API accepts two calls for one step of one run, whatever is delivered  *)
(* twice, loses its lease or crashes.                                       *)
THEOREM AtMostOnce == Spec => []SentAtMostOnce
<1>1. LedgerInv => SentAtMostOnce
      BY DEF LedgerInv, RowInv, SentAtMostOnce
<1> QED BY Inductive, <1>1, PTL

(* A step never has two owners at a time. *)
THEOREM ExclusiveOwner == Spec => []OneOwner
<1>1. LedgerInv => OneOwner
      BY DEF LedgerInv
<1> QED BY Inductive, <1>1, PTL

(* Steps are claimed in the order of their positions. *)
THEOREM InOrder == Spec => []ClaimedInOrder
<1>1. LedgerInv => ClaimedInOrder
      BY DEF LedgerInv, RowInv, Prior, ClaimedInOrder
<1> QED BY Inductive, <1>1, PTL

(* A run shown as completed did complete every step. *)
THEOREM CompletedIsWhole == Spec => []CompletedRunIsWhole
<1>1. LedgerInv => CompletedRunIsWhole
      BY DEF LedgerInv, RunInv, CompletedRunIsWhole
<1> QED BY Inductive, <1>1, PTL

(* The outbox row is consumed, and steps have rows, only once the run is    *)
(* claimed.                                                                 *)
THEOREM ConsumedIsClaimed == Spec => []ConsumedRunIsClaimed
<1>1. LedgerInv => ConsumedRunIsClaimed
      BY DEF LedgerInv, RunInv, RowInv, Claimed, ConsumedRunIsClaimed
<1> QED BY Inductive, <1>1, PTL

(* No step takes a run back: terminal runs stay terminal, claimed runs are  *)
(* not queued again.                                                        *)
THEOREM NeverReopened == Spec => RunNeverReopened
<1> DEFINE Kept == \A r \in Runs :
                      /\ run[r] \in Terminal => run'[r] \in Terminal
                      /\ run[r] = "in_progress" => run'[r] \notin {"absent", "queued"}
<1>1. ControlInv /\ [Next]_vars => [Kept]_vars
  <2> SUFFICES ASSUME ControlInv, [Next]_vars PROVE UNCHANGED run \/ Kept
      BY DEF vars
  <2>1. CASE \E w \in Workers : ClaimRun(w) \/ InsertRun(w)
    <3>1. PICK w \in Workers : ClaimRun(w) \/ InsertRun(w)
          BY <2>1
    <3>2. CASE run[cur[w]] \in {"queued", "absent"} /\ SetRun(cur[w], "in_progress")
          BY <3>2 DEF ControlInv, TypeOK, SetRun, Terminal
    <3> QED BY <3>1, <3>2 DEF ClaimRun, InsertRun
  <2>2. CASE \E w \in Workers : FinishRun(w)
    <3>1. PICK w \in Workers : FinishRun(w)
          BY <2>2
    <3>2. out[w] \in Terminal
          BY <3>1 DEF ControlInv, Local, LocalOK, FinishRun
    <3> QED BY <3>1, <3>2 DEF FinishRun, SetRun, ControlInv, TypeOK, Terminal
  <2>3. CASE UNCHANGED run
        BY <2>3
  <2> QED
    BY <2>1, <2>2, <2>3 DEF Next, Handler, OnMessage, Resume, RunStep, Deliver, FetchRun,
       MarkConsumed, CheckZap, CheckCap, ReadCompleted, ClaimStep, InspectRow, Reclaim,
       CompleteTrigger, EvaluateFilter, CheckStep, Release, Send, Refresh, Respond,
       RecordResult, Expire, JobSelect, JobUpdate, Throw, Crash, vars
<1> QED BY Inductive, <1>1, PTL DEF Spec, RunNeverReopened

-----------------------------------------------------------------------------
(* Refinement *)

LEMMA LedgerCall ==
    ASSUME ControlInv, LedgerInv, NEW w \in Workers, Send(w), sent' # sent
    PROVE  Ledger!Next
<1> DEFINE r == cur[w]  p == pos[w]
<1>1. r \in Runs /\ p \in Positions /\ StepType[p] = "action" /\ TablesOK
      BY DEF ControlInv, TypeOK, TablesOK, Local, LocalOK, Send, StepLabels, OwnerLabels
<1>2. sent[r][p] = 0 /\ p \notin done[r] /\ Prior(r, p)
      BY DEF LedgerInv, WorkInv, HandlerInv, OwnerInv, Send, StepLabels, OwnerLabels
<1>3. sent' = [sent EXCEPT ![r][p] = @ + 1] /\ done' = done
      BY DEF Send
<1>4. sent' = [sent EXCEPT ![r][p] = 1]
      BY <1>1, <1>2, <1>3 DEF TablesOK
<1> QED BY <1>1, <1>2, <1>3, <1>4
        DEF Ledger!Next, Ledger!Call, Ledger!Turn, Ledger!Positions, Positions, Prior

LEMMA LedgerFinish ==
    ASSUME ControlInv, LedgerInv, NEW w \in Workers, Complete(cur[w], pos[w]),
           pc[w] \in {"complete", "evaluate"} \/ (pc[w] = "record" /\ out[w] = "completed"),
           UNCHANGED sent
    PROVE  Ledger!Next
<1> DEFINE r == cur[w]  p == pos[w]
<1>1. /\ r \in Runs /\ p \in Positions
      /\ pc[w] = "complete" => StepType[p] = "trigger"
      /\ pc[w] = "evaluate" => StepType[p] = "filter"
      BY DEF ControlInv, Local, LocalOK, StepLabels, OwnerLabels
<1>2. p \notin done[r] /\ Prior(r, p) /\ (StepType[p] = "action" => sent[r][p] = 1)
      BY <1>1 DEF LedgerInv, WorkInv, HandlerInv, OwnerInv, StepLabels, OwnerLabels
<1> QED BY <1>1, <1>2
        DEF Complete, Ledger!Next, Ledger!Finish, Ledger!Turn, Ledger!Positions, Positions, Prior

(* Every behaviour of the workers, with its redeliveries, leases, cron jobs *)
(* and crashes, is one of the step ledger.                                  *)
THEOREM Refinement == Spec => ImplementsLedger
<1>1. Init => Ledger!Init
      BY DEF Init, Ledger!Init, Ledger!Positions, Positions
<1>2. ControlInv /\ LedgerInv /\ [Next]_vars => [Ledger!Next]_Ledger!vars
  <2> SUFFICES ASSUME ControlInv, LedgerInv, [Next]_vars, ~UNCHANGED <<done, sent>>
               PROVE  Ledger!Next
      BY DEF Ledger!vars
  <2>1. PICK w \in Workers : Handler(w)
        BY DEF Next, vars, Deliver, Expire, JobSelect, JobUpdate, Throw, Crash
  <2>2. CASE OnMessage(w)
        BY <2>2 DEF OnMessage, ClaimRun, InsertRun, FetchRun, MarkConsumed, CheckZap, CheckCap,
           FinishRun
  <2>3. CASE Resume(w)
    <3>1. CompleteTrigger(w) \/ EvaluateFilter(w)
          BY <2>3 DEF Resume, ReadCompleted, ClaimStep, InspectRow, Reclaim
    <3> QED BY <3>1, LedgerFinish DEF CompleteTrigger, EvaluateFilter
  <2>4. CASE RunStep(w)
    <3>1. CASE Send(w)
          BY <3>1, LedgerCall DEF Send
    <3>2. CASE RecordResult(w)
          BY <3>2, LedgerFinish DEF RecordResult
    <3> QED BY <2>4, <3>1, <3>2 DEF RunStep, CheckStep, Release, Refresh, Respond
  <2> QED BY <2>1, <2>2, <2>3, <2>4 DEF Handler
<1> QED BY Inductive, <1>1, <1>2, PTL DEF Spec, ImplementsLedger, Ledger!Spec

-----------------------------------------------------------------------------
(* The lifecycle of the event *)

(* How far the run of an event is, for hooks-api and the outbox.           *)
StageOf(r) ==
    IF run[r] \in {"absent", "queued"} THEN "queued"
    ELSE IF run[r] = "in_progress" THEN run[r]
    ELSE "terminal"

(* A handler writes a status to its run.                                   *)
LEMMA StageWritten ==
    ASSUME ControlInv, NEW r \in Runs, NEW status, SetRun(r, status)
    PROVE  /\ run'[r] = status
           /\ [k \in Runs |-> StageOf(k)'] =
                  [[k \in Runs |-> StageOf(k)] EXCEPT ![r] = StageOf(r)']
<1> DEFINE old == [k \in Runs |-> StageOf(k)]
           new == [k \in Runs |-> StageOf(k)']
<1>1. \A k \in Runs \ {r} : run'[k] = run[k]
      BY DEF SetRun, ControlInv, TypeOK
<1>2. \A k \in Runs \ {r} : new[k] = old[k]
      BY <1>1 DEF StageOf
<1>3. new[r] = StageOf(r)'
      OBVIOUS
<1>4. old = [k \in Runs |-> old[k]] /\ new = [k \in Runs |-> new[k]]
      OBVIOUS
<1> HIDE DEF old, new
<1>5. new = [old EXCEPT ![r] = StageOf(r)']
      BY <1>2, <1>3, <1>4
<1>6. run'[r] = status
      BY DEF SetRun, ControlInv, TypeOK
<1> QED BY <1>5, <1>6 DEF old, new

(* Whoever is first takes the run out of the queue, and takes its only     *)
(* snapshot.                                                               *)
LEMMA LifecycleClaim ==
    ASSUME ControlInv, NEW w \in Workers, ClaimRun(w) \/ InsertRun(w), run' # run
    PROVE  Lifecycle!Next
<1>1. PICK r \in Runs : r = cur[w]
      BY DEF ControlInv, Local, LocalOK, ClaimRun, InsertRun
<1>2. /\ run[r] \in {"absent", "queued"} /\ SetRun(r, "in_progress")
      /\ UNCHANGED consumed
      BY <1>1 DEF ClaimRun, InsertRun
<1>3. StageOf(r) = "queued" /\ StageOf(r)' = "in_progress"
  <2>1. run'[r] = "in_progress"
        BY <1>1, <1>2, StageWritten
  <2>2. StageOf(r)' = "in_progress"
        BY <2>1 DEF StageOf
  <2>3. StageOf(r) = "queued"
        BY <1>2 DEF StageOf
  <2> QED BY <2>2, <2>3
<1>4. [k \in Runs |-> StageOf(k)'] =
          [[k \in Runs |-> StageOf(k)] EXCEPT ![r] = "in_progress"]
  <2>1. [k \in Runs |-> StageOf(k)'] =
            [[k \in Runs |-> StageOf(k)] EXCEPT ![r] = StageOf(r)']
        BY <1>1, <1>2, StageWritten
  <2> QED BY <1>3, <2>1
<1> QED BY <1>1, <1>2, <1>3, <1>4
        DEF Lifecycle!Next, Lifecycle!Claim, Lifecycle!Advance, StageOf

(* The last write of a handler ends its run, or finds it ended.            *)
LEMMA LifecycleFinish ==
    ASSUME ControlInv, LedgerInv, NEW w \in Workers, FinishRun(w)
    PROVE  Lifecycle!Next \/ UNCHANGED Lifecycle!vars
<1>0. PICK r \in Runs : r = cur[w]
      BY DEF ControlInv, Local, LocalOK, FinishRun
<1>1. r \in Runs /\ out[w] \in Terminal
      BY DEF ControlInv, Local, LocalOK, FinishRun
<1>2. SetRun(r, out[w]) /\ UNCHANGED consumed
      BY <1>0 DEF FinishRun
<1>3. run[r] \notin {"absent", "queued"}
      BY <1>0 DEF LedgerInv, WorkInv, HandlerInv, Claimed, FinishRun
<1>4. StageOf(r)' = "terminal"
  <2>1. run'[r] = out[w]
        BY <1>1, <1>2, StageWritten
  <2> QED BY <1>1, <2>1 DEF StageOf, Terminal
<1>5. [k \in Runs |-> StageOf(k)'] =
          [[k \in Runs |-> StageOf(k)] EXCEPT ![r] = "terminal"]
  <2>1. [k \in Runs |-> StageOf(k)'] =
            [[k \in Runs |-> StageOf(k)] EXCEPT ![r] = StageOf(r)']
        BY <1>1, <1>2, StageWritten
  <2> QED BY <1>4, <2>1
<1>6. CASE run[r] = "in_progress"
  <2>1. StageOf(r) = "in_progress"
        BY <1>6 DEF StageOf
  <2> QED BY <1>1, <1>2, <1>5, <2>1
          DEF Lifecycle!Next, Lifecycle!Finish, Lifecycle!Advance, StageOf
<1>7. CASE run[r] # "in_progress"
  <2>1. StageOf(r) = "terminal"
        BY <1>3, <1>7 DEF StageOf
  <2>2. [k \in Runs |-> StageOf(k)'] = [k \in Runs |-> StageOf(k)]
        BY <1>1, <1>5, <2>1
  <2> QED BY <1>2, <2>2 DEF Lifecycle!vars, StageOf
<1> QED BY <1>6, <1>7

(* The row is ticked off by a handler whose run is claimed.                *)
LEMMA LifecycleTick ==
    ASSUME ControlInv, LedgerInv, NEW w \in Workers, MarkConsumed(w)
    PROVE  Lifecycle!Next
<1>0. PICK r \in Runs : r = cur[w]
      BY DEF ControlInv, Local, LocalOK, MarkConsumed
<1> DEFINE old == [k \in Runs |-> ~consumed[k]]
           new == [k \in Runs |-> ~consumed'[k]]
<1>1. r \in Runs /\ run[r] \notin {"absent", "queued"} /\ UNCHANGED run
      BY <1>0 DEF ControlInv, Local, LocalOK, LedgerInv, WorkInv, HandlerInv, Claimed,
             MarkConsumed
<1>2. consumed'[r] = TRUE /\ \A k \in Runs \ {r} : consumed'[k] = consumed[k]
      BY <1>0, <1>1 DEF MarkConsumed, ControlInv, TypeOK
<1>3. StageOf(r) \in {"in_progress", "terminal"}
      BY <1>1 DEF StageOf
<1>4. \A k \in Runs \ {r} : new[k] = old[k]
      BY <1>2
<1>5. new[r] = FALSE
      BY <1>1, <1>2
<1>6. old = [k \in Runs |-> old[k]] /\ new = [k \in Runs |-> new[k]]
      OBVIOUS
<1> HIDE DEF old, new
<1>7. new = [old EXCEPT ![r] = FALSE]
      BY <1>1, <1>4, <1>5, <1>6
<1> QED BY <1>1, <1>3, <1>7
        DEF Lifecycle!Next, Lifecycle!Tick, StageOf, old, new

LEMMA LifecycleStep ==
    ASSUME ControlInv, LedgerInv, [Next]_vars
    PROVE  [Lifecycle!Next]_(Lifecycle!vars)
<1>1. CASE UNCHANGED <<run, consumed>>
      BY <1>1 DEF Lifecycle!vars
<1>2. CASE \E w \in Workers : ClaimRun(w) \/ InsertRun(w)
  <2>1. CASE run' = run
        BY <1>1, <1>2, <2>1 DEF ClaimRun, InsertRun
  <2> QED BY <1>2, <2>1, LifecycleClaim
<1>3. CASE \E w \in Workers : FinishRun(w)
      BY <1>3, LifecycleFinish
<1>4. CASE \E w \in Workers : MarkConsumed(w)
      BY <1>4, LifecycleTick
<1> QED
    BY <1>1, <1>2, <1>3, <1>4
    DEF Next, Handler, OnMessage, Resume, RunStep, Deliver, FetchRun, CheckZap,
        CheckCap, ReadCompleted, ClaimStep, InspectRow, Reclaim, CompleteTrigger,
        EvaluateFilter, CheckStep, Release, Send, Refresh, Respond, RecordResult,
        Expire, JobSelect, JobUpdate, Throw, Crash, vars

(* What the outbox relies on holds of any number of workers, redeliveries  *)
(* and crashes: a run is claimed once, its row is ticked off only then,    *)
(* and what is over stays over.                                            *)
THEOREM LifecycleRefinement == Spec => ImplementsLifecycle
<1>1. Init => Lifecycle!Init
      BY DEF Init, Lifecycle!Init
<1> QED BY Inductive, <1>1, LifecycleStep, PTL
        DEF Spec, ImplementsLifecycle, Lifecycle!Spec
=============================================================================
