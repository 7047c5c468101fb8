----------------------------- MODULE StepLedger -----------------------------
(***************************************************************************)
(* What the execution engine of the worker promises about one zap run,     *)
(* with the database, the workers, the redeliveries and the leases         *)
(* abstracted away: the steps of a run finish in the order of their        *)
(* positions, an action is called before it can finish, and no action is   *)
(* ever called a second time.  RunExecution implements this specification. *)
(***************************************************************************)
EXTENDS Integers

CONSTANTS
    Runs,       \* the zap runs
    NumSteps,   \* the number of steps in the snapshot of a run
    StepType    \* the type of the step at each position

Positions == 0 .. NumSteps - 1

VARIABLES
    done,       \* done[r]: the positions of r that have finished
    sent        \* sent[r][p]: how often the action at p was accepted by its API

vars == <<done, sent>>

Init ==
    /\ done = [r \in Runs |-> {}]
    /\ sent = [r \in Runs |-> [p \in Positions |-> 0]]

(* Every position before p has finished, and p has not. *)
Turn(r, p) ==
    /\ p \notin done[r]
    /\ \A q \in Positions : q < p => q \in done[r]

(* The remote API accepts the call of the action at p, for the only time. *)
Call(r, p) ==
    /\ Turn(r, p)
    /\ StepType[p] = "action"
    /\ sent[r][p] = 0
    /\ sent' = [sent EXCEPT ![r][p] = 1]
    /\ UNCHANGED done

(* The step at p finishes; an action only after its call. *)
Finish(r, p) ==
    /\ Turn(r, p)
    /\ StepType[p] = "action" => sent[r][p] = 1
    /\ done' = [done EXCEPT ![r] = @ \cup {p}]
    /\ UNCHANGED sent

Next == \E r \in Runs, p \in Positions : Call(r, p) \/ Finish(r, p)

Spec == Init /\ [][Next]_vars
=============================================================================
