--------------------------- MODULE EventLifecycle ---------------------------
(***************************************************************************)
(* What hooks-api, the relay, the jobs and the workers together promise    *)
(* about a webhook event: its run and its outbox row are stored at once,   *)
(* the row can be relied on until a worker has claimed the run, a run is   *)
(* claimed once, and what is over stays over.  WebhookIngest, OutboxRelay  *)
(* and RunExecution each implement this specification in the part of the   *)
(* life of an event that is theirs.                                        *)
(***************************************************************************)
CONSTANT Events

VARIABLES
    stage,      \* of the run: "none", "queued", "in_progress", "terminal"
    kept,       \* the outbox row is there and not ticked off
    offered     \* the topic holds a message of the event

vars == <<stage, kept, offered>>

(* Nothing is stored yet, or the event waits for the relay or a worker.    *)
Init ==
    /\ stage \in [Events -> {"none", "queued"}]
    /\ kept = [e \in Events |-> stage[e] = "queued"]
    /\ offered \in [Events -> BOOLEAN]
    /\ \A e \in Events : offered[e] => stage[e] = "queued"

Advance(e, from, to) ==
    /\ stage[e] = from
    /\ stage' = [stage EXCEPT ![e] = to]

(* One transaction: the run is queued and the row is there.                *)
Store(e) ==
    /\ Advance(e, "none", "queued")
    /\ kept' = [kept EXCEPT ![e] = TRUE]
    /\ UNCHANGED offered

Offer(e) ==
    /\ stage[e] # "none"
    /\ offered' = [offered EXCEPT ![e] = TRUE]
    /\ UNCHANGED <<stage, kept>>

(* A worker claims the run of a message.                                   *)
Claim(e) ==
    /\ offered[e]
    /\ Advance(e, "queued", "in_progress")
    /\ UNCHANGED <<kept, offered>>

(* The row is ticked off once the run is claimed, and a relay whose send   *)
(* has failed may bring it back.                                           *)
Tick(e, keep) ==
    /\ stage[e] \in {"in_progress", "terminal"}
    /\ kept' = [kept EXCEPT ![e] = keep]
    /\ UNCHANGED <<stage, offered>>

Finish(e) ==
    /\ Advance(e, "in_progress", "terminal")
    /\ UNCHANGED <<kept, offered>>

Next ==
    \E e \in Events :
        \/ Store(e) \/ Offer(e) \/ Claim(e) \/ Finish(e)
        \/ \E keep \in BOOLEAN : Tick(e, keep)

Spec == Init /\ [][Next]_vars
=============================================================================
