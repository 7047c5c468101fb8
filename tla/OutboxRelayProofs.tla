------------------------- MODULE OutboxRelayProofs -------------------------
(***************************************************************************)
(* Proofs about OutboxRelay, for any number of relays and events, every    *)
(* size of a batch, every max_attempts and every set of faults.            *)
(***************************************************************************)
EXTENDS OutboxRelay, TLAPS

(* The batch of a sweep holds pending rows only. *)
LEMMA OldestAreRows == \A rows : OldestOf(rows) \subseteq rows
BY DEF OldestOf

LEMMA SaturateType == \A n \in Nat : Saturate(n) \in 0 .. AttemptCap
BY OutboxAssumption DEF Saturate, AttemptCap

HoldLabels == {"none", "locked", "produce", "connect", "send", "error"}

(* What a step of produceRow does to the table of rows in hand. *)
LEMMA HoldEffect ==
    ASSUME TypeOK, NEW p \in Pollers, NEW e \in Events,
           NEW label \in HoldLabels, Hold(p, e, label)
    PROVE  /\ hold' \in [Pollers -> [Events -> HoldLabels]]
           /\ \A q \in Pollers, f \in Events :
                 hold'[q][f] = IF q = p /\ f = e THEN label ELSE hold[q][f]
BY DEF TypeOK, Hold, HoldLabels

(* What a step that settles all rows of p at once does to it. *)
LEMMA LetGoEffect ==
    ASSUME TypeOK, NEW p \in Pollers,
           hold' = [hold EXCEPT ![p] = [e \in Events |-> "none"]]
    PROVE  /\ hold' \in [Pollers -> [Events -> HoldLabels]]
           /\ \A q \in Pollers, f \in Events :
                 hold'[q][f] = IF q = p THEN "none" ELSE hold[q][f]
BY DEF TypeOK, HoldLabels

(* Only Select takes a row into hand, and only Dispatch unlocks one to     *)
(* work on it.                                                             *)
TakesNoRow ==
    /\ hold' \in [Pollers -> [Events -> HoldLabels]]
    /\ \A q \in Pollers, f \in Events :
          \/ hold'[q][f] \in {hold[q][f], "none"}
          \/ hold[q][f] \notin {"none", "locked"} /\ hold'[q][f] # "locked"

LEMMA HoldTakesNoRow ==
    ASSUME TypeOK, NEW p \in Pollers, NEW e \in Events,
           NEW label \in HoldLabels \ {"locked"}, Hold(p, e, label),
           hold[p][e] \notin {"none", "locked"}
    PROVE  TakesNoRow
BY HoldEffect DEF TakesNoRow

LEMMA ProduceTakesNoRow ==
    ASSUME TypeOK, NEW p \in Pollers, NEW e \in Events, ProduceRow(p, e)
    PROVE  TakesNoRow
<1>1. \E label \in HoldLabels \ {"locked"} : Hold(p, e, label)
      BY DEF ProduceRow, GetProducer, Connect, Send, Revert, HoldLabels
<1>2. hold[p][e] \notin {"none", "locked"}
      BY DEF ProduceRow, GetProducer, Connect, Send, Revert
<1> QED BY <1>1, <1>2, HoldTakesNoRow

LEMMA FailureTakesNoRow ==
    ASSUME TypeOK, NEW p \in Pollers, Throw(p) \/ Crash(p)
    PROVE  TakesNoRow
<1>1. CASE hold' = [hold EXCEPT ![p] = [e \in Events |-> "none"]]
      BY <1>1, LetGoEffect DEF TakesNoRow
<1>2. CASE \E e \in Events : hold[p][e] = "error" /\ Hold(p, e, "none")
      BY <1>2, HoldTakesNoRow DEF HoldLabels
<1> QED BY <1>1, <1>2 DEF Throw, Crash

LEMMA TypeInit == Init => TypeOK
BY OutboxAssumption DEF Init, TypeOK, RowStatus, AttemptCap

LEMMA TypeStep == TypeOK /\ [Next]_vars => TypeOK'
<1> SUFFICES ASSUME TypeOK, [Next]_vars PROVE TypeOK'
    OBVIOUS
<1>1. ASSUME NEW e \in Events, Ingest(e) PROVE TypeOK'
      BY <1>1 DEF Ingest, TypeOK, RowStatus, relay
<1>2. ASSUME NEW p \in Pollers, Select(p) PROVE TypeOK'
      <2> PICK batch : SelectRows(p, batch) BY <1>2 DEF Select
      <2> QED BY OutboxAssumption DEF SelectRows, AttemptCap, TypeOK, RowStatus
<1>3. ASSUME NEW p \in Pollers, Dispatch(p) PROVE TypeOK'
      <2>1. \A e \in Events : Saturate(attempts[e] + 1) \in 0 .. AttemptCap
            BY SaturateType, OutboxAssumption DEF AttemptCap, TypeOK
      <2> QED BY <1>3, <2>1 DEF Dispatch, TypeOK, RowStatus
<1>4. ASSUME NEW p \in Pollers, NEW e \in Events, GetProducer(p, e) PROVE TypeOK'
      <2>1. TakesNoRow BY <1>4, ProduceTakesNoRow DEF ProduceRow
      <2> QED BY <1>4, <2>1
              DEF GetProducer, TakesNoRow, HoldLabels, TypeOK, RowStatus
<1>5. ASSUME NEW p \in Pollers, NEW e \in Events, Connect(p, e) PROVE TypeOK'
      <2>1. TakesNoRow BY <1>5, ProduceTakesNoRow DEF ProduceRow
      <2> QED BY <1>5, <2>1 DEF Connect, TakesNoRow, HoldLabels, TypeOK, RowStatus
<1>6. ASSUME NEW p \in Pollers, NEW e \in Events, Send(p, e) PROVE TypeOK'
      <2>1. TakesNoRow BY <1>6, ProduceTakesNoRow DEF ProduceRow
      <2> QED BY <1>6, <2>1 DEF Send, TakesNoRow, HoldLabels, TypeOK, RowStatus
<1>7. ASSUME NEW p \in Pollers, NEW e \in Events, Revert(p, e) PROVE TypeOK'
      <2>1. TakesNoRow BY <1>7, ProduceTakesNoRow DEF ProduceRow
      <2>2. Saturate(snap[p][e] + 1) \in 0 .. AttemptCap
            BY SaturateType, OutboxAssumption DEF AttemptCap, TypeOK
      <2>3. /\ status' \in [Events -> RowStatus]
            /\ attempts' \in [Events -> 0 .. AttemptCap]
            BY <1>7, <2>2 DEF Revert, TypeOK, RowStatus
      <2> QED BY <1>7, <2>1, <2>3 DEF Revert, TakesNoRow, HoldLabels, TypeOK
<1>8. ASSUME NEW p \in Pollers, Throw(p) PROVE TypeOK'
      <2>1. TakesNoRow BY <1>8, FailureTakesNoRow
      <2> QED BY <1>8, <2>1 DEF Throw, TakesNoRow, HoldLabels, TypeOK, RowStatus
<1>9. ASSUME NEW p \in Pollers, Crash(p) PROVE TypeOK'
      <2>1. TakesNoRow BY <1>9, FailureTakesNoRow
      <2> QED BY <1>9, <2>1, OutboxAssumption
              DEF Crash, TakesNoRow, HoldLabels, AttemptCap, TypeOK, RowStatus
<1>10. ASSUME NEW e \in Events, Age(e) PROVE TypeOK'
       BY <1>10 DEF Age, TypeOK, RowStatus, relay
<1>11. ASSUME NEW rows, NEW new \in RowStatus, Sweep(rows, new) PROVE TypeOK'
       BY <1>11 DEF Sweep, TypeOK, RowStatus, relay
<1>12. ASSUME NEW e \in Events, Receive(e) PROVE TypeOK'
       BY <1>12 DEF Receive, TypeOK, RowStatus, relay
<1>13. ASSUME NEW e \in Events, MarkConsumed(e) PROVE TypeOK'
       BY <1>13 DEF MarkConsumed, TypeOK, RowStatus, relay
<1>14. ASSUME NEW e \in Events, FinishRun(e) PROVE TypeOK'
       BY <1>14 DEF FinishRun, TypeOK, RowStatus, relay
<1>15. ASSUME NEW e \in Events, LoseHandler(e) PROVE TypeOK'
       BY <1>15 DEF LoseHandler, TypeOK, RowStatus, relay
<1>16. CASE UNCHANGED vars
       BY <1>16 DEF vars, TypeOK, RowStatus, relay
<1>17. CASE Recover \/ Cleanup
       BY <1>11, <1>17 DEF Recover, Cleanup, RowStatus
<1> QED BY <1>1, <1>2, <1>3, <1>4, <1>5, <1>6, <1>7, <1>8, <1>9, <1>10, <1>12,
           <1>13, <1>14, <1>15, <1>16, <1>17 DEF Next, Poll, ProduceRow, Handle

(* Type correctness of tables, relays and worker. *)
THEOREM TypeCorrect == Spec => []TypeOK
BY TypeInit, TypeStep, PTL DEF Spec

-----------------------------------------------------------------------------
(* The row of a queued run *)

(* Nothing refers to an event that is not stored, and nobody works on a    *)
(* run that has not left the queue.                                        *)
KeepInv ==
    \A e \in Events :
        /\ status[e] = "none" <=> run[e] = "none"
        /\ status[e] = "none" =>
              ~published[e] /\ \A p \in Pollers : hold[p][e] = "none"
        /\ work[e] # "none" => run[e] \notin {"none", "queued"}
        /\ run[e] = "queued" => status[e] \in {"pending", "dispatched", "dead"}

LEMMA KeepInit == Init => KeepInv
BY DEF Init, KeepInv

LEMMA KeepStep == TypeOK /\ KeepInv /\ [Next]_vars => KeepInv'
<1> SUFFICES ASSUME TypeOK, KeepInv, [Next]_vars PROVE KeepInv'
    OBVIOUS
<1>1. ASSUME NEW e \in Events, Ingest(e) PROVE KeepInv'
      BY <1>1 DEF Ingest, TypeOK, KeepInv, relay
<1>2. ASSUME NEW p \in Pollers, Select(p) PROVE KeepInv'
      <2> DEFINE rows == {e \in Events : status[e] = "pending" /\ ~Locked(e)}
      <2> PICK batch : SelectRows(p, batch) /\ batch \subseteq rows
          BY <1>2, OldestAreRows DEF Select
      <2>1. /\ \A q \in Pollers, e \in Events :
                  hold'[q][e] = IF q = p
                                THEN IF e \in batch THEN "locked" ELSE "none"
                                ELSE hold[q][e]
            /\ UNCHANGED <<status, age, run, published, work>>
            BY DEF SelectRows, TypeOK
      <2>2. \A e \in batch :
               /\ e \in Events /\ status[e] = "pending"
               /\ \A q \in Pollers : hold[q][e] # "locked"
            BY DEF Locked
      <2> QED BY <2>1, <2>2 DEF KeepInv
<1>3. ASSUME NEW p \in Pollers, Dispatch(p) PROVE KeepInv'
      <2>1. \A q \in Pollers, e \in Events :
               hold'[q][e] = IF q = p /\ hold[p][e] = "locked"
                             THEN "produce" ELSE hold[q][e]
            BY <1>3 DEF Dispatch, TypeOK
      <2>2. /\ \A e \in Events : status'[e] = IF hold[p][e] = "locked"
                                               THEN "dispatched" ELSE status[e]
            /\ UNCHANGED <<age, run, published, work>>
            BY <1>3 DEF Dispatch
      <2> QED BY <2>1, <2>2 DEF KeepInv
<1>4. ASSUME NEW p \in Pollers, NEW e \in Events,
             GetProducer(p, e) \/ Connect(p, e)
      PROVE  KeepInv'
      <2>1. TakesNoRow BY <1>4, ProduceTakesNoRow DEF ProduceRow
      <2>2. UNCHANGED <<status, age, run, published, work>>
            BY <1>4 DEF GetProducer, Connect
      <2> QED BY <2>1, <2>2 DEF TakesNoRow, KeepInv
<1>5. ASSUME NEW p \in Pollers, NEW e \in Events, Send(p, e) PROVE KeepInv'
      <2>1. TakesNoRow BY <1>5, ProduceTakesNoRow DEF ProduceRow
      <2> QED BY <1>5, <2>1 DEF Send, TakesNoRow, TypeOK, KeepInv
<1>6. ASSUME NEW p \in Pollers, NEW e \in Events, Revert(p, e) PROVE KeepInv'
      <2>1. TakesNoRow BY <1>6, ProduceTakesNoRow DEF ProduceRow
      <2>2. /\ hold[p][e] = "error" /\ hold'[p][e] = "none"
            /\ UNCHANGED <<age, run, published, work>>
            BY <1>6 DEF Revert, Hold, TypeOK
      <2>3. \/ UNCHANGED status
            \/ /\ status[e] # "deleted" /\ status'[e] \in {"pending", "dead"}
               /\ \A f \in Events \ {e} : status'[f] = status[f]
            BY <1>6 DEF Revert, TypeOK
      <2> QED BY <2>1, <2>2, <2>3 DEF TakesNoRow, KeepInv
<1>7. ASSUME NEW p \in Pollers, Throw(p) \/ Crash(p) PROVE KeepInv'
      <2>1. TakesNoRow BY <1>7, FailureTakesNoRow
      <2>2. UNCHANGED <<status, age, run, published, work>>
            BY <1>7 DEF Throw, Crash
      <2> QED BY <2>1, <2>2 DEF TakesNoRow, KeepInv
<1>8. ASSUME NEW e \in Events, Age(e) PROVE KeepInv'
      BY <1>8 DEF Age, TypeOK, KeepInv, relay
<1>9. CASE Recover
      BY <1>9 DEF Recover, Sweep, TypeOK, KeepInv, relay
<1>10. CASE Cleanup
       BY <1>10 DEF Cleanup, Sweep, TypeOK, KeepInv, relay
<1>11. ASSUME NEW e \in Events, Receive(e) PROVE KeepInv'
       BY <1>11 DEF Receive, TypeOK, KeepInv, relay
<1>12. ASSUME NEW e \in Events, MarkConsumed(e) PROVE KeepInv'
       BY <1>12 DEF MarkConsumed, TypeOK, KeepInv, relay
<1>13. ASSUME NEW e \in Events, FinishRun(e) \/ LoseHandler(e) PROVE KeepInv'
       BY <1>13 DEF FinishRun, LoseHandler, TypeOK, KeepInv, relay
<1>14. CASE UNCHANGED vars
       BY <1>14 DEF vars, KeepInv, relay
<1> QED BY <1>1, <1>2, <1>3, <1>4, <1>5, <1>6, <1>7, <1>8, <1>9, <1>10, <1>11,
           <1>12, <1>13, <1>14 DEF Next, Poll, ProduceRow, Handle

(* While the run of an event waits in the queue, its outbox row is there   *)
(* and not ticked off: whichever relay, job or worker fails or is late.    *)
THEOREM QueuedKeepsRow == Spec => []QueuedRunKeepsRow
<1>1. KeepInv => QueuedRunKeepsRow
      BY DEF KeepInv, QueuedRunKeepsRow
<1> QED BY TypeInit, TypeStep, KeepInit, KeepStep, <1>1, PTL DEF Spec

-----------------------------------------------------------------------------
(* One relay for each young row *)

(* A young row that is pending is held by nobody but the relay that locks  *)
(* it, so a row that SKIP LOCKED lets through is held by nobody.           *)
YoungInv ==
    /\ OneRelayPerYoungRow
    /\ \A e \in Events : age[e] = 0 /\ status[e] = "pending" =>
          \A p \in Pollers : hold[p][e] \in {"none", "locked"}

LEMMA YoungInit == Init => YoungInv
BY DEF Init, YoungInv, OneRelayPerYoungRow

LEMMA YoungStep == TypeOK /\ KeepInv /\ YoungInv /\ [Next]_vars => YoungInv'
<1> SUFFICES ASSUME TypeOK, KeepInv, YoungInv, [Next]_vars PROVE YoungInv'
    OBVIOUS
<1>1. ASSUME NEW e \in Events, Ingest(e) PROVE YoungInv'
      BY <1>1 DEF Ingest, KeepInv, TypeOK, YoungInv, OneRelayPerYoungRow, relay
<1>2. ASSUME NEW p \in Pollers, Select(p) PROVE YoungInv'
      <2> DEFINE rows == {e \in Events : status[e] = "pending" /\ ~Locked(e)}
      <2> PICK batch : SelectRows(p, batch) /\ batch \subseteq rows
          BY <1>2, OldestAreRows DEF Select
      <2>1. /\ \A q \in Pollers, e \in Events :
                  hold'[q][e] = IF q = p
                                THEN IF e \in batch THEN "locked" ELSE "none"
                                ELSE hold[q][e]
            /\ UNCHANGED <<status, age, run, published, work>>
            BY DEF SelectRows, TypeOK
      <2>2. \A e \in batch :
               /\ e \in Events /\ status[e] = "pending"
               /\ \A q \in Pollers : hold[q][e] # "locked"
            BY DEF Locked
      <2> QED BY <2>1, <2>2 DEF YoungInv, OneRelayPerYoungRow
<1>3. ASSUME NEW p \in Pollers, Dispatch(p) PROVE YoungInv'
      <2>1. \A q \in Pollers, e \in Events :
               hold'[q][e] = IF q = p /\ hold[p][e] = "locked"
                             THEN "produce" ELSE hold[q][e]
            BY <1>3 DEF Dispatch, TypeOK
      <2>2. /\ \A e \in Events : status'[e] = IF hold[p][e] = "locked"
                                               THEN "dispatched" ELSE status[e]
            /\ UNCHANGED <<age, run, published, work>>
            BY <1>3 DEF Dispatch
      <2> QED BY <2>1, <2>2 DEF YoungInv, OneRelayPerYoungRow
<1>4. ASSUME NEW p \in Pollers, NEW e \in Events,
             GetProducer(p, e) \/ Connect(p, e)
      PROVE  YoungInv'
      <2>1. TakesNoRow BY <1>4, ProduceTakesNoRow DEF ProduceRow
      <2>2. UNCHANGED <<status, age, run, published, work>>
            BY <1>4 DEF GetProducer, Connect
      <2> QED BY <2>1, <2>2 DEF TakesNoRow, YoungInv, OneRelayPerYoungRow
<1>5. ASSUME NEW p \in Pollers, NEW e \in Events, Send(p, e) PROVE YoungInv'
      <2>1. TakesNoRow BY <1>5, ProduceTakesNoRow DEF ProduceRow
      <2> QED BY <1>5, <2>1
              DEF Send, TakesNoRow, TypeOK, YoungInv, OneRelayPerYoungRow
<1>6. ASSUME NEW p \in Pollers, NEW e \in Events, Revert(p, e) PROVE YoungInv'
      <2>1. TakesNoRow BY <1>6, ProduceTakesNoRow DEF ProduceRow
      <2>2. /\ hold[p][e] = "error" /\ hold'[p][e] = "none"
            /\ UNCHANGED <<age, run, published, work>>
            BY <1>6 DEF Revert, Hold, TypeOK
      <2>3. \/ UNCHANGED status
            \/ /\ status[e] # "deleted" /\ status'[e] \in {"pending", "dead"}
               /\ \A f \in Events \ {e} : status'[f] = status[f]
            BY <1>6 DEF Revert, TypeOK
      <2> QED BY <2>1, <2>2, <2>3 DEF TakesNoRow, YoungInv, OneRelayPerYoungRow
<1>7. ASSUME NEW p \in Pollers, Throw(p) \/ Crash(p) PROVE YoungInv'
      <2>1. TakesNoRow BY <1>7, FailureTakesNoRow
      <2>2. UNCHANGED <<status, age, run, published, work>>
            BY <1>7 DEF Throw, Crash
      <2> QED BY <2>1, <2>2 DEF TakesNoRow, YoungInv, OneRelayPerYoungRow
<1>8. ASSUME NEW e \in Events, Age(e) PROVE YoungInv'
      <2>1. \A f \in Events : age'[f] = 0 => age[f] = 0
            BY <1>8 DEF Age, TypeOK
      <2> QED BY <1>8, <2>1 DEF Age, YoungInv, OneRelayPerYoungRow, relay
<1>9. CASE Recover
      BY <1>9 DEF Recover, Sweep, TypeOK, YoungInv, OneRelayPerYoungRow, relay
<1>10. CASE Cleanup
       BY <1>10 DEF Cleanup, Sweep, TypeOK, YoungInv, OneRelayPerYoungRow, relay
<1>11. ASSUME NEW e \in Events, Receive(e) PROVE YoungInv'
       BY <1>11 DEF Receive, TypeOK, YoungInv, OneRelayPerYoungRow, relay
<1>12. ASSUME NEW e \in Events, MarkConsumed(e) PROVE YoungInv'
       BY <1>12 DEF MarkConsumed, TypeOK, YoungInv, OneRelayPerYoungRow, relay
<1>13. ASSUME NEW e \in Events, FinishRun(e) \/ LoseHandler(e) PROVE YoungInv'
       BY <1>13
       DEF FinishRun, LoseHandler, TypeOK, YoungInv, OneRelayPerYoungRow, relay
<1>14. CASE UNCHANGED vars
       BY <1>14 DEF vars, YoungInv, OneRelayPerYoungRow, relay
<1> QED BY <1>1, <1>2, <1>3, <1>4, <1>5, <1>6, <1>7, <1>8, <1>9, <1>10, <1>11,
           <1>12, <1>13, <1>14 DEF Next, Poll, ProduceRow, Handle

(* Any number of relays share the table: until the recovery job may meet   *)
(* it, a row is with at most one of them.                                  *)
THEOREM OneRelay == Spec => []OneRelayPerYoungRow
<1>1. YoungInv => OneRelayPerYoungRow
      BY DEF YoungInv
<1> QED BY TypeInit, TypeStep, KeepInit, KeepStep, YoungInit, YoungStep, <1>1,
           PTL DEF Spec
-----------------------------------------------------------------------------
(* Dispatched rows *)

(* What makes produceRow leave a row as it is: the process dies, or an     *)
(* error is raised inside of its catch.                                    *)
Escapes == {"crash", "throw"}

(* Only the first call of getProducer waits for the connection.            *)
FirstCallConnects ==
    \A p \in Pollers, e \in Events :
        hold[p][e] = "connect" =>
            /\ link[p] = "connecting"
            /\ \A f \in Events : hold[p][f] = "connect" => f = e

LEMMA ConnectStep ==
    ASSUME TypeOK, FirstCallConnects, [Next]_vars
    PROVE  FirstCallConnects'
<1>1. ASSUME NEW p \in Pollers, Select(p) PROVE FirstCallConnects'
      <2> PICK batch : SelectRows(p, batch) BY <1>1 DEF Select
      <2> QED BY DEF SelectRows, TypeOK, FirstCallConnects
<1>2. ASSUME NEW p \in Pollers, Dispatch(p) PROVE FirstCallConnects'
      BY <1>2 DEF Dispatch, TypeOK, FirstCallConnects
<1>3. ASSUME NEW p \in Pollers, NEW e \in Events, GetProducer(p, e)
      PROVE  FirstCallConnects'
      <2>1. CASE link[p] = "none" /\ Hold(p, e, "connect")
            <3>1. \A f \in Events : hold[p][f] # "connect"
                  BY <2>1 DEF FirstCallConnects
            <3>2. link' = [link EXCEPT ![p] = "connecting"]
                  BY <1>3, <2>1, HoldEffect DEF GetProducer, HoldLabels
            <3> QED BY <2>1, <3>1, <3>2, HoldEffect
                    DEF TypeOK, FirstCallConnects, HoldLabels
      <2>2. CASE Hold(p, e, "send") /\ UNCHANGED link
            <3>1. \A q \in Pollers, f \in Events :
                     hold'[q][f] = "connect" => hold[q][f] = "connect"
                  BY <2>2, HoldEffect DEF HoldLabels
            <3> QED BY <2>2, <3>1 DEF FirstCallConnects
      <2> QED BY <1>3, <2>1, <2>2 DEF GetProducer
<1>4. ASSUME NEW p \in Pollers, NEW e \in Events, Connect(p, e)
      PROVE  FirstCallConnects'
      <2>1. \E label \in {"send", "none"} : Hold(p, e, label)
            BY <1>4 DEF Connect
      <2>2. \A f \in Events : hold'[p][f] # "connect"
            BY <1>4, <2>1, HoldEffect DEF Connect, FirstCallConnects, HoldLabels
      <2>3. \A q \in Pollers \ {p} : hold'[q] = hold[q] /\ link'[q] = link[q]
            BY <1>4, <2>1 DEF Connect, Hold, TypeOK
      <2> QED BY <2>2, <2>3 DEF FirstCallConnects
<1>5. ASSUME NEW p \in Pollers, NEW e \in Events, Send(p, e) \/ Revert(p, e)
      PROVE  FirstCallConnects'
      <2>1. \E label \in {"error", "none"} : Hold(p, e, label)
            BY <1>5 DEF Send, Revert
      <2>2. \A q \in Pollers, f \in Events :
               hold'[q][f] = "connect" => hold[q][f] = "connect"
            BY <2>1, HoldEffect DEF HoldLabels
      <2>3. UNCHANGED link
            BY <1>5 DEF Send, Revert
      <2> QED BY <2>2, <2>3 DEF FirstCallConnects
<1>6. ASSUME NEW p \in Pollers, Throw(p) PROVE FirstCallConnects'
      <2>1. CASE hold' = [hold EXCEPT ![p] = [e \in Events |-> "none"]]
            BY <1>6, <2>1 DEF Throw, TypeOK, FirstCallConnects
      <2>2. CASE \E e \in Events : Hold(p, e, "none")
            <3>1. \A q \in Pollers, f \in Events :
                     hold'[q][f] = "connect" => hold[q][f] = "connect"
                  BY <2>2, HoldEffect DEF HoldLabels
            <3> QED BY <1>6, <3>1 DEF Throw, FirstCallConnects
      <2> QED BY <1>6, <2>1, <2>2 DEF Throw
<1>7. ASSUME NEW p \in Pollers, Crash(p) PROVE FirstCallConnects'
      BY <1>7 DEF Crash, TypeOK, FirstCallConnects
<1>8. CASE UNCHANGED relay
      BY <1>8 DEF relay, FirstCallConnects
<1> QED BY <1>1, <1>2, <1>3, <1>4, <1>5, <1>6, <1>7, <1>8
        DEF Next, Poll, ProduceRow, Handle, Ingest, Age, LoseHandler, Recover,
            Cleanup, Sweep, Receive, MarkConsumed, FinishRun, vars, relay

LEMMA DispatchedStep ==
    ASSUME Faults \cap Escapes = {}, TypeOK, FirstCallConnects,
           DispatchedIsPublishedOrHeld, [Next]_vars
    PROVE  DispatchedIsPublishedOrHeld'
<1> DEFINE Goal == DispatchedIsPublishedOrHeld'
<1>1. ASSUME NEW e \in Events, Ingest(e) PROVE Goal
      BY <1>1 DEF Ingest, TypeOK, DispatchedIsPublishedOrHeld, relay
<1>2. ASSUME NEW p \in Pollers, Select(p) PROVE Goal
      <2> PICK batch : SelectRows(p, batch) BY <1>2 DEF Select
      <2>1. /\ \A e \in Events : hold[p][e] = "none"
            /\ \A q \in Pollers \ {p} : hold'[q] = hold[q]
            /\ UNCHANGED <<status, published, link>>
            BY DEF SelectRows, TypeOK
      <2> QED BY <2>1 DEF DispatchedIsPublishedOrHeld
<1>3. ASSUME NEW p \in Pollers, Dispatch(p) PROVE Goal
      <2>1. \A q \in Pollers, e \in Events :
               hold'[q][e] = IF q = p /\ hold[p][e] = "locked"
                             THEN "produce" ELSE hold[q][e]
            BY <1>3 DEF Dispatch, TypeOK
      <2>2. /\ \A e \in Events : status'[e] = IF hold[p][e] = "locked"
                                               THEN "dispatched" ELSE status[e]
            /\ UNCHANGED <<published, link>>
            BY <1>3 DEF Dispatch
      <2> QED BY <2>1, <2>2 DEF DispatchedIsPublishedOrHeld
<1>4. ASSUME NEW p \in Pollers, NEW e \in Events,
             GetProducer(p, e) \/ Connect(p, e)
      PROVE  Goal
      <2>1. /\ \E label \in HoldLabels : Hold(p, e, label)
            /\ UNCHANGED <<status, published>>
            BY <1>4 DEF GetProducer, Connect, HoldLabels
      <2>2. \/ UNCHANGED link
            \/ link[p] # "broken" /\ \E to : link' = [link EXCEPT ![p] = to]
            BY <1>4 DEF GetProducer, Connect, FirstCallConnects
      <2>3. \A q \in Pollers : link[q] = "broken" => link'[q] = "broken"
            BY <2>2 DEF TypeOK
      <2>4. \A q \in Pollers, f \in Events :
               ~(q = p /\ f = e) => hold'[q][f] = hold[q][f]
            BY <2>1, HoldEffect
      <2>5. hold'[p][e] # "none" \/ link'[p] = "broken"
            BY <1>4, HoldEffect DEF GetProducer, Connect, HoldLabels, TypeOK
      <2> QED BY <2>1, <2>3, <2>4, <2>5 DEF DispatchedIsPublishedOrHeld
<1>5. ASSUME NEW p \in Pollers, NEW e \in Events, Send(p, e) PROVE Goal
      <2>1. CASE /\ Hold(p, e, "error")
                 /\ published' \in {published, [published EXCEPT ![e] = TRUE]}
            <3>1. \A q \in Pollers, f \in Events :
                     hold[q][f] # "none" => hold'[q][f] # "none"
                  BY <2>1, HoldEffect DEF HoldLabels
            <3>2. \A f \in Events : published[f] => published'[f]
                  BY <2>1 DEF TypeOK
            <3> QED BY <1>5, <3>1, <3>2 DEF Send, DispatchedIsPublishedOrHeld
      <2>2. CASE Hold(p, e, "none") /\ published' = [published EXCEPT ![e] = TRUE]
            <3>1. \A q \in Pollers, f \in Events \ {e} : hold'[q][f] = hold[q][f]
                  BY <2>2, HoldEffect DEF HoldLabels
            <3>2. published'[e] /\ \A f \in Events : published[f] => published'[f]
                  BY <2>2 DEF TypeOK
            <3> QED BY <1>5, <3>1, <3>2 DEF Send, DispatchedIsPublishedOrHeld
      <2> QED BY <1>5, <2>1, <2>2 DEF Send
<1>6. ASSUME NEW p \in Pollers, NEW e \in Events, Revert(p, e) PROVE Goal
      <2>1. \A q \in Pollers, f \in Events \ {e} : hold'[q][f] = hold[q][f]
            BY <1>6, HoldEffect DEF Revert, HoldLabels
      <2>2. status'[e] # "dispatched" /\ \A f \in Events \ {e} : status'[f] = status[f]
            BY <1>6 DEF Revert, TypeOK
      <2> QED BY <1>6, <2>1, <2>2 DEF Revert, DispatchedIsPublishedOrHeld
<1>7. ASSUME NEW p \in Pollers, Throw(p) \/ Crash(p) PROVE Goal
      BY <1>7 DEF Throw, Crash, Escapes
<1>8. ASSUME NEW e \in Events, Age(e) PROVE Goal
      BY <1>8 DEF Age, DispatchedIsPublishedOrHeld, relay
<1>9. CASE Recover \/ Cleanup
      BY <1>9 DEF Recover, Cleanup, Sweep, DispatchedIsPublishedOrHeld, relay
<1>10. ASSUME NEW e \in Events, Receive(e) PROVE Goal
       BY <1>10 DEF Receive, DispatchedIsPublishedOrHeld, relay
<1>11. ASSUME NEW e \in Events, MarkConsumed(e) PROVE Goal
       BY <1>11 DEF MarkConsumed, TypeOK, DispatchedIsPublishedOrHeld, relay
<1>12. ASSUME NEW e \in Events, FinishRun(e) \/ LoseHandler(e) PROVE Goal
       BY <1>12 DEF FinishRun, LoseHandler, DispatchedIsPublishedOrHeld, relay
<1>13. CASE UNCHANGED vars
       BY <1>13 DEF vars, DispatchedIsPublishedOrHeld, relay
<1> QED BY <1>1, <1>2, <1>3, <1>4, <1>5, <1>6, <1>7, <1>8, <1>9, <1>10, <1>11,
           <1>12, <1>13 DEF Next, Poll, ProduceRow, Handle

(* As long as no relay dies and no error escapes the catch of produceRow,  *)
(* a dispatched row is produced or in the hands of a relay, or a relay     *)
(* could not connect, however the recovery job and late updates of other   *)
(* relays interleave.                                                      *)
THEOREM DispatchedIsCovered ==
    ASSUME Faults \cap Escapes = {}
    PROVE  Spec => []DispatchedIsPublishedOrHeld
<1>1. Init => FirstCallConnects /\ DispatchedIsPublishedOrHeld
      BY DEF Init, FirstCallConnects, DispatchedIsPublishedOrHeld
<1>2. TypeOK /\ FirstCallConnects /\ [Next]_vars => FirstCallConnects'
      BY ConnectStep
<1>3. TypeOK /\ FirstCallConnects /\ DispatchedIsPublishedOrHeld /\ [Next]_vars
         => DispatchedIsPublishedOrHeld'
      BY DispatchedStep
<1> QED BY TypeInit, TypeStep, <1>1, <1>2, <1>3, PTL DEF Spec
-----------------------------------------------------------------------------
(* Dead letters of a single relay *)

(* The relay that buries a row lets go of it, and selects it no more. *)
DeadIsIdle ==
    \A p \in Pollers, e \in Events : status[e] = "dead" => hold[p][e] = "none"

LEMMA DeadStep ==
    ASSUME \A p, q \in Pollers : p = q, TypeOK, DeadIsIdle, [Next]_vars
    PROVE  /\ DeadIsIdle'
           /\ \A e \in Events : status[e] = "dead" => status'[e] # "pending"
<1> DEFINE Goal == /\ DeadIsIdle'
                   /\ \A e \in Events : status[e] = "dead" => status'[e] # "pending"
<1>1. ASSUME NEW e \in Events, Ingest(e) PROVE Goal
      BY <1>1 DEF Ingest, TypeOK, DeadIsIdle, relay
<1>2. ASSUME NEW p \in Pollers, Select(p) PROVE Goal
      <2> DEFINE rows == {e \in Events : status[e] = "pending" /\ ~Locked(e)}
      <2> PICK batch : SelectRows(p, batch) /\ batch \subseteq rows
          BY <1>2, OldestAreRows DEF Select
      <2>1. /\ \A q \in Pollers, e \in Events :
                  hold'[q][e] \in {hold[q][e], "none"} \/ e \in batch
            /\ UNCHANGED status
            BY DEF SelectRows, TypeOK
      <2> QED BY <2>1 DEF DeadIsIdle
<1>3. ASSUME NEW p \in Pollers, Dispatch(p) PROVE Goal
      <2>1. \A q \in Pollers, e \in Events :
               hold'[q][e] = IF q = p /\ hold[p][e] = "locked"
                             THEN "produce" ELSE hold[q][e]
            BY <1>3 DEF Dispatch, TypeOK
      <2>2. \A e \in Events : status'[e] = IF hold[p][e] = "locked"
                                            THEN "dispatched" ELSE status[e]
            BY <1>3 DEF Dispatch
      <2> QED BY <2>1, <2>2 DEF DeadIsIdle
<1>4. ASSUME NEW p \in Pollers, NEW e \in Events,
             GetProducer(p, e) \/ Connect(p, e) \/ Send(p, e)
      PROVE  Goal
      <2>1. TakesNoRow BY <1>4, ProduceTakesNoRow DEF ProduceRow
      <2>2. UNCHANGED status
            BY <1>4 DEF GetProducer, Connect, Send
      <2> QED BY <2>1, <2>2 DEF TakesNoRow, DeadIsIdle
<1>5. ASSUME NEW p \in Pollers, NEW e \in Events, Revert(p, e) PROVE Goal
      <2>1. TakesNoRow BY <1>5, ProduceTakesNoRow DEF ProduceRow
      <2>2. hold[p][e] = "error" /\ hold'[p][e] = "none"
            BY <1>5 DEF Revert, Hold, TypeOK
      <2>3. \A f \in Events \ {e} : status'[f] = status[f]
            BY <1>5 DEF Revert, TypeOK
      <2>4. status[e] # "dead" /\ \A q \in Pollers : hold'[q][e] = "none"
            BY <2>2 DEF DeadIsIdle
      <2> QED BY <2>1, <2>3, <2>4 DEF TakesNoRow, DeadIsIdle
<1>6. ASSUME NEW p \in Pollers, Throw(p) \/ Crash(p) PROVE Goal
      <2>1. TakesNoRow BY <1>6, FailureTakesNoRow
      <2>2. UNCHANGED status
            BY <1>6 DEF Throw, Crash
      <2> QED BY <2>1, <2>2 DEF TakesNoRow, DeadIsIdle
<1>7. ASSUME NEW e \in Events, Age(e) PROVE Goal
      BY <1>7 DEF Age, DeadIsIdle, relay
<1>8. CASE Recover \/ Cleanup
      BY <1>8 DEF Recover, Cleanup, Sweep, DeadIsIdle, relay
<1>9. ASSUME NEW e \in Events, Receive(e) PROVE Goal
      BY <1>9 DEF Receive, DeadIsIdle, relay
<1>10. ASSUME NEW e \in Events, MarkConsumed(e) PROVE Goal
       BY <1>10 DEF MarkConsumed, TypeOK, DeadIsIdle, relay
<1>11. ASSUME NEW e \in Events, FinishRun(e) \/ LoseHandler(e) PROVE Goal
       BY <1>11 DEF FinishRun, LoseHandler, DeadIsIdle, relay
<1>12. CASE UNCHANGED vars
       BY <1>12 DEF vars, DeadIsIdle, relay
<1> QED BY <1>1, <1>2, <1>3, <1>4, <1>5, <1>6, <1>7, <1>8, <1>9, <1>10, <1>11,
           <1>12 DEF Next, Poll, ProduceRow, Handle

(* A single relay never brings a dead letter back, with every fault. *)
THEOREM DeadLettersRest ==
    ASSUME \A p, q \in Pollers : p = q
    PROVE  Spec => DeadStaysDead
<1>1. Init => DeadIsIdle
      BY DEF Init, DeadIsIdle
<1>2. TypeOK /\ DeadIsIdle /\ [Next]_vars => DeadIsIdle'
      BY DeadStep
<1>3. TypeOK /\ DeadIsIdle /\ [Next]_vars
         => [\A e \in Events : status[e] = "dead" => status'[e] # "pending"]_vars
      BY DeadStep
<1> QED BY TypeInit, TypeStep, <1>1, <1>2, <1>3, PTL DEF Spec, DeadStaysDead

-----------------------------------------------------------------------------
(* The lifecycle of an event *)

(* A locked row is pending, and one relay has the lock.                    *)
LockInv ==
    \A e \in Events, p \in Pollers :
        hold[p][e] = "locked" =>
            /\ status[e] = "pending"
            /\ \A q \in Pollers : hold[q][e] = "locked" => p = q

LEMMA LockInit == Init => LockInv
BY DEF Init, LockInv

(* Every step but Select locks no row, and every step but Dispatch leaves  *)
(* the rows alone that are locked.                                         *)
LEMMA LockKept ==
    ASSUME LockInv, TakesNoRow \/ UNCHANGED hold,
           \A e \in Events :
               status[e] = "pending" /\ Locked(e) => status'[e] = status[e]
    PROVE  LockInv'
<1>1. \A p \in Pollers, e \in Events :
          hold'[p][e] = "locked" => hold[p][e] = "locked"
      BY DEF TakesNoRow
<1> QED BY <1>1 DEF LockInv, Locked

LEMMA LockStep == TypeOK /\ KeepInv /\ LockInv /\ [Next]_vars => LockInv'
<1> SUFFICES ASSUME TypeOK, KeepInv, LockInv, [Next]_vars PROVE LockInv'
    OBVIOUS
<1>1. ASSUME NEW e \in Events, Ingest(e) PROVE LockInv'
      BY <1>1, LockKept DEF Ingest, TypeOK, relay
<1>2. ASSUME NEW p \in Pollers, Select(p) PROVE LockInv'
      <2> DEFINE rows == {e \in Events : status[e] = "pending" /\ ~Locked(e)}
      <2> PICK batch : SelectRows(p, batch) /\ batch \subseteq rows
          BY <1>2, OldestAreRows DEF Select
      <2>1. /\ \A q \in Pollers, e \in Events :
                  hold'[q][e] = IF q = p
                                THEN IF e \in batch THEN "locked" ELSE "none"
                                ELSE hold[q][e]
            /\ UNCHANGED status
            BY DEF SelectRows, TypeOK
      <2>2. \A e \in batch :
               /\ e \in Events /\ status[e] = "pending"
               /\ \A q \in Pollers : hold[q][e] # "locked"
            BY DEF Locked
      <2> QED BY <2>1, <2>2 DEF LockInv
<1>3. ASSUME NEW p \in Pollers, Dispatch(p) PROVE LockInv'
      <2>1. \A q \in Pollers, e \in Events :
               hold'[q][e] = IF q = p /\ hold[p][e] = "locked"
                             THEN "produce" ELSE hold[q][e]
            BY <1>3 DEF Dispatch, TypeOK
      <2>2. \A e \in Events : status'[e] = IF hold[p][e] = "locked"
                                            THEN "dispatched" ELSE status[e]
            BY <1>3 DEF Dispatch
      <2> QED BY <2>1, <2>2 DEF LockInv
<1>4. ASSUME NEW p \in Pollers, NEW e \in Events, ProduceRow(p, e) PROVE LockInv'
      <2>1. TakesNoRow BY <1>4, ProduceTakesNoRow
      <2>2. \A f \in Events : Locked(f) => status'[f] = status[f]
            BY <1>4 DEF ProduceRow, GetProducer, Connect, Send, Revert, TypeOK
      <2> QED BY <2>1, <2>2, LockKept
<1>5. ASSUME NEW p \in Pollers, Throw(p) \/ Crash(p) PROVE LockInv'
      BY <1>5, FailureTakesNoRow, LockKept DEF Throw, Crash
<1>6. ASSUME NEW e \in Events, Age(e) \/ Receive(e) \/ FinishRun(e) \/ LoseHandler(e)
      PROVE  LockInv'
      BY <1>6, LockKept DEF Age, Receive, FinishRun, LoseHandler, relay
<1>7. ASSUME NEW e \in Events, MarkConsumed(e) PROVE LockInv'
      BY <1>7, LockKept DEF MarkConsumed, TypeOK, relay
<1>8. CASE Recover \/ Cleanup
      <2>1. \A e \in Events : status[e] = "pending" => status'[e] = status[e]
            BY <1>8 DEF Recover, Cleanup, Sweep
      <2> QED BY <1>8, <2>1, LockKept DEF Recover, Cleanup, Sweep, relay
<1>9. CASE UNCHANGED vars
      BY <1>9, LockKept DEF vars, relay
<1> QED BY <1>1, <1>2, <1>3, <1>4, <1>5, <1>6, <1>7, <1>8, <1>9
        DEF Next, Poll, Handle

(* The row of e can be relied on.                                          *)
Kept(e) == status[e] \in {"pending", "dispatched", "dead"}

(* Steps that touch neither run nor topic, and no row in a way that counts.*)
LEMMA SameStage ==
    ASSUME UNCHANGED <<run, published>>, \A e \in Events : Kept(e)' <=> Kept(e)
    PROVE  UNCHANGED Lifecycle!vars
BY DEF Lifecycle!vars, Kept

LEMMA RowTicked ==
    ASSUME UNCHANGED <<run, published>>, NEW e \in Events,
           run[e] \in {"in_progress", "terminal"},
           \A f \in Events \ {e} : Kept(f)' <=> Kept(f)
    PROVE  Lifecycle!Next
<1>1. [f \in Events |-> Kept(f)'] =
          [[f \in Events |-> Kept(f)] EXCEPT ![e] = Kept(e)']
  <2> DEFINE old == [f \in Events |-> Kept(f)]
             new == [f \in Events |-> Kept(f)']
  <2>1. \A f \in Events \ {e} : new[f] = old[f]
        BY DEF Kept
  <2>2. new[e] = Kept(e)' /\ old = [f \in Events |-> old[f]]
        /\ new = [f \in Events |-> new[f]]
        OBVIOUS
  <2> HIDE DEF old, new
  <2>3. new = [old EXCEPT ![e] = Kept(e)']
        BY <2>1, <2>2
  <2> QED BY <2>3 DEF old, new
<1>2. Kept(e)' \in BOOLEAN
      BY DEF Kept
<1> QED BY <1>1, <1>2 DEF Lifecycle!Next, Lifecycle!Tick, Kept

LEMMA LifecycleStep ==
    ASSUME TypeOK, KeepInv, LockInv, [Next]_vars
    PROVE  [Lifecycle!Next]_(Lifecycle!vars)
<1> SUFFICES Lifecycle!Next \/ UNCHANGED Lifecycle!vars
    OBVIOUS
<1>1. ASSUME NEW e \in Events, Ingest(e) PROVE Lifecycle!Next
      <2>1. Kept(e)' /\ \A f \in Events \ {e} : Kept(f)' <=> Kept(f)
            BY <1>1 DEF Ingest, TypeOK, Kept
      <2>2. [f \in Events |-> Kept(f)'] =
                [[f \in Events |-> Kept(f)] EXCEPT ![e] = TRUE]
        <3> DEFINE old == [f \in Events |-> Kept(f)]
                   new == [f \in Events |-> Kept(f)']
        <3>1. \A f \in Events \ {e} : new[f] = old[f]
              BY <2>1 DEF Kept
        <3>e. new[e] = TRUE
          <4>1. Kept(e)' = TRUE
                BY <2>1 DEF Kept
          <4>2. new[e] = Kept(e)'
                OBVIOUS
          <4> QED BY <4>1, <4>2
        <3>2. old = [f \in Events |-> old[f]] /\ new = [f \in Events |-> new[f]]
              OBVIOUS
        <3> HIDE DEF old, new
        <3>3. new = [old EXCEPT ![e] = TRUE]
              BY <3>1, <3>e, <3>2
        <3> QED BY <3>3 DEF old, new
      <2>3. run[e] = "none" /\ run' = [run EXCEPT ![e] = "queued"]
            /\ UNCHANGED published
            BY <1>1 DEF Ingest, KeepInv
      <2> QED BY <2>2, <2>3
              DEF Lifecycle!Next, Lifecycle!Store, Lifecycle!Advance, Kept
<1>2. ASSUME NEW p \in Pollers, Poll(p) PROVE UNCHANGED Lifecycle!vars
      <2>1. UNCHANGED <<run, published>>
            BY <1>2 DEF Poll, Select, SelectRows, Dispatch
      <2>2. \A e \in Events : Kept(e)' <=> Kept(e)
            BY <1>2 DEF Poll, Select, SelectRows, Dispatch, LockInv, Kept
      <2> QED BY <2>1, <2>2, SameStage
<1>3. ASSUME NEW p \in Pollers, NEW e \in Events,
             GetProducer(p, e) \/ Connect(p, e)
      PROVE  UNCHANGED Lifecycle!vars
      BY <1>3, SameStage DEF GetProducer, Connect, Kept
<1>4. ASSUME NEW p \in Pollers, NEW e \in Events, Send(p, e)
      PROVE  Lifecycle!Next \/ UNCHANGED Lifecycle!vars
      <2>1. CASE published' = [published EXCEPT ![e] = TRUE]
            <3>1. run[e] # "none"
                  BY <1>4 DEF Send, KeepInv
            <3> QED BY <1>4, <2>1, <3>1
                    DEF Send, Lifecycle!Next, Lifecycle!Offer
      <2>2. CASE UNCHANGED published
            BY <1>4, <2>2, SameStage DEF Send, Kept
      <2> QED BY <1>4, <2>1, <2>2 DEF Send
<1>5. ASSUME NEW p \in Pollers, NEW e \in Events, Revert(p, e)
      PROVE  Lifecycle!Next \/ UNCHANGED Lifecycle!vars
      <2>1. /\ UNCHANGED <<run, published>>
            /\ \A f \in Events \ {e} : Kept(f)' <=> Kept(f)
            BY <1>5 DEF Revert, TypeOK, Kept
      <2>2. CASE Kept(e)' <=> Kept(e)
            BY <2>1, <2>2, SameStage
      <2>3. CASE ~(Kept(e)' <=> Kept(e))
            <3>1. ~Kept(e) /\ status[e] # "none"
                  BY <1>5, <2>3 DEF Revert, TypeOK, Kept, KeepInv
            <3>2. run[e] \in {"in_progress", "terminal"}
                  BY <3>1 DEF TypeOK, Kept, KeepInv
            <3> QED BY <2>1, <3>2, RowTicked
      <2> QED BY <2>2, <2>3
<1>6. ASSUME NEW e \in Events, Age(e) \/ LoseHandler(e)
      PROVE  UNCHANGED Lifecycle!vars
      BY <1>6, SameStage DEF Age, LoseHandler, Kept
<1>7. CASE Recover \/ Cleanup
      <2>1. \A e \in Events : Kept(e)' <=> Kept(e)
            BY <1>7 DEF Recover, Cleanup, Sweep, Kept
      <2> QED BY <1>7, <2>1, SameStage DEF Recover, Cleanup, Sweep
<1>8. ASSUME NEW e \in Events, Receive(e)
      PROVE  Lifecycle!Next \/ UNCHANGED Lifecycle!vars
      <2>1. /\ published[e] /\ UNCHANGED <<status, published>>
            /\ run' = [run EXCEPT ![e] = "in_progress"]
            /\ run[e] \in {"queued", "in_progress"}
            BY <1>8 DEF Receive, KeepInv, TypeOK
      <2>2. CASE run[e] = "queued"
            BY <2>1, <2>2
               DEF Lifecycle!Next, Lifecycle!Claim, Lifecycle!Advance
      <2>3. CASE run[e] = "in_progress"
            <3>1. UNCHANGED run
                  BY <2>1, <2>3 DEF TypeOK
            <3> QED BY <2>1, <3>1, SameStage DEF Kept
      <2> QED BY <2>1, <2>2, <2>3
<1>9. ASSUME NEW e \in Events, MarkConsumed(e) PROVE Lifecycle!Next
      <2>1. /\ UNCHANGED <<run, published>>
            /\ \A f \in Events \ {e} : Kept(f)' <=> Kept(f)
            BY <1>9 DEF MarkConsumed, TypeOK, Kept
      <2>2. run[e] \in {"in_progress", "terminal"}
            BY <1>9 DEF MarkConsumed, KeepInv, TypeOK
      <2> QED BY <2>1, <2>2, RowTicked
<1>10. ASSUME NEW e \in Events, FinishRun(e)
       PROVE  Lifecycle!Next \/ UNCHANGED Lifecycle!vars
      <2>1. /\ UNCHANGED <<status, published>>
            /\ run' = [run EXCEPT ![e] = "terminal"]
            /\ run[e] \in {"in_progress", "terminal"}
            BY <1>10 DEF FinishRun, KeepInv, TypeOK
      <2>2. CASE run[e] = "in_progress"
            BY <2>1, <2>2
               DEF Lifecycle!Next, Lifecycle!Finish, Lifecycle!Advance
      <2>3. CASE run[e] = "terminal"
            <3>1. UNCHANGED run
                  BY <2>1, <2>3 DEF TypeOK
            <3> QED BY <2>1, <3>1, SameStage DEF Kept
      <2> QED BY <2>1, <2>2, <2>3
<1>11. CASE UNCHANGED vars
      BY <1>11, SameStage DEF vars, Kept
<1>12. ASSUME NEW p \in Pollers, Throw(p) \/ Crash(p)
       PROVE  UNCHANGED Lifecycle!vars
       BY <1>12, SameStage DEF Throw, Crash, Kept
<1> QED BY <1>1, <1>2, <1>3, <1>4, <1>5, <1>6, <1>7, <1>8, <1>9, <1>10, <1>11, <1>12
        DEF Next, ProduceRow, Handle

(* From the transaction of hooks-api to the end of its run an event is a   *)
(* behaviour of EventLifecycle, with every fault and any number of relays: *)
(* no late update ticks off the row of a run that waits, and no late       *)
(* message opens a run again.                                              *)
THEOREM Refinement == Spec => ImplementsLifecycle
<1>1. Init => Lifecycle!Init
      BY DEF Init, Lifecycle!Init
<1> QED BY TypeInit, TypeStep, KeepInit, KeepStep, LockInit, LockStep, <1>1,
           LifecycleStep, PTL DEF Spec, ImplementsLifecycle, Lifecycle!Spec
=============================================================================
