-------------------------- MODULE ZapEditorProofs --------------------------
(***************************************************************************)
(* Proofs about ZapEditor, for any number of requests, runs and steps.     *)
(***************************************************************************)
EXTENDS ZapEditor, FiniteSetTheorems, TLAPS

LEMMA MaxStepsNat == MaxSteps \in Nat \ {0}
BY EditorAssumption DEF EditorAssumption

-----------------------------------------------------------------------------
(* Layouts *)

(* No two steps are at the same position (the unique index).               *)
Distinct(layout) ==
    \A s, t \in PresentIn(layout) : layout[s] = layout[t] => s = t

LEMMA StepsAreFinite ==
    ASSUME NEW S \in SUBSET Steps
    PROVE  /\ IsFiniteSet(S)
           /\ Cardinality(S) \in 0 .. MaxSteps
<1>1. IsFiniteSet(Steps) /\ Cardinality(Steps) = MaxSteps
      BY MaxStepsNat, FS_Interval DEF Steps
<1>2. IsFiniteSet(S) /\ Cardinality(S) <= MaxSteps
      BY <1>1, FS_Subset
<1>3. Cardinality(S) \in Nat
      BY <1>2, FS_CardinalityType
<1> QED BY <1>2, <1>3, MaxStepsNat

LEMMA PresentPositions ==
    ASSUME NEW layout \in Layout, NEW s \in PresentIn(layout)
    PROVE  s \in Steps /\ layout[s] \in 0 .. MaxSteps
BY MaxStepsNat DEF PresentIn, Layout, Absent

(* Steps at distinct positions are as many as their positions.             *)
LEMMA AsManyPositions ==
    ASSUME NEW layout \in Layout, Distinct(layout), NEW S \in SUBSET PresentIn(layout)
    PROVE  Cardinality({layout[s] : s \in S}) = Cardinality(S)
<1> DEFINE T == {layout[s] : s \in S}
           f == [s \in S |-> layout[s]]
<1>1. f \in Bijection(S, T)
  <2>1. f \in Surjection(S, T)
        BY DEF Surjection
  <2>2. f \in Injection(S, T)
        BY DEF Injection, IsInjective, Distinct
  <2> QED BY <2>1, <2>2 DEF Bijection
<1>2. ExistsBijection(S, T)
      BY <1>1 DEF ExistsBijection
<1>3. S \in SUBSET Steps
      BY DEF PresentIn
<1> QED BY <1>2, <1>3, StepsAreFinite, FS_Bijection

(* Distinct positions without a gap.                                       *)
Contiguous(layout) ==
    /\ Distinct(layout)
    /\ PositionsOf(layout) = 0 .. Cardinality(PresentIn(layout)) - 1

(* Before a step of a contiguous layout are as many as its position says.  *)
LEMMA StepsBefore ==
    ASSUME NEW layout \in Layout, Contiguous(layout), NEW s \in PresentIn(layout)
    PROVE  Cardinality({t \in PresentIn(layout) : layout[t] < layout[s]}) = layout[s]
<1> DEFINE S == {t \in PresentIn(layout) : layout[t] < layout[s]}
<1>1. layout[s] \in PositionsOf(layout)
      BY DEF PositionsOf
<1>2. \A t \in PresentIn(layout) : layout[t] \in Nat
      BY PresentPositions
<1>3. {layout[t] : t \in S} = 0 .. layout[s] - 1
  <2>1. ASSUME NEW p \in 0 .. layout[s] - 1 PROVE p \in {layout[t] : t \in S}
    <3>1. p \in PositionsOf(layout)
          BY <1>1, <1>2, StepsAreFinite DEF Contiguous, PresentIn
    <3> QED BY <1>2, <3>1 DEF PositionsOf
  <2>2. ASSUME NEW t \in S PROVE layout[t] \in 0 .. layout[s] - 1
        BY <1>2
  <2> QED BY <2>1, <2>2
<1>4. Cardinality(0 .. layout[s] - 1) = layout[s]
      BY <1>2, FS_Interval
<1> QED BY <1>3, <1>4, AsManyPositions DEF Contiguous

(* The index that deleteStep gives a step.                                 *)
LEMMA IndexAfter ==
    ASSUME NEW seen \in Layout, Contiguous(seen), NEW gone \in PresentIn(seen),
           NEW s \in PresentIn(seen) \ {gone}
    PROVE  IndexIn(seen, gone, s) = IF seen[s] < seen[gone] THEN seen[s] ELSE seen[s] - 1
<1> DEFINE S == {t \in PresentIn(seen) : seen[t] < seen[s]}
<1>1. Cardinality(S) = seen[s]
      BY StepsBefore
<1>2. IsFiniteSet(S)
      BY StepsAreFinite DEF PresentIn
<1>3. {t \in PresentIn(seen) \ {gone} : seen[t] < seen[s]} = S \ {gone}
      OBVIOUS
<1>4. seen[s] # seen[gone]
      BY DEF Contiguous, Distinct
<1>5. seen[s] \in Int /\ seen[gone] \in Int
      BY PresentPositions
<1>6. gone \in S <=> ~(seen[s] < seen[gone])
      BY <1>4, <1>5
<1>7. Cardinality(S \ {gone}) = IF gone \in S THEN Cardinality(S) - 1 ELSE Cardinality(S)
      BY <1>2, FS_RemoveElement
<1> QED BY <1>1, <1>3, <1>6, <1>7 DEF IndexIn

LEMMA NothingContiguous == Nothing \in Layout /\ Contiguous(Nothing)
<1>1. PresentIn(Nothing) = {} /\ PositionsOf(Nothing) = {}
      BY DEF PresentIn, PositionsOf, Nothing
<1>2. Cardinality(PresentIn(Nothing)) = 0
      BY <1>1, FS_EmptySet
<1>3. Nothing \in Layout
      BY MaxStepsNat DEF Nothing, Layout, Absent
<1> QED BY <1>1, <1>2, <1>3 DEF Contiguous, Distinct

LEMMA CreatedContiguous ==
    ASSUME NEW n \in 1 .. MaxSteps, NEW layout,
           layout = [s \in Steps |-> IF s <= n THEN s - 1 ELSE Absent]
    PROVE  layout \in Layout /\ Contiguous(layout)
<1>1. layout \in Layout
      BY MaxStepsNat DEF Layout, Steps, Absent
<1>2. PresentIn(layout) = 1 .. n
      BY MaxStepsNat DEF PresentIn, Steps, Absent
<1>3. \A s \in 1 .. n : layout[s] = s - 1
      BY MaxStepsNat DEF Steps
<1>4. PositionsOf(layout) = 0 .. n - 1
  <2>1. ASSUME NEW p \in 0 .. n - 1 PROVE p \in PositionsOf(layout)
    <3>1. p + 1 \in 1 .. n /\ p = (p + 1) - 1
          BY <2>1
    <3> QED BY <1>2, <1>3, <3>1 DEF PositionsOf
  <2> QED BY <1>2, <1>3, <2>1 DEF PositionsOf
<1>5. Cardinality(PresentIn(layout)) = n
      BY <1>2, FS_Interval
<1> QED BY <1>1, <1>2, <1>3, <1>4, <1>5 DEF Contiguous, Distinct

LEMMA AddedContiguous ==
    ASSUME NEW layout \in Layout, Contiguous(layout), NEW u \in Steps, layout[u] = Absent,
           NEW new \in Layout,
           new = [layout EXCEPT ![u] = Cardinality(PresentIn(layout))]
    PROVE  Contiguous(new)
<1> DEFINE known == PresentIn(layout)
           n == Cardinality(known)
<1>1. n \in Nat /\ IsFiniteSet(known)
      BY StepsAreFinite DEF PresentIn
<1>2. new[u] = n /\ \A s \in Steps \ {u} : new[s] = layout[s]
      BY DEF Layout
<1>3. PresentIn(new) = known \cup {u} /\ u \notin known
      BY <1>1, <1>2 DEF PresentIn, Absent
<1>4. Cardinality(PresentIn(new)) = n + 1
      BY <1>1, <1>3, FS_AddElement
<1>5. \A s \in known : new[s] = layout[s] /\ layout[s] \in 0 .. n - 1
      BY <1>2, <1>3 DEF PresentIn, Contiguous, PositionsOf
<1>6. PositionsOf(layout) = 0 .. n - 1 /\ Distinct(layout)
      BY DEF Contiguous
<1> HIDE DEF n
<1>7. PositionsOf(new) = 0 .. n
  <2>1. PositionsOf(new) = PositionsOf(layout) \cup {n}
    <3>1. \A k \in known : new[k] = layout[k] /\ k \in PresentIn(new)
          BY <1>3, <1>5
    <3>2. n \in PositionsOf(new)
          BY <1>2, <1>3 DEF PositionsOf
    <3>3. \A p \in PositionsOf(layout) : p \in PositionsOf(new)
          BY <3>1 DEF PositionsOf
    <3>4. \A k \in known \cup {u} : new[k] \in PositionsOf(layout) \cup {n}
          BY <1>2, <3>1 DEF PositionsOf
    <3>5. \A p \in PositionsOf(new) : p \in PositionsOf(layout) \cup {n}
          BY <1>3, <3>4 DEF PositionsOf
    <3> QED BY <3>2, <3>3, <3>5
  <2>2. (0 .. n - 1) \cup {n} = 0 .. n
        BY <1>1
  <2> QED BY <1>6, <2>1, <2>2
<1>8. Distinct(new)
  <2> SUFFICES ASSUME NEW s \in known \cup {u}, NEW t \in known \cup {u}, new[s] = new[t]
               PROVE  s = t
      BY <1>3 DEF Distinct
  <2>1. \A k \in known : new[k] # n
        BY <1>1, <1>5
  <2> QED BY <1>2, <1>5, <1>6, <2>1 DEF Distinct
<1>9. Cardinality(PresentIn(new)) - 1 = n
      BY <1>1, <1>4
<1> QED BY <1>4, <1>7, <1>8, <1>9 DEF Contiguous

(* deleteStep, whatever it has read.                                       *)
LEMMA ResequencedType ==
    ASSUME NEW seen \in Layout, NEW gone \in Steps, position \in Layout
    PROVE  Resequenced(seen, gone) \in Layout
<1>1. \A s : IndexIn(seen, gone, s) \in 0 .. MaxSteps
      BY StepsAreFinite DEF IndexIn, PresentIn
<1> QED BY <1>1, MaxStepsNat DEF Resequenced, Layout, Absent

(* The positions that deleteStep writes if what it has read is current.    *)
LEMMA ResequencedPositions ==
    ASSUME position \in Layout, Contiguous(position), NEW gone \in PresentIn(position),
           NEW new, new = Resequenced(position, gone)
    PROVE  /\ PresentIn(new) = PresentIn(position) \ {gone}
           /\ \A s \in PresentIn(new) :
                 new[s] = IF position[s] < position[gone] THEN position[s]
                                                          ELSE position[s] - 1
<1>1. \A s \in Steps : new[s] = CASE s = gone -> Absent
                               [] s # gone /\ position[s] # Absent -> IndexIn(position, gone, s)
                               [] OTHER -> position[s]
      BY DEF Resequenced
<1>2. new[gone] = Absent
      BY <1>1 DEF PresentIn
<1>3. \A s \in PresentIn(position) \ {gone} :
         new[s] = IF position[s] < position[gone] THEN position[s] ELSE position[s] - 1
      BY <1>1, IndexAfter DEF PresentIn
<1>4. \A s \in PresentIn(position) \ {gone} : new[s] # Absent
  <2> SUFFICES ASSUME NEW s \in PresentIn(position) \ {gone} PROVE new[s] # Absent
      OBVIOUS
  <2>1. position[s] \in Nat /\ position[gone] \in Nat /\ position[s] # position[gone]
        BY PresentPositions DEF Contiguous, Distinct
  <2> QED BY <1>3, <2>1 DEF Absent
<1>5. \A s \in Steps \ PresentIn(position) : new[s] = Absent
      BY <1>1, <1>2 DEF PresentIn
<1>6. PresentIn(new) = PresentIn(position) \ {gone}
      BY <1>2, <1>4, <1>5 DEF PresentIn
<1> QED BY <1>3, <1>6

LEMMA DeletedContiguous ==
    ASSUME position \in Layout, Contiguous(position), NEW gone \in PresentIn(position),
           NEW new, new = Resequenced(position, gone)
    PROVE  Contiguous(new)
<1> DEFINE n == Cardinality(PresentIn(position))
           g == position[gone]
<1>1. /\ PresentIn(new) = PresentIn(position) \ {gone}
      /\ \A s \in PresentIn(new) :
            new[s] = IF position[s] < g THEN position[s] ELSE position[s] - 1
      BY ResequencedPositions
<1>2. n \in Nat /\ IsFiniteSet(PresentIn(position))
      BY StepsAreFinite DEF PresentIn
<1>3. Cardinality(PresentIn(new)) = n - 1
      BY <1>1, <1>2, FS_RemoveElement
<1>4. \A s \in PresentIn(position) : position[s] \in 0 .. n - 1
      BY DEF Contiguous, PositionsOf
<1>5. \A s \in PresentIn(new) : position[s] # g
      BY <1>1 DEF Contiguous, Distinct
<1>6. Distinct(new)
  <2> SUFFICES ASSUME NEW s \in PresentIn(new), NEW t \in PresentIn(new), new[s] = new[t]
               PROVE  s = t
      BY DEF Distinct
  <2>1. position[s] = position[t]
        BY <1>1, <1>2, <1>4, <1>5
  <2> QED BY <1>1, <2>1 DEF Contiguous, Distinct
<1>7. ASSUME NEW p \in 0 .. n - 2 PROVE p \in PositionsOf(new)
  <2> DEFINE p0 == IF p < g THEN p ELSE p + 1
  <2>1. g \in 0 .. n - 1
        BY <1>4
  <2>2. p0 \in 0 .. n - 1 /\ p0 # g
        BY <1>2, <2>1
  <2>3. PICK s \in PresentIn(position) : position[s] = p0
        BY <2>2 DEF Contiguous, PositionsOf
  <2>4. s \in PresentIn(new)
        BY <1>1, <2>2, <2>3
  <2>5. new[s] = p
        BY <1>1, <1>2, <2>1, <2>3, <2>4
  <2> QED BY <2>4, <2>5 DEF PositionsOf
<1>8. ASSUME NEW s \in PresentIn(new) PROVE new[s] \in 0 .. n - 2
  <2>1. position[s] \in 0 .. n - 1 /\ g \in 0 .. n - 1 /\ position[s] # g
        BY <1>1, <1>4, <1>5
  <2> QED BY <1>1, <1>2, <2>1
<1>9. PositionsOf(new) = 0 .. n - 2
      BY <1>7, <1>8 DEF PositionsOf
<1> QED BY <1>2, <1>3, <1>6, <1>9 DEF Contiguous

-----------------------------------------------------------------------------
(* Types *)

LEMMA JobKinds ==
    ASSUME NEW x \in {Idle} \cup AddJobs \cup DeleteJobs
    PROVE  /\ x.do = "add" <=> x \in AddJobs
           /\ x.do = "delete" <=> x \in DeleteJobs
<1>1. CASE x = Idle
      BY <1>1 DEF Idle, AddJobs, DeleteJobs
<1>2. CASE x \in AddJobs
      BY <1>2 DEF AddJobs, DeleteJobs
<1>3. CASE x \in DeleteJobs
      BY <1>3 DEF AddJobs, DeleteJobs
<1> QED BY <1>1, <1>2, <1>3

(* What AddInsert and DeleteCommit do to the table zap_steps.              *)
LEMMA AddInsertEffect ==
    ASSUME TypeOK, NEW q \in Requests, AddInsert(q)
    PROVE  /\ request[q] \in AddJobs
           /\ created + 1 \in Steps
           /\ request[q].to \in 0 .. MaxSteps
           /\ position' = [position EXCEPT ![created + 1] = request[q].to]
           /\ position' \in Layout
           /\ triggers' \in SUBSET Steps
<1>1. request[q] \in AddJobs
      BY JobKinds DEF AddInsert, TypeOK
<1>2. created + 1 \in Steps
      BY MaxStepsNat DEF AddInsert, TypeOK, Steps
<1>3. request[q].to \in 0 .. MaxSteps
      BY <1>1 DEF AddJobs
<1>4. position' = [position EXCEPT ![created + 1] = request[q].to]
      BY DEF AddInsert
<1>5. position' \in Layout
      BY <1>2, <1>3, <1>4, MaxStepsNat DEF TypeOK, Layout, Absent
<1>6. triggers' \in SUBSET Steps
      BY <1>2 DEF AddInsert, TypeOK
<1> QED BY <1>1, <1>2, <1>3, <1>4, <1>5, <1>6

LEMMA DeleteCommitEffect ==
    ASSUME TypeOK, NEW q \in Requests, DeleteCommit(q)
    PROVE  /\ request[q] \in DeleteJobs
           /\ request[q].step \in Steps /\ request[q].seen \in Layout
           /\ position[request[q].step] # Absent
           /\ ~Referenced(request[q].step)
           /\ position' = Resequenced(request[q].seen, request[q].step)
           /\ position' \in Layout
<1>1. request[q] \in DeleteJobs
      BY JobKinds DEF DeleteCommit, TypeOK
<1>2. request[q].step \in Steps /\ request[q].seen \in Layout
      BY <1>1 DEF DeleteJobs
<1> QED BY <1>1, <1>2, ResequencedType DEF DeleteCommit, TypeOK

LEMMA InitTypes == Init => TypeOK
<1> SUFFICES ASSUME Init PROVE TypeOK
    OBVIOUS
<1>1. 0 \in 0 .. MaxSteps /\ 0 \in 0 .. MaxSteps + 1
      BY MaxStepsNat
<1>2. position \in Layout /\ snapshot \in [Runs -> Layout]
      BY NothingContiguous DEF Init
<1>3. request \in [Requests -> {Idle} \cup AddJobs \cup DeleteJobs]
      BY DEF Init
<1>4. triggers \in SUBSET Steps /\ overlapped \in BOOLEAN
      BY DEF Init
<1> QED BY <1>1, <1>2, <1>3, <1>4 DEF Init, TypeOK

LEMMA EndType ==
    ASSUME TypeOK, NEW q \in Requests, End(q)
    PROVE  request' \in [Requests -> {Idle} \cup AddJobs \cup DeleteJobs]
BY DEF TypeOK, End

LEMMA EditType ==
    ASSUME TypeOK, NEW q \in Requests, Edit(q)
    PROVE  TypeOK'
<1>1. ASSUME NEW job \in AddJobs \cup DeleteJobs, Start(q, job) PROVE TypeOK'
  <2>1. request' \in [Requests -> {Idle} \cup AddJobs \cup DeleteJobs]
        BY <1>1 DEF Start, TypeOK
  <2> QED BY <1>1, <2>1 DEF Start, TypeOK, zapTables, runTables, handler
<1>2. CASE AddRead(q)
  <2>1. PICK trigger \in BOOLEAN, to \in 0 .. MaxSteps :
           Start(q, [do |-> "add", trigger |-> trigger, to |-> to])
        BY <1>2 DEF AddRead
  <2>2. [do |-> "add", trigger |-> trigger, to |-> to] \in AddJobs
        BY DEF AddJobs
  <2> QED BY <1>1, <2>1, <2>2
<1>3. CASE DeleteRead(q)
  <2>1. PICK s \in PresentIn(position) :
           Start(q, [do |-> "delete", step |-> s, seen |-> position])
        BY <1>3 DEF DeleteRead
  <2>2. [do |-> "delete", step |-> s, seen |-> position] \in DeleteJobs
        BY DEF DeleteJobs, PresentIn, TypeOK
  <2> QED BY <1>1, <2>1, <2>2
<1>4. CASE AddInsert(q)
  <2>1. created' \in 0 .. MaxSteps
        BY <1>4, MaxStepsNat DEF AddInsert, TypeOK
  <2>2. overlapped' \in BOOLEAN /\ request' \in [Requests -> {Idle} \cup AddJobs \cup DeleteJobs]
        BY <1>4, EndType DEF AddInsert, Commit, TypeOK
  <2> QED BY <1>4, <2>1, <2>2, AddInsertEffect DEF AddInsert, TypeOK, runTables, handler
<1>5. CASE DeleteCommit(q)
  <2>1. overlapped' \in BOOLEAN /\ request' \in [Requests -> {Idle} \cup AddJobs \cup DeleteJobs]
        BY <1>5, EndType DEF DeleteCommit, Commit, TypeOK
  <2> QED BY <1>5, <2>1, DeleteCommitEffect DEF DeleteCommit, TypeOK, runTables, handler
<1>6. CASE Reject(q)
      BY <1>6, EndType DEF Reject, TypeOK, zapTables, runTables, handler
<1> QED BY <1>2, <1>3, <1>4, <1>5, <1>6 DEF Edit

(* The label a handler goes to.                                            *)
LEMMA GotoType ==
    ASSUME TypeOK, NEW r \in Runs, NEW label \in {"idle", "resume", "claim", "execute", "fail"},
           Goto(r, label)
    PROVE  /\ phase' \in [Runs -> {"idle", "resume", "claim", "execute", "fail"}]
           /\ phase'[r] = label
           /\ \A q \in Runs \ {r} : phase'[q] = phase[q]
BY DEF TypeOK, Goto

LEMMA RunType ==
    ASSUME TypeOK, NEW r \in Runs, Ingest(r) \/ Handle(r) \/ Redeliver(r) \/ LoseHandler(r)
    PROVE  TypeOK'
<1>1. CASE Ingest(r)
      BY <1>1 DEF Ingest, TypeOK, zapTables, handler
<1>2. CASE StartRun(r)
      BY <1>2, GotoType DEF StartRun, TypeOK, zapTables
<1>3. CASE Redeliver(r)
      BY <1>3, GotoType DEF Redeliver, TypeOK, zapTables, runTables
<1>4. CASE ResumeRun(r)
      BY <1>4, GotoType DEF ResumeRun, TypeOK, zapTables, runTables
<1>5. CASE CompleteRun(r)
      BY <1>5, GotoType DEF CompleteRun, TypeOK, zapTables
<1>6. CASE ClaimStep(r)
  <2>1. row' \in [Runs -> [Steps -> {"none", "open", "completed"}]]
        BY <1>6 DEF ClaimStep, TypeOK, PresentIn
  <2>2. \E label \in {"idle", "execute", "fail"} : Goto(r, label)
        BY <1>6 DEF ClaimStep
  <2> QED BY <1>6, <2>1, <2>2, GotoType DEF ClaimStep, TypeOK, zapTables
<1>7. CASE ExecuteStep(r)
  <2>1. row' \in [Runs -> [Steps -> {"none", "open", "completed"}]]
    <3>1. PICK s \in Steps, status \in {"open", "completed"} :
             row' = [row EXCEPT ![r][s] = status]
          BY <1>7 DEF ExecuteStep, PresentIn
    <3> QED BY <3>1 DEF TypeOK
  <2>2. Goto(r, "claim") \/ Goto(r, "fail")
        BY <1>7 DEF ExecuteStep
  <2>3. at' \in [Runs -> 0 .. MaxSteps + 1]
    <3>1. PICK s \in PresentIn(snapshot[r]) : snapshot[r][s] = at[r]
          BY <1>7 DEF ExecuteStep
    <3>2. at[r] \in 0 .. MaxSteps
          BY <3>1, PresentPositions DEF TypeOK
    <3> QED BY <1>7, <3>2, MaxStepsNat DEF ExecuteStep, TypeOK
  <2> QED BY <1>7, <2>1, <2>2, <2>3, GotoType DEF ExecuteStep, TypeOK, zapTables
<1>8. CASE StopRun(r)
      BY <1>8, GotoType DEF StopRun, TypeOK, zapTables
<1>9. CASE LoseHandler(r)
      BY <1>9, GotoType DEF LoseHandler, TypeOK, zapTables, runTables
<1> QED BY <1>1, <1>2, <1>3, <1>4, <1>5, <1>6, <1>7, <1>8, <1>9 DEF Handle

LEMMA NextTypes == TypeOK /\ [Next]_vars => TypeOK'
<1> SUFFICES ASSUME TypeOK, [Next]_vars PROVE TypeOK'
    OBVIOUS
<1>1. CASE CreateZap
  <2>1. PICK n \in 1 .. MaxSteps :
           /\ created' = n
           /\ position' = [s \in Steps |-> IF s <= n THEN s - 1 ELSE Absent]
        BY <1>1 DEF CreateZap
  <2>2. position' \in Layout
        BY <2>1, CreatedContiguous
  <2>3. created' \in 0 .. MaxSteps /\ {1} \in SUBSET Steps
        BY <2>1, MaxStepsNat DEF Steps
  <2> QED BY <1>1, <2>2, <2>3 DEF CreateZap, TypeOK, runTables, handler
<1>2. CASE DeleteZap
      BY <1>2, NothingContiguous DEF DeleteZap, TypeOK, runTables, handler
<1>3. CASE UNCHANGED vars
      BY <1>3 DEF vars, TypeOK
<1> QED BY <1>1, <1>2, <1>3, EditType, RunType DEF Next

(* Layouts, snapshots, rows and requests keep their types.                 *)
THEOREM TypeCorrect == Spec => []TypeOK
BY InitTypes, NextTypes, PTL DEF Spec

-----------------------------------------------------------------------------
(* Triggers *)

(* In every layout, also in one that a request has read a while ago, the   *)
(* steps are among those created and a trigger is first.  A request that   *)
(* adds a trigger adds it at position 0.                                   *)
Sound(layout) ==
    /\ \A s \in PresentIn(layout) : s <= created
    /\ \A s \in triggers : layout[s] \in {0, Absent}

SoundRequest(q) ==
    /\ request[q] \in AddJobs => (request[q].trigger => request[q].to = 0)
    /\ request[q] \in DeleteJobs => Sound(request[q].seen)

TriggerInv ==
    /\ zap = "none" => \A q \in Requests : request[q] = Idle
    /\ \A s \in triggers : s <= created
    /\ Sound(position)
    /\ \A q \in Requests : SoundRequest(q)

(* Requests that a step leaves alone stay sound if it creates steps behind *)
(* those that were created, and of these new triggers only.                *)
LEMMA SoundStays ==
    ASSUME TypeOK, created' \in Nat, created <= created',
           \A s \in triggers' \ triggers : s \in Steps /\ created < s,
           NEW layout \in Layout, Sound(layout)
    PROVE  /\ \A s \in PresentIn(layout) : s <= created'
           /\ \A s \in triggers' : layout[s] \in {0, Absent}
<1>1. ASSUME NEW s \in PresentIn(layout) PROVE s <= created'
      BY <1>1, MaxStepsNat DEF Sound, TypeOK, PresentIn, Steps
<1>2. ASSUME NEW s \in triggers' \ triggers PROVE layout[s] = Absent
  <2>1. s \notin PresentIn(layout)
        BY <1>2, MaxStepsNat DEF Sound, TypeOK, Steps
  <2> QED BY <1>2, <2>1 DEF PresentIn
<1> QED BY <1>1, <1>2 DEF Sound

LEMMA InitTrigger == Init => TriggerInv
<1>1. Init => PresentIn(Nothing) = {}
      BY DEF PresentIn, Nothing
<1>2. Idle \notin AddJobs /\ Idle \notin DeleteJobs
      BY DEF Idle, AddJobs, DeleteJobs
<1> QED BY <1>1, <1>2 DEF Init, TriggerInv, Sound, SoundRequest

(* A request that has ended, or has read just now.                         *)
LEMMA ReadIsSound ==
    ASSUME TypeOK, TriggerInv, NEW q \in Requests, AddRead(q) \/ DeleteRead(q)
    PROVE  TriggerInv'
<1>1. ASSUME NEW job \in AddJobs \cup DeleteJobs, Start(q, job),
             job \in AddJobs => (job.trigger => job.to = 0),
             job \in DeleteJobs => job.seen = position
      PROVE  TriggerInv'
  <2>1. /\ request'[q] = job
        /\ \A p \in Requests \ {q} : request'[p] = request[p]
        BY <1>1 DEF Start, TypeOK
  <2>2. UNCHANGED zapTables /\ zap # "none"
        BY <1>1 DEF Start
  <2>3. \A p \in Requests : SoundRequest(p)'
        BY <1>1, <2>1, <2>2 DEF TriggerInv, SoundRequest, Sound, zapTables
  <2> QED BY <2>2, <2>3 DEF TriggerInv, Sound, zapTables
<1>2. CASE AddRead(q)
  <2>1. PICK trigger \in BOOLEAN, to \in 0 .. MaxSteps :
           /\ Valid(trigger, to)
           /\ Start(q, [do |-> "add", trigger |-> trigger, to |-> to])
        BY <1>2 DEF AddRead
  <2> DEFINE job == [do |-> "add", trigger |-> trigger, to |-> to]
  <2>2. job \in AddJobs /\ job \notin DeleteJobs
        BY DEF AddJobs, DeleteJobs
  <2>3. job.trigger => job.to = 0
        BY <2>1 DEF Valid
  <2> QED BY <1>1, <2>1, <2>2, <2>3
<1>3. CASE DeleteRead(q)
  <2>1. PICK s \in PresentIn(position) :
           Start(q, [do |-> "delete", step |-> s, seen |-> position])
        BY <1>3 DEF DeleteRead
  <2> DEFINE job == [do |-> "delete", step |-> s, seen |-> position]
  <2>2. job \in DeleteJobs /\ job \notin AddJobs /\ job.seen = position
        BY DEF AddJobs, DeleteJobs, PresentIn, TypeOK
  <2> QED BY <1>1, <2>1, <2>2
<1> QED BY <1>2, <1>3

(* The other requests when q ends.                                         *)
LEMMA EndIsSound ==
    ASSUME TypeOK, TriggerInv, NEW q \in Requests, End(q),
           created' \in Nat, created <= created',
           \A s \in triggers' \ triggers : s \in Steps /\ created < s
    PROVE  \A p \in Requests : SoundRequest(p)'
<1> SUFFICES ASSUME NEW p \in Requests PROVE SoundRequest(p)'
    OBVIOUS
<1>1. CASE p = q
  <2>1. request'[p] = Idle
        BY <1>1 DEF End, TypeOK
  <2> QED BY <2>1 DEF SoundRequest, Idle, AddJobs, DeleteJobs
<1>2. CASE p # q
  <2>1. request'[p] = request[p] /\ SoundRequest(p)
        BY <1>2 DEF End, TypeOK, TriggerInv
  <2>2. CASE request[p] \in DeleteJobs
    <3>1. request[p].seen \in Layout /\ Sound(request[p].seen) /\ request[p] \notin AddJobs
          BY <2>1, <2>2 DEF SoundRequest, DeleteJobs, AddJobs
    <3> QED BY <2>1, <3>1, SoundStays DEF SoundRequest, Sound
  <2>3. CASE request[p] \notin DeleteJobs
        BY <2>1, <2>3 DEF SoundRequest
  <2> QED BY <2>2, <2>3
<1> QED BY <1>1, <1>2

LEMMA InsertIsSound ==
    ASSUME TypeOK, TriggerInv, NEW q \in Requests, AddInsert(q)
    PROVE  TriggerInv'
<1> DEFINE u == created + 1
<1>1. /\ created \in Nat /\ created' = u /\ u \in Steps /\ u > created
      /\ zap' = zap /\ zap = "live"
      /\ triggers' = IF request[q].trigger THEN triggers \cup {u} ELSE triggers
  <2>1. created \in Nat /\ u \in Steps /\ u > created
        BY AddInsertEffect DEF TypeOK
  <2>2. /\ created' = u /\ zap' = zap /\ zap = "live"
        /\ triggers' = IF request[q].trigger THEN triggers \cup {u} ELSE triggers
        BY DEF AddInsert
  <2> QED BY <2>1, <2>2
<1>2. /\ \A s \in Steps \ {u} : position'[s] = position[s]
      /\ position'[u] = request[q].to /\ position' \in Layout
      BY <1>1, AddInsertEffect DEF TypeOK, Layout
<1>3. \A s \in triggers' \ triggers : s = u /\ request[q].trigger
      BY <1>1
<1>4. \A p \in Requests : SoundRequest(p)'
      BY <1>1, <1>3, EndIsSound DEF AddInsert, Commit
<1>5. request[q].trigger => request[q].to = 0
      BY AddInsertEffect DEF TriggerInv, SoundRequest
<1>6. /\ \A s \in PresentIn(position) : s <= created'
      /\ \A s \in triggers' : position[s] \in {0, Absent}
  <2>1. position \in Layout /\ Sound(position)
        BY DEF TypeOK, TriggerInv
  <2> QED BY <1>1, <1>3, <2>1, SoundStays
<1>7. u \notin triggers
      BY <1>1 DEF TriggerInv
<1>8. \A s \in triggers' : s <= created'
      BY <1>1, <1>3, MaxStepsNat DEF TriggerInv, TypeOK, Steps
<1>9. Sound(position)'
  <2>1. ASSUME NEW s \in PresentIn(position') PROVE s <= created'
        BY <1>1, <1>2, <1>6, <2>1 DEF PresentIn
  <2>2. ASSUME NEW s \in triggers' PROVE position'[s] \in {0, Absent}
    <3>1. s \in Steps
          BY <2>2, AddInsertEffect
    <3>2. CASE s = u
          BY <1>2, <1>3, <1>5, <1>7, <2>2, <3>2
    <3>3. CASE s # u
          BY <1>2, <1>6, <2>2, <3>1, <3>3
    <3> QED BY <3>2, <3>3
  <2> QED BY <2>1, <2>2 DEF Sound
<1> QED BY <1>1, <1>4, <1>8, <1>9 DEF TriggerInv

(* A step that was read at position 0 stays there, or goes there.          *)
LEMMA FirstStaysFirst ==
    ASSUME NEW seen \in Layout, NEW gone \in Steps, NEW s \in Steps, seen[s] = 0
    PROVE  IndexIn(seen, gone, s) = 0
<1>1. {t \in PresentIn(seen) \ {gone} : seen[t] < seen[s]} = {}
      BY PresentPositions
<1> QED BY <1>1, FS_EmptySet DEF IndexIn

(* What becomes of one step when deleteStep writes.                        *)
LEMMA ResequencedAt ==
    ASSUME NEW seen, NEW gone, NEW s \in Steps, NEW new, new = Resequenced(seen, gone)
    PROVE  \/ s = gone /\ new[s] = Absent
           \/ /\ s # gone /\ Absent \notin {position[s], seen[s]}
              /\ new[s] = IndexIn(seen, gone, s)
           \/ s # gone /\ Absent \in {position[s], seen[s]} /\ new[s] = position[s]
<1>1. CASE s = gone
      BY <1>1 DEF Resequenced
<1>2. CASE s # gone /\ Absent \notin {position[s], seen[s]}
      BY <1>2 DEF Resequenced
<1>3. CASE s # gone /\ Absent \in {position[s], seen[s]}
      BY <1>3 DEF Resequenced
<1> QED BY <1>1, <1>2, <1>3

LEMMA DeleteIsSound ==
    ASSUME TypeOK, TriggerInv, NEW q \in Requests, DeleteCommit(q)
    PROVE  TriggerInv'
<1> DEFINE seen == request[q].seen
           gone == request[q].step
<1>1. /\ created' = created /\ triggers' = triggers /\ zap' = zap
      /\ End(q) /\ created \in Nat
      BY DEF DeleteCommit, Commit, TypeOK
<1>2. /\ gone \in Steps /\ seen \in Layout /\ Sound(seen)
      /\ position' = Resequenced(seen, gone) /\ position' \in Layout
      /\ position[gone] # Absent
      BY DeleteCommitEffect DEF TriggerInv, SoundRequest
<1>3. \A p \in Requests : SoundRequest(p)'
      BY <1>1, EndIsSound
<1>4. zap # "none"
  <2>1. request[q] # Idle
        BY JobKinds DEF DeleteCommit, Idle
  <2> QED BY <2>1 DEF TriggerInv
<1>5. ASSUME NEW s \in PresentIn(position') PROVE s <= created
  <2>1. s \in Steps /\ position'[s] # Absent
        BY DEF PresentIn
  <2>2. s \in PresentIn(position)
        BY <1>2, <2>1, ResequencedAt DEF PresentIn
  <2> QED BY <2>2 DEF TriggerInv, Sound
<1>6. ASSUME NEW s \in triggers PROVE position'[s] \in {0, Absent}
  <2>1. s \in Steps /\ position[s] \in {0, Absent} /\ seen[s] \in {0, Absent}
        BY <1>2 DEF TypeOK, TriggerInv, Sound
  <2>2. seen[s] = 0 => IndexIn(seen, gone, s) = 0
        BY <1>2, <2>1, FirstStaysFirst
  <2> QED BY <1>2, <2>1, <2>2, ResequencedAt
<1>7. Sound(position)'
      BY <1>1, <1>5, <1>6 DEF Sound
<1> QED BY <1>1, <1>3, <1>4, <1>7 DEF TriggerInv

LEMMA NextTrigger == TypeOK /\ TriggerInv /\ [Next]_vars => TriggerInv'
<1> SUFFICES ASSUME TypeOK, TriggerInv, [Next]_vars PROVE TriggerInv'
    OBVIOUS
<1>1. CASE CreateZap
  <2>1. \A q \in Requests : request'[q] = Idle
        BY <1>1 DEF CreateZap, TriggerInv
  <2>2. \A q \in Requests : SoundRequest(q)'
        BY <2>1 DEF SoundRequest, Idle, AddJobs, DeleteJobs
  <2>3. PICK n \in 1 .. MaxSteps :
           /\ created' = n
           /\ position' = [s \in Steps |-> IF s <= n THEN s - 1 ELSE Absent]
        BY <1>1 DEF CreateZap
  <2>4. triggers' = {1} /\ 1 \in Steps
        BY <1>1, MaxStepsNat DEF CreateZap, Steps
  <2>5. \A s \in PresentIn(position') : s <= created'
        BY <2>3 DEF PresentIn
  <2>6. position'[1] = 0 /\ 1 <= created'
        BY <2>3, <2>4
  <2> QED BY <2>1, <2>2, <2>4, <2>5, <2>6 DEF TriggerInv, Sound
<1>2. CASE DeleteZap
  <2>1. /\ position' = Nothing /\ zap' = "deleted"
        /\ UNCHANGED <<created, triggers, request>>
        BY <1>2 DEF DeleteZap
  <2>2. \A s \in Steps : Nothing[s] = Absent
        BY DEF Nothing
  <2>3. Sound(position)'
        BY <2>1, <2>2 DEF Sound, PresentIn, TypeOK
  <2> QED BY <2>1, <2>3 DEF TriggerInv, SoundRequest, Sound
<1>3. ASSUME NEW q \in Requests, Edit(q) PROVE TriggerInv'
  <2>1. CASE Reject(q)
    <3>1. UNCHANGED zapTables /\ End(q) /\ request[q] # Idle /\ created \in Nat
          BY <2>1 DEF Reject, TypeOK
    <3>2. \A p \in Requests : SoundRequest(p)'
          BY <3>1, EndIsSound DEF zapTables
    <3> QED BY <3>1, <3>2 DEF TriggerInv, Sound, zapTables
  <2> QED BY <1>3, <2>1, ReadIsSound, InsertIsSound, DeleteIsSound DEF Edit
<1>4. CASE \/ UNCHANGED vars
           \/ \E r \in Runs : Ingest(r) \/ Handle(r) \/ Redeliver(r) \/ LoseHandler(r)
  <2>1. UNCHANGED <<zapTables, request>>
        BY <1>4 DEF vars, zapTables, Handle, Ingest, StartRun, ResumeRun, CompleteRun,
                    ClaimStep, ExecuteStep, StopRun, Redeliver, LoseHandler
  <2> QED BY <2>1 DEF zapTables, TriggerInv, Sound, SoundRequest
<1> QED BY <1>1, <1>2, <1>3, <1>4 DEF Next

(* Whatever requests interleave, validateZapSteps and the unique index     *)
(* keep the trigger of a zap first.                                        *)
THEOREM TriggerIsFirst == Spec => []TriggerFirst
<1>1. TriggerInv => TriggerFirst
      BY DEF TriggerInv, Sound, TriggerFirst
<1> QED BY <1>1, InitTypes, NextTypes, InitTrigger, NextTrigger, PTL DEF Spec

-----------------------------------------------------------------------------
(* Positions, unless requests overlapped *)

(* What a request has read is still so.                                    *)
Fresh(q) ==
    /\ request[q] \in AddJobs => request[q].to = Cardinality(PresentIn(position))
    /\ request[q] \in DeleteJobs => request[q].seen = position

LayoutInv ==
    /\ Contiguous(position)
    /\ zap # "live" => position = Nothing
    /\ zap = "live" => \A q \in Requests : Fresh(q)

(* validateZapSteps accepts a step at the end only.                        *)
LEMMA ValidIsNext ==
    ASSUME TypeOK, Contiguous(position), NEW trigger, NEW to, Valid(trigger, to)
    PROVE  to = Cardinality(PresentIn(position))
<1> DEFINE n == Cardinality(PresentIn(position))
<1>1. n \in Nat
      BY StepsAreFinite DEF PresentIn
<1>2. PositionsOf(position) = 0 .. n - 1 /\ PositionsOf(position) \cup {to} = 0 .. n
      BY DEF Contiguous, Valid
<1>3. n \in 0 .. n /\ n \notin 0 .. n - 1
      BY <1>1
<1> QED BY <1>2, <1>3

(* A request that writes without having overlapped is alone.               *)
LEMMA CommitAlone ==
    ASSUME TypeOK, NEW q \in Requests, Commit(q), ~overlapped'
    PROVE  ~overlapped /\ \A p \in Requests : Fresh(p)'
<1>1. ~overlapped /\ \A p \in Requests \ {q} : request[p] = Idle
      BY DEF Commit
<1>2. \A p \in Requests : request'[p] = Idle
      BY <1>1 DEF Commit, End, TypeOK
<1>3. Idle \notin AddJobs /\ Idle \notin DeleteJobs
      BY DEF Idle, AddJobs, DeleteJobs
<1> QED BY <1>1, <1>2, <1>3 DEF Fresh

LEMMA ReadIsFresh ==
    ASSUME TypeOK, LayoutInv, NEW q \in Requests, AddRead(q) \/ DeleteRead(q)
    PROVE  LayoutInv'
<1>1. ASSUME NEW job, Start(q, job),
             job \in AddJobs => job.to = Cardinality(PresentIn(position)),
             job \in DeleteJobs => job.seen = position
      PROVE  LayoutInv'
  <2>1. /\ request'[q] = job
        /\ \A p \in Requests \ {q} : request'[p] = request[p]
        BY <1>1 DEF Start, TypeOK
  <2>2. UNCHANGED <<zap, position>>
        BY <1>1 DEF Start, zapTables
  <2>3. zap = "live"
        BY <1>1 DEF Start
  <2>4. \A p \in Requests : Fresh(p)'
        BY <1>1, <2>1, <2>2, <2>3 DEF LayoutInv, Fresh, PresentIn
  <2>5. Contiguous(position)'
        BY <2>2 DEF LayoutInv
  <2> QED BY <2>2, <2>3, <2>4, <2>5 DEF LayoutInv
<1>2. CASE AddRead(q)
  <2>1. PICK trigger \in BOOLEAN, to \in 0 .. MaxSteps :
           /\ Valid(trigger, to)
           /\ Start(q, [do |-> "add", trigger |-> trigger, to |-> to])
        BY <1>2 DEF AddRead
  <2> DEFINE job == [do |-> "add", trigger |-> trigger, to |-> to]
  <2>2. job \notin DeleteJobs
        BY DEF DeleteJobs
  <2>3. job.to = Cardinality(PresentIn(position))
        BY <2>1, ValidIsNext DEF LayoutInv
  <2> QED BY <1>1, <2>1, <2>2, <2>3
<1>3. CASE DeleteRead(q)
  <2>1. PICK s \in PresentIn(position) :
           Start(q, [do |-> "delete", step |-> s, seen |-> position])
        BY <1>3 DEF DeleteRead
  <2> DEFINE job == [do |-> "delete", step |-> s, seen |-> position]
  <2>2. job \notin AddJobs /\ job.seen = position
        BY DEF AddJobs
  <2> QED BY <1>1, <2>1, <2>2
<1> QED BY <1>2, <1>3

LEMMA NextLayout ==
    ASSUME TypeOK, TriggerInv, [Next]_vars, overlapped \/ LayoutInv
    PROVE  overlapped' \/ LayoutInv'
<1> SUFFICES ASSUME ~overlapped' PROVE LayoutInv'
    OBVIOUS
<1>1. CASE CreateZap
  <2>1. ~overlapped /\ \A q \in Requests : request'[q] = Idle
        BY <1>1 DEF CreateZap, TriggerInv
  <2>2. \A q \in Requests : Fresh(q)'
        BY <2>1 DEF Fresh, Idle, AddJobs, DeleteJobs
  <2>3. Contiguous(position')
        BY <1>1, CreatedContiguous DEF CreateZap
  <2> QED BY <1>1, <2>2, <2>3 DEF LayoutInv, CreateZap
<1>2. CASE DeleteZap
      BY <1>2, NothingContiguous DEF DeleteZap, LayoutInv
<1>3. ASSUME NEW q \in Requests, AddInsert(q) PROVE LayoutInv'
  <2>1. LayoutInv /\ \A p \in Requests : Fresh(p)'
        BY <1>3, CommitAlone DEF AddInsert
  <2>2. zap = "live" /\ zap' = zap
        BY <1>3 DEF AddInsert
  <2>3. /\ created + 1 \in Steps /\ position \in Layout /\ position' \in Layout
        /\ position' = [position EXCEPT ![created + 1] = Cardinality(PresentIn(position))]
        BY <1>3, <2>1, <2>2, AddInsertEffect DEF LayoutInv, Fresh, TypeOK
  <2>4. position[created + 1] = Absent
        BY <2>3 DEF TriggerInv, Sound, PresentIn, TypeOK
  <2>5. Contiguous(position')
        BY <2>1, <2>3, <2>4, AddedContiguous DEF LayoutInv
  <2> QED BY <2>1, <2>2, <2>5 DEF LayoutInv
<1>4. ASSUME NEW q \in Requests, DeleteCommit(q) PROVE LayoutInv'
  <2>1. LayoutInv /\ \A p \in Requests : Fresh(p)'
        BY <1>4, CommitAlone DEF DeleteCommit
  <2>2. zap' = zap /\ zap = "live"
    <3>1. Nothing[request[q].step] = Absent
          BY <1>4, DeleteCommitEffect DEF Nothing
    <3> QED BY <1>4, <2>1, <3>1, DeleteCommitEffect DEF DeleteCommit, LayoutInv
  <2>3. request[q].seen = position
        BY <1>4, <2>1, <2>2, DeleteCommitEffect DEF LayoutInv, Fresh
  <2>4. request[q].step \in PresentIn(position) /\ position \in Layout
        BY <1>4, DeleteCommitEffect DEF PresentIn, TypeOK
  <2>5. Contiguous(position')
        BY <1>4, <2>1, <2>3, <2>4, DeleteCommitEffect, DeletedContiguous DEF LayoutInv
  <2> QED BY <2>1, <2>2, <2>5 DEF LayoutInv
<1>5. ASSUME NEW q \in Requests, AddRead(q) \/ DeleteRead(q) PROVE LayoutInv'
  <2>1. overlapped' = overlapped
        BY <1>5 DEF AddRead, DeleteRead, Start
  <2> QED BY <1>5, <2>1, ReadIsFresh
<1>6. ASSUME NEW q \in Requests, Reject(q) PROVE LayoutInv'
  <2>1. LayoutInv /\ UNCHANGED <<zap, position>>
        BY <1>6 DEF Reject, zapTables
  <2>2. \A p \in Requests : request'[p] \in {request[p], Idle}
        BY <1>6 DEF Reject, End, TypeOK
  <2>3. Idle \notin AddJobs /\ Idle \notin DeleteJobs
        BY DEF Idle, AddJobs, DeleteJobs
  <2>4. zap = "live" => \A p \in Requests : Fresh(p)'
        BY <2>1, <2>2, <2>3 DEF LayoutInv, Fresh
  <2> QED BY <2>1, <2>4 DEF LayoutInv
<1>7. CASE \/ UNCHANGED vars
           \/ \E r \in Runs : Ingest(r) \/ Handle(r) \/ Redeliver(r) \/ LoseHandler(r)
  <2>1. UNCHANGED <<zap, position, request, overlapped>>
        BY <1>7 DEF vars, zapTables, Handle, Ingest, StartRun, ResumeRun, CompleteRun,
                    ClaimStep, ExecuteStep, StopRun, Redeliver, LoseHandler
  <2> QED BY <2>1 DEF LayoutInv, Fresh
<1> QED BY <1>1, <1>2, <1>3, <1>4, <1>5, <1>6, <1>7 DEF Next, Edit

LEMMA InitLayout == Init => LayoutInv
BY NothingContiguous DEF Init, LayoutInv

(* One request at a time leaves no gap (validateZapSteps, deleteStep).     *)
THEOREM NoGap == Spec => []StepsContiguous
<1>1. LayoutInv => StepsContiguous
      BY DEF LayoutInv, Contiguous, StepsContiguous
<1>2. overlapped => StepsContiguous
      BY DEF StepsContiguous
<1>3. Init => overlapped \/ LayoutInv
      BY InitLayout
<1>4. /\ TypeOK /\ TriggerInv /\ (overlapped \/ LayoutInv) /\ [Next]_vars
      => (overlapped \/ LayoutInv)'
      BY NextLayout
<1> QED BY <1>1, <1>2, <1>3, <1>4, InitTypes, NextTypes, InitTrigger, NextTrigger, PTL
        DEF Spec

-----------------------------------------------------------------------------
(* Runs *)

Waiting(r) == run[r] \in {"absent", "queued"}

(* A zap with runs is there; a run that waits has done nothing; a snapshot *)
(* holds steps that were created.                                          *)
StatusInv(r) ==
    /\ run[r] # "absent" => zap = "live"
    /\ phase[r] # "idle" => run[r] = "in_progress"
    /\ Waiting(r) => \A s \in Steps : row[r][s] = "none"
    /\ ~Waiting(r) => \A s \in PresentIn(snapshot[r]) : s <= created

(* Steps are where they were in the snapshot or nearer to the trigger, in  *)
(* the same order, and later steps are behind them.                        *)
OrderInv(r) ==
    ~Waiting(r) =>
        \A s \in PresentIn(snapshot[r]) \cap PresentIn(position), t \in PresentIn(position) :
            position[t] < position[s] =>
                t \in PresentIn(snapshot[r]) /\ snapshot[r][t] < snapshot[r][s]

(* What stands before position p in the snapshot was executed.             *)
Done(r, p) ==
    \A s \in PresentIn(snapshot[r]) : snapshot[r][s] < p => row[r][s] = "completed"

(* A step with a row has kept its position, and those before it are done.  *)
RowInv(r) ==
    \A s \in Steps : row[r][s] # "none" =>
        /\ s \in PresentIn(snapshot[r])
        /\ position[s] = snapshot[r][s]
        /\ Done(r, snapshot[r][s])

HandlerInv(r) ==
    /\ phase[r] \in {"claim", "execute"} => Done(r, at[r])
    /\ phase[r] = "execute" =>
          \A s \in PresentIn(snapshot[r]) : snapshot[r][s] = at[r] => row[r][s] = "open"

ProgressInv(r) ==
    /\ ~Waiting(r) => Contiguous(snapshot[r])
    /\ OrderInv(r)
    /\ RowInv(r)
    /\ HandlerInv(r)
    /\ run[r] = "completed" => \A s \in PresentIn(snapshot[r]) : row[r][s] = "completed"

LEMMA InitRuns == Init => \A r \in Runs : StatusInv(r) /\ ProgressInv(r)
BY DEF Init, StatusInv, Waiting, ProgressInv, OrderInv, RowInv, HandlerInv

(* Who does not handle run r leaves it alone.                              *)
LEMMA OtherRuns ==
    ASSUME TypeOK, NEW q \in Runs, NEW r \in Runs, q # r,
           Ingest(q) \/ Handle(q) \/ Redeliver(q) \/ LoseHandler(q)
    PROVE  /\ UNCHANGED <<zap, created, position, overlapped>>
           /\ run'[r] = run[r] /\ snapshot'[r] = snapshot[r] /\ row'[r] = row[r]
           /\ phase'[r] = phase[r] /\ at'[r] = at[r]
<1>1. CASE Ingest(q)
      BY <1>1 DEF Ingest, TypeOK, zapTables, handler
<1>2. CASE StartRun(q)
      BY <1>2, GotoType DEF StartRun, TypeOK, zapTables
<1>3. CASE Redeliver(q)
      BY <1>3, GotoType DEF Redeliver, TypeOK, zapTables, runTables
<1>4. CASE ResumeRun(q)
      BY <1>4, GotoType DEF ResumeRun, TypeOK, zapTables, runTables
<1>5. CASE CompleteRun(q)
      BY <1>5, GotoType DEF CompleteRun, TypeOK, zapTables
<1>6. CASE ClaimStep(q)
  <2>1. row'[r] = row[r]
        BY <1>6 DEF ClaimStep, TypeOK
  <2>2. \E label \in {"idle", "execute", "fail"} : Goto(q, label)
        BY <1>6 DEF ClaimStep
  <2> QED BY <1>6, <2>1, <2>2, GotoType DEF ClaimStep, zapTables
<1>7. CASE ExecuteStep(q)
  <2>1. row'[r] = row[r] /\ at'[r] = at[r]
        BY <1>7 DEF ExecuteStep, TypeOK
  <2>2. Goto(q, "claim") \/ Goto(q, "fail")
        BY <1>7 DEF ExecuteStep
  <2> QED BY <1>7, <2>1, <2>2, GotoType DEF ExecuteStep, zapTables
<1>8. CASE StopRun(q)
      BY <1>8, GotoType DEF StopRun, TypeOK, zapTables
<1>9. CASE LoseHandler(q)
      BY <1>9, GotoType DEF LoseHandler, zapTables, runTables
<1> QED BY <1>1, <1>2, <1>3, <1>4, <1>5, <1>6, <1>7, <1>8, <1>9 DEF Handle

LEMMA UntouchedRun ==
    ASSUME NEW r \in Runs, UNCHANGED <<zap, created, position>>,
           run'[r] = run[r], snapshot'[r] = snapshot[r], row'[r] = row[r],
           phase'[r] = phase[r], at'[r] = at[r]
    PROVE  /\ StatusInv(r) => StatusInv(r)'
           /\ ProgressInv(r) => ProgressInv(r)'
BY DEF StatusInv, ProgressInv, OrderInv, RowInv, HandlerInv, Done, Waiting

(* The handler of r itself: its status.                                    *)
LEMMA HandledStatus ==
    ASSUME TypeOK, TriggerInv, NEW r \in Runs, StatusInv(r),
           Ingest(r) \/ Handle(r) \/ Redeliver(r) \/ LoseHandler(r)
    PROVE  StatusInv(r)'
<1>1. CASE Ingest(r)
      BY <1>1 DEF Ingest, TypeOK, StatusInv, Waiting, zapTables, handler
<1>2. CASE StartRun(r)
  <2>1. snapshot'[r] = position /\ run'[r] = "in_progress" /\ UNCHANGED zapTables
        BY <1>2 DEF StartRun, TypeOK
  <2>2. zap = "live" /\ \A s \in PresentIn(position) : s <= created
        BY <1>2 DEF StartRun, StatusInv, TriggerInv, Sound
  <2> QED BY <2>1, <2>2 DEF StatusInv, Waiting, zapTables
<1>3. CASE Redeliver(r)
      BY <1>3, GotoType DEF Redeliver, StatusInv, Waiting, zapTables, runTables
<1>4. CASE ResumeRun(r) \/ LoseHandler(r)
      BY <1>4, GotoType DEF ResumeRun, LoseHandler, StatusInv, Waiting, zapTables, runTables
<1>5. CASE CompleteRun(r) \/ StopRun(r)
      BY <1>5, GotoType DEF CompleteRun, StopRun, TypeOK, StatusInv, Waiting, zapTables
<1>6. CASE ClaimStep(r) \/ ExecuteStep(r)
  <2>1. phase[r] # "idle" /\ UNCHANGED <<zapTables, run, snapshot>>
        BY <1>6 DEF ClaimStep, ExecuteStep
  <2> QED BY <2>1 DEF StatusInv, Waiting, zapTables
<1> QED BY <1>1, <1>2, <1>3, <1>4, <1>5, <1>6 DEF Handle

(* ClaimStep inserts a row only for a step that is where it was.           *)
LEMMA ClaimedInPlace ==
    ASSUME TypeOK, LayoutInv, NEW r \in Runs, ProgressInv(r), ~Waiting(r), Done(r, at[r]),
           NEW s \in PresentIn(snapshot[r]), snapshot[r][s] = at[r], position[s] # Absent
    PROVE  position[s] = at[r]
<1>1. /\ snapshot[r] \in Layout /\ position \in Layout
      /\ Contiguous(snapshot[r]) /\ Contiguous(position)
      BY DEF TypeOK, ProgressInv, LayoutInv
<1>2. s \in PresentIn(position) /\ position[s] \in Nat /\ at[r] \in Nat
      BY <1>1, PresentPositions DEF PresentIn
<1>3. ~(position[s] < at[r])
  <2> SUFFICES ASSUME position[s] < at[r] PROVE FALSE
      OBVIOUS
  <2>1. PICK u \in PresentIn(snapshot[r]) : snapshot[r][u] = position[s]
    <3>1. at[r] \in PositionsOf(snapshot[r])
          BY DEF PositionsOf
    <3>2. position[s] \in PositionsOf(snapshot[r])
          BY <1>1, <1>2, <3>1, StepsAreFinite DEF Contiguous, PresentIn
    <3> QED BY <3>2 DEF PositionsOf
  <2>2. row[r][u] = "completed" /\ u \in Steps
        BY <2>1 DEF Done, PresentIn
  <2>3. position[u] = snapshot[r][u]
        BY <2>2 DEF ProgressInv, RowInv
  <2>4. u = s
        BY <1>1, <1>2, <2>1, <2>2, <2>3, PresentPositions DEF Contiguous, Distinct, PresentIn
  <2> QED BY <1>2, <2>1, <2>4
<1>4. ~(at[r] < position[s])
  <2> SUFFICES ASSUME at[r] < position[s] PROVE FALSE
      OBVIOUS
  <2>1. PICK t \in PresentIn(position) : position[t] = at[r]
    <3>1. position[s] \in PositionsOf(position)
          BY <1>2 DEF PositionsOf
    <3>2. at[r] \in PositionsOf(position)
          BY <1>1, <1>2, <3>1, StepsAreFinite DEF Contiguous, PresentIn
    <3> QED BY <3>2 DEF PositionsOf
  <2>2. t \in PresentIn(snapshot[r]) /\ snapshot[r][t] < snapshot[r][s]
        BY <1>2, <2>1 DEF ProgressInv, OrderInv
  <2>3. row[r][t] = "completed" /\ t \in Steps
        BY <2>2 DEF Done, PresentIn
  <2>4. position[t] = snapshot[r][t]
        BY <2>3 DEF ProgressInv, RowInv
  <2> QED BY <1>2, <2>1, <2>2, <2>4
<1> QED BY <1>2, <1>3, <1>4

(* The handler writes the row of the step it is at: what was done stays.   *)
LEMMA RowWritten ==
    ASSUME TypeOK, NEW r \in Runs, ProgressInv(r), ~Waiting(r), Done(r, at[r]),
           NEW s \in PresentIn(snapshot[r]), snapshot[r][s] = at[r],
           position[s] = at[r], row[r][s] \in {"none", "open"},
           NEW status \in {"open", "completed"},
           row' = [row EXCEPT ![r][s] = status], UNCHANGED <<position, snapshot>>
    PROVE  /\ RowInv(r)'
           /\ \A p : Done(r, p) => Done(r, p)'
           /\ row'[r][s] = status
           /\ status = "completed" => \A p : p = at[r] + 1 => Done(r, p)'
<1>1. s \in Steps /\ snapshot[r] \in Layout /\ Contiguous(snapshot[r])
      BY DEF PresentIn, TypeOK, ProgressInv
<1>2. row'[r][s] = status /\ \A u \in Steps \ {s} : row'[r][u] = row[r][u]
      BY <1>1 DEF TypeOK
<1>3. ASSUME NEW p, Done(r, p) PROVE Done(r, p)'
  <2> SUFFICES ASSUME NEW u \in PresentIn(snapshot[r]), snapshot[r][u] < p
               PROVE  row'[r][u] = "completed"
      BY DEF Done
  <2>1. row[r][u] = "completed" /\ u \in Steps
        BY <1>3 DEF Done, PresentIn
  <2> QED BY <1>2, <2>1
<1>4. ASSUME NEW u \in Steps, row'[r][u] # "none"
      PROVE  /\ u \in PresentIn(snapshot[r])
             /\ position[u] = snapshot[r][u]
             /\ Done(r, snapshot[r][u])'
  <2>1. CASE u = s
        BY <1>3, <2>1
  <2>2. CASE u # s
        BY <1>2, <1>3, <1>4, <2>2 DEF ProgressInv, RowInv
  <2> QED BY <2>1, <2>2
<1>5. RowInv(r)'
      BY <1>4 DEF RowInv, Done
<1>6. ASSUME status = "completed", NEW p, p = at[r] + 1 PROVE Done(r, p)'
  <2> SUFFICES ASSUME NEW u \in PresentIn(snapshot[r]), snapshot[r][u] < p
               PROVE  row'[r][u] = "completed"
      BY DEF Done
  <2>1. u \in Steps /\ snapshot[r][u] \in Nat /\ at[r] \in Nat
        BY <1>1, PresentPositions DEF TypeOK
  <2>2. CASE snapshot[r][u] = at[r]
        BY <1>1, <1>2, <1>6, <2>2 DEF Contiguous, Distinct
  <2>3. CASE snapshot[r][u] < at[r]
    <3>1. row[r][u] = "completed"
          BY <2>3 DEF Done
    <3> QED BY <1>2, <2>1, <3>1
  <2> QED BY <1>6, <2>1, <2>2, <2>3
<1> QED BY <1>2, <1>3, <1>5, <1>6

(* The resumption of a run, by the positions of today.                     *)
LEMMA ResumedBehindDone ==
    ASSUME TypeOK, NEW r \in Runs, ProgressInv(r), ~Waiting(r), ResumeRun(r)
    PROVE  Done(r, at'[r])
<1> DEFINE completed == {position[s] : s \in {t \in Steps : row[r][t] = "completed"}}
<1>1. PICK p \in 0 .. MaxSteps + 1 : /\ p > 0 => p - 1 \in completed
                                    /\ at' = [at EXCEPT ![r] = p]
      BY DEF ResumeRun
<1>2. at'[r] = p
      BY <1>1 DEF TypeOK
<1>3. snapshot[r] \in Layout /\ Contiguous(snapshot[r])
      BY DEF TypeOK, ProgressInv
<1> SUFFICES ASSUME NEW s \in PresentIn(snapshot[r]), snapshot[r][s] < p
             PROVE  row[r][s] = "completed"
    BY <1>2 DEF Done
<1>4. snapshot[r][s] \in Nat
      BY <1>3, PresentPositions
<1>5. PICK c \in Steps : row[r][c] = "completed" /\ position[c] = p - 1
      BY <1>1, <1>4
<1>6. /\ c \in PresentIn(snapshot[r]) /\ snapshot[r][c] = p - 1
      /\ Done(r, snapshot[r][c])
      BY <1>5 DEF ProgressInv, RowInv
<1>7. CASE snapshot[r][s] < p - 1
      BY <1>6, <1>7 DEF Done
<1>8. CASE snapshot[r][s] = p - 1
      BY <1>3, <1>5, <1>6, <1>8 DEF Contiguous, Distinct
<1> QED BY <1>1, <1>4, <1>7, <1>8

(* Where a snapshot has no step, all its steps are behind.                 *)
LEMMA EndOfSnapshot ==
    ASSUME TypeOK, NEW r \in Runs, Contiguous(snapshot[r]), Done(r, at[r]),
           at[r] \notin PositionsOf(snapshot[r])
    PROVE  \A s \in PresentIn(snapshot[r]) : row[r][s] = "completed"
<1> SUFFICES ASSUME NEW s \in PresentIn(snapshot[r]) PROVE snapshot[r][s] < at[r]
    BY DEF Done
<1>1. snapshot[r][s] \in PositionsOf(snapshot[r])
      BY DEF PositionsOf
<1>2. Cardinality(PresentIn(snapshot[r])) \in Nat
      BY StepsAreFinite DEF PresentIn
<1> QED BY <1>1, <1>2 DEF Contiguous, TypeOK

LEMMA HandledProgress ==
    ASSUME TypeOK, LayoutInv, NEW r \in Runs, StatusInv(r), ProgressInv(r),
           Ingest(r) \/ Handle(r) \/ Redeliver(r) \/ LoseHandler(r)
    PROVE  ProgressInv(r)'
<1>1. CASE Ingest(r)
  <2>1. run'[r] = "queued" /\ phase[r] = "idle" /\ UNCHANGED <<position, snapshot, row, phase, at>>
        BY <1>1 DEF Ingest, TypeOK, StatusInv, zapTables, handler
  <2>2. \A s \in Steps : row[r][s] = "none"
        BY <1>1 DEF Ingest, StatusInv, Waiting
  <2> QED BY <2>1, <2>2 DEF ProgressInv, OrderInv, RowInv, HandlerInv, Waiting
<1>2. CASE StartRun(r)
  <2>1. /\ run'[r] = "in_progress" /\ snapshot'[r] = position
        /\ UNCHANGED <<position, row>>
        BY <1>2 DEF StartRun, TypeOK, zapTables
  <2>2. phase'[r] \in {"resume", "fail"}
        BY <1>2, GotoType DEF StartRun
  <2>3. \A s \in Steps : row[r][s] = "none"
        BY <1>2 DEF StartRun, StatusInv, Waiting
  <2> QED BY <2>1, <2>2, <2>3 DEF LayoutInv, ProgressInv, OrderInv, RowInv, HandlerInv
<1>3. CASE Redeliver(r) \/ LoseHandler(r)
  <2>1. phase'[r] \in {"idle", "resume", "fail"}
        BY <1>3, GotoType DEF Redeliver, LoseHandler
  <2>2. UNCHANGED <<position, run, snapshot, row>>
        BY <1>3 DEF Redeliver, LoseHandler, zapTables, runTables
  <2> QED BY <2>1, <2>2 DEF ProgressInv, OrderInv, RowInv, HandlerInv, Done, Waiting
<1>4. CASE ResumeRun(r)
  <2>1. phase'[r] = "claim" /\ UNCHANGED <<position, run, snapshot, row>>
        BY <1>4, GotoType DEF ResumeRun, zapTables, runTables
  <2>2. Done(r, at'[r])
        BY <1>4, ResumedBehindDone DEF ResumeRun, StatusInv, Waiting
  <2>3. HandlerInv(r)'
        BY <2>1, <2>2 DEF HandlerInv, Done
  <2> QED BY <2>1, <2>3 DEF ProgressInv, OrderInv, RowInv, Done, Waiting
<1>5. CASE CompleteRun(r) \/ StopRun(r)
  <2>1. /\ phase'[r] = "idle" /\ UNCHANGED <<position, snapshot, row>>
        /\ run'[r] \in {"completed", "stopped"}
        BY <1>5, GotoType DEF CompleteRun, StopRun, TypeOK, zapTables
  <2>2. ~Waiting(r)
        BY <1>5 DEF CompleteRun, StopRun, StatusInv, Waiting
  <2>3. run'[r] = "completed" => \A s \in PresentIn(snapshot[r]) : row[r][s] = "completed"
    <3>1. CASE CompleteRun(r)
          BY <2>2, <3>1, EndOfSnapshot DEF CompleteRun, ProgressInv, HandlerInv
    <3>2. CASE StopRun(r)
          BY <3>2 DEF StopRun, TypeOK
    <3> QED BY <1>5, <3>1, <3>2
  <2> QED BY <2>1, <2>2, <2>3 DEF ProgressInv, OrderInv, RowInv, HandlerInv, Done, Waiting
<1>6. ASSUME NEW s \in PresentIn(snapshot[r]), snapshot[r][s] = at[r], position[s] = at[r],
             row[r][s] \in {"none", "open"}, phase[r] \in {"claim", "execute"},
             NEW status \in {"open", "completed"},
             row' = [row EXCEPT ![r][s] = status], UNCHANGED <<position, snapshot, run>>,
             \/ phase'[r] = "fail"
             \/ phase'[r] = "execute" /\ status = "open" /\ at'[r] = at[r]
             \/ phase'[r] = "claim" /\ status = "completed" /\ at'[r] = at[r] + 1
      PROVE  ProgressInv(r)'
  <2>1. ~Waiting(r) /\ run[r] = "in_progress" /\ Done(r, at[r])
        BY <1>6 DEF StatusInv, Waiting, ProgressInv, HandlerInv
  <2>2. /\ RowInv(r)'
        /\ \A p : Done(r, p) => Done(r, p)'
        /\ row'[r][s] = status
        /\ status = "completed" => \A p : p = at[r] + 1 => Done(r, p)'
        BY <1>6, <2>1, RowWritten
  <2>3. phase'[r] \in {"claim", "execute"} =>
           \A u \in PresentIn(snapshot[r]) :
               snapshot[r][u] < at'[r] => row'[r][u] = "completed"
    <3>1. phase'[r] = "execute" => at'[r] = at[r] /\ Done(r, at[r])
          BY <1>6, <2>1
    <3>2. phase'[r] = "claim" => at'[r] = at[r] + 1 /\ status = "completed"
          BY <1>6
    <3> QED BY <1>6, <2>2, <3>1, <3>2 DEF Done
  <2>4. \A u \in PresentIn(snapshot[r]) : snapshot[r][u] = at[r] => u = s
        BY <1>6, <2>1 DEF ProgressInv, Contiguous, Distinct
  <2>5. HandlerInv(r)'
        BY <1>6, <2>2, <2>3, <2>4 DEF HandlerInv, Done
  <2> QED BY <1>6, <2>1, <2>2, <2>5 DEF ProgressInv, OrderInv, Waiting
<1>7. CASE ClaimStep(r)
  <2>1. PICK s \in PresentIn(snapshot[r]) :
           /\ snapshot[r][s] = at[r]
           /\ \/ /\ row[r][s] = "none" /\ position[s] # Absent
                 /\ row' = [row EXCEPT ![r][s] = "open"]
                 /\ Goto(r, "execute")
              \/ /\ \E label \in {"idle", "fail"} : Goto(r, label)
                 /\ row' = row
        BY <1>7 DEF ClaimStep
  <2>2. UNCHANGED <<position, snapshot, run, at>> /\ phase[r] = "claim"
        BY <1>7 DEF ClaimStep, zapTables
  <2>3. ~Waiting(r) /\ Done(r, at[r])
        BY <2>2 DEF StatusInv, Waiting, ProgressInv, HandlerInv
  <2>4. CASE \E label \in {"idle", "fail"} : Goto(r, label) /\ row' = row
    <3>1. phase'[r] \in {"idle", "fail"}
          BY <2>4, GotoType
    <3> QED BY <2>2, <2>4, <3>1 DEF ProgressInv, OrderInv, RowInv, HandlerInv, Done, Waiting
  <2>5. CASE /\ row[r][s] = "none" /\ position[s] # Absent
             /\ row' = [row EXCEPT ![r][s] = "open"] /\ Goto(r, "execute")
    <3>1. position[s] = at[r]
          BY <2>1, <2>3, <2>5, ClaimedInPlace
    <3>2. phase'[r] = "execute"
          BY <2>5, GotoType
    <3> QED BY <1>6, <2>1, <2>2, <2>5, <3>1, <3>2
  <2> QED BY <2>1, <2>4, <2>5
<1>8. CASE ExecuteStep(r)
  <2>1. PICK s \in PresentIn(snapshot[r]) :
           /\ snapshot[r][s] = at[r]
           /\ \/ /\ row' = [row EXCEPT ![r][s] = "completed"]
                 /\ at' = [at EXCEPT ![r] = @ + 1]
                 /\ Goto(r, "claim")
              \/ /\ \E status \in {"open", "completed"} :
                        row' = [row EXCEPT ![r][s] = status]
                 /\ Goto(r, "fail")
        BY <1>8 DEF ExecuteStep
  <2>2. UNCHANGED <<position, snapshot, run>> /\ phase[r] = "execute"
        BY <1>8 DEF ExecuteStep, zapTables
  <2>3. row[r][s] = "open" /\ s \in Steps
        BY <2>1, <2>2 DEF ProgressInv, HandlerInv, PresentIn
  <2>4. position[s] = at[r]
        BY <2>1, <2>3 DEF ProgressInv, RowInv
  <2>5. PICK status \in {"open", "completed"} :
           /\ row' = [row EXCEPT ![r][s] = status]
           /\ \/ phase'[r] = "fail"
              \/ phase'[r] = "claim" /\ status = "completed" /\ at'[r] = at[r] + 1
        BY <2>1, GotoType DEF TypeOK
  <2> QED BY <1>6, <2>1, <2>2, <2>3, <2>4, <2>5
<1> QED BY <1>1, <1>2, <1>3, <1>4, <1>5, <1>7, <1>8 DEF Handle

(* An edit that leaves executed steps where they are, and the others in    *)
(* their order, does not disturb a run.                                    *)
LEMMA EditedRun ==
    ASSUME TypeOK, NEW r \in Runs, StatusInv(r), ProgressInv(r), zap' = zap, created' \in Nat,
           created <= created', UNCHANGED <<runTables, handler>>,
           \A s \in Steps : row[r][s] # "none" => position'[s] = position[s],
           \A s \in PresentIn(position'), t \in PresentIn(position') :
               s <= created /\ position'[t] < position'[s] =>
                   /\ s \in PresentIn(position) /\ t \in PresentIn(position)
                   /\ position[t] < position[s]
    PROVE  StatusInv(r)' /\ ProgressInv(r)'
<1>1. UNCHANGED <<run, snapshot, row, phase, at>>
      BY DEF runTables, handler
<1>2. created \in Nat /\ snapshot[r] \in Layout
      BY DEF TypeOK
<1>3. StatusInv(r)'
  <2>1. \A s \in PresentIn(snapshot[r]) : s \in Nat
        BY <1>2, PresentPositions, MaxStepsNat DEF Steps
  <2> QED BY <1>1, <1>2, <2>1 DEF StatusInv, Waiting
<1>4. OrderInv(r)'
      BY <1>1 DEF StatusInv, ProgressInv, OrderInv, Waiting
<1>5. RowInv(r)'
      BY <1>1 DEF ProgressInv, RowInv, Done
<1> QED BY <1>1, <1>3, <1>4, <1>5 DEF ProgressInv, HandlerInv, Done, Waiting

LEMMA InsertedRuns ==
    ASSUME TypeOK, TriggerInv, LayoutInv, NEW q \in Requests, AddInsert(q),
           NEW r \in Runs, StatusInv(r), ProgressInv(r)
    PROVE  StatusInv(r)' /\ ProgressInv(r)'
<1> DEFINE u == created + 1
           n == Cardinality(PresentIn(position))
<1>1. zap = "live" /\ zap' = zap /\ created' = u /\ UNCHANGED <<runTables, handler>>
      BY DEF AddInsert
<1>2. /\ u \in Steps /\ created \in Nat /\ position \in Layout /\ position' \in Layout
      /\ position' = [position EXCEPT ![u] = n]
      BY <1>1, AddInsertEffect DEF LayoutInv, Fresh, TypeOK
<1>3. u \notin PresentIn(position)
      BY <1>2 DEF TriggerInv, Sound
<1>4. position'[u] = n /\ \A s \in Steps \ {u} : position'[s] = position[s]
      BY <1>2 DEF Layout
<1>5. ASSUME NEW s \in PresentIn(position) PROVE position[s] < n
  <2>1. n \in Nat
        BY StepsAreFinite DEF PresentIn
  <2>2. position[s] \in PositionsOf(position)
        BY DEF PositionsOf
  <2>3. position[s] \in 0 .. n - 1
        BY <2>2 DEF LayoutInv, Contiguous
  <2> QED BY <2>1, <2>3
<1>6. ASSUME NEW s \in Steps, row[r][s] # "none" PROVE position'[s] = position[s]
  <2>1. position[s] = snapshot[r][s] /\ s \in PresentIn(snapshot[r])
        BY <1>6 DEF ProgressInv, RowInv
  <2>2. s # u
        BY <1>2, <1>3, <2>1 DEF PresentIn
  <2> QED BY <1>4, <2>2
<1>7. ASSUME NEW s \in PresentIn(position'), NEW t \in PresentIn(position'),
             s <= created, position'[t] < position'[s]
      PROVE  /\ s \in PresentIn(position) /\ t \in PresentIn(position)
             /\ position[t] < position[s]
  <2>1. s \in PresentIn(position) /\ position'[s] = position[s]
        BY <1>2, <1>4, <1>7 DEF PresentIn
  <2>2. t # u
    <3>1. n \in Nat /\ position[s] \in Nat
          BY <1>2, <2>1, PresentPositions, StepsAreFinite DEF PresentIn
    <3> QED BY <1>4, <1>5, <1>7, <2>1, <3>1
  <2>3. t \in PresentIn(position) /\ position'[t] = position[t]
        BY <1>4, <2>2 DEF PresentIn
  <2> QED BY <1>7, <2>1, <2>3
<1>8. created' \in Nat /\ created <= created'
      BY <1>1, <1>2
<1> QED BY <1>1, <1>6, <1>7, <1>8, EditedRun

LEMMA DeletedRuns ==
    ASSUME TypeOK, LayoutInv, NEW q \in Requests, DeleteCommit(q),
           NEW r \in Runs, StatusInv(r), ProgressInv(r)
    PROVE  StatusInv(r)' /\ ProgressInv(r)'
<1> DEFINE gone == request[q].step
<1>1. zap' = zap /\ created' = created /\ created \in Nat /\ UNCHANGED <<runTables, handler>>
      BY DEF DeleteCommit, TypeOK
<1>2. /\ gone \in PresentIn(position) /\ position \in Layout /\ Contiguous(position)
      /\ ~Referenced(gone) /\ position' = Resequenced(request[q].seen, gone)
      BY DeleteCommitEffect DEF PresentIn, TypeOK, LayoutInv
<1>3. zap = "live"
      BY <1>2 DEF LayoutInv, PresentIn, Nothing
<1>4. position' = Resequenced(position, gone)
      BY <1>2, <1>3, DeleteCommitEffect DEF LayoutInv, Fresh
<1>5. /\ PresentIn(position') = PresentIn(position) \ {gone}
      /\ \A s \in PresentIn(position') :
            position'[s] = IF position[s] < position[gone] THEN position[s] ELSE position[s] - 1
      BY <1>2, <1>4, ResequencedPositions
<1>6. ASSUME NEW s \in Steps, row[r][s] # "none" PROVE position'[s] = position[s]
  <2>1. /\ s \in PresentIn(snapshot[r]) /\ position[s] = snapshot[r][s]
        /\ Done(r, snapshot[r][s]) /\ ~Waiting(r)
        BY <1>6 DEF ProgressInv, RowInv, StatusInv
  <2>2. s \in PresentIn(position) /\ s # gone
        BY <1>2, <1>6, <2>1 DEF PresentIn, Referenced
  <2>3. ~(position[gone] < position[s])
    <3>1. ASSUME position[gone] < position[s] PROVE row[r][gone] = "completed"
          BY <1>2, <2>1, <2>2, <3>1 DEF ProgressInv, OrderInv, Done
    <3> QED BY <1>2, <3>1 DEF Referenced
  <2>4. position[s] # position[gone] /\ position[s] \in Nat /\ position[gone] \in Nat
        BY <1>2, <2>2, PresentPositions DEF Contiguous, Distinct
  <2> QED BY <1>5, <2>2, <2>3, <2>4
<1>7. ASSUME NEW s \in PresentIn(position'), NEW t \in PresentIn(position'),
             position'[t] < position'[s]
      PROVE  /\ s \in PresentIn(position) /\ t \in PresentIn(position)
             /\ position[t] < position[s]
  <2>1. s \in PresentIn(position) /\ t \in PresentIn(position)
        BY <1>5
  <2>2. position[s] \in Nat /\ position[t] \in Nat /\ position[gone] \in Nat
        BY <1>2, <2>1, PresentPositions
  <2>3. position[s] # position[gone] /\ position[t] # position[gone]
        BY <1>2, <1>5, <2>1 DEF Contiguous, Distinct
  <2> QED BY <1>5, <1>7, <2>1, <2>2, <2>3
<1>8. created' \in Nat /\ created <= created'
      BY <1>1
<1> QED BY <1>1, <1>6, <1>7, <1>8, EditedRun

(* The inductive invariant.                                                *)
EditInv ==
    /\ TypeOK /\ TriggerInv
    /\ \A r \in Runs : StatusInv(r)
    /\ overlapped \/ (LayoutInv /\ \A r \in Runs : ProgressInv(r))

(* Statuses do not depend on what requests have read.                      *)
LEMMA NextStatus ==
    ASSUME TypeOK, TriggerInv, [Next]_vars, NEW r \in Runs, StatusInv(r)
    PROVE  StatusInv(r)'
<1>1. CASE CreateZap \/ DeleteZap
  <2>1. run[r] = "absent" /\ UNCHANGED <<runTables, handler>>
        BY <1>1 DEF CreateZap, DeleteZap, StatusInv
  <2> QED BY <2>1 DEF StatusInv, Waiting, runTables, handler
<1>2. ASSUME NEW q \in Requests, Edit(q) PROVE StatusInv(r)'
  <2>1. /\ UNCHANGED <<zap, runTables, handler>>
        /\ created' \in {created, created + 1}
        BY <1>2 DEF Edit, AddRead, AddInsert, DeleteRead, DeleteCommit, Reject, Start, zapTables
  <2>2. \A s \in PresentIn(snapshot[r]) : s \in Nat
        BY PresentPositions, MaxStepsNat DEF TypeOK, Steps
  <2> QED BY <2>1, <2>2 DEF StatusInv, Waiting, runTables, handler, TypeOK
<1>3. ASSUME NEW q \in Runs, Ingest(q) \/ Handle(q) \/ Redeliver(q) \/ LoseHandler(q)
      PROVE  StatusInv(r)'
      BY <1>3, HandledStatus, OtherRuns, UntouchedRun
<1>4. CASE UNCHANGED vars
      BY <1>4, UntouchedRun DEF vars
<1> QED BY <1>1, <1>2, <1>3, <1>4 DEF Next

LEMMA NextProgress ==
    ASSUME EditInv, [Next]_vars, ~overlapped', NEW r \in Runs
    PROVE  ProgressInv(r)'
<1>1. ~overlapped => /\ TypeOK /\ TriggerInv /\ LayoutInv
                     /\ StatusInv(r) /\ ProgressInv(r)
      BY DEF EditInv
<1>2. CASE CreateZap \/ DeleteZap
  <2>1. /\ run[r] = "absent" /\ UNCHANGED <<run, snapshot, row, phase, at>> /\ ~overlapped
        BY <1>2 DEF CreateZap, DeleteZap, EditInv, StatusInv, runTables, handler
  <2>2. \A s \in Steps : row[r][s] = "none"
        BY <1>1, <2>1 DEF StatusInv, Waiting
  <2>3. phase[r] = "idle"
        BY <1>1, <2>1 DEF StatusInv
  <2> QED BY <2>1, <2>2, <2>3 DEF ProgressInv, OrderInv, RowInv, HandlerInv, Waiting
<1>3. ASSUME NEW q \in Requests, AddInsert(q) \/ DeleteCommit(q) PROVE ProgressInv(r)'
  <2>1. ~overlapped
        BY <1>3 DEF AddInsert, DeleteCommit, Commit
  <2> QED BY <1>1, <1>3, <2>1, InsertedRuns, DeletedRuns
<1>4. ASSUME NEW q \in Requests, AddRead(q) \/ DeleteRead(q) \/ Reject(q)
      PROVE  ProgressInv(r)'
  <2>1. UNCHANGED <<zapTables, runTables, handler, overlapped>>
        BY <1>4 DEF AddRead, DeleteRead, Reject, Start
  <2> QED BY <1>1, <2>1, UntouchedRun DEF zapTables, runTables, handler
<1>5. ASSUME NEW q \in Runs, Ingest(q) \/ Handle(q) \/ Redeliver(q) \/ LoseHandler(q)
      PROVE  ProgressInv(r)'
  <2>1. ~overlapped
        BY <1>5 DEF Ingest, Handle, StartRun, ResumeRun, CompleteRun, ClaimStep, ExecuteStep,
                    StopRun, Redeliver, LoseHandler
  <2> QED BY <1>1, <1>5, <2>1, HandledProgress, OtherRuns, UntouchedRun
<1>6. CASE UNCHANGED vars
      BY <1>1, <1>6, UntouchedRun DEF vars
<1> QED BY <1>2, <1>3, <1>4, <1>5, <1>6 DEF Next, Edit

LEMMA EditInvariant == Spec => []EditInv
<1>1. Init => EditInv
      BY InitTypes, InitTrigger, InitLayout, InitRuns DEF EditInv
<1>2. EditInv /\ [Next]_vars => EditInv'
  <2> SUFFICES ASSUME EditInv, [Next]_vars PROVE EditInv'
      OBVIOUS
  <2>1. TypeOK' /\ TriggerInv' /\ \A r \in Runs : StatusInv(r)'
        BY NextTypes, NextTrigger, NextStatus DEF EditInv
  <2>2. overlapped' \/ LayoutInv'
        BY NextLayout DEF EditInv
  <2>3. overlapped' \/ \A r \in Runs : ProgressInv(r)'
        BY NextProgress
  <2> QED BY <2>1, <2>2, <2>3 DEF EditInv
<1> QED BY <1>1, <1>2, PTL DEF Spec

(* However a zap is edited, one request at a time, a run that is shown as  *)
(* completed has executed its whole snapshot (sequential-executor).        *)
THEOREM CompletedIsWhole == Spec => []CompletedRunIsWholeUnlessOverlapped
<1>1. EditInv => CompletedRunIsWholeUnlessOverlapped
      BY DEF EditInv, ProgressInv, CompletedRunIsWholeUnlessOverlapped, CompletedRunIsWhole
<1> QED BY <1>1, EditInvariant, PTL

(* Although it resumes by the positions of today, a run executes its       *)
(* snapshot in order.                                                      *)
THEOREM InOrder == Spec => []ExecutedInOrder
<1>1. EditInv => ExecutedInOrder
  <2> SUFFICES ASSUME EditInv, ~overlapped, NEW r \in Runs, NEW s \in Steps, NEW t \in Steps,
                      row[r][t] # "none", s \in PresentIn(snapshot[r]),
                      snapshot[r][s] < snapshot[r][t]
               PROVE  row[r][s] = "completed"
      BY DEF ExecutedInOrder
  <2> QED BY DEF EditInv, ProgressInv, RowInv, Done
<1> QED BY <1>1, EditInvariant, PTL
=============================================================================
