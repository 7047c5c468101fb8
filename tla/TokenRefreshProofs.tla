------------------------- MODULE TokenRefreshProofs -------------------------
(***************************************************************************)
(* Theorems about TokenRefresh, for any number of connections, handlers    *)
(* and overlapping sweeps, every lifetime of tokens and every set of       *)
(* faults.                                                                 *)
(***************************************************************************)
EXTENDS TokenRefresh, TLAPS

USE DEF accounts, history

-----------------------------------------------------------------------------
(* Type correctness *)

(* A token as the provider issues it, and one that is outdated or older.   *)
LEMMA TokenTypes ==
    ASSUME TokenAssumption
    PROVE  /\ NoToken \in Token
           /\ Absent \in Row
           /\ Idle \in Call /\ Refused \in Call
           /\ \A c \in Connections, g \in Nat : FirstToken(c, g) \in Token
           /\ \A t \in Token, g \in Nat : Outdated(t, g) \in Token
           /\ \A t \in Token : Aged(t) \in Token
           /\ \A n \in 0 .. Never : Older(n) \in 0 .. Never
  <1>1. Life \in Nat /\ Life > 0 /\ Never = Life + 1
    BY DEF TokenAssumption, Never
  <1>2. NoToken \in Token
    BY <1>1 DEF NoToken, Token
  <1>3. Absent \in Row
    BY <1>1, <1>2 DEF Absent, Row
  <1>4. Idle \in Call /\ Refused \in Call
    BY DEF Call
  <1>5. \A c \in Connections, g \in Nat : FirstToken(c, g) \in Token
    BY <1>1 DEF FirstToken, Token
  <1>6. \A t \in Token, g \in Nat : Outdated(t, g) \in Token
    BY DEF Outdated, Token
  <1>7. \A n \in 0 .. Never : Older(n) \in 0 .. Never
    BY <1>1 DEF Older
  <1>8. \A t \in Token : Aged(t) \in Token
    BY <1>7 DEF Aged, Token
  <1> QED BY <1>2, <1>3, <1>4, <1>5, <1>6, <1>7, <1>8

(* Whoever stores a grant leaves a row of the right type, and the foreign  *)
(* key of the steps intact.                                                *)
LEMMA StoreGrantType ==
    ASSUME TypeOK, NEW c \in Connections, NEW g \in Nat, NEW columns \in Row,
           StoreGrant(c, g, columns),
           \/ link' = link /\ columns.id = (IF row[c].id = 0 THEN g ELSE row[c].id)
           \/ link' = [link EXCEPT ![c] = 0]
    PROVE  /\ row' \in [Connections -> Row]
           /\ link' \in [Connections -> Nat]
           /\ latest' \in [Connections -> Nat]
           /\ misses' \in [Connections -> 0 .. 2]
           /\ failed' \in [Connections -> BOOLEAN]
           /\ disturbed' \in [Jobs -> BOOLEAN]
           /\ \A d \in Connections : link'[d] \in {0, row'[d].id}
  <1>1. row' \in [Connections -> Row]
    BY DEF TypeOK, StoreGrant
  <1>2. /\ latest' \in [Connections -> Nat]
        /\ misses' \in [Connections -> 0 .. 2]
        /\ failed' \in [Connections -> BOOLEAN]
    BY DEF TypeOK, StoreGrant
  <1>3. disturbed' \in [Jobs -> BOOLEAN]
    BY DEF TypeOK, StoreGrant, Disturb
  <1>4. link' \in [Connections -> Nat]
    BY DEF TypeOK
  <1>5. ASSUME NEW d \in Connections PROVE link'[d] \in {0, row'[d].id}
    <2>1. CASE d = c
      BY <2>1 DEF TypeOK, StoreGrant
    <2>2. CASE d # c
      BY <2>2 DEF TypeOK, StoreGrant
    <2> QED BY <2>1, <2>2
  <1> QED BY <1>1, <1>2, <1>3, <1>4, <1>5

(* A process that is at work is at work on a connection.                   *)
LEMMA CallType ==
    ASSUME TokenAssumption, TypeOK, NEW p \in Procs
    PROVE  /\ call[p].at \notin {"idle", "refused"}
                => call[p] \in [at : Labels, conn : Connections, id : Nat,
                                refresh : Nat, token : Token, again : BOOLEAN]
           /\ call[p].conn \in Connections
                => call[p] \in [at : Labels, conn : Connections, id : Nat,
                                refresh : Nat, token : Token, again : BOOLEAN]
           /\ call[p].refresh \in Nat
  BY DEF TypeOK, Call, Idle, Refused, TokenAssumption

(* An answer of the provider changes only whether tokens are fresh.        *)
LEMMA IssueType ==
    ASSUME TokenAssumption, TypeOK, NEW p \in Procs, NEW x \in Call,
           call[p].conn \in Connections, Issue(p, x)
    PROVE  /\ row' \in [Connections -> Row]
           /\ call' \in [Procs -> Call]
           /\ \A c \in Connections :
                 /\ row'[c].id = row[c].id
                 /\ row'[c].refresh = row[c].refresh
                 /\ row'[c].expires = row[c].expires
                 /\ row'[c].token.left = row[c].token.left
  <1> DEFINE c == call[p].conn
             g == call[p].refresh
             Ends(t) == IF "single" \in Faults THEN Outdated(t, g) ELSE t
  <1>1. g \in Nat
    BY CallType
  <1>2. \A t \in Token : Ends(t) \in Token /\ Ends(t).left = t.left
    BY <1>1, TokenTypes DEF Outdated, Token
  <1>3. row' = [row EXCEPT ![c].token = Ends(@)]
    BY DEF Issue
  <1>4. \A q \in Procs : call'[q] =
            IF q = p THEN x
            ELSE IF call[q].conn = c THEN [call[q] EXCEPT !.token = Ends(@)]
                 ELSE call[q]
    BY DEF Issue
  <1>5. call' = [q \in Procs |-> call'[q]]
    BY DEF Issue
  <1> HIDE DEF Ends
  <1>6. ASSUME NEW q \in Procs PROVE call'[q] \in Call
    <2>1. CASE q # p /\ call[q].conn = c
      <3>1. call[q] \in [at : Labels, conn : Connections, id : Nat,
                         refresh : Nat, token : Token, again : BOOLEAN]
        BY <2>1, CallType
      <3> QED BY <1>2, <1>4, <2>1, <3>1 DEF Call
    <2>2. CASE q = p \/ call[q].conn # c
      BY <1>4, <2>2 DEF TypeOK
    <2> QED BY <2>1, <2>2
  <1>7. row'[c] = [row[c] EXCEPT !.token = Ends(@)]
    BY <1>3 DEF TypeOK
  <1>8. \A d \in Connections : d # c => row'[d] = row[d]
    BY <1>3 DEF TypeOK
  <1>9. row[c] \in Row /\ Ends(row[c].token) \in Token
    BY <1>2 DEF TypeOK, Row
  <1>10. row'[c] \in Row
    BY <1>7, <1>9 DEF Row
  <1>11. row' \in [Connections -> Row]
    BY <1>3, <1>8, <1>10 DEF TypeOK
  <1>12. /\ row'[c].id = row[c].id
         /\ row'[c].refresh = row[c].refresh
         /\ row'[c].expires = row[c].expires
         /\ row'[c].token.left = row[c].token.left
    BY <1>2, <1>7, <1>9 DEF Row
  <1> QED BY <1>5, <1>6, <1>8, <1>11, <1>12

(* A process goes on to a call of the right type.                          *)
LEMMA AwaitType ==
    ASSUME TypeOK, NEW p \in Procs, NEW x \in Call, Await(p, x)
    PROVE  call' \in [Procs -> Call]
  BY DEF TypeOK, Await

LEMMA DropType ==
    ASSUME TokenAssumption, TypeOK, NEW p \in Procs, Drop(p)
    PROVE  call' \in [Procs -> Call]
  BY TokenTypes, AwaitType DEF Drop

LEMMA ReadType ==
    ASSUME TokenAssumption, TypeOK, NEW p \in Procs,
           NEW c \in Connections, NEW id \in Nat, ReadRefresh(p, c, id)
    PROVE  call' \in [Procs -> Call]
  <1>1. row[c].refresh \in Nat
    BY DEF TypeOK, Row
  <1>2. [at |-> "post", conn |-> c, id |-> id, refresh |-> row[c].refresh,
         token |-> NoToken, again |-> FALSE] \in Call
    BY <1>1, TokenTypes DEF Call, Labels
  <1> QED BY <1>2, AwaitType, DropType DEF ReadRefresh

LEMMA DisturbType ==
    ASSUME TypeOK, NEW c, NEW exempt, Disturb(c, exempt)
    PROVE  disturbed' \in [Jobs -> BOOLEAN]
  BY DEF TypeOK, Disturb

(* Most steps of a process change its call and nothing that matters here.  *)
LEMMA CallOnly ==
    ASSUME TypeOK, call' \in [Procs -> Call],
           todo' \in [Sweeps -> SUBSET (Connections \X Nat)],
           failed' \in [Connections -> BOOLEAN],
           disturbed' \in [Jobs -> BOOLEAN],
           UNCHANGED <<row, link, consent, issued, live, pending, phase,
                       latest, misses>>
    PROVE  TypeOK'
  BY DEF TypeOK

LEMMA UserType ==
    ASSUME TokenAssumption, TypeOK, NEW c \in Connections, User(c)
    PROVE  TypeOK'
  <1> USE DEF TypeOK
  <1>1. CASE StartOAuth(c)
    BY <1>1 DEF StartOAuth
  <1>2. CASE ExchangeCode(c)
    BY <1>2, DisturbType DEF ExchangeCode
  <1>3. CASE ConnectApiKey(c)
    <2> DEFINE g == issued + 1
               columns == [id |-> g, refresh |-> 0, token |-> FirstToken(c, g),
                           expires |-> Never]
    <2>1. g \in Nat /\ columns \in Row
      BY TokenTypes DEF Row, TokenAssumption, Never
    <2>2. StoreGrant(c, g, columns) /\ link' = link
          /\ columns.id = (IF row[c].id = 0 THEN g ELSE row[c].id)
      BY <1>3 DEF ConnectApiKey
    <2> HIDE DEF g, columns
    <2>3. /\ row' \in [Connections -> Row]
          /\ link' \in [Connections -> Nat]
          /\ latest' \in [Connections -> Nat]
          /\ misses' \in [Connections -> 0 .. 2]
          /\ failed' \in [Connections -> BOOLEAN]
          /\ disturbed' \in [Jobs -> BOOLEAN]
          /\ \A d \in Connections : link'[d] \in {0, row'[d].id}
      BY <2>1, <2>2, StoreGrantType
    <2>4. issued' \in Nat /\ live' \in [Connections -> SUBSET Nat]
      BY <1>3, <2>1 DEF ConnectApiKey, g
    <2> QED BY <1>3, <2>3, <2>4 DEF ConnectApiKey
  <1>4. CASE DeleteConnection(c)
    <2>1. StoreGrant(c, 0, Absent) /\ link' = [link EXCEPT ![c] = 0]
      BY <1>4 DEF DeleteConnection
    <2>2. /\ row' \in [Connections -> Row]
          /\ link' \in [Connections -> Nat]
          /\ latest' \in [Connections -> Nat]
          /\ misses' \in [Connections -> 0 .. 2]
          /\ failed' \in [Connections -> BOOLEAN]
          /\ disturbed' \in [Jobs -> BOOLEAN]
          /\ \A d \in Connections : link'[d] \in {0, row'[d].id}
      BY <2>1, TokenTypes, StoreGrantType
    <2> QED BY <1>4, <2>2 DEF DeleteConnection
  <1>5. CASE LinkStep(c)
    BY <1>5 DEF LinkStep, Row
  <1>6. CASE \E g \in pending[c] : StoreCallback(c, g) \/ LoseCallback(c, g)
    <2> PICK g \in pending[c] : StoreCallback(c, g) \/ LoseCallback(c, g)
      BY <1>6
    <2>1. g \in Nat
      OBVIOUS
    <2>2. CASE LoseCallback(c, g)
      BY <2>2 DEF LoseCallback
    <2>3. CASE StoreCallback(c, g)
      <3>1. FirstToken(c, g) \in Token /\ FirstToken(c, g).left \in 0 .. Never
        BY <2>1, TokenTypes DEF Token
      <3>2. RefreshOf(c, g) \in Nat /\ row[c].id \in Nat
        BY <2>1 DEF RefreshOf, Row
      <3>3. Upserted(c, g) \in Row
        BY <2>1, <3>1, <3>2 DEF Upserted, Row
      <3>4. Upserted(c, g).id = (IF row[c].id = 0 THEN g ELSE row[c].id)
        BY DEF Upserted
      <3>5. StoreGrant(c, g, Upserted(c, g)) /\ link' = link
        BY <2>3 DEF StoreCallback
      <3>6. /\ row' \in [Connections -> Row]
            /\ link' \in [Connections -> Nat]
            /\ latest' \in [Connections -> Nat]
            /\ misses' \in [Connections -> 0 .. 2]
            /\ failed' \in [Connections -> BOOLEAN]
            /\ disturbed' \in [Jobs -> BOOLEAN]
            /\ \A d \in Connections : link'[d] \in {0, row'[d].id}
        BY <2>1, <3>3, <3>4, <3>5, StoreGrantType
      <3> QED BY <2>3, <3>6 DEF StoreCallback
    <2> QED BY <2>2, <2>3
  <1>7. CASE \E g \in live[c] : Revoke(c, g)
    BY <1>7, DisturbType DEF Revoke
  <1> QED BY <1>1, <1>2, <1>3, <1>4, <1>5, <1>6, <1>7 DEF User

LEMMA StepType ==
    ASSUME TokenAssumption, TypeOK, NEW j \in Jobs, Step(j)
    PROVE  TypeOK'
  <1> DEFINE Busier == [at : Labels, conn : Connections, id : Nat,
                        refresh : Nat, token : Token, again : BOOLEAN]
  <1>1. j \in Procs
    BY DEF Procs
  <1>2. ASSUME NEW c \in Connections, StartStep(j, c) PROVE TypeOK'
    <2>1. [Idle EXCEPT !.at = "creds", !.conn = c, !.id = link[c]] \in Call
      BY TokenTypes DEF Idle, Call, Labels, TypeOK
    <2>2. call' \in [Procs -> Call]
      BY <1>1, <1>2, <2>1, AwaitType DEF StartStep
    <2> QED BY <1>2, <2>2, CallOnly DEF StartStep, TypeOK
  <1>3. CASE GetCredentials(j)
    <2>1. call[j] \in Busier
      BY <1>1, <1>3, CallType DEF GetCredentials
    <2>2. [call[j] EXCEPT !.at = "send", !.token = row[call[j].conn].token] \in Call
      BY <2>1 DEF Call, Labels, TypeOK, Row
    <2>3. call' \in [Procs -> Call]
      BY <1>1, <1>3, <2>2, AwaitType, DropType DEF GetCredentials
    <2> QED BY <1>3, <2>3, CallOnly DEF GetCredentials, TypeOK
  <1>4. CASE Send(j)
    <2>1. call' \in [Procs -> Call]
      BY <1>1, <1>4, DropType DEF Send
    <2> QED BY <1>4, <2>1, CallOnly DEF Send, TypeOK
  <1>5. CASE ErrorInBody(j)
    <2>1. call' \in [Procs -> Call]
      BY <1>1, <1>5, DropType DEF ErrorInBody
    <2> QED BY <1>5, <2>1, CallOnly DEF ErrorInBody, TypeOK
  <1>6. CASE Unauthorized(j)
    <2>1. call[j] \in Busier
      BY <1>1, <1>6, CallType DEF Unauthorized
    <2>2. [call[j] EXCEPT !.at = "refresh"] \in Call
      BY <2>1 DEF Call, Labels
    <2>3. call' \in [Procs -> Call]
      BY <1>1, <1>6, <2>2, TokenTypes, AwaitType, DropType DEF Unauthorized
    <2> QED BY <1>6, <2>3, CallOnly DEF Unauthorized, TypeOK
  <1>7. CASE StepReads(j)
    <2>1. call[j] \in Busier
      BY <1>1, <1>7, CallType DEF StepReads
    <2>2. call' \in [Procs -> Call]
      BY <1>1, <1>7, <2>1, ReadType DEF StepReads
    <2> QED BY <1>7, <2>2, CallOnly DEF StepReads, TypeOK
  <1> QED BY <1>2, <1>3, <1>4, <1>5, <1>6, <1>7 DEF Step

LEMMA FailingType ==
    ASSUME TypeOK, NEW p, Failing(p)
    PROVE  failed' \in [Connections -> BOOLEAN]
  BY DEF TypeOK, Failing

LEMMA SelectedType ==
    ASSUME TypeOK, NEW skipped \in BOOLEAN, Selected(skipped)
    PROVE  /\ misses' \in [Connections -> 0 .. 2]
           /\ failed' \in [Connections -> BOOLEAN]
  BY DEF TypeOK, Selected

LEMMA RefreshType ==
    ASSUME TokenAssumption, TypeOK, NEW p \in Procs, Refresh(p)
    PROVE  TypeOK'
  <1> DEFINE Busier == [at : Labels, conn : Connections, id : Nat,
                        refresh : Nat, token : Token, again : BOOLEAN]
  <1>1. call[p] \in Busier
    <2>1. call[p].at \in {"post", "write"}
      BY DEF Refresh, Granting, LoseAnswer, Refusal, StoreToken, Granted
    <2> QED BY <2>1, CallType
  <1>2. CASE Granting(p) \/ LoseAnswer(p)
    <2>1. [call[p] EXCEPT !.at = "write",
              !.token = FirstToken(call[p].conn, call[p].refresh)] \in Call
      BY <1>1, TokenTypes DEF Call, Labels
    <2>2. PICK x \in Call : Issue(p, x)
      BY <1>2, <2>1, TokenTypes DEF Granting, LoseAnswer
    <2>3. /\ row' \in [Connections -> Row]
          /\ call' \in [Procs -> Call]
          /\ \A c \in Connections : row'[c].id = row[c].id
      BY <1>1, <2>2, IssueType
    <2>4. disturbed' \in [Jobs -> BOOLEAN]
      BY <1>2, DisturbType DEF Granting, LoseAnswer, Granted
    <2>5. failed' \in [Connections -> BOOLEAN]
      BY <1>2, FailingType DEF Granting, LoseAnswer, TypeOK
    <2> QED BY <1>2, <2>3, <2>4, <2>5 DEF TypeOK, Granting, LoseAnswer
  <1>3. CASE Refusal(p)
    <2>1. call' \in [Procs -> Call]
      BY <1>3, DropType DEF Refusal
    <2>2. failed' \in [Connections -> BOOLEAN]
      BY <1>3, FailingType DEF Refusal
    <2> QED BY <1>3, <2>1, <2>2, CallOnly DEF Refusal, TypeOK
  <1>4. CASE StoreToken(p)
    <2> DEFINE c == call[p].conn
               t == call[p].token
    <2>1. [call[p] EXCEPT !.at = "creds", !.again = TRUE, !.refresh = 0] \in Call
      BY <1>1 DEF Call, Labels
    <2>2. CASE Stored(c, call[p].id)
      <3>1. call' \in [Procs -> Call]
        BY <1>4, <2>1, <2>2, TokenTypes, AwaitType DEF StoreToken
      <3>2. [row[c] EXCEPT !.token = t, !.expires = t.left] \in Row
        <4>1. t \in Token /\ t.left \in 0 .. Never /\ row[c] \in Row
          BY <1>1 DEF TypeOK, Token
        <4> QED BY <4>1 DEF Row
      <3>3. row' = [row EXCEPT ![c] = [row[c] EXCEPT !.token = t, !.expires = t.left]]
        BY <1>1, <1>4, <2>2 DEF StoreToken, TypeOK
      <3>4. row' \in [Connections -> Row]
        BY <1>1, <3>2, <3>3 DEF TypeOK
      <3>5. \A d \in Connections : row'[d].id = row[d].id
        BY <1>1, <3>3 DEF TypeOK, Row
      <3>6. misses' = [misses EXCEPT ![c] = 0] /\ failed' = [failed EXCEPT ![c] = FALSE]
        BY <1>4, <2>2 DEF StoreToken
      <3>7. misses' \in [Connections -> 0 .. 2] /\ failed' \in [Connections -> BOOLEAN]
        BY <1>1, <3>6 DEF TypeOK
      <3>8. disturbed' \in [Jobs -> BOOLEAN]
        BY <1>4, <2>2, DisturbType DEF StoreToken
      <3> QED BY <1>4, <3>1, <3>4, <3>5, <3>7, <3>8 DEF TypeOK, StoreToken
    <2>3. CASE ~Stored(c, call[p].id)
      <3>1. call' \in [Procs -> Call]
        BY <1>4, <2>3, DropType DEF StoreToken
      <3> QED BY <1>4, <2>3, <3>1, CallOnly DEF StoreToken, TypeOK
    <2> QED BY <2>2, <2>3
  <1> QED BY <1>2, <1>3, <1>4 DEF Refresh

LEMMA SweepType ==
    ASSUME TokenAssumption, TypeOK, NEW s \in Sweeps,
           StartSweep(s) \/ SweepReads(s)
    PROVE  TypeOK'
  <1>1. s \in Procs
    BY DEF Procs
  <1>2. CASE StartSweep(s)
    <2>1. {<<c, row[c].id>> : c \in {d \in Connections : Expiring(d)}}
             \in SUBSET (Connections \X Nat)
      BY DEF TypeOK, Row
    <2>2. /\ misses' \in [Connections -> 0 .. 2]
          /\ failed' \in [Connections -> BOOLEAN]
      BY <1>2, SelectedType DEF StartSweep
    <2> QED BY <1>2, <2>1, <2>2 DEF StartSweep, TypeOK, TokenAssumption
  <1>3. CASE SweepReads(s)
    <2> PICK x \in todo[s] : /\ todo' = [todo EXCEPT ![s] = @ \ {x}]
                             /\ ReadRefresh(s, x[1], x[2])
      BY <1>3 DEF SweepReads
    <2>1. x[1] \in Connections /\ x[2] \in Nat
      BY DEF TypeOK
    <2>2. call' \in [Procs -> Call]
      BY <1>1, <2>1, ReadType
    <2> QED BY <1>3, <2>2, CallOnly DEF SweepReads, TypeOK
  <1> QED BY <1>2, <1>3

LEMMA TimeType ==
    ASSUME TokenAssumption, TypeOK, SkipSweep \/ Tick
    PROVE  TypeOK'
  <1>1. CASE SkipSweep
    <2>1. /\ misses' \in [Connections -> 0 .. 2]
          /\ failed' \in [Connections -> BOOLEAN]
      BY <1>1, SelectedType DEF SkipSweep
    <2> QED BY <1>1, <2>1 DEF SkipSweep, TypeOK, TokenAssumption
  <1>2. CASE Tick
    <2>1. phase' \in 0 .. Period
      <3>1. phase \in 0 .. Period /\ Period \in Nat
        BY DEF TypeOK, TokenAssumption
      <3>2. phase # Period /\ phase' = phase + 1
        BY <1>2 DEF Tick, Due
      <3> QED BY <3>1, <3>2
    <2>2. \A c \in Connections :
             [row[c] EXCEPT !.token = Aged(@), !.expires = Older(@)] \in Row
      BY TokenTypes DEF TypeOK, Row
    <2>3. row' \in [Connections -> Row] /\ \A c \in Connections : row'[c].id = row[c].id
      BY <1>2, <2>2 DEF Tick, TypeOK, Row
    <2>4. ASSUME NEW p \in Procs
          PROVE  [call[p] EXCEPT !.token = Aged(@)] \in Call
      <3>1. CASE call[p] = Idle \/ call[p] = Refused
        <4>1. Aged(NoToken) = NoToken
          BY DEF Aged, NoToken, Older
        <4> QED BY <3>1, <4>1 DEF Call, Idle, Refused
      <3>2. CASE call[p] \in [at : Labels, conn : Connections, id : Nat,
                              refresh : Nat, token : Token, again : BOOLEAN]
        BY <3>2, TokenTypes DEF Call
      <3> QED BY <3>1, <3>2 DEF TypeOK, Call
    <2>5. call' \in [Procs -> Call]
      BY <1>2, <2>4 DEF Tick
    <2>6. disturbed' \in [Jobs -> BOOLEAN]
      BY <1>2 DEF Tick, TypeOK
    <2> QED BY <1>2, <2>1, <2>3, <2>5, <2>6 DEF Tick, TypeOK
  <1> QED BY <1>1, <1>2

LEMMA TypeInit ==
    ASSUME TokenAssumption, Init
    PROVE  TypeOK
  BY TokenTypes DEF Init, TypeOK, TokenAssumption, Absent

LEMMA TypeStep ==
    ASSUME TokenAssumption, TypeOK, [Next]_vars
    PROVE  TypeOK'
  <1>1. CASE Next
    BY <1>1, UserType, StepType, RefreshType, SweepType, TimeType DEF Next
  <1>2. CASE UNCHANGED vars
    BY <1>2 DEF TypeOK, vars
  <1> QED BY <1>1, <1>2

(* Rows, calls and histories keep their types, and the foreign key of the  *)
(* steps refers to the row that is there (connection.controller, SET NULL).*)
THEOREM TypeCorrect == Spec => []TypeOK
  BY TokenAssumption, TypeInit, TypeStep, PTL DEF Spec

-----------------------------------------------------------------------------
(* ReconnectionIsKept *)

(* The other processes see of an answer at most that their token has been  *)
(* outdated.                                                               *)
LEMMA IssueOthers ==
    ASSUME TokenAssumption, TypeOK, NEW p \in Procs, NEW x, Issue(p, x),
           NEW q \in Procs, q # p
    PROVE  /\ call'[q].at = call[q].at /\ call'[q].conn = call[q].conn
           /\ call'[q].id = call[q].id /\ call'[q].again = call[q].again
           /\ call[q].conn = call[p].conn \/ call'[q] = call[q]
           /\ call'[q].token.left = call[q].token.left
  <1> DEFINE Ends(t) == IF "single" \in Faults THEN Outdated(t, call[p].refresh) ELSE t
  <1>1. call'[q] = IF call[q].conn = call[p].conn
                   THEN [call[q] EXCEPT !.token = Ends(@)] ELSE call[q]
    BY DEF Issue
  <1>2. call[q].token \in Token
    <2>1. Idle.token \in Token /\ Refused.token \in Token
      BY TokenTypes DEF Idle, Refused
    <2> QED BY <2>1 DEF TypeOK, Call
  <1>3. Ends(call[q].token).left = call[q].token.left
    BY <1>2 DEF Outdated, Token
  <1> HIDE DEF Ends
  <1>4. call[q] = Idle \/ call[q] = Refused \/ call[q] \in
            [at : Labels, conn : Connections, id : Nat, refresh : Nat,
             token : Token, again : BOOLEAN]
    BY DEF TypeOK, Call
  <1>5. CASE call[q].conn = call[p].conn
    <2>1. call'[q] = [call[q] EXCEPT !.token = Ends(@)]
      BY <1>1, <1>5
    <2> QED BY <1>3, <1>4, <1>5, <2>1 DEF Idle, Refused
  <1> QED BY <1>1, <1>5

LEMMA IssueSelf ==
    ASSUME NEW p \in Procs, NEW x, Issue(p, x)
    PROVE  call'[p] = x
  BY DEF Issue

(* What a step does to the row of a connection: nothing that matters to    *)
(* the columns, or a new access token, or a grant, or the row is gone, or  *)
(* time passes.                                                            *)
RowSame(c) ==
    /\ row'[c].id = row[c].id /\ row'[c].refresh = row[c].refresh
    /\ row'[c].expires = row[c].expires
    /\ row'[c].token.left = row[c].token.left
    /\ latest'[c] = latest[c] /\ misses'[c] = misses[c]

Full(c) == IF c \in Timed THEN Life ELSE Never

RowRefreshed(c) ==
    /\ row'[c].id = row[c].id /\ row'[c].refresh = row[c].refresh
    /\ row'[c].expires = row'[c].token.left
    /\ \E p \in Procs : /\ call[p].at = "write" /\ call[p].conn = c
                         /\ row'[c].token = call[p].token
    /\ latest'[c] = latest[c] /\ misses'[c] = 0

RowGranted(c) ==
    /\ row'[c].refresh = RefreshOf(c, latest'[c])
    /\ row'[c].expires = Full(c) /\ row'[c].token.left = Full(c)
    /\ misses'[c] = 0

RowGone(c) == row'[c].id = 0

Passing == Tick \/ SkipSweep \/ \E s \in Sweeps : StartSweep(s)

LEMMA RefreshRow ==
    ASSUME TokenAssumption, TypeOK, NEW p \in Procs, Refresh(p),
           NEW c \in Connections
    PROVE  RowSame(c) \/ RowRefreshed(c)
  <1>1. call[p] \in [at : Labels, conn : Connections, id : Nat,
                     refresh : Nat, token : Token, again : BOOLEAN]
    <2>1. call[p].at \in {"post", "write"}
      BY DEF Refresh, Granting, LoseAnswer, Refusal, StoreToken, Granted
    <2> QED BY <2>1, CallType
  <1>2. CASE Granting(p) \/ LoseAnswer(p)
    <2>1. [call[p] EXCEPT !.at = "write",
              !.token = FirstToken(call[p].conn, call[p].refresh)] \in Call
      BY <1>1, TokenTypes DEF Call, Labels
    <2>2. PICK x \in Call : Issue(p, x)
      BY <1>2, <2>1, TokenTypes DEF Granting, LoseAnswer
    <2>3. /\ row'[c].id = row[c].id /\ row'[c].refresh = row[c].refresh
          /\ row'[c].expires = row[c].expires
          /\ row'[c].token.left = row[c].token.left
      BY <1>1, <2>2, IssueType
    <2> QED BY <1>2, <2>3 DEF RowSame, Granting, LoseAnswer
  <1>3. CASE Refusal(p)
    BY <1>3 DEF Refusal, RowSame
  <1>4. CASE StoreToken(p) /\ Stored(call[p].conn, call[p].id)
    <2> DEFINE d == call[p].conn
               t == call[p].token
    <2>1. row' = [row EXCEPT ![d] = [row[d] EXCEPT !.token = t, !.expires = t.left]]
      BY <1>1, <1>4 DEF StoreToken, TypeOK
    <2>2. misses' = [misses EXCEPT ![d] = 0] /\ latest' = latest
      BY <1>4 DEF StoreToken
    <2>3. CASE c = d
      <3>1. row[d] \in Row /\ call[p].at = "write"
        BY <1>1, <1>4 DEF TypeOK, StoreToken
      <3>2. row'[c] = [row[d] EXCEPT !.token = t, !.expires = t.left]
        BY <2>1, <2>3 DEF TypeOK
      <3>3. /\ row'[c].id = row[c].id /\ row'[c].refresh = row[c].refresh
            /\ row'[c].token = t /\ row'[c].expires = t.left
        BY <2>3, <3>1, <3>2 DEF Row
      <3> QED BY <2>2, <2>3, <3>1, <3>3 DEF RowRefreshed, TypeOK
    <2>4. CASE c # d
      BY <2>1, <2>2, <2>4 DEF RowSame, TypeOK
    <2> QED BY <2>3, <2>4
  <1>5. CASE StoreToken(p) /\ ~Stored(call[p].conn, call[p].id)
    BY <1>5 DEF StoreToken, RowSame
  <1> QED BY <1>2, <1>3, <1>4, <1>5 DEF Refresh

LEMMA UserRow ==
    ASSUME TokenAssumption, TypeOK, NEW d \in Connections, User(d),
           NEW c \in Connections
    PROVE  RowSame(c) \/ RowGranted(c) \/ RowGone(c)
  <1>1. CASE UNCHANGED <<row, latest, misses>>
    BY <1>1 DEF RowSame
  <1>2. ASSUME NEW g, NEW columns, StoreGrant(d, g, columns), c # d
        PROVE  RowSame(c)
    BY <1>2 DEF StoreGrant, RowSame, TypeOK
  <1>3. ASSUME NEW g, NEW columns, StoreGrant(d, g, columns), c = d
        PROVE  row'[c] = columns /\ latest'[c] = g /\ misses'[c] = 0
    BY <1>3 DEF StoreGrant, TypeOK
  <1>4. CASE ConnectApiKey(d)
    <2> DEFINE g == issued + 1
    <2>1. StoreGrant(d, g, [id |-> g, refresh |-> 0, token |-> FirstToken(d, g),
                            expires |-> Never])
      BY <1>4 DEF ConnectApiKey
    <2>2. d \notin Timed
      BY <1>4 DEF ConnectApiKey, TokenAssumption
    <2> QED BY <1>2, <1>3, <2>1, <2>2 DEF RowGranted, RefreshOf, FirstToken, Full
  <1>5. CASE DeleteConnection(d)
    BY <1>2, <1>3, <1>5 DEF DeleteConnection, RowGone, Absent
  <1>6. CASE \E g \in pending[d] : StoreCallback(d, g)
    <2> PICK g \in pending[d] : StoreCallback(d, g)
      BY <1>6
    <2>1. StoreGrant(d, g, Upserted(d, g))
      BY DEF StoreCallback
    <2> QED BY <1>2, <1>3, <2>1 DEF RowGranted, Upserted, FirstToken, Full
  <1>7. CASE \/ StartOAuth(d) \/ ExchangeCode(d) \/ LinkStep(d)
             \/ \E g \in pending[d] : LoseCallback(d, g)
             \/ \E g \in live[d] : Revoke(d, g)
    BY <1>1, <1>7 DEF StartOAuth, ExchangeCode, LinkStep, LoseCallback, Revoke
  <1> QED BY <1>4, <1>5, <1>6, <1>7 DEF User

LEMMA RowSteps ==
    ASSUME TokenAssumption, TypeOK, Next, NEW c \in Connections
    PROVE  /\ \/ RowSame(c) \/ RowRefreshed(c) \/ RowGranted(c) \/ RowGone(c)
              \/ Passing
           /\ phase' = phase \/ Passing
  <1>1. CASE \E d \in Connections : User(d)
    <2>1. phase' = phase
      BY <1>1 DEF User, StartOAuth, ExchangeCode, ConnectApiKey, DeleteConnection,
                  LinkStep, StoreCallback, LoseCallback, Revoke
    <2> QED BY <1>1, <2>1, UserRow
  <1>2. CASE \E j \in Jobs : Step(j)
    BY <1>2 DEF Step, StartStep, GetCredentials, Send, ErrorInBody, Unauthorized, StepReads, RowSame
  <1>3. CASE \E p \in Procs : Refresh(p)
    <2>1. phase' = phase
      BY <1>3 DEF Refresh, Granting, LoseAnswer, Refusal, StoreToken
    <2> QED BY <1>3, <2>1, RefreshRow
  <1>4. CASE \E s \in Sweeps : SweepReads(s)
    BY <1>4 DEF SweepReads, RowSame
  <1>5. CASE Passing
    BY <1>5
  <1> QED BY <1>1, <1>2, <1>3, <1>4, <1>5 DEF Next, Passing

(* Time leaves the refresh tokens alone.                                   *)
LEMMA PassingRow ==
    ASSUME TypeOK, Passing, NEW c \in Connections
    PROVE  /\ row'[c].id = row[c].id /\ row'[c].refresh = row[c].refresh
           /\ latest'[c] = latest[c]
  <1>1. CASE Tick
    <2>1. row[c] \in Row
      BY DEF TypeOK
    <2>2. row'[c] = [row[c] EXCEPT !.token = Aged(@), !.expires = Older(@)]
      BY <1>1 DEF Tick
    <2> QED BY <1>1, <2>1, <2>2 DEF Tick, Row
  <1>2. CASE SkipSweep \/ \E s \in Sweeps : StartSweep(s)
    BY <1>2 DEF SkipSweep, StartSweep
  <1> QED BY <1>1, <1>2 DEF Passing

LEMMA KeptStep ==
    ASSUME TokenAssumption, TypeOK, ReconnectionIsKept, [Next]_vars
    PROVE  ReconnectionIsKept'
  <1>1. CASE Next
    <2> SUFFICES ASSUME NEW c \in Connections \ Keyed, row'[c].id # 0
                 PROVE  row'[c].refresh = RefreshOf(c, latest'[c])
      BY DEF ReconnectionIsKept, RefreshOf
    <2>1. row[c].id # 0 => row[c].refresh = RefreshOf(c, latest[c])
      BY DEF ReconnectionIsKept
    <2>2. CASE RowSame(c) \/ RowRefreshed(c)
      BY <2>1, <2>2 DEF RowSame, RowRefreshed
    <2>3. CASE RowGranted(c) \/ RowGone(c)
      BY <2>3 DEF RowGranted, RowGone
    <2>4. CASE Passing
      BY <2>1, <2>4, PassingRow
    <2> QED BY <1>1, <2>2, <2>3, <2>4, RowSteps
  <1>2. CASE UNCHANGED vars
    BY <1>2 DEF ReconnectionIsKept, RefreshOf, vars
  <1> QED BY <1>1, <1>2

(* The refreshes of steps and of the job never undo a reconnection.        *)
THEOREM ReconnectionKept == Spec => []ReconnectionIsKept
  <1>1. Init => ReconnectionIsKept
    BY DEF Init, ReconnectionIsKept, Absent
  <1>2. TypeOK /\ ReconnectionIsKept /\ [Next]_vars => ReconnectionIsKept'
    BY TokenAssumption, KeptStep
  <1> QED BY <1>1, <1>2, TypeCorrect, PTL DEF Spec

-----------------------------------------------------------------------------
(* ExpiredWasSwept *)

(* Expiry is that of the token, and the fewer selections the row has seen, *)
(* the more life its token has left.                                       *)
RowInv(c) ==
    row[c].id # 0 =>
        /\ row[c].expires = row[c].token.left
        /\ row[c].token.left <= Life
        /\ misses[c] = 0 => row[c].token.left > Window - phase
        /\ misses[c] = 1 => row[c].token.left > Window - Period - phase

(* What is about to be stored has its whole life before it.                *)
WriteInv(p) == call[p].at = "write" => call[p].token.left = Full(call[p].conn)

SweepInv ==
    /\ \A c \in Timed : RowInv(c)
    /\ \A p \in Procs : WriteInv(p)

LEMMA RowTicks ==
    ASSUME TokenAssumption, TypeOK, NEW c \in Timed, RowInv(c), Tick
    PROVE  RowInv(c)'
  <1>1. c \in Connections /\ row[c] \in Row
    BY DEF TypeOK, TokenAssumption
  <1>2. /\ phase' = phase + 1 /\ phase < Period /\ phase \in Nat
        /\ misses' = misses
    <2>1. phase \in 0 .. Period /\ Period \in Nat
      BY DEF TypeOK, TokenAssumption
    <2>2. phase # Period /\ phase' = phase + 1 /\ misses' = misses
      BY DEF Tick, Due
    <2> QED BY <2>1, <2>2
  <1>3. row'[c] = [row[c] EXCEPT !.token = Aged(@), !.expires = Older(@)]
    BY <1>1 DEF Tick
  <1>4. /\ row'[c].id = row[c].id
        /\ row'[c].token.left = Older(row[c].token.left)
        /\ row'[c].expires = Older(row[c].expires)
    <2>1. row[c].token \in Token
      BY <1>1 DEF Row
    <2>2. Aged(row[c].token).left = Older(row[c].token.left)
      BY <2>1 DEF Aged, Token
    <2> QED BY <1>1, <1>3, <2>2 DEF Row
  <1>5. row[c].token.left \in 0 .. Never
    BY <1>1 DEF Row, Token
  <1>6. SUFFICES ASSUME row[c].id # 0
                 PROVE  /\ row'[c].expires = row'[c].token.left
                        /\ row'[c].token.left <= Life
                        /\ misses[c] = 0 => row'[c].token.left > Window - phase'
                        /\ misses[c] = 1 => row'[c].token.left > Window - Period - phase'
    BY <1>2, <1>4 DEF RowInv
  <1>7. /\ row[c].expires = row[c].token.left
        /\ row[c].token.left <= Life
        /\ misses[c] = 0 => row[c].token.left > Window - phase
        /\ misses[c] = 1 => row[c].token.left > Window - Period - phase
    BY <1>6 DEF RowInv
  <1>8. /\ Window \in Nat /\ Period \in Nat /\ Window >= 2 * Period
        /\ Life \in Nat /\ Never = Life + 1
    BY DEF TokenAssumption, Never
  <1> DEFINE l == row[c].token.left
  <1>9. Older(l) = IF l = 0 THEN 0 ELSE l - 1
    BY <1>5, <1>7, <1>8 DEF Older
  <1> QED BY <1>2, <1>4, <1>5, <1>7, <1>8, <1>9

LEMMA RowSwept ==
    ASSUME TokenAssumption, TypeOK, NEW c \in Timed, RowInv(c),
           SkipSweep \/ \E s \in Sweeps : StartSweep(s)
    PROVE  RowInv(c)'
  <1>1. c \in Connections /\ row[c] \in Row
    BY DEF TypeOK, TokenAssumption
  <1>2. /\ phase = Period /\ phase' = 0 /\ row' = row
        /\ \E skipped \in BOOLEAN : Selected(skipped)
    BY DEF SkipSweep, StartSweep, Due
  <1>3. misses'[c] = IF Expiring(c) /\ misses[c] < 2 THEN misses[c] + 1 ELSE misses[c]
    BY <1>1, <1>2 DEF Selected
  <1>4. misses[c] \in 0 .. 2 /\ row[c].token.left \in 0 .. Never
    BY <1>1 DEF TypeOK, Row, Token
  <1>5. /\ Window \in Nat /\ Period \in Nat /\ Window >= 2 * Period
        /\ Life \in Nat /\ Never = Life + 1
    BY DEF TokenAssumption, Never
  <1>6. CASE row[c].id # 0
    <2>1. Expiring(c) <=> row[c].token.left \in 1 .. Window
      BY <1>6 DEF Expiring, RowInv
    <2> QED BY <1>2, <1>3, <1>4, <1>5, <1>6, <2>1 DEF RowInv
  <1>7. CASE row[c].id = 0
    BY <1>2, <1>7 DEF RowInv
  <1> QED BY <1>6, <1>7

LEMMA RowInvStep ==
    ASSUME TokenAssumption, TypeOK, SweepInv, Next, NEW c \in Timed
    PROVE  RowInv(c)'
  <1>1. c \in Connections /\ RowInv(c)
    BY DEF TokenAssumption, SweepInv
  <1>2. phase \in Nat /\ Life > Window /\ Window \in Nat /\ Life \in Nat /\ Period \in Nat
    BY DEF TypeOK, TokenAssumption
  <1>3. CASE Passing
    BY <1>1, <1>3, RowTicks, RowSwept DEF Passing
  <1>4. CASE RowSame(c) /\ phase' = phase
    BY <1>1, <1>4 DEF RowInv, RowSame
  <1>5. CASE RowRefreshed(c) /\ phase' = phase
    <2>1. row'[c].token.left = Life
      BY <1>5 DEF RowRefreshed, SweepInv, WriteInv, Full
    <2> QED BY <1>2, <1>5, <2>1 DEF RowInv, RowRefreshed
  <1>6. CASE RowGranted(c) /\ phase' = phase
    BY <1>2, <1>6 DEF RowInv, RowGranted, Full
  <1>7. CASE RowGone(c)
    BY <1>7 DEF RowInv, RowGone
  <1> QED BY <1>1, <1>3, <1>4, <1>5, <1>6, <1>7, RowSteps

LEMMA WriteInvStep ==
    ASSUME TokenAssumption, TypeOK, SweepInv, Next, NEW q \in Procs
    PROVE  WriteInv(q)'
  <1>1. WriteInv(q)
    BY DEF SweepInv
  <1>2. ASSUME call'[q].at = call[q].at, call'[q].conn = call[q].conn,
               call'[q].token.left = call[q].token.left
        PROVE  WriteInv(q)'
    BY <1>1, <1>2 DEF WriteInv, Full
  <1>3. ASSUME call'[q].at # "write" PROVE WriteInv(q)'
    BY <1>3 DEF WriteInv
  <1>4. CASE call' = call
    BY <1>2, <1>4
  <1>5. ASSUME NEW p \in Procs, NEW x, Await(p, x), x.at # "write"
        PROVE  WriteInv(q)'
    BY <1>2, <1>3, <1>5 DEF Await, TypeOK
  <1>6. Idle.at # "write" /\ Refused.at # "write"
    BY DEF Idle, Refused
  <1>7. ASSUME NEW p \in Procs, Drop(p) PROVE WriteInv(q)'
    BY <1>5, <1>6, <1>7 DEF Drop
  <1>8. CASE \E d \in Connections : User(d)
    BY <1>4, <1>8 DEF User, StartOAuth, ExchangeCode, ConnectApiKey, DeleteConnection,
                  LinkStep, StoreCallback, LoseCallback, Revoke
  <1>9. ASSUME NEW j \in Jobs, Step(j) PROVE WriteInv(q)'
    <2>1. j \in Procs
      BY DEF Procs
    <2>2. ASSUME NEW c \in Connections, StartStep(j, c) PROVE WriteInv(q)'
      <3>1. [Idle EXCEPT !.at = "creds", !.conn = c, !.id = link[c]].at = "creds"
        BY DEF Idle
      <3> QED BY <1>5, <2>1, <2>2, <3>1 DEF StartStep
    <2>3. CASE GetCredentials(j)
      <3>1. call[j].at = "creds" /\ call[j] \in [at : Labels, conn : Connections,
                id : Nat, refresh : Nat, token : Token, again : BOOLEAN]
        BY <2>1, <2>3, CallType DEF GetCredentials
      <3>2. [call[j] EXCEPT !.at = "send", !.token = row[call[j].conn].token].at = "send"
        BY <3>1
      <3> QED BY <1>5, <1>7, <2>1, <2>3, <3>2 DEF GetCredentials
    <2>4. CASE Send(j)
      BY <1>7, <2>1, <2>4 DEF Send
    <2>5. CASE ErrorInBody(j)
      BY <1>7, <2>1, <2>5 DEF ErrorInBody
    <2>6. CASE Unauthorized(j)
      <3>1. call[j].at = "send" /\ call[j] \in [at : Labels, conn : Connections,
                id : Nat, refresh : Nat, token : Token, again : BOOLEAN]
        BY <2>1, <2>6, CallType DEF Unauthorized
      <3>2. [call[j] EXCEPT !.at = "refresh"].at = "refresh"
        BY <3>1
      <3> QED BY <1>5, <1>6, <1>7, <2>1, <2>6, <3>2 DEF Unauthorized
    <2>7. CASE StepReads(j)
      BY <1>5, <1>7, <2>1, <2>7 DEF StepReads, ReadRefresh
    <2> QED BY <1>9, <2>2, <2>3, <2>4, <2>5, <2>6, <2>7 DEF Step
  <1>10. ASSUME NEW p \in Procs, Refresh(p) PROVE WriteInv(q)'
    <2>1. call[p].at \in {"post", "write"}
      BY <1>10 DEF Refresh, Granting, LoseAnswer, Refusal, StoreToken, Granted
    <2>2. call[p] \in [at : Labels, conn : Connections, id : Nat,
                       refresh : Nat, token : Token, again : BOOLEAN]
      BY <2>1, CallType
    <2>3. CASE Granting(p)
      <3> DEFINE x == [call[p] EXCEPT !.at = "write",
                          !.token = FirstToken(call[p].conn, call[p].refresh)]
      <3>1. Issue(p, x)
        BY <2>3 DEF Granting
      <3>2. x.conn = call[p].conn /\ x.token = FirstToken(call[p].conn, call[p].refresh)
        BY <2>2
      <3>3. x.token.left = Full(x.conn)
        BY <3>2 DEF FirstToken, Full
      <3> HIDE DEF x
      <3>4. CASE q = p
        <4>1. call'[q] = x
          BY <3>1, <3>4, IssueSelf
        <4> QED BY <3>3, <4>1 DEF WriteInv, Full
      <3>5. CASE q # p
        BY <1>2, <3>1, <3>5, IssueOthers
      <3> QED BY <3>4, <3>5
    <2>4. CASE LoseAnswer(p)
      <3>1. Issue(p, Idle)
        BY <2>4 DEF LoseAnswer
      <3>2. CASE q = p
        <4>1. call'[q] = Idle
          BY <3>1, <3>2, IssueSelf
        <4> QED BY <1>3, <1>6, <4>1
      <3>3. CASE q # p
        BY <1>2, <3>1, <3>3, IssueOthers
      <3> QED BY <3>2, <3>3
    <2>5. CASE Refusal(p)
      BY <1>7, <2>5 DEF Refusal
    <2>6. CASE StoreToken(p)
      <3>1. [call[p] EXCEPT !.at = "creds", !.again = TRUE, !.refresh = 0].at = "creds"
        BY <2>2
      <3> QED BY <1>5, <1>6, <1>7, <2>6, <3>1 DEF StoreToken
    <2> QED BY <1>10, <2>3, <2>4, <2>5, <2>6 DEF Refresh
  <1>11. ASSUME NEW s \in Sweeps, StartSweep(s) \/ SweepReads(s) PROVE WriteInv(q)'
    <2>1. s \in Procs
      BY DEF Procs
    <2>2. CASE StartSweep(s)
      BY <1>4, <2>2 DEF StartSweep
    <2>3. CASE SweepReads(s)
      BY <1>5, <1>7, <2>1, <2>3 DEF SweepReads, ReadRefresh
    <2> QED BY <1>11, <2>2, <2>3
  <1>12. CASE SkipSweep
    BY <1>4, <1>12 DEF SkipSweep
  <1>13. CASE Tick
    <2>1. call[q].at # "write" /\ call'[q] = [call[q] EXCEPT !.token = Aged(@)]
      BY <1>13 DEF Tick
    <2>2. call'[q].at = call[q].at
      BY <2>1 DEF TypeOK, Call, Idle, Refused
    <2> QED BY <1>3, <2>1, <2>2
  <1> QED BY <1>8, <1>9, <1>10, <1>11, <1>12, <1>13 DEF Next

LEMMA SweepInvStep ==
    ASSUME TokenAssumption, TypeOK, SweepInv, [Next]_vars
    PROVE  SweepInv'
  <1>1. CASE Next
    BY <1>1, RowInvStep, WriteInvStep DEF SweepInv
  <1>2. CASE UNCHANGED vars
    BY <1>2 DEF SweepInv, RowInv, WriteInv, Full, vars
  <1> QED BY <1>1, <1>2

(* A row that has been selected, and of which no sweep has failed or taken *)
(* a period, is in the hands of the one sweep that selected it.            *)
HeldInv(c) ==
    row[c].id # 0 /\ misses[c] > 0 /\ ~failed[c] =>
        misses[c] = 1 /\ \E s \in Sweeps : Held(s, c)

LEMMA HeldKept ==
    ASSUME NEW c, HeldInv(c), row'[c].id = row[c].id, misses'[c] = misses[c],
           failed[c] => failed'[c],
           \A s \in Sweeps : row[c].id # 0 /\ Held(s, c) => Held(s, c)' \/ failed'[c]
    PROVE  HeldInv(c)'
  BY DEF HeldInv

LEMMA HeldUser ==
    ASSUME TypeOK, NEW d \in Connections, User(d), NEW c \in Connections, HeldInv(c)
    PROVE  HeldInv(c)'
  <1>1. call' = call /\ todo' = todo
    BY DEF User, StartOAuth, ExchangeCode, ConnectApiKey, DeleteConnection,
           LinkStep, StoreCallback, LoseCallback, Revoke
  <1>2. CASE row'[c].id = row[c].id /\ misses'[c] = misses[c] /\ failed'[c] = failed[c]
    BY <1>1, <1>2, HeldKept DEF Held
  <1>3. ASSUME NEW g, NEW columns, StoreGrant(d, g, columns) PROVE HeldInv(c)'
    <2>1. CASE c = d
      BY <1>3, <2>1 DEF StoreGrant, HeldInv, TypeOK
    <2>2. CASE c # d
      BY <1>2, <1>3, <2>2 DEF StoreGrant, TypeOK
    <2> QED BY <2>1, <2>2
  <1>4. CASE ConnectApiKey(d) \/ DeleteConnection(d) \/ \E g \in pending[d] : StoreCallback(d, g)
    BY <1>3, <1>4 DEF ConnectApiKey, DeleteConnection, StoreCallback
  <1>5. CASE \/ StartOAuth(d) \/ ExchangeCode(d) \/ LinkStep(d)
             \/ \E g \in pending[d] : LoseCallback(d, g)
             \/ \E g \in live[d] : Revoke(d, g)
    BY <1>2, <1>5 DEF StartOAuth, ExchangeCode, LinkStep, LoseCallback, Revoke
  <1> QED BY <1>4, <1>5 DEF User

(* A handler of steps is no sweep, whose call it leaves alone.             *)
LEMMA HeldStep ==
    ASSUME TokenAssumption, TypeOK, NEW j \in Jobs, Step(j), NEW c, HeldInv(c)
    PROVE  HeldInv(c)'
  <1>1. row' = row /\ todo' = todo /\ misses' = misses /\ failed' = failed
    BY DEF Step, StartStep, GetCredentials, Send, ErrorInBody, Unauthorized, StepReads
  <1>2. PICK x : Await(j, x)
    BY DEF Step, StartStep, GetCredentials, Send, ErrorInBody, Unauthorized,
           StepReads, ReadRefresh, Drop
  <1>3. \A s \in Sweeps : call'[s] = call[s]
    BY <1>2 DEF Await, TypeOK, Procs, TokenAssumption
  <1> QED BY <1>1, <1>3, HeldKept DEF Held

LEMMA HeldRefresh ==
    ASSUME TokenAssumption, TypeOK, NEW p \in Procs, Refresh(p),
           NEW c \in Connections, HeldInv(c)
    PROVE  HeldInv(c)'
  <1>1. todo' = todo /\ failed[c] \in BOOLEAN
    BY DEF Refresh, Granting, LoseAnswer, Refusal, StoreToken, TypeOK
  <1>2. call[p] \in [at : Labels, conn : Connections, id : Nat,
                     refresh : Nat, token : Token, again : BOOLEAN]
    <2>1. call[p].at \in {"post", "write"}
      BY DEF Refresh, Granting, LoseAnswer, Refusal, StoreToken, Granted
    <2> QED BY <2>1, CallType
  <1>3. ASSUME Failing(p), row'[c].id = row[c].id, misses'[c] = misses[c],
               NEW s \in Sweeps, Held(s, c),
               s # p => /\ call'[s].at = call[s].at /\ call'[s].conn = call[s].conn
                        /\ call'[s].id = call[s].id
        PROVE  Held(s, c)' \/ failed'[c]
    <2>1. CASE s # p \/ <<c, row[c].id>> \in todo[s]
      BY <1>1, <1>3, <2>1 DEF Held
    <2>2. CASE s = p /\ call[p].conn = c
      BY <1>3, <2>2 DEF Failing, TypeOK
    <2> QED BY <1>3, <2>1, <2>2 DEF Held
  <1>4. CASE Granting(p)
    <2> DEFINE x == [call[p] EXCEPT !.at = "write",
                        !.token = FirstToken(call[p].conn, call[p].refresh)]
    <2>1. Issue(p, x) /\ misses' = misses /\ failed' = failed /\ call[p].at = "post"
      BY <1>4 DEF Granting, Granted
    <2>2. x \in Call /\ x.at = "write" /\ x.conn = call[p].conn /\ x.id = call[p].id
      BY <1>2, TokenTypes DEF Call, Labels
    <2>3. row'[c].id = row[c].id
      BY <1>2, <2>1, <2>2, IssueType
    <2>4. call'[p] = x
      BY <2>1, IssueSelf
    <2> HIDE DEF x
    <2>5. ASSUME NEW s \in Sweeps, Held(s, c) PROVE Held(s, c)'
      <3>1. CASE s = p
        BY <1>1, <2>2, <2>3, <2>4, <2>5, <3>1 DEF Held
      <3>2. CASE s # p
        <4>1. /\ call'[s].at = call[s].at /\ call'[s].conn = call[s].conn
              /\ call'[s].id = call[s].id
          BY <2>1, <3>2, IssueOthers DEF Procs
        <4> QED BY <1>1, <2>3, <2>5, <4>1 DEF Held
      <3> QED BY <3>1, <3>2
    <2> QED BY <2>1, <2>3, <2>5, HeldKept
  <1>5. CASE LoseAnswer(p)
    <2>1. Issue(p, Idle) /\ misses' = misses /\ Failing(p)
      BY <1>5 DEF LoseAnswer
    <2>2. row'[c].id = row[c].id
      BY <1>2, <2>1, TokenTypes, IssueType
    <2>3. \A s \in Sweeps : s # p =>
             /\ call'[s].at = call[s].at /\ call'[s].conn = call[s].conn
             /\ call'[s].id = call[s].id
      BY <2>1, IssueOthers DEF Procs
    <2>4. failed[c] => failed'[c]
      BY <2>1 DEF Failing, TypeOK
    <2> QED BY <1>3, <2>1, <2>2, <2>3, <2>4, HeldKept
  <1>6. CASE Refusal(p)
    <2>1. row' = row /\ misses' = misses /\ Failing(p) /\ Drop(p)
      BY <1>6 DEF Refusal
    <2>2. \A s \in Sweeps : s # p => call'[s] = call[s]
      BY <2>1 DEF Drop, Await, TypeOK, Procs
    <2>3. failed[c] => failed'[c]
      BY <2>1 DEF Failing, TypeOK
    <2> QED BY <1>3, <2>1, <2>2, <2>3, HeldKept
  <1>7. CASE StoreToken(p)
    <2>1. PICK x : Await(p, x)
      BY <1>7 DEF StoreToken, Drop
    <2>2. \A s \in Sweeps : s # p => call'[s] = call[s]
      BY <2>1 DEF Await, TypeOK, Procs
    <2>3. CASE Stored(c, call[p].id) /\ c = call[p].conn
      BY <1>7, <2>3 DEF StoreToken, HeldInv, TypeOK
    <2>4. CASE ~(Stored(c, call[p].id) /\ c = call[p].conn)
      <3>1. row'[c] = row[c] /\ misses'[c] = misses[c] /\ failed'[c] = failed[c]
        BY <1>2, <1>7, <2>4 DEF StoreToken, TypeOK
      <3>2. row[c].id # 0 /\ Held(p, c) => <<c, row[c].id>> \in todo[p]
        BY <2>4 DEF Held, Stored
      <3>3. \A s \in Sweeps : row[c].id # 0 /\ Held(s, c) => Held(s, c)'
        BY <1>1, <2>2, <3>1, <3>2 DEF Held
      <3> QED BY <3>1, <3>3, HeldKept
    <2> QED BY <2>3, <2>4
  <1> QED BY <1>4, <1>5, <1>6, <1>7 DEF Refresh

(* What a new sweep selects is in its hands; what an earlier one still had *)
(* has failed.                                                             *)
LEMMA HeldSwept ==
    ASSUME TypeOK, NEW c \in Connections, HeldInv(c),
           SkipSweep \/ \E s \in Sweeps : StartSweep(s)
    PROVE  HeldInv(c)'
  <1>1. row' = row /\ call' = call /\ misses[c] \in 0 .. 2
    BY DEF SkipSweep, StartSweep, TypeOK
  <1>2. CASE SkipSweep
    <2>1. CASE Expiring(c)
      BY <1>2, <2>1 DEF SkipSweep, Selected, HeldInv
    <2>2. CASE ~Expiring(c)
      <3>1. misses'[c] = misses[c] /\ failed'[c] = failed[c] /\ todo' = todo
        BY <1>2, <2>2 DEF SkipSweep, Selected, TypeOK
      <3> QED BY <1>1, <3>1, HeldKept DEF Held
    <2> QED BY <2>1, <2>2
  <1>3. ASSUME NEW s \in Sweeps, StartSweep(s) PROVE HeldInv(c)'
    <2>1. /\ todo'[s] = {<<d, row[d].id>> : d \in {d \in Connections : Expiring(d)}}
          /\ todo[s] = {} /\ call[s].at = "idle"
          /\ Selected(FALSE)
          /\ \A q \in Sweeps : q # s => todo'[q] = todo[q]
      BY <1>3 DEF StartSweep, TypeOK
    <2>2. CASE Expiring(c) /\ misses[c] = 0
      <3>1. misses'[c] = 1
        BY <2>1, <2>2 DEF Selected
      <3>2. Held(s, c)'
        BY <1>1, <2>1, <2>2 DEF Held
      <3> QED BY <3>1, <3>2 DEF HeldInv
    <2>3. CASE Expiring(c) /\ misses[c] # 0
      <3>1. row[c].id # 0 /\ ~failed[c] => \E q \in Sweeps : Held(q, c)
        BY <1>1, <2>3 DEF HeldInv
      <3>2. row[c].id # 0 => failed'[c]
        BY <2>1, <2>3, <3>1 DEF Selected
      <3> QED BY <1>1, <3>2 DEF HeldInv
    <2>4. CASE ~Expiring(c)
      <3>1. misses'[c] = misses[c] /\ failed'[c] = failed[c]
        BY <2>1, <2>4 DEF Selected, TypeOK
      <3>2. \A q \in Sweeps : Held(q, c) => Held(q, c)'
        BY <1>1, <2>1 DEF Held
      <3> QED BY <1>1, <3>1, <3>2, HeldKept
    <2> QED BY <1>1, <2>2, <2>3, <2>4
  <1> QED BY <1>2, <1>3

LEMMA HeldReads ==
    ASSUME TypeOK, NEW s \in Sweeps, SweepReads(s), NEW c \in Connections, HeldInv(c)
    PROVE  HeldInv(c)'
  <1>1. PICK x \in todo[s] : /\ todo' = [todo EXCEPT ![s] = @ \ {x}]
                             /\ ReadRefresh(s, x[1], x[2])
    BY DEF SweepReads
  <1>2. row' = row /\ misses' = misses /\ failed' = failed /\ call[s].at = "idle"
    BY DEF SweepReads
  <1>3. ASSUME NEW y, Await(s, y)
        PROVE  call'[s] = y /\ \A q \in Sweeps : q # s => call'[q] = call[q]
    BY <1>3 DEF Await, TypeOK, Procs
  <1>4. \A q \in Sweeps : q # s => call'[q] = call[q] /\ todo'[q] = todo[q]
    BY <1>1, <1>3 DEF ReadRefresh, Drop, TypeOK
  <1>5. ASSUME row[c].id # 0, Held(s, c) PROVE Held(s, c)'
    <2>1. <<c, row[c].id>> \in todo[s]
      BY <1>2, <1>5 DEF Held
    <2>2. CASE x = <<c, row[c].id>>
      <3>1. Stored(x[1], x[2]) /\ x[1] = c /\ x[2] = row[c].id
        BY <1>5, <2>2 DEF Stored
      <3>2. /\ call'[s].at = "post" /\ call'[s].conn = c
            /\ call'[s].id = row[c].id
        BY <1>1, <1>3, <3>1 DEF ReadRefresh
      <3> QED BY <1>2, <3>2 DEF Held
    <2>3. CASE x # <<c, row[c].id>>
      <3>1. <<c, row[c].id>> \in todo'[s]
        BY <1>1, <2>1, <2>3 DEF TypeOK
      <3> QED BY <1>2, <3>1 DEF Held
    <2> QED BY <2>2, <2>3
  <1>6. ASSUME NEW q \in Sweeps, q # s, Held(q, c) PROVE Held(q, c)'
    BY <1>2, <1>4, <1>6 DEF Held
  <1> QED BY <1>2, <1>5, <1>6, HeldKept

LEMMA HeldTick ==
    ASSUME TypeOK, NEW c \in Connections, HeldInv(c), Tick
    PROVE  HeldInv(c)'
  <1>1. row'[c].id = row[c].id
    BY PassingRow DEF Passing
  <1>2. todo' = todo /\ misses' = misses /\ failed' = failed
    BY DEF Tick
  <1>3. ASSUME NEW s \in Sweeps
        PROVE  /\ call'[s].at = call[s].at /\ call'[s].conn = call[s].conn
               /\ call'[s].id = call[s].id
    <2>1. call'[s] = [call[s] EXCEPT !.token = Aged(@)] /\ call[s] \in Call
      BY DEF Tick, Procs, TypeOK
    <2> QED BY <2>1 DEF Call, Idle, Refused
  <1> QED BY <1>1, <1>2, <1>3, HeldKept DEF Held

LEMMA HeldInvStep ==
    ASSUME TokenAssumption, TypeOK, NEW c \in Connections, HeldInv(c), [Next]_vars
    PROVE  HeldInv(c)'
  <1>1. CASE UNCHANGED vars
    BY <1>1 DEF vars, HeldInv, Held
  <1> QED BY <1>1, HeldUser, HeldStep, HeldRefresh, HeldSwept, HeldReads, HeldTick
          DEF Next

(* The job's window of two periods lets an idle connection survive one     *)
(* failed sweep, for every lifetime longer than the window: what expires   *)
(* was selected twice (RowInv), and the first selection was not answered   *)
(* before the second, which makes it a failure (HeldInv).                  *)
THEOREM SweptTwice == Spec => []ExpiredWasSwept
  <1> DEFINE Inv == SweepInv /\ \A c \in Connections : HeldInv(c)
  <1>1. Init => Inv
    <2> SUFFICES ASSUME Init PROVE Inv
      OBVIOUS
    <2>1. \A c \in Timed : RowInv(c)
      BY TokenAssumption DEF Init, RowInv, Absent, TokenAssumption
    <2>2. \A p \in Procs : WriteInv(p)
      BY DEF Init, WriteInv, Idle
    <2>3. \A c \in Connections : HeldInv(c)
      BY DEF Init, HeldInv, Absent
    <2> QED BY <2>1, <2>2, <2>3 DEF SweepInv
  <1>2. TypeOK /\ Inv /\ [Next]_vars => Inv'
    BY TokenAssumption, SweepInvStep, HeldInvStep
  <1>3. TypeOK /\ Inv => ExpiredWasSwept
    <2> SUFFICES ASSUME TypeOK, Inv, NEW c \in Timed, row[c].id # 0,
                        row[c].token.left = 0
                 PROVE  misses[c] = 2 /\ failed[c]
      BY DEF ExpiredWasSwept, Lapsed
    <2>1. c \in Connections /\ misses[c] \in 0 .. 2 /\ phase \in 0 .. Period
      BY TokenAssumption DEF TokenAssumption, TypeOK
    <2>2. Window \in Nat /\ Period \in Nat \ {0} /\ Window >= 2 * Period
      BY TokenAssumption DEF TokenAssumption
    <2>3. misses[c] = 2
      BY <2>1, <2>2 DEF SweepInv, RowInv
    <2> QED BY <2>1, <2>3 DEF HeldInv
  <1> QED BY <1>1, <1>2, <1>3, TypeCorrect, PTL DEF Spec

-----------------------------------------------------------------------------
(* RefusedOnlyIfDisturbed *)

(* An undisturbed step has, after its refresh, a valid token on its way    *)
(* from the provider over the row to the second request.                   *)
Safe(j) ==
    ~disturbed[j] =>
        /\ call[j].at = "write" =>
              Valid(call[j].conn, call[j].token)
        /\ call[j].at = "creds" /\ call[j].again =>
              /\ Stored(call[j].conn, call[j].id)
              /\ Valid(call[j].conn, row[call[j].conn].token)
        /\ call[j].at = "send" /\ call[j].again =>
              Valid(call[j].conn, call[j].token)
        /\ call[j].at \in {"refresh", "post"} => ~call[j].again
        /\ call[j].at # "refused"

SafeInv == \A j \in Jobs : Safe(j)

(* Who is not at work, or works on another account, notices nothing.       *)
LEMMA SafeElsewhere ==
    ASSUME NEW j \in Jobs, Safe(j), call'[j] = call[j],
           disturbed'[j] = disturbed[j],
           \/ ~Busy(j)
           \/ row'[call[j].conn] = row[call[j].conn] /\ live'[call[j].conn] = live[call[j].conn]
    PROVE  Safe(j)'
  BY DEF Safe, Busy, Stored, Valid

LEMMA SafeUser ==
    ASSUME TokenAssumption, TypeOK, SafeInv, NEW c \in Connections, User(c),
           NEW j \in Jobs
    PROVE  Safe(j)'
  <1>1. Safe(j) /\ disturbed[j] \in BOOLEAN
    BY DEF SafeInv, TypeOK
  <1>2. call' = call
    BY DEF User, StartOAuth, ExchangeCode, ConnectApiKey, DeleteConnection,
           LinkStep, StoreCallback, LoseCallback, Revoke
  <1>3. CASE StartOAuth(c) \/ LinkStep(c) \/ \E g \in pending[c] : LoseCallback(c, g)
    BY <1>1, <1>2, <1>3, SafeElsewhere DEF StartOAuth, LinkStep, LoseCallback
  <1>4. CASE Disturb(c, {}) /\ \A d \in Connections :
                d # c => row'[d] = row[d] /\ live'[d] = live[d]
    <2>1. CASE call[j].conn = c /\ Busy(j)
      <3>1. disturbed'[j]
        BY <1>4, <2>1 DEF Disturb
      <3> QED BY <3>1 DEF Safe
    <2>2. CASE ~(call[j].conn = c /\ Busy(j))
      <3>1. disturbed'[j] = disturbed[j]
        BY <1>1, <1>4, <2>2 DEF Disturb
      <3>2. Busy(j) => call[j].conn \in Connections
        <4>1. j \in Procs
          BY DEF Procs
        <4> QED BY <4>1, CallType DEF Busy
      <3> QED BY <1>1, <1>2, <1>4, <2>2, <3>1, <3>2, SafeElsewhere
    <2> QED BY <2>1, <2>2
  <1>5. ASSUME NEW g, NEW columns, StoreGrant(c, g, columns)
        PROVE  Disturb(c, {}) /\ \A d \in Connections : d # c => row'[d] = row[d]
    BY <1>5 DEF StoreGrant, TypeOK
  <1>6. CASE ConnectApiKey(c)
    BY <1>4, <1>5, <1>6 DEF ConnectApiKey, TypeOK
  <1>7. CASE DeleteConnection(c) \/ \E g \in pending[c] : StoreCallback(c, g)
    BY <1>4, <1>5, <1>7 DEF DeleteConnection, StoreCallback
  <1>8. CASE ExchangeCode(c)
    BY <1>4, <1>8 DEF ExchangeCode, TypeOK
  <1>9. CASE \E g \in live[c] : Revoke(c, g)
    BY <1>4, <1>9 DEF Revoke, TypeOK
  <1> QED BY <1>3, <1>6, <1>7, <1>8, <1>9 DEF User

(* A process that changes nothing but its own call.                        *)
LEMMA SafeBeside ==
    ASSUME TypeOK, SafeInv, NEW p \in Procs, NEW x, Await(p, x),
           row' = row, live' = live, NEW j \in Jobs, j # p,
           disturbed'[j] = disturbed[j]
    PROVE  Safe(j)'
  <1>1. call'[j] = call[j]
    BY DEF Await, Procs, TypeOK
  <1> QED BY <1>1, SafeElsewhere DEF SafeInv

LEMMA SafeIdle ==
    ASSUME NEW j \in Jobs, call'[j] = Idle
    PROVE  Safe(j)'
  BY DEF Safe, Idle

LEMMA SafeStep ==
    ASSUME TokenAssumption, TypeOK, SafeInv, NEW p \in Jobs, Step(p),
           NEW j \in Jobs
    PROVE  Safe(j)'
  <1>1. p \in Procs /\ Safe(p) /\ row' = row /\ live' = live
    BY DEF Procs, SafeInv, Step, StartStep, GetCredentials, Send, ErrorInBody, Unauthorized, StepReads
  <1>2. CASE j # p
    <2>1. disturbed'[j] = disturbed[j]
      BY <1>2 DEF Step, StartStep, GetCredentials, Send, ErrorInBody, Unauthorized, StepReads, TypeOK
    <2>2. \E x : Await(p, x)
      BY DEF Step, StartStep, GetCredentials, Send, ErrorInBody, Unauthorized, StepReads, ReadRefresh, Drop
    <2> QED BY <1>1, <1>2, <2>1, <2>2, SafeBeside
  <1>3. CASE j = p
    <2>1. ASSUME NEW x, Await(p, x) PROVE call'[p] = x
      BY <1>1, <2>1 DEF Await, TypeOK
    <2>2. CASE Drop(p)
      BY <1>3, <2>1, <2>2, SafeIdle DEF Drop
    <2>3. ASSUME NEW c \in Connections, StartStep(p, c) PROVE Safe(j)'
      <3> DEFINE x == [Idle EXCEPT !.at = "creds", !.conn = c, !.id = link[c]]
      <3>1. x.at = "creds" /\ x.again = FALSE
        BY DEF Idle
      <3>2. call'[p] = x
        BY <2>1, <2>3 DEF StartStep
      <3> QED BY <1>3, <3>1, <3>2 DEF Safe
    <2>4. CASE GetCredentials(p) /\ ~Drop(p)
      <3> DEFINE c == call[p].conn
                 x == [call[p] EXCEPT !.at = "send", !.token = row[c].token]
      <3>1. call[p].at = "creds" /\ call'[p] = x /\ disturbed' = disturbed
        BY <2>1, <2>4 DEF GetCredentials
      <3>2. /\ x.at = "send" /\ x.again = call[p].again
            /\ x.conn = c /\ x.token = row[c].token
        BY <1>1, <3>1, CallType
      <3> QED BY <1>1, <1>3, <3>1, <3>2 DEF Safe, Valid
    <2>5. CASE Unauthorized(p) /\ ~Drop(p)
      <3>1. call[p].at = "send" /\ ~Valid(call[p].conn, call[p].token)
            /\ disturbed' = disturbed
        BY <2>5 DEF Unauthorized
      <3>2. CASE call[p].again
        BY <1>1, <1>3, <3>1, <3>2 DEF Safe
      <3>3. CASE ~call[p].again
        <4>1. call'[p] = [call[p] EXCEPT !.at = "refresh"]
          BY <2>1, <2>5, <3>3 DEF Unauthorized
        <4>2. call'[p].at = "refresh" /\ call'[p].again = call[p].again
          BY <1>1, <3>1, <4>1, CallType
        <4> QED BY <1>3, <3>3, <4>2 DEF Safe
      <3> QED BY <3>2, <3>3
    <2>6. CASE StepReads(p) /\ ~Drop(p)
      <3>1. call'[p].at = "post" /\ call'[p].again = FALSE
        BY <2>1, <2>6 DEF StepReads, ReadRefresh
      <3> QED BY <1>3, <3>1 DEF Safe
    <2>7. CASE Send(p) \/ ErrorInBody(p)
      BY <2>2, <2>7 DEF Send, ErrorInBody
    <2> QED BY <2>2, <2>3, <2>4, <2>5, <2>6, <2>7 DEF Step
  <1> QED BY <1>2, <1>3

LEMMA SafeRefresh ==
    ASSUME TokenAssumption, TypeOK, SafeInv, NEW p \in Procs, Refresh(p),
           NEW j \in Jobs
    PROVE  Safe(j)'
  <1> DEFINE c == call[p].conn
  <1>1. call[p] \in [at : Labels, conn : Connections, id : Nat,
                     refresh : Nat, token : Token, again : BOOLEAN]
    <2>1. call[p].at \in {"post", "write"}
      BY DEF Refresh, Granting, LoseAnswer, Refusal, StoreToken, Granted
    <2> QED BY <2>1, CallType
  <1>2. j \in Procs /\ Safe(j) /\ disturbed[j] \in BOOLEAN
    BY DEF Procs, SafeInv, TypeOK
  <1>3. live' = live
    BY DEF Refresh, Granting, LoseAnswer, Refusal, StoreToken
  <1>4. CASE j # p
    <2>1. CASE Drop(p) /\ row' = row /\ disturbed' = disturbed
      BY <1>3, <1>4, <2>1, SafeBeside DEF Drop
    <2>2. CASE Disturb(c, {p}) /\ c = call[j].conn /\ Busy(j)
      <3>1. disturbed'[j]
        BY <1>4, <2>2 DEF Disturb
      <3> QED BY <3>1 DEF Safe
    <2>3. CASE Disturb(c, {p}) /\ ~(c = call[j].conn /\ Busy(j)) /\ call'[j] = call[j]
               /\ \A d \in Connections : d # c => row'[d] = row[d]
      <3>1. disturbed'[j] = disturbed[j]
        BY <1>2, <2>3 DEF Disturb
      <3>2. Busy(j) => call[j].conn \in Connections
        BY <1>2, CallType DEF Busy
      <3> QED BY <1>2, <1>3, <2>3, <3>1, <3>2, SafeElsewhere
    <2>4. CASE Granting(p) \/ LoseAnswer(p)
      <3>1. PICK x : Issue(p, x)
        BY <2>4 DEF Granting, LoseAnswer
      <3>2. Disturb(c, {p})
        BY <2>4 DEF Granting, LoseAnswer, Granted
      <3>3. \A d \in Connections : d # c => row'[d] = row[d]
        BY <3>1 DEF Issue, TypeOK
      <3>4. CASE call[j].conn # c
        BY <1>2, <1>4, <2>3, <3>1, <3>2, <3>3, <3>4, IssueOthers
      <3>5. CASE call[j].conn = c
        <4>1. call[j].at \notin {"idle", "refused"}
          BY <1>1, <3>5 DEF TypeOK, Call, Idle, Refused, TokenAssumption, Procs, Labels
        <4> QED BY <2>2, <3>2, <3>5, <4>1 DEF Busy
      <3> QED BY <3>4, <3>5
    <2>5. CASE Refusal(p)
      BY <2>1, <2>5 DEF Refusal
    <2>6. CASE StoreToken(p) /\ Stored(c, call[p].id)
      <3>1. Disturb(c, {p}) /\ \A d \in Connections : d # c => row'[d] = row[d]
        BY <2>6 DEF StoreToken, TypeOK
      <3>2. call'[j] = call[j]
        BY <1>2, <1>4, <2>6 DEF StoreToken, Await, TypeOK
      <3> QED BY <2>2, <2>3, <3>1, <3>2
    <2>7. CASE StoreToken(p) /\ ~Stored(c, call[p].id)
      BY <2>1, <2>7 DEF StoreToken
    <2> QED BY <2>4, <2>5, <2>6, <2>7 DEF Refresh
  <1>5. CASE j = p
    <2>1. CASE Drop(p)
      <3>1. call'[p] = Idle
        BY <2>1 DEF Drop, Await, TypeOK
      <3> QED BY <1>5, <3>1, SafeIdle
    <2>2. CASE Granting(p)
      <3> DEFINE t == FirstToken(c, call[p].refresh)
                 x == [call[p] EXCEPT !.at = "write", !.token = t]
      <3>1. call[p].refresh \in live[c] /\ Issue(p, x)
        BY <2>2 DEF Granting, Granted
      <3>2. call'[p] = x
        BY <3>1, IssueSelf
      <3>3. x.at = "write" /\ x.conn = c /\ x.token = t
        BY <1>1
      <3>4. t.grant = call[p].refresh /\ t.left > 0 /\ t.fresh
        BY TokenAssumption DEF FirstToken, TokenAssumption, Never
      <3> QED BY <1>3, <1>5, <3>1, <3>2, <3>3, <3>4 DEF Safe, Valid
    <2>3. CASE LoseAnswer(p)
      <3>1. Issue(p, Idle)
        BY <2>3 DEF LoseAnswer
      <3>2. call'[p] = Idle
        BY <3>1, IssueSelf
      <3> QED BY <1>5, <3>2, SafeIdle
    <2>4. CASE Refusal(p)
      BY <2>1, <2>4 DEF Refusal
    <2>5. CASE StoreToken(p) /\ ~Drop(p)
      <3> DEFINE x == [call[p] EXCEPT !.at = "creds", !.again = TRUE, !.refresh = 0]
      <3>1. /\ call[p].at = "write" /\ Stored(c, call[p].id)
            /\ row' = [row EXCEPT ![c].token = call[p].token,
                                  ![c].expires = call[p].token.left]
            /\ call'[p] = x
            /\ Disturb(c, {p})
        BY <1>5, <2>5 DEF StoreToken, Await, TypeOK
      <3>2. x.at = "creds" /\ x.conn = c /\ x.id = call[p].id
        BY <1>1
      <3>3. row'[c].token = call[p].token /\ row'[c].id = row[c].id
        <4>1. row' = [row EXCEPT ![c] = [row[c] EXCEPT !.token = call[p].token,
                                                      !.expires = call[p].token.left]]
          BY <1>1, <3>1 DEF TypeOK
        <4>2. row[c] \in Row
          BY <1>1 DEF TypeOK
        <4> QED BY <1>1, <4>1, <4>2 DEF TypeOK, Row
      <3>4. disturbed'[j] = disturbed[j]
        BY <1>2, <1>5, <3>1 DEF Disturb
      <3>5. ~disturbed[j] => Valid(c, call[p].token)
        BY <1>2, <1>5, <3>1 DEF Safe
      <3> QED BY <1>3, <1>5, <3>1, <3>2, <3>3, <3>4, <3>5 DEF Safe, Stored, Valid
    <2> QED BY <2>1, <2>2, <2>3, <2>4, <2>5 DEF Refresh
  <1> QED BY <1>4, <1>5

(* A tick that a token survives leaves it valid.                           *)
LEMMA AgedToken ==
    ASSUME TokenAssumption, NEW t \in Token, t.left > 0, t.left # 1
    PROVE  /\ Aged(t).left > 0
           /\ Aged(t).grant = t.grant /\ Aged(t).fresh = t.fresh
  BY DEF Aged, Older, Token, Never, TokenAssumption

(* Time disturbs a step only when it ends the token that its refresh       *)
(* obtained: a token that is being stored does not age.                    *)
LEMMA SafeTick ==
    ASSUME TokenAssumption, TypeOK, SafeInv, Tick, NEW j \in Jobs
    PROVE  Safe(j)'
  <1> DEFINE c == call[j].conn
  <1>1. Safe(j) /\ j \in Procs /\ call[j] \in Call
    BY DEF SafeInv, Procs, TypeOK
  <1>2. /\ call'[j].at = call[j].at /\ call'[j].conn = c
        /\ call'[j].id = call[j].id /\ call'[j].again = call[j].again
        /\ call'[j].token = Aged(call[j].token)
    <2>1. call'[j] = [call[j] EXCEPT !.token = Aged(@)]
      BY <1>1 DEF Tick
    <2> QED BY <1>1, <2>1 DEF Call, Idle, Refused
  <1>3. live' = live /\ call[j].at # "write"
    BY <1>1 DEF Tick
  <1>4. CASE disturbed[j] \/ Expires(j)
    <2>1. disturbed'[j]
      BY <1>4 DEF Tick
    <2> QED BY <2>1 DEF Safe
  <1>5. CASE ~disturbed[j] /\ ~Expires(j)
    <2>1. ASSUME NEW t \in Token, Valid(c, t), t.left # 1
          PROVE  Aged(t).grant \in live'[c] /\ Aged(t).left > 0 /\ Aged(t).fresh
      BY <1>3, <2>1, AgedToken DEF Valid
    <2>2. CASE call[j].at = "creds" /\ call[j].again
      <3>1. c \in Connections /\ row[c] \in Row
        BY <1>1, <2>2, CallType DEF TypeOK
      <3>2. row'[c] = [row[c] EXCEPT !.token = Aged(@), !.expires = Older(@)]
        BY <3>1 DEF Tick
      <3>3. row'[c].id = row[c].id /\ row'[c].token = Aged(row[c].token)
        BY <3>1, <3>2 DEF Row
      <3>4. Stored(c, call[j].id) /\ Valid(c, row[c].token)
        BY <1>1, <1>5, <2>2 DEF Safe
      <3>5. row[c].token \in Token /\ row[c].token.left # 1
        BY <1>5, <2>2, <3>1 DEF Expires, Row
      <3> QED BY <1>2, <2>1, <2>2, <3>3, <3>4, <3>5 DEF Safe, Stored, Valid
    <2>3. CASE call[j].at = "send" /\ call[j].again
      <3>1. call[j].token \in Token
        BY <1>1, <2>3, CallType
      <3>2. Valid(c, call[j].token) /\ call[j].token.left # 1
        BY <1>1, <1>5, <2>3 DEF Safe, Expires
      <3> QED BY <1>2, <2>1, <2>3, <3>1, <3>2 DEF Safe, Valid
    <2>4. CASE ~(call[j].at \in {"creds", "send"} /\ call[j].again)
      BY <1>1, <1>2, <1>3, <1>5, <2>4 DEF Safe
    <2> QED BY <2>2, <2>3, <2>4
  <1> QED BY <1>4, <1>5

LEMMA SafeInvStep ==
    ASSUME TokenAssumption, TypeOK, SafeInv, [Next]_vars
    PROVE  SafeInv'
  <1> SUFFICES ASSUME NEW j \in Jobs PROVE Safe(j)'
    BY DEF SafeInv
  <1>1. Safe(j) /\ j \in Procs
    BY DEF SafeInv, Procs
  <1>2. CASE UNCHANGED vars
    BY <1>1, <1>2 DEF vars, Safe, Stored, Valid
  <1>3. CASE SkipSweep \/ \E s \in Sweeps : StartSweep(s)
    BY <1>1, <1>3, SafeElsewhere DEF SkipSweep, StartSweep
  <1>4. CASE Tick
    BY <1>4, SafeTick
  <1>5. ASSUME NEW s \in Sweeps, SweepReads(s) PROVE Safe(j)'
    <2>1. s \in Procs /\ s # j
      BY TokenAssumption DEF Procs, TokenAssumption
    <2>2. \E x : Await(s, x)
      BY <1>5 DEF SweepReads, ReadRefresh, Drop
    <2> QED BY <1>5, <2>1, <2>2, SafeBeside DEF SweepReads
  <1> QED BY <1>2, <1>3, <1>4, <1>5, SafeUser, SafeStep, SafeRefresh DEF Next

(* A step fails with a second 401 only if, since it started, somebody else *)
(* touched its account or the token of its refresh expired: whatever time  *)
(* passes before (executeWithRefresh).                                     *)
THEOREM RefusedIfDisturbed == Spec => []RefusedOnlyIfDisturbed
  <1>1. Init => SafeInv
    BY DEF Init, SafeInv, Safe, Idle, Procs
  <1>2. TypeOK /\ SafeInv /\ [Next]_vars => SafeInv'
    BY TokenAssumption, SafeInvStep
  <1>3. TypeOK /\ SafeInv => RefusedOnlyIfDisturbed
    BY DEF SafeInv, Safe, RefusedOnlyIfDisturbed, TypeOK
  <1> QED BY <1>1, <1>2, <1>3, TypeCorrect, PTL DEF Spec
=============================================================================
