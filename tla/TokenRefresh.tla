---------------------------- MODULE TokenRefresh ----------------------------
(***************************************************************************)
(* The row of a connection and those who write it: the OAuth callback and  *)
(* the API key form of app-api, its job that refreshes tokens about to     *)
(* expire, and the workers, which refresh a token when an API answers 401. *)
(* None of them locks the row.  Between reading the refresh token and      *)
(* storing the new access token each awaits the provider, and meanwhile    *)
(* the user may connect again or delete the connection.  Sessions of       *)
(* consent at the provider are numbered: grants.                           *)
(***************************************************************************)
EXTENDS Integers

CONSTANTS
    Connections,    \* accounts at third parties that the user connects
    NoConnection,   \* what an idle process works on
    Keyed,          \* those whose connector has authType api_key
    Timed,          \* OAuth accounts whose provider sends expires_in
    Jobs,           \* handlers that execute an action step
    Sweeps,         \* invocations of the cron job that may overlap
    MaxGrants,      \* bound of this instance: grants in all
    Life,           \* expires_in, in ticks
    Window,         \* 30 minutes: the job takes what expires by then
    Period,         \* 15 minutes: the job's schedule
    Faults          \* what may go wrong, a subset of FaultKinds

(* "lose": an answer of the provider does not arrive; "revoke": a grant is *)
(* revoked; "replace": a new grant ends the older ones; "single": a new    *)
(* access token ends the older ones of its grant; "outage": app-api is not *)
(* up when its job is due, or the job's query fails.                       *)
FaultKinds == {"lose", "revoke", "replace", "single", "outage"}

ASSUME TokenAssumption ==
    /\ NoConnection \notin Connections
    /\ Keyed \subseteq Connections
    /\ Timed \subseteq Connections \ Keyed
    /\ Jobs \cap Sweeps = {}
    /\ MaxGrants \in Nat
    /\ Period \in Nat \ {0}
    /\ Window \in Nat /\ Window >= 2 * Period
    /\ Life \in Nat /\ Life > Window
    /\ Faults \subseteq FaultKinds

VARIABLES
    row,        \* table connections; id 0: no row
    link,       \* zap_steps.connection_id of the steps, 0: NULL
    consent,    \* the user has an authorization URL, whose state never expires
    issued,     \* grants and keys given so far, and the ids of rows
    live,       \* grants that the provider honours
    pending,    \* grants whose callback has still to write its row
    call,       \* what a step or a sweep awaits, and the values it has read
    todo,       \* connections that a sweep has selected and not yet refreshed
    phase,      \* ticks since the job was last due
    latest,     \* history: the grant stored last in the row
    misses,     \* history: selections of the row since its token was stored
    failed,     \* history: one of these has failed, or took a period
    disturbed   \* history: during the step somebody else touched the account,
                \* or the token that the step had refreshed expired

accounts == <<row, link, consent, issued, live, pending>>
history  == <<latest, misses, failed, disturbed>>
vars     == <<accounts, call, todo, phase, history>>

Procs == Jobs \cup Sweeps
Never == Life + 1      \* expires_at NULL, a token without end

Token   == [grant : Nat, left : 0 .. Never, fresh : BOOLEAN]
NoToken == [grant |-> 0, left |-> 0, fresh |-> FALSE]

Row    == [id : Nat, refresh : Nat, token : Token,
           expires : 0 .. Never]
Absent == [id |-> 0, refresh |-> 0, token |-> NoToken, expires |-> 0]

Labels == {"creds", "send", "refresh", "post", "write"}

Idle    == [at |-> "idle", conn |-> NoConnection, id |-> 0, refresh |-> 0,
            token |-> NoToken, again |-> FALSE]
Refused == [Idle EXCEPT !.at = "refused"]

Call == {Idle, Refused} \cup
        [at : Labels, conn : Connections, id : Nat, refresh : Nat,
         token : Token, again : BOOLEAN]

TypeOK ==
    /\ row \in [Connections -> Row]
    /\ link \in [Connections -> Nat]
    /\ consent \in [Connections -> BOOLEAN]
    /\ issued \in Nat
    /\ live \in [Connections -> SUBSET Nat]
    /\ pending \in [Connections -> SUBSET Nat]
    /\ call \in [Procs -> Call]
    /\ todo \in [Sweeps -> SUBSET (Connections \X Nat)]
    /\ phase \in 0 .. Period
    /\ latest \in [Connections -> Nat]
    /\ misses \in [Connections -> 0 .. 2]
    /\ failed \in [Connections -> BOOLEAN]
    /\ disturbed \in [Jobs -> BOOLEAN]
    /\ \A c \in Connections : link[c] \in {0, row[c].id}    \* foreign key

Init ==
    /\ row = [c \in Connections |-> Absent]
    /\ link = [c \in Connections |-> 0]
    /\ consent = [c \in Connections |-> FALSE]
    /\ issued = 0
    /\ live = [c \in Connections |-> {}]
    /\ pending = [c \in Connections |-> {}]
    /\ call = [p \in Procs |-> Idle]
    /\ todo = [s \in Sweeps |-> {}]
    /\ phase = 0
    /\ latest = [c \in Connections |-> 0]
    /\ misses = [c \in Connections |-> 0]
    /\ failed = [c \in Connections |-> FALSE]
    /\ disturbed = [j \in Jobs |-> FALSE]

-----------------------------------------------------------------------------
(* What the provider says and the database finds *)

Valid(c, t) == t.grant \in live[c] /\ t.left > 0 /\ t.fresh

Stored(c, id) == row[c].id # 0 /\ row[c].id = id

(* Slack without token rotation sends neither expires_in nor a refresh     *)
(* token; exchangeCode stores an empty one (0) then.                       *)
RefreshOf(c, g) == IF c \in Timed THEN g ELSE 0
FirstToken(c, g) ==
    [grant |-> g, left |-> IF c \in Timed THEN Life ELSE Never, fresh |-> TRUE]

Busy(j) == call[j].at \notin {"idle", "refused"}

(* History: the account is touched by somebody who is not among exempt.    *)
Disturb(c, exempt) ==
    disturbed' = [j \in Jobs |-> disturbed[j]
                     \/ (j \notin exempt /\ call[j].conn = c /\ Busy(j))]

(* p goes on to await x; tokens that the provider's answer ends are in     *)
(* nobody's hands valid any more.                                          *)
Outdated(t, g) == IF t.grant = g THEN [t EXCEPT !.fresh = FALSE] ELSE t

Issue(p, x) ==
    LET c == call[p].conn
        g == call[p].refresh
        Ends(t) == IF "single" \in Faults THEN Outdated(t, g) ELSE t
    IN  /\ call' = [q \in Procs |->
              IF q = p THEN x
              ELSE IF call[q].conn = c
                   THEN [call[q] EXCEPT !.token = Ends(@)] ELSE call[q]]
        /\ row' = [row EXCEPT ![c].token = Ends(@)]

Await(p, x) == call' = [call EXCEPT ![p] = x]

(* A rejected statement or an error of the provider: the step's handler    *)
(* throws, the loop of the sweep goes on with its next connection.         *)
Drop(p) == Await(p, Idle)

-----------------------------------------------------------------------------
(* connection.controller *)

StartOAuth(c) ==
    /\ c \notin Keyed
    /\ consent' = [consent EXCEPT ![c] = TRUE]
    /\ UNCHANGED <<row, link, issued, live, pending, call, todo, phase,
                   history>>

(* The callback redeems the code of a new grant.                           *)
ExchangeCode(c) ==
    LET g == issued + 1 IN
    /\ consent[c]
    /\ g <= MaxGrants
    /\ issued' = g
    /\ \E kept \in {live[c]} \cup (IF "replace" \in Faults THEN {{}} ELSE {}) :
          live' = [live EXCEPT ![c] = kept \cup {g}]
    /\ pending' = [pending EXCEPT ![c] = @ \cup {g}]
    /\ Disturb(c, {})
    /\ UNCHANGED <<row, link, consent, call, todo, phase, latest, misses,
                   failed>>

(* The answer is lost, or app-api dies before the upsert.                  *)
LoseCallback(c, g) ==
    /\ "lose" \in Faults
    /\ g \in pending[c]
    /\ pending' = [pending EXCEPT ![c] = @ \ {g}]
    /\ UNCHANGED <<row, link, consent, issued, live, call, todo, phase,
                   history>>

StoreGrant(c, g, columns) ==
    /\ row' = [row EXCEPT ![c] = columns]
    /\ latest' = [latest EXCEPT ![c] = g]
    /\ misses' = [misses EXCEPT ![c] = 0]
    /\ failed' = [failed EXCEPT ![c] = FALSE]
    /\ Disturb(c, {})

(* Mutant of Upserted: the update leaves the refresh token alone.          *)
UpsertedKeepsRefresh(c, g) ==
    [id      |-> IF row[c].id = 0 THEN g ELSE row[c].id,
     refresh |-> IF row[c].id = 0 THEN RefreshOf(c, g) ELSE row[c].refresh,
     token   |-> FirstToken(c, g),
     expires |-> FirstToken(c, g).left]

Upserted(c, g) ==
    [id      |-> IF row[c].id = 0 THEN g ELSE row[c].id,
     refresh |-> RefreshOf(c, g),
     token   |-> FirstToken(c, g),
     expires |-> FirstToken(c, g).left]

(* upsert on (user_id, connector_id, external_account_id).                 *)
StoreCallback(c, g) ==
    /\ g \in pending[c]
    /\ pending' = [pending EXCEPT ![c] = @ \ {g}]
    /\ StoreGrant(c, g, Upserted(c, g))
    /\ UNCHANGED <<link, consent, issued, live, call, todo, phase>>

(* create, with externalAccountId 'default': a second key is refused by    *)
(* the unique index.                                                       *)
ConnectApiKey(c) ==
    LET g == issued + 1 IN
    /\ c \in Keyed
    /\ row[c].id = 0
    /\ g <= MaxGrants
    /\ issued' = g
    /\ live' = [live EXCEPT ![c] = @ \cup {g}]
    /\ StoreGrant(c, g, [id |-> g, refresh |-> 0, token |-> FirstToken(c, g),
                         expires |-> Never])
    /\ UNCHANGED <<link, consent, pending, call, todo, phase>>

(* zap_steps.connection_id: ON DELETE SET NULL.                            *)
DeleteConnection(c) ==
    /\ row[c].id # 0
    /\ StoreGrant(c, 0, Absent)
    /\ link' = [link EXCEPT ![c] = 0]
    /\ UNCHANGED <<consent, issued, live, pending, call, todo, phase>>

(* updateStep with a connection that assertConnectionOwnership accepts.    *)
LinkStep(c) ==
    /\ row[c].id # 0
    /\ link' = [link EXCEPT ![c] = row[c].id]
    /\ UNCHANGED <<row, consent, issued, live, pending, call, todo, phase,
                   history>>

-----------------------------------------------------------------------------
(* runStep and executeWithRefresh *)

(* A step without connection is refused (STEP_MISCONFIGURED).              *)
StartStep(j, c) ==
    /\ ~Busy(j)
    /\ link[c] # 0
    /\ Await(j, [Idle EXCEPT !.at = "creds", !.conn = c, !.id = link[c]])
    /\ disturbed' = [disturbed EXCEPT ![j] = FALSE]
    /\ UNCHANGED <<accounts, todo, phase, latest, misses, failed>>

(* The credentials are read again after a refresh.                         *)
GetCredentials(j) ==
    LET me == call[j] IN
    /\ me.at = "creds"
    /\ IF Stored(me.conn, me.id)
          THEN Await(j, [me EXCEPT !.at = "send", !.token = row[me.conn].token])
          ELSE Drop(j)
    /\ UNCHANGED <<accounts, todo, phase, history>>

(* The API takes the token, or its answer is lost (ambiguous).             *)
Send(j) ==
    /\ call[j].at = "send"
    /\ Valid(call[j].conn, call[j].token) \/ "lose" \in Faults
    /\ Drop(j)
    /\ UNCHANGED <<accounts, todo, phase, history>>

(* Slack reports an invalid token in the body of a 200: the adapter makes  *)
(* SLACK_API_ERROR of it, and nothing is refreshed.                        *)
ErrorInBody(j) ==
    /\ call[j].at = "send"
    /\ call[j].conn \notin Keyed
    /\ ~Valid(call[j].conn, call[j].token)
    /\ Drop(j)
    /\ UNCHANGED <<accounts, todo, phase, history>>

(* 401: INVALID_API_KEY for a key, REQUEST_ERROR after a refresh.          *)
Unauthorized(j) ==
    LET me == call[j] IN
    /\ me.at = "send"
    /\ ~Valid(me.conn, me.token)
    /\ IF me.conn \in Keyed THEN Drop(j)
       ELSE IF me.again THEN Await(j, Refused)
       ELSE Await(j, [me EXCEPT !.at = "refresh"])
    /\ UNCHANGED <<accounts, todo, phase, history>>

-----------------------------------------------------------------------------
(* refreshToken of the worker, refreshAccessToken of app-api *)

(* The refresh token of the row, if the row is still there.                *)
ReadRefresh(p, c, id) ==
    IF Stored(c, id)
    THEN Await(p, [at |-> "post", conn |-> c, id |-> id,
                   refresh |-> row[c].refresh, token |-> NoToken,
                   again |-> FALSE])
    ELSE Drop(p)

(* Mutant of StepReads: the refresh is not awaited.                        *)
StepDoesNotWait(j) ==
    /\ call[j].at = "refresh"
    /\ Await(j, [call[j] EXCEPT !.at = "creds", !.again = TRUE])
    /\ UNCHANGED <<accounts, todo, phase, history>>

StepReads(j) ==
    /\ call[j].at = "refresh"
    /\ ReadRefresh(j, call[j].conn, call[j].id)
    /\ UNCHANGED <<accounts, todo, phase, history>>

SweepReads(s) ==
    /\ call[s].at = "idle"
    /\ \E x \in todo[s] :
          /\ todo' = [todo EXCEPT ![s] = @ \ {x}]
          /\ ReadRefresh(s, x[1], x[2])
    /\ UNCHANGED <<accounts, phase, history>>

Granted(p) ==
    /\ call[p].at = "post"
    /\ call[p].refresh \in live[call[p].conn]
    /\ Disturb(call[p].conn, {p})

(* The provider answers with a new access token.                           *)
Granting(p) ==
    /\ Granted(p)
    /\ Issue(p, [call[p] EXCEPT !.at = "write",
                    !.token = FirstToken(call[p].conn, call[p].refresh)])
    /\ UNCHANGED <<link, consent, issued, live, pending, todo, phase, latest,
                   misses, failed>>

(* A sweep has selected the row and still has to store its token.          *)
Held(s, c) ==
    \/ <<c, row[c].id>> \in todo[s]
    \/ /\ call[s].at \in {"post", "write"}
       /\ call[s].conn = c /\ call[s].id = row[c].id

(* History: a sweep gets no token for the row that it has selected.        *)
Failing(p) ==
    LET c == call[p].conn
    IN  failed' = [failed EXCEPT ![c] = @ \/ (p \in Sweeps /\ Held(p, c))]

(* It does, but the answer is lost.                                        *)
LoseAnswer(p) ==
    /\ "lose" \in Faults
    /\ Granted(p)
    /\ Issue(p, Idle)
    /\ Failing(p)
    /\ UNCHANGED <<link, consent, issued, live, pending, todo, phase, latest,
                   misses>>

(* It answers with an error, or there is no answer to an empty request.    *)
Refusal(p) ==
    /\ call[p].at = "post"
    /\ call[p].refresh \notin live[call[p].conn]
    /\ Drop(p)
    /\ Failing(p)
    /\ UNCHANGED <<accounts, todo, phase, latest, misses, disturbed>>

(* Mutant of StoreToken: the answer's expires_in is not stored.            *)
StoreTokenOnly(p) ==
    LET me == call[p] IN
    /\ me.at = "write"
    /\ IF Stored(me.conn, me.id)
       THEN /\ row' = [row EXCEPT ![me.conn].token = me.token]
            /\ misses' = [misses EXCEPT ![me.conn] = 0]
            /\ failed' = [failed EXCEPT ![me.conn] = FALSE]
            /\ Await(p, IF p \in Jobs
                        THEN [me EXCEPT !.at = "creds", !.again = TRUE,
                                        !.refresh = 0]
                        ELSE Idle)
            /\ Disturb(me.conn, {p})
       ELSE Drop(p) /\ UNCHANGED <<row, misses, failed, disturbed>>
    /\ UNCHANGED <<link, consent, issued, live, pending, todo, phase, latest>>

(* update: access_token and expires_at.  The step reads its credentials    *)
(* again, the sweep goes on.                                               *)
StoreToken(p) ==
    LET me == call[p] IN
    /\ me.at = "write"
    /\ IF Stored(me.conn, me.id)
       THEN /\ row' = [row EXCEPT ![me.conn].token = me.token,
                                  ![me.conn].expires = me.token.left]
            /\ misses' = [misses EXCEPT ![me.conn] = 0]
            /\ failed' = [failed EXCEPT ![me.conn] = FALSE]
            /\ Await(p, IF p \in Jobs
                        THEN [me EXCEPT !.at = "creds", !.again = TRUE,
                                        !.refresh = 0]
                        ELSE Idle)
            /\ Disturb(me.conn, {p})
       ELSE Drop(p) /\ UNCHANGED <<row, misses, failed, disturbed>>
    /\ UNCHANGED <<link, consent, issued, live, pending, todo, phase, latest>>

-----------------------------------------------------------------------------
(* refresh-expiring-tokens.job, time and the provider *)

(* Mutant of Expiring: lt instead of lte.                                  *)
ExpiringBefore(c) == row[c].id # 0 /\ row[c].expires \in 1 .. Window - 1

(* expiresAt: lte now + 30 minutes, gt now.                                *)
Expiring(c) == row[c].id # 0 /\ row[c].expires \in 1 .. Window

Due == phase = Period

(* History: what expires is selected; a sweep that still holds it has      *)
(* taken a period.                                                         *)
Selected(skipped) ==
    /\ misses' = [c \in Connections |->
           IF Expiring(c) /\ misses[c] < 2 THEN misses[c] + 1 ELSE misses[c]]
    /\ failed' = [c \in Connections |->
           \/ failed[c]
           \/ Expiring(c) /\ (skipped \/ \E s \in Sweeps : Held(s, c))]

(* Cron starts an invocation whether or not the previous one has ended.    *)
StartSweep(s) ==
    /\ Due
    /\ todo[s] = {} /\ call[s].at = "idle"
    /\ todo' = [todo EXCEPT ![s] =
                   {<<c, row[c].id>> : c \in {d \in Connections : Expiring(d)}}]
    /\ Selected(FALSE)
    /\ phase' = 0
    /\ UNCHANGED <<accounts, call, latest, disturbed>>

SkipSweep ==
    /\ "outage" \in Faults
    /\ Due
    /\ Selected(TRUE)
    /\ phase' = 0
    /\ UNCHANGED <<accounts, call, todo, latest, disturbed>>

Older(n) == IF n \in {0, Never} THEN n ELSE n - 1
Aged(t)  == [t EXCEPT !.left = Older(@)]

(* The token that the step uses after its refresh is over with this tick.  *)
Expires(j) ==
    LET me == call[j] IN
    /\ me.again
    /\ \/ me.at = "creds" /\ row[me.conn].token.left = 1
       \/ me.at = "send" /\ me.token.left = 1

(* PromptWrites: storing a token takes no time to speak of once the        *)
(* provider has answered; its answer may take any time.                    *)
Tick ==
    /\ ~Due
    /\ \A c \in Connections : pending[c] = {}
    /\ \A p \in Procs : call[p].at # "write"
    /\ phase' = phase + 1
    /\ row' = [c \in Connections |->
          [row[c] EXCEPT !.token = Aged(@), !.expires = Older(@)]]
    /\ call' = [p \in Procs |-> [call[p] EXCEPT !.token = Aged(@)]]
    /\ disturbed' = [j \in Jobs |-> disturbed[j] \/ Expires(j)]
    /\ UNCHANGED <<link, consent, issued, live, pending, todo, latest, misses,
                   failed>>

Revoke(c, g) ==
    /\ "revoke" \in Faults
    /\ g \in live[c]
    /\ live' = [live EXCEPT ![c] = @ \ {g}]
    /\ Disturb(c, {})
    /\ UNCHANGED <<row, link, consent, issued, pending, call, todo, phase,
                   latest, misses, failed>>

-----------------------------------------------------------------------------
User(c) ==
    \/ StartOAuth(c) \/ ExchangeCode(c) \/ ConnectApiKey(c)
    \/ DeleteConnection(c) \/ LinkStep(c)
    \/ \E g \in pending[c] : StoreCallback(c, g) \/ LoseCallback(c, g)
    \/ \E g \in live[c] : Revoke(c, g)

Step(j) ==
    \/ \E c \in Connections : StartStep(j, c)
    \/ GetCredentials(j) \/ Send(j) \/ ErrorInBody(j) \/ Unauthorized(j)
    \/ StepReads(j)

Refresh(p) == Granting(p) \/ LoseAnswer(p) \/ Refusal(p) \/ StoreToken(p)

Next ==
    \/ \E c \in Connections : User(c)
    \/ \E j \in Jobs : Step(j)
    \/ \E p \in Procs : Refresh(p)
    \/ \E s \in Sweeps : StartSweep(s) \/ SweepReads(s)
    \/ SkipSweep \/ Tick

Spec == Init /\ [][Next]_vars

(* Time passes and cron starts the job.  app-api and the workers go on     *)
(* with what they await, and a provider that was asked answers, or its     *)
(* connection breaks at last.  Nothing is assumed of steps and users.      *)
Fairness ==
    /\ WF_vars(Tick)
    /\ \A c \in Connections :
          WF_vars(\E g \in pending[c] : StoreCallback(c, g) \/ LoseCallback(c, g))
    /\ \A s \in Sweeps : WF_vars(StartSweep(s)) /\ WF_vars(SweepReads(s))
    /\ \A p \in Procs : WF_vars(Refresh(p))

FairSpec == Spec /\ Fairness

-----------------------------------------------------------------------------
(* Properties *)

(* Connecting again is for good: whatever refreshes were under way, the    *)
(* row keeps the refresh token that the callback stored last, so an        *)
(* account that was reconnected does not fall back to its dead grant.      *)
ReconnectionIsKept ==
    \A c \in Connections \ Keyed :
        row[c].id # 0 => row[c].refresh = RefreshOf(c, latest[c])

(* A step that gives up after refreshing its token (REQUEST_ERROR on the   *)
(* second 401) was disturbed: since it started, the user, the provider or  *)
(* another refresh touched the account, or its new token expired.  An old  *)
(* token, however long expired, is no reason.                              *)
RefusedOnlyIfDisturbed ==
    \A j \in Jobs : call[j].at = "refused" => disturbed[j]

(* An idle connection survives one failed sweep: a token expires in the    *)
(* row only after two sweeps have selected it, and one of them was skipped *)
(* or not answered, or took a period.                                      *)
Lapsed(c) == row[c].token.left = 0 /\ misses[c] = 2 /\ failed[c]

ExpiredWasSwept ==
    \A c \in Timed :
        row[c].id # 0 /\ row[c].token.left = 0 => Lapsed(c)

(* Where no API answers 401 (Slack), the job alone keeps accounts working: *)
(* from when it runs and is answered, and the grant is honoured, the       *)
(* stored access token is valid again and again, whoever stored a stale    *)
(* one before.  It gives up what has lapsed: that needs a new consent.     *)
Usable(c) == row[c].id # 0 /\ row[c].refresh \in live[c]

JobAlone ==
    <>[][/\ \A p \in Procs : ~LoseAnswer(p)
         /\ \A j \in Jobs : ~StepReads(j)
         /\ SkipSweep => \A c \in Connections : ~Expiring(c)]_vars

WorkingAgain ==
    \A c \in Timed :
        JobAlone /\ <>[]Usable(c) =>
            []<>Valid(c, row[c].token) \/ <>[]Lapsed(c)
=============================================================================
