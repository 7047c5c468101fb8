------------------------------ MODULE RunLimits ------------------------------
(***************************************************************************)
(* The worker's two limits, both counters in Redis that expire: how many   *)
(* runs of a zap start in a clock hour (underRunCap) and how many calls    *)
(* are made with a connection in a window (checkAndConsume).  The worker   *)
(* processes handle the messages of the runs of one zap, whose actions     *)
(* share one connection; RunExecution has the rest of what they do.        *)
(***************************************************************************)
EXTENDS Integers, Sequences, FiniteSets

CONSTANTS
    Workers,        \* worker processes, one message at a time each
    Runs,
    NoRun,
    Caps,           \* what the owner sets max_runs_per_hour to
    Limit,          \* WORKER_RATE_LIMIT_PER_CONNECTION
    Window,         \* WORKER_RATE_LIMIT_WINDOW_SECONDS, in ticks
    Hour,           \* 3600 seconds, in ticks
    MaxClock,       \* bound: ticks
    MaxDeliveries,  \* bound: messages that Kafka delivers
    Faults          \* a subset of {"throw", "crash", "edit"}

ASSUME LimitsAssumption ==
    /\ IsFiniteSet(Workers)
    /\ Caps \subseteq Nat \ {0}
    /\ {Limit, Window, Hour} \subseteq Nat \ {0}
    /\ {MaxClock, MaxDeliveries} \subseteq Nat
    /\ NoRun \notin Runs

Clock   == 0 .. MaxClock
Buckets == 0 .. MaxClock \div Hour

VARIABLES
    now,
    maxRunsPerHour,
    run,        \* zap_runs.status
    deliveries, \* so far
    worker,     \* at: what it awaits; cap, bucket: what it has read
    runcap,     \* the Redis key runcap:<zap>:<bucket> of each bucket
    ratelimit,  \* the Redis key ratelimit:<connection>
    \* history
    caps,       \* the values that the cap has had
    started,    \* per bucket, when runs were started (or their answer lost)
    refused,    \* buckets in which a run was refused
    called,     \* when calls were allowed (or their answer lost)
    denied      \* times at which a call was denied

redis   == <<runcap, ratelimit>>
history == <<caps, started, refused, called, denied>>
vars    == <<now, maxRunsPerHour, run, deliveries, worker, redis, history>>

Terminal == {"completed", "failed", "filtered"}
Idle     == [at |-> "idle", run |-> NoRun, cap |-> 0, bucket |-> 0]
Absent   == [count |-> 0, expires |-> 0]

Init ==
    /\ now = 0
    /\ maxRunsPerHour \in Caps
    /\ run = [r \in Runs |-> "queued"]
    /\ deliveries = 0
    /\ worker = [w \in Workers |-> Idle]
    /\ runcap = [b \in Buckets |-> Absent]
    /\ ratelimit = Absent
    /\ caps = {maxRunsPerHour}
    /\ started = [b \in Buckets |-> <<>>]
    /\ refused = {}
    /\ called = <<>>
    /\ denied = {}

(***************************************************************************)
(* Redis.  ATOMIC_INCR_EXPIRE: a key that does not exist, or has expired,  *)
(* is 1 and gets its expiry; a key that does is increased and keeps it.    *)
(***************************************************************************)
(* Mutant of Incremented: every increment sets the expiry anew.            *)
IncrementedAndExtended(key, ttl) ==
    [count |-> (IF now < key.expires THEN key.count ELSE 0) + 1,
     expires |-> now + ttl]

(* Mutant of Incremented: the hour's key expires with the window's.        *)
IncrementedShortly(key, ttl) ==
    IF now < key.expires THEN [key EXCEPT !.count = @ + 1]
                         ELSE [count |-> 1, expires |-> now + 1]

Incremented(key, ttl) ==
    IF now < key.expires THEN [key EXCEPT !.count = @ + 1]
                         ELSE [count |-> 1, expires |-> now + ttl]

(* Mutants of Under: one too many, one too few.                            *)
UnderByOne(key, limit) == key.count <= limit + 1
BelowLimit(key, limit) == key.count < limit

Under(key, limit) == key.count <= limit

Tick ==
    /\ now < MaxClock
    /\ now' = now + 1
    /\ UNCHANGED <<maxRunsPerHour, run, deliveries, worker, redis, history>>

(***************************************************************************)
(* onMessage.                                                              *)
(***************************************************************************)
Await(w, at) == worker' = [worker EXCEPT ![w].at = at]
Return(w)    == worker' = [worker EXCEPT ![w] = Idle]

(* A run that is not terminal is claimed, by its first delivery, or        *)
(* fetched, by a further one: after a crash or a rebalance, or because it  *)
(* was produced twice.                                                     *)
Deliver(w, r) ==
    /\ worker[w] = Idle
    /\ deliveries < MaxDeliveries
    /\ run[r] \notin Terminal
    /\ run' = [run EXCEPT ![r] = "in_progress"]
    /\ deliveries' = deliveries + 1
    /\ worker' = [worker EXCEPT ![w] = [Idle EXCEPT !.at = "zap", !.run = r]]
    /\ UNCHANGED <<now, maxRunsPerHour, redis, history>>

(* The zap is read; its cap and the hour are those of this moment.  The    *)
(* owner may have switched it off.                                         *)
ReadZap(w) ==
    /\ worker[w].at = "zap"
    /\ \/ worker' = [worker EXCEPT ![w] = [@ EXCEPT !.at = "cap",
                                                    !.cap = maxRunsPerHour,
                                                    !.bucket = now \div Hour]]
       \/ "edit" \in Faults /\ Await(w, "filtered")
    /\ UNCHANGED <<now, maxRunsPerHour, run, deliveries, redis, history>>

Started(w) ==
    started' = [started EXCEPT ![worker[w].bucket] = Append(@, now)]

(* underRunCap: Redis counts when the command arrives.                     *)
CheckCap(w) ==
    LET b   == worker[w].bucket
        key == Incremented(runcap[b], Hour)
    IN  /\ worker[w].at = "cap"
        /\ runcap' = [runcap EXCEPT ![b] = key]
        /\ \/ /\ Under(key, worker[w].cap)
              /\ Await(w, "steps")
              /\ Started(w)
              /\ UNCHANGED refused
           \/ /\ ~Under(key, worker[w].cap)
              /\ Await(w, "failed")
              /\ refused' = refused \cup {b}
              /\ UNCHANGED started
        /\ UNCHANGED <<now, maxRunsPerHour, run, deliveries, ratelimit, caps,
                       called, denied>>

(* Mutant of Finish: the status is written wherever the handler is.        *)
FinishAnywhere(w) ==
    /\ worker[w] # Idle
    /\ run' = [run EXCEPT ![worker[w].run] = worker[w].at]
    /\ Return(w)
    /\ UNCHANGED <<now, maxRunsPerHour, deliveries, redis, history>>

(* The run is failed (over the cap), filtered (inactive) or completed.     *)
Finish(w) ==
    /\ worker[w].at \in Terminal
    /\ run' = [run EXCEPT ![worker[w].run] = worker[w].at]
    /\ Return(w)
    /\ UNCHANGED <<now, maxRunsPerHour, deliveries, redis, history>>

(***************************************************************************)
(* resume, runStep.                                                        *)
(***************************************************************************)
Called == called' = Append(called, now)

(* checkAndConsume before the call of an action.  The step of a denied     *)
(* call is released, and the handler returns.                              *)
RunAction(w) ==
    LET key == Incremented(ratelimit, Window)
    IN  /\ worker[w].at = "steps"
        /\ ratelimit' = key
        /\ \/ Under(key, Limit) /\ Called /\ UNCHANGED <<worker, denied>>
           \/ /\ ~Under(key, Limit)
              /\ denied' = denied \cup {now}
              /\ Return(w)
              /\ UNCHANGED called
        /\ UNCHANGED <<now, maxRunsPerHour, run, deliveries, runcap, caps,
                       started, refused>>

StepsDone(w) ==
    /\ worker[w].at = "steps"
    /\ Await(w, "completed")
    /\ UNCHANGED <<now, maxRunsPerHour, run, deliveries, redis, history>>

(* A statement or command is rejected, and eachBatch goes on with the next *)
(* message; or the process dies, and the message is delivered again.       *)
Fail(w) ==
    /\ Faults \cap {"throw", "crash"} # {}
    /\ worker[w] # Idle
    /\ Return(w)
    /\ UNCHANGED <<now, maxRunsPerHour, run, deliveries, redis, history>>

(* The same, but the command of the limiter was executed.                  *)
LoseAnswer(w) ==
    /\ Faults \cap {"throw", "crash"} # {}
    /\ \/ LET b   == worker[w].bucket
              key == Incremented(runcap[b], Hour)
          IN  /\ worker[w].at = "cap"
              /\ runcap' = [runcap EXCEPT ![b] = key]
              /\ \/ Under(key, worker[w].cap) /\ Started(w)
                 \/ ~Under(key, worker[w].cap) /\ UNCHANGED started
              /\ UNCHANGED <<ratelimit, called>>
       \/ LET key == Incremented(ratelimit, Window)
          IN  /\ worker[w].at = "steps"
              /\ ratelimit' = key
              /\ \/ Under(key, Limit) /\ Called
                 \/ ~Under(key, Limit) /\ UNCHANGED called
              /\ UNCHANGED <<runcap, started>>
    /\ Return(w)
    /\ UNCHANGED <<now, maxRunsPerHour, run, deliveries, caps, refused,
                   denied>>

(***************************************************************************)
(* updateZap at app-api.                                                   *)
EditCap(cap) ==
    /\ "edit" \in Faults
    /\ cap # maxRunsPerHour
    /\ maxRunsPerHour' = cap
    /\ caps' = caps \cup {cap}
    /\ UNCHANGED <<now, run, deliveries, worker, redis, started, refused,
                   called, denied>>

Handle(w) ==
    \/ ReadZap(w) \/ CheckCap(w) \/ Finish(w) \/ RunAction(w) \/ StepsDone(w)

Next ==
    \/ Tick
    \/ \E w \in Workers : \/ \E r \in Runs : Deliver(w, r)
                          \/ Handle(w) \/ Fail(w) \/ LoseAnswer(w)
    \/ \E cap \in Caps : EditCap(cap)

Spec == Init /\ [][Next]_vars

(***************************************************************************)
(* Properties.                                                             *)
(***************************************************************************)
Key == [count : Nat, expires : Nat]

Handler == [at : {"idle", "zap", "cap", "steps"} \cup Terminal,
            run : Runs \cup {NoRun}, cap : Caps \cup {0}, bucket : Buckets]

TypeOK ==
    /\ now \in Clock
    /\ maxRunsPerHour \in Caps
    /\ run \in [Runs -> {"queued", "in_progress"} \cup Terminal]
    /\ deliveries \in 0 .. MaxDeliveries
    /\ worker \in [Workers -> Handler]
    /\ runcap \in [Buckets -> Key]
    /\ ratelimit \in Key
    /\ caps \subseteq Caps
    /\ started \in [Buckets -> Seq(Clock)]
    /\ refused \subseteq Buckets
    /\ called \in Seq(Clock)
    /\ denied \subseteq Clock

(* How many of these times are among those.                                *)
Within(times, those) == Cardinality({i \in DOMAIN times : times[i] \in those})

InHour(b) == {t \in Clock : t \div Hour = b}

(* Not more runs than a cap that the zap has had start in a clock hour,    *)
(* with any number of workers; those that asked in time and were counted   *)
(* after the hour, when its key may be gone, are at most one per worker.   *)
(* So an hour that is not a clock hour sees up to twice the cap.           *)
HourlyCap ==
    \A b \in Buckets :
        /\ \E cap \in caps : Within(started[b], InHour(b)) <= cap
        /\ Within(started[b], Clock \ InHour(b)) <= Cardinality(Workers)

(* A run is failed for the cap only in an hour in which as many runs as    *)
(* some cap that the zap has had were started, or one was more than once:  *)
(* the runs refused before do not use the cap up.                          *)
RefusedOnlyAtCap ==
    \A b \in refused : \E cap \in caps : Len(started[b]) >= cap

(* The connection is used at most twice Limit times in any window: twice,  *)
(* because the window starts with the first call after the last window.    *)
CallsPerWindow ==
    \A t \in Clock : Within(called, t .. t + Window - 1) <= 2 * Limit

(* A call is denied only when Limit calls were made less than a window     *)
(* ago: denied calls do not prolong the window.                            *)
DeniedOnlyWhenBusy ==
    \A t \in denied : Within(called, t - Window + 1 .. t) >= Limit
=============================================================================
