--------------------------- MODULE RunLimitsProofs ---------------------------
(***************************************************************************)
(* What the two counters of the worker guarantee, for any number of        *)
(* workers, runs and messages, every limit, cap, window and hour.          *)
(***************************************************************************)
EXTENDS RunLimits, FiniteSetTheorems, SequenceTheorems, TLAPS

-----------------------------------------------------------------------------
(***************************************************************************)
(* Counting the times of a history.                                        *)
(***************************************************************************)
LEMMA WithinFinite ==
    ASSUME NEW S, NEW s \in Seq(S), NEW T
    PROVE  /\ IsFiniteSet({i \in DOMAIN s : s[i] \in T})
           /\ Within(s, T) \in Nat
           /\ Within(s, T) <= Len(s)
  <1>1. /\ Len(s) \in Nat
        /\ DOMAIN s = 1 .. Len(s)
    BY LenProperties
  <1>2. IsFiniteSet(DOMAIN s) /\ Cardinality(DOMAIN s) = Len(s)
    BY <1>1, FS_Interval
  <1>3. {i \in DOMAIN s : s[i] \in T} \in SUBSET DOMAIN s
    OBVIOUS
  <1> HIDE <1>1
  <1>4. /\ IsFiniteSet({i \in DOMAIN s : s[i] \in T})
        /\ Cardinality({i \in DOMAIN s : s[i] \in T}) <= Len(s)
    BY <1>2, <1>3, FS_Subset
  <1>5. Cardinality({i \in DOMAIN s : s[i] \in T}) \in Nat
    BY <1>4, FS_CardinalityType
  <1> QED BY <1>4, <1>5 DEF Within

LEMMA WithinNothing == \A T : Within(<<>>, T) = 0
  <1> SUFFICES ASSUME NEW T PROVE Within(<<>>, T) = 0
    OBVIOUS
  <1>1. {i \in DOMAIN <<>> : <<>>[i] \in T} = {}
    OBVIOUS
  <1> QED BY <1>1, FS_EmptySet DEF Within

LEMMA WithinAppend ==
    ASSUME NEW S, NEW s \in Seq(S), NEW t \in S, NEW T
    PROVE  Within(Append(s, t), T)
             = IF t \in T THEN Within(s, T) + 1 ELSE Within(s, T)
  <1> DEFINE old == {i \in DOMAIN s : s[i] \in T}
             n   == Len(s) + 1
             new == {i \in DOMAIN Append(s, t) : Append(s, t)[i] \in T}
  <1>1. /\ Len(s) \in Nat
        /\ DOMAIN s = 1 .. Len(s)
    BY LenProperties
  <1>2. /\ DOMAIN Append(s, t) = 1 .. n
        /\ \A i \in 1 .. Len(s) : Append(s, t)[i] = s[i]
        /\ Append(s, t)[n] = t
    BY <1>1
  <1>3. IsFiniteSet(old) /\ Within(s, T) = Cardinality(old)
    BY WithinFinite DEF Within
  <1>4. CASE t \in T
    <2>1. new = old \cup {n}
      BY <1>1, <1>2, <1>4
    <2>2. n \notin old
      BY <1>1
    <2>3. Cardinality(old \cup {n}) = Cardinality(old) + 1
      <3> HIDE DEF old, n
      <3> QED BY <2>2, <1>3, FS_AddElement
    <2> QED BY <2>1, <2>3, <1>3, <1>4 DEF Within
  <1>5. CASE t \notin T
    <2>1. new = old
      BY <1>1, <1>2, <1>5
    <2> QED BY <2>1, <1>3, <1>5 DEF Within
  <1> QED BY <1>4, <1>5

(* Times among U and V, counted in each.                                   *)
LEMMA WithinCovered ==
    ASSUME NEW S, NEW s \in Seq(S), NEW T, NEW U, NEW V,
           \A i \in DOMAIN s : s[i] \in T => s[i] \in U \/ s[i] \in V
    PROVE  Within(s, T) <= Within(s, U) + Within(s, V)
  <1> DEFINE At(X) == {i \in DOMAIN s : s[i] \in X}
  <1>1. \A X : IsFiniteSet(At(X)) /\ Cardinality(At(X)) \in Nat
    BY WithinFinite DEF Within
  <1>2. At(T) \in SUBSET (At(U) \cup At(V))
    OBVIOUS
  <1>3. Within(s, T) = Cardinality(At(T)) /\ Within(s, U) = Cardinality(At(U))
        /\ Within(s, V) = Cardinality(At(V))
    BY DEF Within
  <1> HIDE DEF At
  <1>4. /\ IsFiniteSet(At(U) \cup At(V))
        /\ Cardinality(At(U) \cup At(V))
             = Cardinality(At(U)) + Cardinality(At(V)) - Cardinality(At(U) \cap At(V))
    BY <1>1, FS_Union
  <1>5. Cardinality(At(U) \cap At(V)) \in Nat
    BY <1>1, FS_Intersection, FS_CardinalityType
  <1>6. Cardinality(At(T)) <= Cardinality(At(U) \cup At(V))
    BY <1>2, <1>4, FS_Subset
  <1>7. Cardinality(At(U) \cup At(V)) \in Nat
    BY <1>4, FS_CardinalityType
  <1> QED BY <1>1, <1>3, <1>4, <1>5, <1>6, <1>7

LEMMA WithinNone ==
    ASSUME NEW S, NEW s \in Seq(S), NEW T, \A i \in DOMAIN s : s[i] \notin T
    PROVE  Within(s, T) = 0
  <1>1. {i \in DOMAIN s : s[i] \in T} = {}
    OBVIOUS
  <1> QED BY <1>1, FS_EmptySet DEF Within

LEMMA WithinSome ==
    ASSUME NEW S, NEW s \in Seq(S), NEW T, NEW U,
           \A i \in DOMAIN s : s[i] \in T => s[i] \in U
    PROVE  Within(s, T) <= Within(s, U)
  <1>1. Within(s, T) <= Within(s, U) + Within(s, {})
    BY WithinCovered
  <1>2. Within(s, {}) = 0
    BY WithinNone
  <1>3. Within(s, T) \in Nat /\ Within(s, U) \in Nat
    BY WithinFinite
  <1> QED BY <1>1, <1>2, <1>3

(***************************************************************************)
(* Hours of the clock.                                                     *)
(***************************************************************************)
LEMMA Parameters ==
    /\ Limit \in Nat \ {0} /\ Window \in Nat \ {0} /\ Hour \in Nat \ {0}
    /\ MaxClock \in Nat /\ MaxDeliveries \in Nat
    /\ IsFiniteSet(Workers)
    /\ \A cap \in Caps : cap \in Nat \ {0}
  BY LimitsAssumption

LEMMA HourOf ==
    ASSUME NEW t \in Nat
    PROVE  /\ t \div Hour \in Nat
           /\ Hour * (t \div Hour) <= t
           /\ t < Hour * (t \div Hour) + Hour
  <1>1. /\ t = Hour * (t \div Hour) + (t % Hour)
        /\ t % Hour \in 0 .. Hour - 1
        /\ t \div Hour \in Nat
    BY Parameters
  <1>2. Hour * (t \div Hour) \in Nat /\ Hour \in Nat
    BY <1>1, Parameters
  <1> QED BY <1>1, <1>2

LEMMA HoursFollow ==
    ASSUME NEW t \in Nat, NEW u \in Nat
    PROVE  /\ t <= u => t \div Hour <= u \div Hour
           /\ (t + Hour) \div Hour > t \div Hour
  <1>1. ASSUME NEW x \in Nat, NEW y \in Nat, x < y
        PROVE  Hour * x + Hour <= Hour * y
    <2>1. Hour * (y - x) >= Hour /\ Hour * (y - x) = Hour * y - Hour * x
      BY <1>1, Parameters
    <2> QED BY <2>1, Parameters
  <1>2. t \div Hour \in Nat /\ u \div Hour \in Nat /\ (t + Hour) \div Hour \in Nat
    BY HourOf, Parameters
  <1>3. t <= u => t \div Hour <= u \div Hour
    <2> SUFFICES ASSUME t <= u, u \div Hour < t \div Hour PROVE FALSE
      BY <1>2
    <2>1. Hour * (u \div Hour) + Hour <= Hour * (t \div Hour)
      BY <1>1, <1>2
    <2> QED BY <2>1, <1>2, HourOf, Parameters
  <1>4. (t + Hour) \div Hour > t \div Hour
    <2>1. t \div Hour <= (t + Hour) \div Hour
      BY <1>3, Parameters
    <2> QED BY <1>2, HourOf, Parameters
  <1> QED BY <1>3, <1>4

-----------------------------------------------------------------------------
(***************************************************************************)
(* Types.                                                                  *)
(***************************************************************************)
LEMMA TimesAreNatural ==
    /\ \A t \in Clock : t \in Nat /\ t \div Hour \in Buckets
    /\ \A b \in Buckets : b \in Nat
    /\ \A s \in Seq(Clock) : \A i \in DOMAIN s : s[i] \in Clock
  <1>1. MaxClock \div Hour \in Nat
    BY HourOf, Parameters
  <1>2. ASSUME NEW t \in Clock PROVE t \in Nat /\ t \div Hour \in Buckets
    <2>1. t \in Nat /\ t <= MaxClock
      BY Parameters DEF Clock
    <2>2. t \div Hour \in Nat /\ t \div Hour <= MaxClock \div Hour
      BY <2>1, HourOf, HoursFollow, Parameters
    <2> QED BY <2>1, <2>2, <1>1 DEF Buckets
  <1>3. ASSUME NEW s \in Seq(Clock), NEW i \in DOMAIN s PROVE s[i] \in Clock
    BY LenProperties
  <1> QED BY <1>1, <1>2, <1>3 DEF Buckets

LEMMA IncrementedIsKey ==
    ASSUME TypeOK, NEW key \in Key, NEW ttl \in Nat
    PROVE  Incremented(key, ttl) \in Key
  <1>1. now \in Nat /\ key.count \in Nat /\ key.expires \in Nat
    BY TimesAreNatural DEF TypeOK, Key
  <1>2. [key EXCEPT !.count = @ + 1] \in Key
    BY <1>1 DEF Key
  <1>3. [count |-> 1, expires |-> now + ttl] \in Key
    BY <1>1 DEF Key
  <1> QED BY <1>2, <1>3 DEF Incremented

LEMMA InitTypes == Init => TypeOK
  <1> SUFFICES ASSUME Init PROVE TypeOK
    OBVIOUS
  <1>1. 0 \in Clock /\ 0 \in Buckets /\ Absent \in Key
    <2>1. MaxClock \div Hour \in Nat
      BY HourOf, Parameters
    <2> QED BY <2>1, Parameters DEF Clock, Buckets, Absent, Key
  <1>2. deliveries \in 0 .. MaxDeliveries
    BY Parameters DEF Init
  <1>3. started \in [Buckets -> Seq(Clock)] /\ called \in Seq(Clock)
    BY EmptySeq DEF Init
  <1> QED BY <1>1, <1>2, <1>3 DEF Init, TypeOK, Idle, Handler

LEMMA DeliverTypes ==
    ASSUME TypeOK, NEW w \in Workers, NEW r \in Runs, Deliver(w, r)
    PROVE  TypeOK'
  <1>1. deliveries' \in 0 .. MaxDeliveries
    BY Parameters DEF Deliver, TypeOK
  <1>2. 0 \in Buckets
    BY Parameters, HourOf DEF Buckets
  <1>3. [Idle EXCEPT !.at = "zap", !.run = r] \in Handler
    BY <1>2 DEF Idle, Handler
  <1> QED BY <1>1, <1>3 DEF Deliver, TypeOK, redis, history

LEMMA HistoryTypes ==
    ASSUME TypeOK
    PROVE  /\ \A w \in Workers : [started EXCEPT ![worker[w].bucket] = Append(@, now)]
                                    \in [Buckets -> Seq(Clock)]
           /\ Append(called, now) \in Seq(Clock)
  <1>1. \A s \in Seq(Clock) : Append(s, now) \in Seq(Clock)
    BY DEF TypeOK
  <1> QED BY <1>1 DEF TypeOK

LEMMA ReturnTypes ==
    ASSUME TypeOK, NEW w \in Workers, Return(w)
    PROVE  worker' \in [Workers -> Handler]
  <1>1. 0 \in Buckets
    BY Parameters, HourOf DEF Buckets
  <1> QED BY <1>1 DEF Return, TypeOK, Idle, Handler

LEMMA AwaitTypes ==
    ASSUME TypeOK, NEW w \in Workers,
           NEW at \in {"steps"} \cup Terminal, Await(w, at)
    PROVE  worker' \in [Workers -> Handler]
  <1>1. [worker[w] EXCEPT !.at = at] \in Handler
    BY DEF TypeOK, Handler
  <1>2. worker' = [worker EXCEPT ![w] = [worker[w] EXCEPT !.at = at]]
    BY DEF Await, TypeOK
  <1> QED BY <1>1, <1>2 DEF TypeOK

LEMMA HandlerTypes ==
    ASSUME TypeOK, NEW w \in Workers, Handle(w) \/ Fail(w) \/ LoseAnswer(w)
    PROVE  TypeOK'
  <1> USE DEF redis, history
  <1>1. ASSUME ReadZap(w) PROVE TypeOK'
    <2>1. CASE Await(w, "filtered")
      BY <1>1, <2>1, AwaitTypes DEF ReadZap, TypeOK, Terminal
    <2>2. CASE ~Await(w, "filtered")
      <3>1. [worker[w] EXCEPT !.at = "cap", !.cap = maxRunsPerHour,
                              !.bucket = now \div Hour] \in Handler
        BY TimesAreNatural DEF TypeOK, Handler
      <3> QED BY <1>1, <2>2, <3>1 DEF ReadZap, TypeOK
    <2> QED BY <2>1, <2>2
  <1> DEFINE b == worker[w].bucket
  <1>2. /\ b \in Buckets
        /\ Incremented(runcap[b], Hour) \in Key
        /\ Incremented(ratelimit, Window) \in Key
    <2>1. worker[w] \in Handler /\ ratelimit \in Key
      BY DEF TypeOK
    <2>2. b \in Buckets
      BY <2>1 DEF Handler
    <2>3. runcap[b] \in Key
      BY <2>2 DEF TypeOK
    <2> HIDE DEF b
    <2> QED BY <2>1, <2>2, <2>3, IncrementedIsKey, Parameters
  <1>3. ASSUME CheckCap(w) PROVE TypeOK'
    <2>1. /\ runcap' \in [Buckets -> Key]
          /\ refused' \subseteq Buckets
          /\ started' \in [Buckets -> Seq(Clock)]
      BY <1>2, <1>3, HistoryTypes DEF CheckCap, TypeOK, Started
    <2>2. worker' \in [Workers -> Handler]
      BY <1>3, AwaitTypes DEF CheckCap, Terminal
    <2> QED BY <2>1, <2>2, <1>3 DEF CheckCap, TypeOK
  <1>4. ASSUME Finish(w) PROVE TypeOK'
    BY <1>4, ReturnTypes DEF Finish, TypeOK
  <1>5. ASSUME RunAction(w) PROVE TypeOK'
    <2>1. /\ ratelimit' \in Key
          /\ denied' \subseteq Clock
          /\ called' \in Seq(Clock)
      BY <1>2, <1>5, HistoryTypes DEF RunAction, TypeOK, Called
    <2> QED BY <2>1, <1>5, ReturnTypes DEF RunAction, TypeOK
  <1>6. ASSUME StepsDone(w) PROVE TypeOK'
    BY <1>6, AwaitTypes DEF StepsDone, TypeOK, Terminal
  <1>7. ASSUME Fail(w) PROVE TypeOK'
    BY <1>7, ReturnTypes DEF Fail, TypeOK
  <1>8. ASSUME LoseAnswer(w) PROVE TypeOK'
    <2>1. /\ runcap' \in [Buckets -> Key]
          /\ ratelimit' \in Key
          /\ started' \in [Buckets -> Seq(Clock)]
          /\ called' \in Seq(Clock)
      <3>1. CASE worker[w].at = "cap"
        BY <1>2, <1>8, <3>1, HistoryTypes DEF LoseAnswer, TypeOK, Started
      <3>2. CASE worker[w].at = "steps"
        BY <1>2, <1>8, <3>2, HistoryTypes DEF LoseAnswer, TypeOK, Called
      <3> QED BY <1>8, <3>1, <3>2 DEF LoseAnswer
    <2> QED BY <2>1, <1>8, ReturnTypes DEF LoseAnswer, TypeOK
  <1> QED BY <1>1, <1>3, <1>4, <1>5, <1>6, <1>7, <1>8 DEF Handle

LEMMA NextTypes == TypeOK /\ [Next]_vars => TypeOK'
  <1> SUFFICES ASSUME TypeOK, [Next]_vars PROVE TypeOK'
    OBVIOUS
  <1> USE DEF redis, history
  <1>1. CASE Tick
    <2>1. now' \in Clock
      BY <1>1, Parameters DEF Tick, TypeOK, Clock
    <2> QED BY <1>1, <2>1 DEF Tick, TypeOK
  <1>2. ASSUME NEW cap \in Caps, EditCap(cap) PROVE TypeOK'
    BY <1>2 DEF EditCap, TypeOK
  <1>3. CASE UNCHANGED vars
    BY <1>3 DEF vars, TypeOK
  <1> QED BY <1>1, <1>2, <1>3, DeliverTypes, HandlerTypes DEF Next

(* TypeCorrect: the state of workers, counters and histories has its types *)
(* under every interleaving of the handlers of run-consumer.ts.            *)
THEOREM TypeCorrect == Spec => []TypeOK
  <1> QED BY InitTypes, NextTypes, PTL DEF Spec

-----------------------------------------------------------------------------
(***************************************************************************)
(* The window of a connection: it was opened at Opened, and everything     *)
(* called since is counted by the key, up to the limit.                    *)
(***************************************************************************)
Opened == ratelimit.expires - Window

WindowInv ==
    /\ Opened <= now
    /\ \A i \in DOMAIN called : called[i] <= now /\ called[i] < ratelimit.expires
    /\ Within(called, Opened .. MaxClock)
         = IF ratelimit.count < Limit THEN ratelimit.count ELSE Limit
    /\ Within(called, Opened - Window .. Opened - 1) <= Limit

(* What a command of the connection's limiter does, whoever sends it and   *)
(* whether or not its answer arrives.                                      *)
Consumes ==
    LET key == Incremented(ratelimit, Window)
    IN  /\ ratelimit' = key
        /\ \/ Under(key, Limit) /\ Called
           \/ ~Under(key, Limit) /\ UNCHANGED called
        /\ \/ denied' = denied
           \/ denied' = denied \cup {now} /\ ~Under(key, Limit)
        /\ UNCHANGED now

LEMMA LimiterSteps ==
    ASSUME TypeOK, [Next]_vars
    PROVE  \/ Consumes
           \/ /\ UNCHANGED <<ratelimit, called, denied>>
              /\ now' \in Nat /\ now <= now'
  <1> USE DEF redis, history
  <1>1. now \in Nat
    BY TimesAreNatural DEF TypeOK
  <1>2. CASE Tick
    BY <1>1, <1>2 DEF Tick
  <1>3. ASSUME NEW w \in Workers, RunAction(w) PROVE Consumes
    BY <1>3 DEF RunAction, Consumes
  <1>4. ASSUME NEW w \in Workers, LoseAnswer(w), worker[w].at = "steps"
        PROVE  Consumes
    BY <1>4 DEF LoseAnswer, Consumes
  <1>5. ASSUME NEW w \in Workers, LoseAnswer(w), worker[w].at # "steps"
        PROVE  UNCHANGED <<now, ratelimit, called, denied>>
    BY <1>5 DEF LoseAnswer
  <1>6. ASSUME NEW w \in Workers,
               \/ \E r \in Runs : Deliver(w, r)
               \/ ReadZap(w) \/ CheckCap(w) \/ Finish(w) \/ StepsDone(w)
               \/ Fail(w)
        PROVE  UNCHANGED <<now, ratelimit, called, denied>>
    BY <1>6 DEF Deliver, ReadZap, CheckCap, Finish, StepsDone, Fail
  <1>7. ASSUME NEW cap \in Caps, EditCap(cap)
        PROVE  UNCHANGED <<now, ratelimit, called, denied>>
    BY <1>7 DEF EditCap
  <1>8. CASE UNCHANGED vars
    BY <1>1, <1>8 DEF vars
  <1> QED BY <1>1, <1>2, <1>3, <1>4, <1>5, <1>6, <1>7, <1>8 DEF Next, Handle

(* A live key: its window goes on.                                         *)
LEMMA WindowGoesOn ==
    ASSUME TypeOK, WindowInv, Consumes, now < ratelimit.expires
    PROVE  /\ WindowInv'
           /\ called' # called => \A i \in DOMAIN called' : called'[i] <= now
           /\ ~Under(ratelimit', Limit) =>
                Within(called, now - Window + 1 .. now) >= Limit
  <1> DEFINE since(o) == o .. MaxClock
             before(o) == o - Window .. o - 1
  <1>1. /\ now \in Nat /\ now <= MaxClock
        /\ ratelimit.count \in Nat /\ ratelimit.expires \in Nat
        /\ called \in Seq(Clock) /\ now \in Clock
        /\ Limit \in Nat \ {0} /\ Window \in Nat \ {0} /\ MaxClock \in Nat
    BY Parameters, TimesAreNatural DEF TypeOK, Key, Clock
  <1>2. /\ ratelimit'.count = ratelimit.count + 1
        /\ ratelimit'.expires = ratelimit.expires
        /\ now' = now
    BY DEF Consumes, Incremented, TypeOK, Key
  <1>3. Opened' = Opened /\ Opened \in Int /\ Opened <= now
        /\ now < Opened + Window
    BY <1>1, <1>2 DEF Opened, WindowInv
  <1>4. \A T : Within(called, T) \in Nat
    BY <1>1, WithinFinite
  <1>5. CASE Under(ratelimit', Limit)
    <2>1. called' = Append(called, now) /\ ratelimit.count < Limit
      BY <1>1, <1>2, <1>5 DEF Consumes, Under, Called
    <2>2. \A T : Within(called', T)
              = IF now \in T THEN Within(called, T) + 1 ELSE Within(called, T)
      BY <1>1, <2>1, WithinAppend
    <2>3. Within(called', since(Opened)) = Within(called, since(Opened)) + 1
      BY <1>1, <1>3, <2>2
    <2>4. Within(called', before(Opened)) = Within(called, before(Opened))
      BY <1>1, <1>3, <2>2
    <2>5. \A i \in DOMAIN called' : called'[i] <= now /\ called'[i] < ratelimit.expires
      <3>1. /\ DOMAIN called = 1 .. Len(called) /\ Len(called) \in Nat
            /\ DOMAIN called' = 1 .. Len(called) + 1
            /\ \A i \in 1 .. Len(called) : called'[i] = called[i]
            /\ called'[Len(called) + 1] = now
        BY <1>1, <2>1, LenProperties
      <3> QED BY <3>1, <1>1 DEF WindowInv
    <2>6. Within(called', since(Opened))
            = IF ratelimit'.count < Limit THEN ratelimit'.count ELSE Limit
      BY <1>1, <1>2, <2>1, <2>3 DEF WindowInv
    <2>7. WindowInv'
      BY <1>2, <1>3, <2>4, <2>5, <2>6 DEF WindowInv
    <2> QED BY <2>5, <2>7, <1>5
  <1>6. CASE ~Under(ratelimit', Limit)
    <2>1. called' = called /\ ratelimit.count >= Limit
      BY <1>1, <1>2, <1>6 DEF Consumes, Under
    <2>2. WindowInv'
      BY <1>1, <1>2, <1>3, <2>1 DEF WindowInv
    <2>3. Within(called, since(Opened)) = Limit
      BY <1>1, <2>1 DEF WindowInv
    <2>4. Within(called, since(Opened)) <= Within(called, now - Window + 1 .. now)
      <3>1. \A i \in DOMAIN called : called[i] \in Nat /\ called[i] <= now
        BY <1>1, TimesAreNatural DEF WindowInv
      <3>2. \A i \in DOMAIN called :
               called[i] \in since(Opened) => called[i] \in now - Window + 1 .. now
        BY <1>1, <1>3, <3>1
      <3> QED BY <1>1, <3>2, WithinSome
    <2> QED BY <1>4, <2>1, <2>2, <2>3, <2>4, <1>1
  <1> QED BY <1>5, <1>6

(* A key that has expired, or was never set: a window is opened now.       *)
LEMMA WindowOpens ==
    ASSUME TypeOK, WindowInv, Consumes, ~(now < ratelimit.expires)
    PROVE  /\ WindowInv'
           /\ \A i \in DOMAIN called' : called'[i] <= now
           /\ Under(ratelimit', Limit)
  <1>1. /\ now \in Nat /\ now <= MaxClock
        /\ ratelimit.count \in Nat /\ ratelimit.expires \in Nat
        /\ called \in Seq(Clock) /\ now \in Clock
        /\ Limit \in Nat \ {0} /\ Window \in Nat \ {0} /\ MaxClock \in Nat
    BY Parameters, TimesAreNatural DEF TypeOK, Key, Clock
  <1>2. ratelimit' = [count |-> 1, expires |-> now + Window] /\ now' = now
    BY DEF Consumes, Incremented
  <1>3. Opened' = now /\ Under(ratelimit', Limit)
    BY <1>1, <1>2 DEF Opened, Under
  <1>4. called' = Append(called, now)
    BY <1>3 DEF Consumes, Called
  <1>5. \A T : Within(called', T)
            = IF now \in T THEN Within(called, T) + 1 ELSE Within(called, T)
    BY <1>1, <1>4, WithinAppend
  <1>6. \A i \in DOMAIN called : called[i] \in Nat /\ called[i] < now
    <2>1. \A i \in DOMAIN called : called[i] \in Nat
      BY <1>1, TimesAreNatural
    <2>2. \A i \in DOMAIN called : called[i] < ratelimit.expires
      BY DEF WindowInv
    <2> QED BY <1>1, <2>1, <2>2
  <1>7. Within(called', now .. MaxClock) = 1
    <2>1. Within(called, now .. MaxClock) = 0
      <3>1. \A i \in DOMAIN called : called[i] \notin now .. MaxClock
        BY <1>1, <1>6
      <3> QED BY <1>1, <3>1, WithinNone
    <2> QED BY <1>1, <1>5, <2>1
  <1>8. Within(called', now - Window .. now - 1) <= Limit
    <2>1. Within(called, now - Window .. now - 1) <= Within(called, Opened .. MaxClock)
      <3>1. \A i \in DOMAIN called :
               called[i] \in now - Window .. now - 1 => called[i] \in Opened .. MaxClock
        BY <1>1, <1>6 DEF Opened
      <3> QED BY <1>1, <3>1, WithinSome
    <2>2. /\ Within(called, now - Window .. now - 1) \in Nat
          /\ Within(called, Opened .. MaxClock) \in Nat
      BY <1>1, WithinFinite
    <2>3. Within(called, Opened .. MaxClock) <= Limit
      BY <1>1, <2>2 DEF WindowInv
    <2> QED BY <1>1, <1>5, <2>1, <2>2, <2>3
  <1>9. \A i \in DOMAIN called' : called'[i] <= now /\ called'[i] < now + Window
    <2>1. /\ DOMAIN called = 1 .. Len(called) /\ Len(called) \in Nat
          /\ DOMAIN called' = 1 .. Len(called) + 1
          /\ \A i \in 1 .. Len(called) : called'[i] = called[i]
          /\ called'[Len(called) + 1] = now
      BY <1>1, <1>4, LenProperties
    <2> QED BY <2>1, <1>1, <1>6
  <1>10. WindowInv'
    BY <1>1, <1>2, <1>3, <1>7, <1>8, <1>9 DEF WindowInv
  <1> QED BY <1>3, <1>9, <1>10

LEMMA NextWindow == TypeOK /\ WindowInv /\ [Next]_vars => WindowInv'
  <1> SUFFICES ASSUME TypeOK, WindowInv, [Next]_vars PROVE WindowInv'
    OBVIOUS
  <1>1. CASE Consumes
    BY <1>1, WindowGoesOn, WindowOpens
  <1>2. ASSUME UNCHANGED <<ratelimit, called>>, now' \in Nat, now <= now'
        PROVE  WindowInv'
    <2>1. /\ now \in Nat /\ ratelimit.expires \in Nat
          /\ \A i \in DOMAIN called : called[i] \in Nat
      BY TimesAreNatural DEF TypeOK, Key
    <2>2. Opened \in Int
      BY <2>1, Parameters DEF Opened
    <2> QED BY <1>2, <2>1, <2>2 DEF WindowInv, Opened
  <1> QED BY <1>1, <1>2, LimiterSteps

LEMMA InitWindow == Init => WindowInv
  <1> SUFFICES ASSUME Init PROVE WindowInv
    OBVIOUS
  <1>1. ratelimit.count = 0 /\ ratelimit.expires = 0 /\ now = 0 /\ called = <<>>
    BY DEF Init, Absent
  <1> QED BY <1>1, Parameters, WithinNothing DEF WindowInv, Opened

(* CallsPerWindow: an interval as long as the window meets at most two     *)
(* windows of checkAndConsume, and each lets Limit calls pass.             *)
LEMMA NextCalls ==
    TypeOK /\ WindowInv /\ CallsPerWindow /\ [Next]_vars => CallsPerWindow'
  <1> SUFFICES ASSUME TypeOK, WindowInv, CallsPerWindow, [Next]_vars,
                      NEW t \in Clock
               PROVE  Within(called', t .. t + Window - 1) <= 2 * Limit
    BY DEF CallsPerWindow
  <1> DEFINE span == t .. t + Window - 1
  <1>1. /\ TypeOK' /\ WindowInv'
        /\ called \in Seq(Clock) /\ called' \in Seq(Clock) /\ now \in Clock
        /\ now \in Nat /\ t \in Nat /\ ratelimit'.expires \in Nat
        /\ ratelimit'.count \in Nat
        /\ Limit \in Nat /\ Window \in Nat /\ MaxClock \in Nat
    BY NextTypes, NextWindow, Parameters, TimesAreNatural DEF TypeOK, Key
  <1>2. Within(called, span) <= 2 * Limit
    BY DEF CallsPerWindow
  <1>3. CASE called' = called
    BY <1>2, <1>3
  <1>4. CASE called' # called
    <2>1. Consumes
      BY <1>4, LimiterSteps
    <2>2. /\ called' = Append(called, now) /\ now' = now
          /\ \A i \in DOMAIN called' : called'[i] <= now
      BY <1>4, <2>1, WindowGoesOn, WindowOpens DEF Consumes, Called
    <2>3. CASE now \in span
      <3> DEFINE last == Opened' .. MaxClock
                 prev == Opened' - Window .. Opened' - 1
      <3>1. Opened' \in Int /\ Opened' <= now
        BY <1>1, <2>2 DEF Opened, WindowInv
      <3>2. \A i \in DOMAIN called' : called'[i] \in Nat /\ called'[i] <= MaxClock
        BY <1>1, TimesAreNatural, Parameters DEF Clock
      <3>3. \A i \in DOMAIN called' :
               called'[i] \in span => called'[i] \in last \/ called'[i] \in prev
        BY <1>1, <2>3, <3>1, <3>2
      <3>4. Within(called', last) <= Limit /\ Within(called', prev) <= Limit
        BY <1>1 DEF WindowInv
      <3>5. Within(called', span) <= Within(called', last) + Within(called', prev)
        BY <1>1, <3>3, WithinCovered
      <3>6. /\ Within(called', last) \in Nat /\ Within(called', prev) \in Nat
            /\ Within(called', span) \in Nat
        BY <1>1, WithinFinite
      <3> HIDE DEF last, prev
      <3> QED BY <1>1, <3>4, <3>5, <3>6
    <2>4. CASE now \notin span
      BY <1>1, <1>2, <2>2, <2>4, WithinAppend
    <2> QED BY <2>3, <2>4
  <1> QED BY <1>3, <1>4

(* DeniedOnlyWhenBusy: the calls for which a call was denied stay made.    *)
LEMMA NextDenied ==
    TypeOK /\ WindowInv /\ DeniedOnlyWhenBusy /\ [Next]_vars
      => DeniedOnlyWhenBusy'
  <1> SUFFICES ASSUME TypeOK, WindowInv, DeniedOnlyWhenBusy, [Next]_vars,
                      NEW t \in denied'
               PROVE  Within(called', t - Window + 1 .. t) >= Limit
    BY DEF DeniedOnlyWhenBusy
  <1>1. /\ called \in Seq(Clock) /\ now \in Clock /\ Limit \in Nat
        /\ \A T : Within(called, T) \in Nat
    BY Parameters, WithinFinite DEF TypeOK
  <1>2. Within(called, t - Window + 1 .. t) >= Limit
    <2>1. CASE t \in denied
      BY <2>1 DEF DeniedOnlyWhenBusy
    <2>2. CASE t \notin denied
      <3>1. Consumes /\ ~Under(ratelimit', Limit) /\ t = now
        BY <2>2, LimiterSteps DEF Consumes
      <3> QED BY <3>1, WindowGoesOn, WindowOpens
    <2> QED BY <2>1, <2>2
  <1>3. called' = called \/ called' = Append(called, now)
    BY LimiterSteps DEF Consumes, Called
  <1>4. Within(called', t - Window + 1 .. t) >= Within(called, t - Window + 1 .. t)
    <2>1. CASE called' = called
      BY <1>1, <2>1
    <2>2. CASE called' = Append(called, now)
      <3>1. \A T : Within(Append(called, now), T) >= Within(called, T)
        BY <1>1, WithinAppend
      <3> QED BY <2>2, <3>1
    <2> QED BY <1>3, <2>1, <2>2
  <1>5. called' \in Seq(Clock)
    BY NextTypes DEF TypeOK
  <1>6. Within(called', t - Window + 1 .. t) \in Nat
    BY <1>5, WithinFinite
  <1> QED BY <1>1, <1>2, <1>4, <1>6

(* CallsInWindow: checkAndConsume lets a connection be used at most twice  *)
(* the limit in any window's time, by any number of workers.               *)
THEOREM CallsInWindow == Spec => []CallsPerWindow
  <1>1. Init => CallsPerWindow
    BY WithinNothing, Parameters DEF Init, CallsPerWindow
  <1> QED BY <1>1, InitTypes, NextTypes, InitWindow, NextWindow, NextCalls, PTL
          DEF Spec

(* DeniedWhenBusy: checkAndConsume denies a call only if the limit was     *)
(* used up less than a window ago.                                         *)
THEOREM DeniedWhenBusy == Spec => []DeniedOnlyWhenBusy
  <1>1. Init => DeniedOnlyWhenBusy
    BY DEF Init, DeniedOnlyWhenBusy
  <1> QED BY <1>1, InitTypes, NextTypes, InitWindow, NextWindow, NextDenied, PTL
          DEF Spec

-----------------------------------------------------------------------------
(***************************************************************************)
(* The cap of a clock hour.  In the hour its key does not expire, so it    *)
(* counts every start; after it, only those still come that asked in time. *)
(***************************************************************************)
Waiting(b) == {w \in Workers : worker[w].at = "cap" /\ worker[w].bucket = b}

AskedInv ==
    /\ maxRunsPerHour \in caps
    /\ \A w \in Workers : worker[w].at = "cap" =>
           worker[w].cap \in caps /\ worker[w].bucket <= now \div Hour

(* Until the hour is over.                                                 *)
HourInv(b) == now \div Hour <= b =>
    \/ started[b] = <<>> /\ runcap[b] = Absent
    \/ /\ runcap[b].expires \div Hour > b
       /\ \A i \in DOMAIN started[b] : started[b][i] \in InHour(b)
       /\ Len(started[b]) <= runcap[b].count
       /\ \E cap \in caps : Len(started[b]) <= cap

(* After the hour.                                                         *)
LateInv(b) == now \div Hour > b =>
    Within(started[b], Clock \ InHour(b)) + Cardinality(Waiting(b))
      <= Cardinality(Workers)

StartedInv(b) == \E cap \in caps : Within(started[b], InHour(b)) <= cap

(* The key counts what was started, until a cap is reached.                *)
CountInv(b) ==
    \/ runcap[b].count <= Len(started[b])
    \/ \E cap \in caps : Len(started[b]) >= cap

CapInv ==
    /\ AskedInv
    /\ \A b \in Buckets : HourInv(b) /\ LateInv(b) /\ StartedInv(b) /\ CountInv(b)

(* What a command of underRunCap does, answered or not.                    *)
Counts(w, b) ==
    LET key == Incremented(runcap[b], Hour)
    IN  /\ worker[w].at = "cap" /\ worker[w].bucket = b
        /\ runcap' = [runcap EXCEPT ![b] = key]
        /\ \/ Under(key, worker[w].cap) /\ Started(w)
           \/ ~Under(key, worker[w].cap) /\ UNCHANGED started
        /\ \/ refused' = refused
           \/ refused' = refused \cup {b} /\ ~Under(key, worker[w].cap)
        /\ worker'[w].at # "cap"
        /\ \A v \in Workers \ {w} : worker'[v] = worker[v]
        /\ UNCHANGED <<now, maxRunsPerHour, caps>>

(* What all other steps leave to the counters of the runs.                 *)
CountsNothing ==
    /\ UNCHANGED <<runcap, started, refused>>
    /\ caps \subseteq caps' /\ (maxRunsPerHour \in caps => maxRunsPerHour' \in caps')
    /\ now' \in Nat /\ now <= now'
    /\ \A v \in Workers : worker'[v].at = "cap" =>
          \/ worker'[v] = worker[v]
          \/ /\ now' = now
             /\ worker'[v].cap = maxRunsPerHour
             /\ worker'[v].bucket = now \div Hour

LEMMA CapSteps ==
    ASSUME TypeOK, [Next]_vars
    PROVE  \/ \E w \in Workers, b \in Buckets : Counts(w, b)
           \/ CountsNothing
  <1> USE DEF redis, history
  <1>1. now \in Nat
    BY TimesAreNatural DEF TypeOK
  <1>2. CASE Tick
    BY <1>1, <1>2 DEF Tick, CountsNothing
  <1>3. ASSUME NEW w \in Workers, CheckCap(w) \/ LoseAnswer(w), worker[w].at = "cap"
        PROVE  \E b \in Buckets : Counts(w, b)
    <2> DEFINE b == worker[w].bucket
    <2>1. b \in Buckets
      BY DEF TypeOK, Handler
    <2>2. /\ worker' \in [Workers -> Handler]
          /\ worker'[w].at # "cap"
          /\ \A v \in Workers \ {w} : worker'[v] = worker[v]
      <3>1. worker' \in [Workers -> Handler]
        BY NextTypes DEF TypeOK
      <3>2. /\ Await(w, "steps") \/ Await(w, "failed") \/ Return(w)
        BY <1>3 DEF CheckCap, LoseAnswer
      <3> QED BY <3>1, <3>2 DEF Await, Return, Idle, TypeOK, Handler
    <2>3. Counts(w, b)
      <3>1. CASE CheckCap(w)
        BY <3>1, <2>2 DEF CheckCap, Counts
      <3>2. CASE LoseAnswer(w)
        BY <3>2, <1>3, <2>2 DEF LoseAnswer, Counts
      <3> QED BY <1>3, <3>1, <3>2
    <2> QED BY <2>1, <2>3
  <1>4. ASSUME NEW w \in Workers, ReadZap(w)
        PROVE  CountsNothing
    <2>1. CASE Await(w, "filtered")
      BY <1>1, <1>4, <2>1 DEF ReadZap, CountsNothing, Await, TypeOK, Handler
    <2>2. CASE ~Await(w, "filtered")
      <3> DEFINE asked == [worker[w] EXCEPT !.at = "cap", !.cap = maxRunsPerHour,
                                            !.bucket = now \div Hour]
      <3>1. worker[w] \in Handler /\ worker \in [Workers -> Handler]
        BY DEF TypeOK
      <3>2. asked.cap = maxRunsPerHour /\ asked.bucket = now \div Hour
        BY <3>1 DEF Handler
      <3>3. worker' = [worker EXCEPT ![w] = asked]
        BY <1>4, <2>2 DEF ReadZap
      <3> HIDE DEF asked
      <3>4. \A v \in Workers : worker'[v] = IF v = w THEN asked ELSE worker[v]
        BY <3>1, <3>3
      <3>5. UNCHANGED <<now, maxRunsPerHour, caps, runcap, started, refused>>
        BY <1>4 DEF ReadZap
      <3> QED BY <1>1, <3>2, <3>4, <3>5 DEF CountsNothing
    <2> QED BY <2>1, <2>2
  <1>5. ASSUME NEW w \in Workers, NEW r \in Runs, Deliver(w, r)
        PROVE  CountsNothing
    BY <1>1, <1>5 DEF Deliver, CountsNothing, TypeOK, Handler, Idle
  <1>6. ASSUME NEW w \in Workers,
               \/ Finish(w) \/ RunAction(w) \/ StepsDone(w) \/ Fail(w)
               \/ LoseAnswer(w) /\ worker[w].at # "cap"
        PROVE  CountsNothing
    <2>1. /\ UNCHANGED <<now, maxRunsPerHour, caps, runcap, started, refused>>
          /\ Return(w) \/ Await(w, "completed") \/ UNCHANGED worker
      BY <1>6 DEF Finish, RunAction, StepsDone, Fail, LoseAnswer
    <2>2. \A v \in Workers : worker'[v].at = "cap" => worker'[v] = worker[v]
      BY <2>1 DEF Return, Await, Idle, TypeOK, Handler
    <2> QED BY <1>1, <2>1, <2>2 DEF CountsNothing
  <1>7. ASSUME NEW cap \in Caps, EditCap(cap)
        PROVE  CountsNothing
    BY <1>1, <1>7 DEF EditCap, CountsNothing
  <1>8. CASE UNCHANGED vars
    BY <1>1, <1>8 DEF vars, CountsNothing
  <1> QED BY <1>2, <1>3, <1>4, <1>5, <1>6, <1>7, <1>8 DEF Next, Handle, CheckCap

LEMMA BucketTypes ==
    ASSUME TypeOK, NEW b \in Buckets
    PROVE  /\ b \in Nat /\ now \in Nat /\ now \in Clock /\ now \div Hour \in Nat
           /\ started[b] \in Seq(Clock) /\ Len(started[b]) \in Nat
           /\ runcap[b].count \in Nat /\ runcap[b].expires \in Nat
           /\ \A cap \in caps : cap \in Nat \ {0}
           /\ Cardinality(Workers) \in Nat
  <1>1. b \in Nat /\ now \in Nat /\ now \in Clock /\ started[b] \in Seq(Clock)
    BY TimesAreNatural DEF TypeOK
  <1>2. runcap[b] \in Key
    BY DEF TypeOK
  <1> QED BY <1>1, <1>2, HourOf, Parameters, FS_CardinalityType, LenProperties
          DEF Key, TypeOK

LEMMA WaitingFinite ==
    ASSUME NEW b
    PROVE  /\ IsFiniteSet(Waiting(b)) /\ Cardinality(Waiting(b)) \in Nat
           /\ Cardinality(Waiting(b)) <= Cardinality(Workers)
  <1>1. Waiting(b) \in SUBSET Workers
    BY DEF Waiting
  <1> QED BY <1>1, Parameters, FS_Subset, FS_CardinalityType

(* The key of the hour that is not over: unset, or alive.                  *)
LEMMA CountedInHour ==
    ASSUME TypeOK, CapInv, NEW w \in Workers, NEW b \in Buckets, Counts(w, b),
           now \div Hour = b
    PROVE  HourInv(b)' /\ StartedInv(b)' /\ LateInv(b)' /\ CountInv(b)'
  <1> DEFINE cap == worker[w].cap
             key == Incremented(runcap[b], Hour)
  <1>1. /\ b \in Nat /\ now \in Nat /\ now \in Clock
        /\ started[b] \in Seq(Clock) /\ Len(started[b]) \in Nat
        /\ runcap[b].count \in Nat /\ runcap[b].expires \in Nat
        /\ \A c \in caps : c \in Nat \ {0}
        /\ cap \in caps
    BY BucketTypes DEF Counts, CapInv, AskedInv
  <1>2. runcap'[b] = key /\ now' = now /\ caps' = caps
    BY DEF Counts, TypeOK
  <1>3. /\ key.count = runcap[b].count + 1
        /\ key.expires \div Hour > b
        /\ \A i \in DOMAIN started[b] : started[b][i] \in InHour(b)
        /\ Len(started[b]) <= runcap[b].count
        /\ \E c \in caps : Len(started[b]) <= c
    <2>1. CASE started[b] = <<>> /\ runcap[b] = Absent
      <3>1. key = [count |-> 1, expires |-> now + Hour]
        BY <1>1, <2>1 DEF Absent, Incremented
      <3>2. (now + Hour) \div Hour > b
        BY <1>1, HoursFollow
      <3> QED BY <1>1, <2>1, <3>1, <3>2 DEF Absent
    <2>2. CASE ~(started[b] = <<>> /\ runcap[b] = Absent)
      <3>1. /\ runcap[b].expires \div Hour > b
            /\ \A i \in DOMAIN started[b] : started[b][i] \in InHour(b)
            /\ Len(started[b]) <= runcap[b].count
            /\ \E c \in caps : Len(started[b]) <= c
        BY <1>1, <2>2 DEF CapInv, HourInv
      <3>2. now < runcap[b].expires
        <4> SUFFICES ASSUME runcap[b].expires <= now PROVE FALSE
          BY <1>1
        <4>1. runcap[b].expires \div Hour <= now \div Hour
          BY <1>1, HoursFollow
        <4>2. runcap[b].expires \div Hour \in Nat
          BY <1>1, HourOf
        <4> QED BY <1>1, <3>1, <4>1, <4>2
      <3>3. key = [runcap[b] EXCEPT !.count = @ + 1]
        BY <3>2 DEF Incremented
      <3>4. runcap[b] \in Key
        BY DEF TypeOK
      <3> QED BY <3>1, <3>3, <3>4 DEF Key
    <2> QED BY <2>1, <2>2
  <1> HIDE DEF key
  <1>4. LateInv(b)'
    BY <1>1, <1>2 DEF LateInv
  <1>5. CASE Under(key, cap)
    <2>1. started'[b] = Append(started[b], now)
      BY <1>5 DEF Counts, Started, TypeOK, key
    <2>2. /\ DOMAIN started[b] = 1 .. Len(started[b])
          /\ Len(started'[b]) = Len(started[b]) + 1
          /\ DOMAIN started'[b] = 1 .. Len(started[b]) + 1
          /\ \A i \in 1 .. Len(started[b]) : started'[b][i] = started[b][i]
          /\ started'[b][Len(started[b]) + 1] = now
          /\ started'[b] \in Seq(Clock)
      BY <1>1, <2>1, LenProperties
    <2>3. now \in InHour(b)
      BY <1>1 DEF InHour
    <2>4. Len(started'[b]) <= runcap'[b].count /\ Len(started'[b]) <= cap
      <3>1. key.count <= cap /\ cap \in Nat
        BY <1>1, <1>5 DEF Under
      <3> HIDE DEF cap
      <3>2. runcap'[b].count = runcap[b].count + 1
        BY <1>2, <1>3
      <3> QED BY <1>1, <1>3, <2>2, <3>1, <3>2
    <2>5. \A i \in DOMAIN started'[b] : started'[b][i] \in InHour(b)
      <3> SUFFICES ASSUME NEW i \in DOMAIN started'[b]
                   PROVE  started'[b][i] \in InHour(b)
        OBVIOUS
      <3>1. CASE i = Len(started[b]) + 1
        BY <2>2, <2>3, <3>1
      <3>2. CASE i # Len(started[b]) + 1
        <4>1. i \in 1 .. Len(started[b])
          BY <1>1, <2>2, <3>2
        <4> QED BY <1>3, <2>2, <4>1
      <3> QED BY <3>1, <3>2
    <2>6. HourInv(b)'
      BY <1>1, <1>2, <1>3, <2>4, <2>5 DEF HourInv, InHour
    <2>7. Within(started'[b], InHour(b)) <= Len(started'[b])
          /\ Within(started'[b], InHour(b)) \in Nat
      BY <2>2, WithinFinite
    <2>8. StartedInv(b)'
      <3> HIDE DEF cap
      <3>1. Within(started'[b], InHour(b)) <= cap /\ cap \in caps'
        BY <1>1, <1>2, <2>2, <2>4, <2>7
      <3> QED BY <3>1 DEF StartedInv, InHour
    <2>9. CountInv(b)'
      BY <1>1, <1>2, <1>3, <1>5, <2>2, <2>4 DEF CountInv, CapInv
    <2> QED BY <1>4, <2>6, <2>8, <2>9
  <1>6. CASE ~Under(key, cap)
    <2>1. started' = started
      BY <1>6 DEF Counts, key
    <2>2. HourInv(b)'
      BY <1>1, <1>2, <1>3, <2>1 DEF HourInv, InHour
    <2>3. StartedInv(b)'
      BY <1>2, <2>1 DEF StartedInv, CapInv, InHour
    <2>4. CountInv(b)'
      BY <1>1, <1>2, <1>3, <1>6, <2>1 DEF CountInv, CapInv, Under
    <2> QED BY <1>4, <2>2, <2>3, <2>4
  <1> QED BY <1>5, <1>6

(* A command that arrives after its hour, when the key may be gone.        *)
LEMMA CountedLate ==
    ASSUME TypeOK, CapInv, NEW w \in Workers, NEW b \in Buckets, Counts(w, b),
           now \div Hour > b
    PROVE  HourInv(b)' /\ StartedInv(b)' /\ LateInv(b)' /\ CountInv(b)'
  <1> DEFINE cap == worker[w].cap
             key == Incremented(runcap[b], Hour)
             late == Clock \ InHour(b)
  <1>1. /\ b \in Nat /\ now \in Nat /\ now \in Clock /\ now \div Hour \in Nat
        /\ started[b] \in Seq(Clock) /\ Len(started[b]) \in Nat
        /\ runcap[b].count \in Nat /\ runcap[b].expires \in Nat
        /\ \A c \in caps : c \in Nat \ {0}
        /\ cap \in caps
        /\ Cardinality(Workers) \in Nat
    BY BucketTypes DEF Counts, CapInv, AskedInv
  <1>2. runcap'[b] = key /\ now' = now /\ caps' = caps
    BY DEF Counts, TypeOK
  <1>3. HourInv(b)'
    BY <1>1, <1>2 DEF HourInv
  <1>4. Cardinality(Waiting(b)') = Cardinality(Waiting(b)) - 1
    <2>1. Waiting(b)' = Waiting(b) \ {w} /\ w \in Waiting(b)
      BY DEF Waiting, Counts
    <2> QED BY <2>1, WaitingFinite, FS_RemoveElement
  <1>5. key.count = 1 \/ key.count = runcap[b].count + 1
    <2>1. runcap[b] \in Key
      BY DEF TypeOK
    <2> QED BY <2>1 DEF Incremented, Key
  <1>6. Cardinality(Waiting(b)) \in Nat
    BY WaitingFinite
  <1>7. Within(started[b], late) + Cardinality(Waiting(b)) <= Cardinality(Workers)
    BY <1>1 DEF CapInv, LateInv
  <1>8. Within(started[b], late) \in Nat
    BY <1>1, WithinFinite
  <1> HIDE DEF key
  <1>9. CASE Under(key, cap)
    <2>1. started'[b] = Append(started[b], now)
      BY <1>9 DEF Counts, Started, TypeOK, key
    <2>2. /\ now \notin InHour(b) /\ now \in late
          /\ Len(started'[b]) = Len(started[b]) + 1
      BY <1>1, <2>1 DEF InHour
    <2>3. /\ Within(started'[b], InHour(b)) = Within(started[b], InHour(b))
          /\ Within(started'[b], late) = Within(started[b], late) + 1
      <3> HIDE DEF late
      <3> QED BY <1>1, <2>1, <2>2, WithinAppend
    <2>4. StartedInv(b)'
      BY <1>2, <2>3 DEF CapInv, StartedInv, InHour
    <2>5. Within(started'[b], late) + Cardinality(Waiting(b)') <= Cardinality(Workers)
      <3> HIDE DEF late
      <3> QED BY <1>1, <1>4, <1>6, <1>7, <1>8, <2>3
    <2>6. LateInv(b)'
      BY <2>5 DEF LateInv, InHour
    <2>7. CountInv(b)'
      BY <1>1, <1>2, <1>5, <2>2 DEF CountInv, CapInv
    <2> QED BY <1>3, <2>4, <2>6, <2>7
  <1>10. CASE ~Under(key, cap)
    <2>1. started' = started
      BY <1>10 DEF Counts, key
    <2>2. StartedInv(b)'
      BY <1>2, <2>1 DEF StartedInv, CapInv, InHour
    <2>3. Within(started[b], late) + Cardinality(Waiting(b)') <= Cardinality(Workers)
      <3> HIDE DEF late
      <3> QED BY <1>1, <1>4, <1>6, <1>7, <1>8
    <2>4. LateInv(b)'
      BY <2>1, <2>3 DEF LateInv, InHour
    <2>5. CountInv(b)'
      BY <1>1, <1>2, <1>5, <1>10, <2>1 DEF CountInv, CapInv, Under
    <2> QED BY <1>3, <2>2, <2>4, <2>5
  <1> QED BY <1>9, <1>10

LEMMA CountedElsewhere ==
    ASSUME TypeOK, CapInv, NEW w \in Workers, NEW b \in Buckets, Counts(w, b),
           NEW c \in Buckets \ {b}
    PROVE  HourInv(c)' /\ StartedInv(c)' /\ LateInv(c)' /\ CountInv(c)'
  <1>1. /\ runcap'[c] = runcap[c] /\ started'[c] = started[c]
        /\ now' = now /\ caps' = caps
    BY DEF Counts, Started, TypeOK
  <1>2. Waiting(c)' = Waiting(c)
    BY DEF Waiting, Counts
  <1> QED BY <1>1, <1>2
          DEF CapInv, HourInv, StartedInv, LateInv, CountInv, InHour

(* The hours go by, the cap is changed, handlers come to ask.              *)
LEMMA NotCounted ==
    ASSUME TypeOK, CapInv, CountsNothing, NEW b \in Buckets
    PROVE  HourInv(b)' /\ StartedInv(b)' /\ LateInv(b)' /\ CountInv(b)'
  <1> DEFINE late == Clock \ InHour(b)
  <1>1. /\ b \in Nat /\ now \in Nat /\ now \div Hour \in Nat
        /\ started[b] \in Seq(Clock)
        /\ now' \in Nat /\ now' \div Hour \in Nat
        /\ now \div Hour <= now' \div Hour
        /\ Cardinality(Workers) \in Nat
    BY BucketTypes, HourOf, HoursFollow DEF CountsNothing
  <1>2. /\ runcap' = runcap /\ started' = started /\ caps \subseteq caps'
        /\ HourInv(b) /\ StartedInv(b) /\ LateInv(b) /\ CountInv(b)
    BY DEF CountsNothing, CapInv
  <1>3. HourInv(b)'
    BY <1>1, <1>2 DEF HourInv, InHour
  <1>4. StartedInv(b)' /\ CountInv(b)'
    BY <1>2 DEF StartedInv, CountInv, InHour
  <1>5. ASSUME now' \div Hour > b
        PROVE  Within(started[b], late) + Cardinality(Waiting(b)') <= Cardinality(Workers)
    <2>1. Cardinality(Waiting(b)') \in Nat
          /\ Cardinality(Waiting(b)') <= Cardinality(Workers)
      <3>1. Waiting(b)' \in SUBSET Workers
        BY DEF Waiting
      <3> QED BY <3>1, Parameters, FS_Subset, FS_CardinalityType
    <2>2. CASE now \div Hour <= b
      <3>1. Within(started[b], late) = 0
        <4>1. \A i \in DOMAIN started[b] : started[b][i] \notin late
          BY <1>2, <2>2 DEF HourInv
        <4> HIDE DEF late
        <4> QED BY <1>1, <4>1, WithinNone
      <3> QED BY <1>1, <2>1, <3>1
    <2>3. CASE now \div Hour > b
      <3>1. Within(started[b], late) + Cardinality(Waiting(b)) <= Cardinality(Workers)
        BY <1>2, <2>3 DEF LateInv
      <3>2. Waiting(b)' \in SUBSET Waiting(b)
        BY <1>1, <2>3 DEF Waiting, CountsNothing
      <3>3. /\ Cardinality(Waiting(b)') <= Cardinality(Waiting(b))
            /\ Cardinality(Waiting(b)) \in Nat
        BY <3>2, WaitingFinite, FS_Subset
      <3>4. Within(started[b], late) \in Nat
        BY <1>1, WithinFinite
      <3> HIDE DEF late
      <3> QED BY <1>1, <2>1, <3>1, <3>3, <3>4
    <2> QED BY <1>1, <2>2, <2>3
  <1>6. LateInv(b)'
    BY <1>2, <1>5 DEF LateInv, InHour
  <1> QED BY <1>3, <1>4, <1>6

LEMMA NextCap == TypeOK /\ CapInv /\ [Next]_vars => CapInv'
  <1> SUFFICES ASSUME TypeOK, CapInv, [Next]_vars PROVE CapInv'
    OBVIOUS
  <1>1. ASSUME NEW w \in Workers, NEW b \in Buckets, Counts(w, b)
        PROVE  CapInv'
    <2>1. b <= now \div Hour /\ b \in Nat /\ now \div Hour \in Nat
      BY <1>1, BucketTypes DEF Counts, CapInv, AskedInv
    <2>2. ASSUME NEW c \in Buckets
          PROVE  HourInv(c)' /\ StartedInv(c)' /\ LateInv(c)' /\ CountInv(c)'
      BY <1>1, <2>1, CountedInHour, CountedLate, CountedElsewhere
    <2>3. AskedInv'
      BY <1>1 DEF Counts, CapInv, AskedInv
    <2> QED BY <2>2, <2>3 DEF CapInv
  <1>2. ASSUME CountsNothing PROVE CapInv'
    <2>1. now \in Nat /\ now' \in Nat /\ now <= now' /\ caps \subseteq caps'
      BY <1>2, TimesAreNatural DEF CountsNothing, TypeOK
    <2>2. /\ now \div Hour <= now' \div Hour /\ now \div Hour \in Nat
          /\ now' \div Hour \in Nat
      BY <2>1, HoursFollow, HourOf
    <2>3. \A w \in Workers : worker[w].bucket \in Nat
      BY TimesAreNatural DEF TypeOK, Handler
    <2>4. AskedInv'
      <3>1. maxRunsPerHour' \in caps' /\ maxRunsPerHour \in caps'
        BY <1>2, <2>1 DEF CountsNothing, CapInv, AskedInv
      <3>2. ASSUME NEW w \in Workers, worker'[w].at = "cap"
            PROVE  worker'[w].cap \in caps' /\ worker'[w].bucket <= now' \div Hour
        <4>1. CASE worker'[w] = worker[w]
          BY <2>1, <2>2, <2>3, <3>2, <4>1 DEF CapInv, AskedInv
        <4>2. CASE worker'[w] # worker[w]
          BY <1>2, <2>2, <3>1, <3>2, <4>2 DEF CountsNothing
        <4> QED BY <4>1, <4>2
      <3> QED BY <3>1, <3>2 DEF AskedInv
    <2> QED BY <1>2, <2>4, NotCounted DEF CapInv
  <1> QED BY <1>1, <1>2, CapSteps

LEMMA InitCap == Init => CapInv
  <1> SUFFICES ASSUME Init PROVE CapInv
    OBVIOUS
  <1>1. TypeOK
    BY InitTypes
  <1>2. AskedInv
    BY DEF Init, AskedInv, Idle
  <1>3. ASSUME NEW b \in Buckets
        PROVE  HourInv(b) /\ LateInv(b) /\ StartedInv(b) /\ CountInv(b)
    <2>1. /\ started[b] = <<>> /\ runcap[b] = Absent
          /\ now = 0 /\ maxRunsPerHour \in caps /\ maxRunsPerHour \in Nat
      BY Parameters DEF Init
    <2>2. /\ \A T : Within(started[b], T) = 0
          /\ Len(started[b]) = 0 /\ runcap[b].count = 0
      BY <2>1, WithinNothing DEF Absent
    <2>3. StartedInv(b) /\ CountInv(b) /\ HourInv(b)
      BY <2>1, <2>2 DEF StartedInv, CountInv, HourInv
    <2>4. LateInv(b)
      <3>1. Cardinality(Waiting(b)) <= Cardinality(Workers) /\ Cardinality(Waiting(b)) \in Nat
        BY WaitingFinite
      <3> QED BY <2>2, <3>1 DEF LateInv
    <2> QED BY <2>3, <2>4
  <1> QED BY <1>2, <1>3 DEF CapInv

(* The two parts of the cap, for starts in the hour and after it.          *)
LEMMA CapHolds == TypeOK /\ CapInv => HourlyCap
  <1> SUFFICES ASSUME TypeOK, CapInv, NEW b \in Buckets
               PROVE  /\ \E cap \in caps : Within(started[b], InHour(b)) <= cap
                      /\ Within(started[b], Clock \ InHour(b)) <= Cardinality(Workers)
    BY DEF HourlyCap
  <1> DEFINE late == Clock \ InHour(b)
  <1>1. \E cap \in caps : Within(started[b], InHour(b)) <= cap
    BY DEF CapInv, StartedInv
  <1>2. /\ started[b] \in Seq(Clock) /\ Cardinality(Workers) \in Nat
        /\ b \in Nat /\ now \div Hour \in Nat
        /\ Cardinality(Waiting(b)) \in Nat
    BY BucketTypes, WaitingFinite
  <1>3. Within(started[b], late) \in Nat
    BY <1>2, WithinFinite
  <1>4. CASE now \div Hour <= b
    <2>1. \A i \in DOMAIN started[b] : started[b][i] \notin late
      BY <1>4 DEF CapInv, HourInv
    <2> HIDE DEF late
    <2>2. Within(started[b], late) = 0
      BY <1>2, <2>1, WithinNone
    <2>3. Within(started[b], late) <= Cardinality(Workers)
      BY <1>2, <2>2
    <2> QED BY <1>1, <2>3 DEF late
  <1>5. CASE now \div Hour > b
    <2>1. Within(started[b], late) + Cardinality(Waiting(b)) <= Cardinality(Workers)
      BY <1>5 DEF CapInv, LateInv
    <2> HIDE DEF late
    <2>2. Within(started[b], late) <= Cardinality(Workers)
      BY <1>2, <1>3, <2>1
    <2> QED BY <1>1, <2>2 DEF late
  <1> QED BY <1>2, <1>4, <1>5

LEMMA NextRefused ==
    TypeOK /\ CapInv /\ RefusedOnlyAtCap /\ [Next]_vars => RefusedOnlyAtCap'
  <1> SUFFICES ASSUME TypeOK, CapInv, RefusedOnlyAtCap, [Next]_vars,
                      NEW b \in refused'
               PROVE  \E cap \in caps' : Len(started'[b]) >= cap
    BY DEF RefusedOnlyAtCap
  <1>1. b \in Buckets /\ TypeOK'
    BY NextTypes DEF TypeOK
  <1>2. /\ Len(started[b]) \in Nat /\ runcap[b].count \in Nat
        /\ \A cap \in caps : cap \in Nat \ {0}
    BY <1>1, BucketTypes
  <1>3. \E cap \in caps : Len(started[b]) >= cap
    <2>1. CASE b \in refused
      BY <2>1 DEF RefusedOnlyAtCap
    <2>2. CASE b \notin refused
      <3>1. PICK w \in Workers : Counts(w, b) /\ ~Under(Incremented(runcap[b], Hour), worker[w].cap)
        BY <2>2, CapSteps DEF Counts, CountsNothing
      <3>2. worker[w].cap \in caps
        BY <3>1 DEF Counts, CapInv, AskedInv
      <3>3. Incremented(runcap[b], Hour).count \in {1, runcap[b].count + 1}
        <4>1. runcap[b] \in Key
          BY <1>1 DEF TypeOK
        <4> QED BY <4>1 DEF Incremented, Key
      <3>4. runcap[b].count >= worker[w].cap
        BY <1>2, <3>1, <3>2, <3>3 DEF Under
      <3>5. CountInv(b)
        BY <1>1 DEF CapInv
      <3> QED BY <1>2, <3>2, <3>4, <3>5 DEF CountInv
    <2> QED BY <2>1, <2>2
  <1>4. caps \subseteq caps' /\ Len(started'[b]) >= Len(started[b])
    <2>1. CASE CountsNothing
      BY <1>2, <2>1 DEF CountsNothing
    <2>2. ASSUME NEW w \in Workers, NEW c \in Buckets, Counts(w, c)
          PROVE  caps' = caps /\ Len(started'[b]) >= Len(started[b])
      <3>1. started[b] \in Seq(Clock) /\ now \in Clock
        BY <1>1 DEF TypeOK
      <3>2. started'[b] = started[b] \/ started'[b] = Append(started[b], now)
        BY <1>1, <2>2 DEF Counts, Started, TypeOK
      <3>3. Len(Append(started[b], now)) = Len(started[b]) + 1
        BY <3>1
      <3> QED BY <1>2, <2>2, <3>2, <3>3 DEF Counts
    <2> QED BY <2>1, <2>2, CapSteps
  <1>5. Len(started'[b]) \in Nat /\ \A cap \in caps' : cap \in Nat
    BY <1>1, Parameters, LenProperties DEF TypeOK
  <1> QED BY <1>2, <1>3, <1>4, <1>5

(* CapOfTheHour: underRunCap lets not more runs of a zap start in a clock  *)
(* hour than its cap, and after it not more than there are workers.        *)
THEOREM CapOfTheHour == Spec => []HourlyCap
  <1> QED BY InitTypes, NextTypes, InitCap, NextCap, CapHolds, PTL DEF Spec

(* RefusedAtCap: a run is failed for the cap only when it was used up.     *)
THEOREM RefusedAtCap == Spec => []RefusedOnlyAtCap
  <1>1. Init => RefusedOnlyAtCap
    BY DEF Init, RefusedOnlyAtCap
  <1> QED BY <1>1, InitTypes, NextTypes, InitCap, NextCap, NextRefused, PTL
          DEF Spec
=============================================================================
