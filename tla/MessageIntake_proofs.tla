------------------------ MODULE MessageIntake_proofs ------------------------
(***************************************************************************)
(* What the intake guarantees for any number of routers, connections,      *)
(* keys, messages, restarts and moments: numbers and copies while Redis    *)
(* answers, and without restarts no duplicate that is not a copy, whatever *)
(* fails.                                                                  *)
(***************************************************************************)
EXTENDS MessageIntake, FiniteSetTheorems, TLAPS

Redis == {"add", "expire", "incr", "seqExpire"}

TaskType == [stage: {"ready"} \cup Redis, what: {"message", "event"},
             key: Keys \cup {0}, since: Nat, new: BOOLEAN, seq: Nat, msg: Nat]

AcceptedType == [key: Keys, by: Connections, at: Nat, seq: Nat]

\* The clock stops at MaxTime, and a call in flight is not overdue.
StateType ==
    /\ now \in Nat \ {0} /\ (now <= MaxTime \/ now = 1)
    /\ dedup \in [Keys -> Nat]
    /\ counter \in Nat /\ counterEnds \in Nat
    /\ cached \in [Routers -> Nat]
    /\ task \in [Connections -> TaskType]
    /\ accepted \in Seq(AcceptedType)
    /\ failures \in Nat /\ restarts \in Nat
    /\ \A c \in Connections : task[c].stage \in Redis =>
         /\ task[c].key \in Keys
         /\ task[c].since <= now /\ now - task[c].since <= SOCKET_TIMEOUT

\* A message that waits for its number has none, and is the last one of its
\* connection.
Awaited ==
    \A c \in Connections : task[c].stage \in {"incr", "seqExpire"} =>
        /\ task[c].what = "message"
        /\ task[c].msg \in DOMAIN accepted
        /\ accepted[task[c].msg].by = c
        /\ accepted[task[c].msg].seq = 0
        /\ \A j \in DOMAIN accepted : j > task[c].msg => accepted[j].by # c

IntakeType == StateType /\ Awaited

-----------------------------------------------------------------------------
(* Steps that most calls share *)

\* A handler that has been stopped or is done.
LEMMA ReadyTyped == Ready \in TaskType
BY DEF Ready, TaskType

\* What Check makes of the task of a connection.
Checked(c, t) ==
    \/ task' = [task EXCEPT ![c] = Ready]
    \/ task' = [task EXCEPT ![c] = [t EXCEPT !.stage = "add", !.since = now]]

LEMMA CheckMakes ==
    ASSUME NEW c \in Connections, NEW t \in TaskType, Check(c, t)
    PROVE  Checked(c, t)
BY DEF Check, Checked, Dropped

\* A connection's task changes, and nothing else that the types speak of.
LEMMA TaskStep ==
    ASSUME IntakeType, NEW c \in Connections, NEW u \in TaskType,
           task' = [task EXCEPT ![c] = u],
           u.stage \in Redis => u.key \in Keys /\ u.since = now,
           u.stage \in {"incr", "seqExpire"} =>
             /\ u.what = "message" /\ u.msg \in DOMAIN accepted'
             /\ accepted'[u.msg].by = c /\ accepted'[u.msg].seq = 0
             /\ \A j \in DOMAIN accepted' : j > u.msg => accepted'[j].by # c,
           accepted' \in Seq(AcceptedType),
           \A i \in DOMAIN accepted :
             /\ i \in DOMAIN accepted'
             /\ accepted'[i].by = accepted[i].by
             /\ accepted[i].by # c => accepted'[i].seq = accepted[i].seq,
           \A j \in DOMAIN accepted' \ DOMAIN accepted : accepted'[j].by = c,
           now' = now, dedup' \in [Keys -> Nat], counter' \in Nat,
           counterEnds' \in Nat,
           cached' \in [Routers -> Nat], failures' \in Nat, restarts' \in Nat
    PROVE  IntakeType'
<1>1. task' \in [Connections -> TaskType] /\ task'[c] = u
      /\ \A d \in Connections : d # c => task'[d] = task[d]
  BY DEF IntakeType, StateType
<1>2. ASSUME NEW d \in Connections, task'[d].stage \in Redis
      PROVE  /\ task'[d].key \in Keys
             /\ task'[d].since <= now /\ now - task'[d].since <= SOCKET_TIMEOUT
  BY <1>1, <1>2, IntakeAssumption DEF IntakeType, StateType
<1>3. StateType'
  BY <1>1, <1>2 DEF IntakeType, StateType
<1>4. ASSUME NEW d \in Connections, task'[d].stage \in {"incr", "seqExpire"}
      PROVE  /\ task'[d].what = "message"
             /\ task'[d].msg \in DOMAIN accepted'
             /\ accepted'[task'[d].msg].by = d
             /\ accepted'[task'[d].msg].seq = 0
             /\ \A j \in DOMAIN accepted' : j > task'[d].msg => accepted'[j].by # d
  <2>1. CASE d = c
    BY <2>1, <1>1, <1>4
  <2>2. CASE d # c
    <3>1. task'[d] = task[d] /\ task[d].stage \in {"incr", "seqExpire"}
      BY <2>2, <1>1, <1>4
    <3>2. /\ task[d].what = "message" /\ task[d].msg \in DOMAIN accepted
          /\ accepted[task[d].msg].by = d /\ accepted[task[d].msg].seq = 0
          /\ \A j \in DOMAIN accepted : j > task[d].msg => accepted[j].by # d
      BY <3>1 DEF IntakeType, Awaited
    <3>3. \A j \in DOMAIN accepted' : j > task[d].msg => accepted'[j].by # d
      BY <3>2, <2>2
    <3>4. QED
      BY <3>1, <3>2, <3>3, <2>2
  <2>3. QED
    BY <2>1, <2>2
<1>5. Awaited'
  BY <1>4 DEF Awaited
<1>6. QED
  BY <1>3, <1>5 DEF IntakeType

\* A message or an event whose check is over is a duplicate, or is not.
LEMMA DecidedKeepsType ==
    ASSUME IntakeType, NEW c \in Connections, task[c].stage \in {"add", "expire"},
           Duplicate(c) \/ Unique(c),
           now' = now, dedup' \in [Keys -> Nat], counter' \in Nat,
           counterEnds' \in Nat,
           cached' \in [Routers -> Nat], failures' \in Nat, restarts' \in Nat
    PROVE  IntakeType'
<1>1. task[c] \in TaskType /\ task[c].key \in Keys
      /\ accepted \in Seq(AcceptedType) /\ now \in Nat
  BY DEF IntakeType, StateType, Redis
<1>2. CASE task' = [task EXCEPT ![c] = Ready] /\ UNCHANGED accepted
  BY <1>1, <1>2, ReadyTyped, TaskStep DEF Ready, Redis
<1>3. CASE /\ task[c].what = "message"
           /\ accepted' = Append(accepted, [key |-> task[c].key, by |-> c,
                                            at |-> now, seq |-> 0])
           /\ task' = [task EXCEPT ![c].stage = "incr", ![c].since = now,
                                   ![c].msg = Len(accepted) + 1]
  <2> DEFINE u == [task[c] EXCEPT !.stage = "incr", !.since = now,
                                  !.msg = Len(accepted) + 1]
             a == [key |-> task[c].key, by |-> c, at |-> now, seq |-> 0]
  <2>1. task' = [task EXCEPT ![c] = u]
    BY <1>3 DEF IntakeType, StateType
  <2>2. u \in TaskType /\ u.key = task[c].key /\ u.since = now /\ u.stage = "incr"
        /\ u.what = "message" /\ u.msg = Len(accepted) + 1
    <3>1. Len(accepted) + 1 \in Nat
      BY <1>1
    <3>2. QED
      BY <1>1, <1>3, <3>1 DEF TaskType, Redis
  <2>3. a \in AcceptedType
    BY <1>1 DEF AcceptedType
  <2>4. /\ accepted' \in Seq(AcceptedType) /\ Len(accepted') = Len(accepted) + 1
        /\ Len(accepted) \in Nat
        /\ DOMAIN accepted = 1..Len(accepted) /\ DOMAIN accepted' = 1..(Len(accepted) + 1)
        /\ \A i \in DOMAIN accepted : accepted'[i] = accepted[i]
        /\ accepted'[Len(accepted) + 1] = a
    BY <1>1, <1>3, <2>3
  <2>5. /\ u.msg \in DOMAIN accepted' /\ accepted'[u.msg].by = c
        /\ accepted'[u.msg].seq = 0
        /\ \A j \in DOMAIN accepted' : j > u.msg => accepted'[j].by # c
    BY <2>2, <2>4
  <2>6. \A j \in DOMAIN accepted' \ DOMAIN accepted : accepted'[j].by = c
    BY <2>4
  <2>7. \A i \in DOMAIN accepted :
          /\ i \in DOMAIN accepted'
          /\ accepted'[i].by = accepted[i].by
          /\ accepted[i].by # c => accepted'[i].seq = accepted[i].seq
    BY <2>4
  <2> HIDE DEF u, a
  <2>8. QED
    BY <1>1, <2>1, <2>2, <2>4, <2>5, <2>6, <2>7, TaskStep
<1>4. QED
  BY <1>2, <1>3 DEF Duplicate, Dropped, Unique

\* The message of a connection gets its number, and its event is checked.
LEMMA NumberedKeepsType ==
    ASSUME IntakeType, NEW c \in Connections,
           task[c].stage \in {"incr", "seqExpire"},
           NEW n \in Nat, Numbered(c, n),
           now' = now, dedup' = dedup, counter' \in Nat,
           counterEnds' \in Nat,
           failures' \in Nat, restarts' \in Nat
    PROVE  IntakeType'
<1>1. task[c] \in TaskType /\ task[c].key \in Keys /\ cached \in [Routers -> Nat]
      /\ accepted \in Seq(AcceptedType) /\ now \in Nat
  BY DEF IntakeType, StateType, Redis
<1>2. /\ task[c].msg \in DOMAIN accepted /\ accepted[task[c].msg].by = c
  BY DEF IntakeType, Awaited
<1>3. /\ accepted' = [accepted EXCEPT ![task[c].msg].seq = n]
      /\ cached' = [cached EXCEPT ![RouterOf[c]] = n]
  BY DEF Numbered
<1>4. [accepted[task[c].msg] EXCEPT !.seq = n] \in AcceptedType
  <2>1. accepted[task[c].msg] \in AcceptedType
    BY <1>1, <1>2
  <2>2. QED
    BY <2>1 DEF AcceptedType
<1>5. accepted' \in Seq(AcceptedType) /\ DOMAIN accepted' = DOMAIN accepted
      /\ \A i \in DOMAIN accepted :
           /\ accepted'[i].by = accepted[i].by
           /\ i # task[c].msg => accepted'[i] = accepted[i]
  BY <1>1, <1>2, <1>3, <1>4
<1>6. cached' \in [Routers -> Nat]
  BY <1>1, <1>3
<1>7. dedup' \in [Keys -> Nat]
  BY DEF IntakeType, StateType
<1>8. \A i \in DOMAIN accepted :
        /\ i \in DOMAIN accepted'
        /\ accepted'[i].by = accepted[i].by
        /\ accepted[i].by # c => accepted'[i].seq = accepted[i].seq
  BY <1>2, <1>5
<1>9. CASE task' = [task EXCEPT ![c] = Ready]
  BY <1>9, <1>1, <1>5, <1>6, <1>7, <1>8, ReadyTyped, TaskStep DEF Ready, Redis
<1>10. CASE Check(c, [task[c] EXCEPT !.what = "event", !.seq = 0])
  <2> DEFINE t == [task[c] EXCEPT !.what = "event", !.seq = 0]
             u == [t EXCEPT !.stage = "add", !.since = now]
  <2>1. t \in TaskType /\ u \in TaskType /\ u.key = task[c].key /\ u.since = now
        /\ u.stage = "add"
    BY <1>1 DEF TaskType, Redis
  <2> HIDE DEF t
  <2>2. Checked(c, t)
    BY <2>1, <1>10, CheckMakes DEF t
  <2>3. CASE task' = [task EXCEPT ![c] = u]
    <3> HIDE DEF u
    <3> QED
      BY <2>3, <2>1, <1>1, <1>5, <1>6, <1>7, <1>8, TaskStep
  <2>4. QED
    BY <2>2, <2>3, <1>9 DEF Checked
<1>11. QED
  BY <1>9, <1>10 DEF Numbered

-----------------------------------------------------------------------------
(* The steps *)

LEMMA ReceiveKeepsType ==
    ASSUME IntakeType, NEW c \in Connections, NEW k \in Keys, Receive(c, k)
    PROVE  IntakeType'
<1> DEFINE t == [Ready EXCEPT !.key = k]
           u == [t EXCEPT !.stage = "add", !.since = now]
<1>1. now \in Nat /\ accepted \in Seq(AcceptedType) /\ dedup \in [Keys -> Nat]
      /\ counter \in Nat /\ counterEnds \in Nat /\ cached \in [Routers -> Nat] /\ failures \in Nat
      /\ restarts \in Nat
  BY DEF IntakeType, StateType
<1>2. t \in TaskType /\ u \in TaskType /\ u.key = k /\ u.since = now /\ u.stage = "add"
  BY <1>1 DEF TaskType, Redis, Ready
<1>3. Checked(c, t)
  <2> HIDE DEF t
  <2> QED BY <1>2, CheckMakes DEF Receive, t
<1>4. UNCHANGED <<now, dedup, counter, counterEnds, cached, accepted, failures, restarts>>
  BY DEF Receive
<1>5. CASE task' = [task EXCEPT ![c] = Ready]
  BY <1>5, <1>1, <1>4, ReadyTyped, TaskStep DEF Ready, Redis
<1>6. CASE task' = [task EXCEPT ![c] = u]
  <2> HIDE DEF u
  <2> QED BY <1>6, <1>1, <1>2, <1>4, TaskStep
<1>7. QED
  BY <1>3, <1>5, <1>6 DEF Checked

LEMMA NeverTyped == IntakeType => Never \in Nat /\ Never >= now + DEDUP_TTL
BY IntakeAssumption DEF IntakeType, StateType, Never

LEMMA NextNumberTyped ==
    IntakeType /\ (IncrEffect \/ SeqExpireEffect)
      => counter' \in Nat /\ counterEnds' \in Nat
<1> SUFFICES ASSUME IntakeType, IncrEffect \/ SeqExpireEffect
             PROVE  counter' \in Nat /\ counterEnds' \in Nat
  OBVIOUS
<1>1. /\ counter \in Nat /\ counterEnds \in Nat /\ Never \in Nat
      /\ now + SEQ_TTL \in Nat
  BY NeverTyped, IntakeAssumption DEF IntakeType, StateType
<1>2. QED
  BY <1>1 DEF IncrEffect, SeqExpireEffect, Following

LEMMA RedisKeepsType ==
    ASSUME IntakeType, NEW c \in Connections, RedisStep(c)
    PROVE  IntakeType'
<1>1. now \in Nat /\ accepted \in Seq(AcceptedType) /\ dedup \in [Keys -> Nat]
      /\ counter \in Nat /\ counterEnds \in Nat /\ cached \in [Routers -> Nat] /\ failures \in Nat
      /\ restarts \in Nat /\ task[c] \in TaskType
  BY DEF IntakeType, StateType
<1>2. ASSUME NEW k \in Keys, SaddEffect(k) \/ ExpireEffect(k) \/ UNCHANGED dedup
      PROVE  dedup' \in [Keys -> Nat]
  <2>1. Never \in Nat /\ now + DEDUP_TTL \in Nat /\ dedup[k] \in Nat
    BY <1>1, NeverTyped, IntakeAssumption
  <2>2. CASE SaddEffect(k)
    BY <2>1, <2>2, <1>1 DEF SaddEffect
  <2>3. CASE ExpireEffect(k)
    BY <2>1, <2>3, <1>1 DEF ExpireEffect
  <2>4. QED
    BY <1>1, <1>2, <2>2, <2>3
<1>3. task[c].stage \in Redis => task[c].key \in Keys
  BY DEF IntakeType, StateType
<1>4. CASE Sadd(c)
  <2> DEFINE u == [task[c] EXCEPT !.stage = "expire", !.since = now,
                                  !.new = ~Holds(task[c].key)]
  <2>1. task' = [task EXCEPT ![c] = u]
    BY <1>4 DEF Sadd, IntakeType, StateType
  <2>2. u \in TaskType /\ u.key = task[c].key /\ u.since = now /\ u.stage = "expire"
    BY <1>1 DEF TaskType, Redis, Holds
  <2>3. dedup' \in [Keys -> Nat] /\ task[c].key \in Keys
    BY <1>2, <1>3, <1>4 DEF Sadd, Answered, Redis
  <2>4. UNCHANGED <<now, cached, failures, restarts, counter, counterEnds, accepted>>
    BY <1>4 DEF Sadd, Answered
  <2> HIDE DEF u
  <2>5. QED
    BY <1>1, <2>1, <2>2, <2>3, <2>4, TaskStep
<1>5. CASE Expire(c)
  <2>1. dedup' \in [Keys -> Nat] /\ task[c].stage = "expire"
    BY <1>2, <1>3, <1>5 DEF Expire, Answered, Redis
  <2>2. UNCHANGED <<now, cached, failures, restarts, counter, counterEnds>>
    BY <1>5 DEF Expire, Answered
  <2>3. QED
    BY <1>1, <1>5, <2>1, <2>2, DecidedKeepsType DEF Expire
<1>6. CASE SaddFails(c) \/ ExpireFails(c)
  <2>1. dedup' \in [Keys -> Nat] /\ task[c].stage \in {"add", "expire"}
    BY <1>2, <1>3, <1>6 DEF SaddFails, ExpireFails, Fails, Redis
  <2>2. UNCHANGED <<now, cached, restarts, counter, counterEnds>> /\ failures' = failures + 1
    BY <1>6 DEF SaddFails, ExpireFails, Fails
  <2>3. QED
    BY <1>1, <1>6, <2>1, <2>2, DecidedKeepsType DEF SaddFails, ExpireFails, Unchecked
<1>7. CASE Incr(c)
  <2> DEFINE u == [task[c] EXCEPT !.stage = "seqExpire", !.since = now,
                                  !.seq = Following]
  <2>1. task' = [task EXCEPT ![c] = u] /\ task[c].stage = "incr"
    BY <1>7 DEF Incr, Answered, IntakeType, StateType
  <2>2. u \in TaskType /\ u.key = task[c].key /\ u.since = now /\ u.stage = "seqExpire"
        /\ u.what = task[c].what /\ u.msg = task[c].msg
    <3>1. Following \in Nat
      BY <1>1 DEF Following
    <3>2. QED
      BY <1>1, <3>1 DEF TaskType, Redis
  <2>3. UNCHANGED <<now, cached, failures, restarts, dedup, accepted>>
        /\ IncrEffect
    BY <1>7 DEF Incr, Answered
  <2>4. /\ task[c].what = "message" /\ task[c].msg \in DOMAIN accepted
        /\ accepted[task[c].msg].by = c /\ accepted[task[c].msg].seq = 0
        /\ \A j \in DOMAIN accepted : j > task[c].msg => accepted[j].by # c
    BY <2>1 DEF IntakeType, Awaited
  <2> HIDE DEF u
  <2>5. task[c].key \in Keys
    BY <2>1, <1>3 DEF Redis
  <2>6. counter' \in Nat /\ counterEnds' \in Nat
    BY <1>1, <2>3, NextNumberTyped
  <2>7. QED
    BY <1>1, <2>1, <2>2, <2>3, <2>4, <2>5, <2>6, TaskStep
<1>8. CASE SeqExpire(c)
  <2>1. task[c].seq \in Nat
    BY <1>1 DEF TaskType
  <2>2. counter' \in Nat /\ counterEnds' \in Nat
    BY <1>8, NextNumberTyped DEF SeqExpire
  <2>3. QED
    BY <1>1, <1>8, <2>1, <2>2, NumberedKeepsType DEF SeqExpire, NumberOf
<1>9. CASE SeqFails(c)
  <2>1. cached[RouterOf[c]] + 1 \in Nat
    BY <1>1, IntakeAssumption
  <2>2. /\ task[c].stage \in {"incr", "seqExpire"}
        /\ counter' \in Nat /\ counterEnds' \in Nat
        /\ failures' \in Nat /\ UNCHANGED <<now, dedup, restarts>>
        /\ Numbered(c, cached[RouterOf[c]] + 1)
    <3>1. Numbered(c, cached[RouterOf[c]] + 1) /\ UNCHANGED dedup
      BY <1>9 DEF SeqFails
    <3>2. counter' \in Nat /\ counterEnds' \in Nat
      BY <1>1, <1>9, NextNumberTyped DEF SeqFails
    <3>3. QED
      BY <3>1, <3>2, <1>1, <1>9 DEF SeqFails, Fails
  <2>3. QED
    BY <1>1, <2>1, <2>2, NumberedKeepsType
<1>10. QED
  BY <1>4, <1>5, <1>6, <1>7, <1>8, <1>9 DEF RedisStep

LEMMA RestartKeepsType ==
    ASSUME IntakeType, NEW r \in Routers, Restart(r)
    PROVE  IntakeType'
<1>1. /\ task' = [c \in Connections |-> IF RouterOf[c] = r THEN Ready ELSE task[c]]
      /\ task' \in [Connections -> TaskType] /\ cached' \in [Routers -> Nat]
      /\ restarts' \in Nat
      /\ UNCHANGED <<now, dedup, counter, counterEnds, accepted, failures>>
  BY ReadyTyped DEF Restart, IntakeType, StateType
<1>2. \A c \in Connections : task'[c] = Ready \/ task'[c] = task[c]
  BY <1>1
<1>3. \A c \in Connections : task'[c].stage \in Redis => task'[c] = task[c]
  BY <1>2 DEF Ready, Redis
<1>4. StateType'
  BY <1>1, <1>3 DEF IntakeType, StateType
<1>5. Awaited'
  BY <1>1, <1>3 DEF IntakeType, Awaited, Redis
<1>6. QED
  BY <1>4, <1>5 DEF IntakeType

LEMMA TickKeepsType ==
    ASSUME IntakeType, Tick
    PROVE  IntakeType'
<1>1. StateType'
  BY IntakeAssumption DEF Tick, IntakeType, StateType, Redis, TaskType
<1>2. Awaited'
  BY DEF Tick, IntakeType, Awaited
<1>3. QED
  BY <1>1, <1>2 DEF IntakeType

LEMMA InitType == Init => IntakeType
BY ReadyTyped, IntakeAssumption
   DEF Init, IntakeType, StateType, Awaited, Absent, Ready, Redis

LEMMA StepKeepsType == IntakeType /\ [Next]_vars => IntakeType'
<1> SUFFICES ASSUME IntakeType, [Next]_vars PROVE IntakeType'
  OBVIOUS
<1>1. CASE UNCHANGED vars
  BY <1>1 DEF vars, IntakeType, StateType, Awaited
<1>2. ASSUME NEW r \in Routers, Cleanup(r) PROVE IntakeType'
  BY <1>2 DEF Cleanup, IntakeType, StateType, Awaited
<1>3. QED
  BY <1>1, <1>2, ReceiveKeepsType, RedisKeepsType, RestartKeepsType, TickKeepsType
     DEF Next

LEMMA TypeAlways == Spec => []IntakeType
<1>1. Init => IntakeType
  BY InitType
<1>2. IntakeType /\ [Next]_vars => IntakeType'
  BY StepKeepsType
<1>3. QED
  BY <1>1, <1>2, PTL DEF Spec

-----------------------------------------------------------------------------
(* Numbers *)

\* A message has number n, or its handler knows that it will be n.
Has(i, n) ==
    \/ accepted[i].seq = n /\ n # 0
    \/ \E c \in Connections : /\ task[c].stage = "seqExpire"
                              /\ task[c].msg = i /\ task[c].seq = n

\* The calls of next_seq follow the acceptance at once.
Prompt ==
    \A c \in Connections : task[c].stage \in {"incr", "seqExpire"} =>
        /\ accepted[task[c].msg].at <= task[c].since
        /\ task[c].since <= accepted[task[c].msg].at + SOCKET_TIMEOUT
        /\ task[c].stage = "incr" => accepted[task[c].msg].at = task[c].since

\* The counter has been without a time to live, or was used last at some time.
Refreshed ==
    \/ counterEnds \in {Absent, Never}
    \/ \E t \in 1..now : LastUsed(t) /\ counterEnds = t + SEQ_TTL

\* The counter has run out since message i was numbered.
RanOutAfter(i) ==
    \E t \in 1..now : /\ LastUsed(t) /\ t + SEQ_TTL <= now
                      /\ accepted[i].at < t + SEQ_TTL

\* The counter outlives the numbers it gives and is not below them.
Counted ==
    \A i \in Messages, n \in Nat : Has(i, n) =>
        /\ n >= 1 /\ accepted[i].at <= now
        /\ accepted[i].at < counterEnds
        /\ n <= counter \/ RanOutAfter(i)

\* NumbersOfPair, of the numbers that are under way too.
Unlike ==
    \A i, j \in Messages, n, k \in Nat : i < j /\ Has(i, n) /\ Has(j, k) =>
        /\ n # k \/ AnewBetween(i, j) \/ AnewBetween(j, i)
        /\ accepted[i].by = accepted[j].by => n < k \/ AnewBetween(i, j)

NumbersInv == failures = 0 => Prompt /\ Refreshed /\ Counted /\ Unlike

\* What the types say of a message, for the arithmetic below.
LEMMA MessageTyped ==
    ASSUME IntakeType, NEW i \in Messages
    PROVE  /\ accepted[i].at \in Nat /\ accepted[i].seq \in Nat /\ i \in Nat
           /\ now \in Nat /\ counter \in Nat /\ counterEnds \in Nat
<1>1. accepted \in Seq(AcceptedType)
  BY DEF IntakeType, StateType
<1>2. accepted[i] \in AcceptedType /\ i \in Nat
  BY <1>1 DEF Messages
<1>3. QED
  BY <1>2 DEF AcceptedType, IntakeType, StateType

\* A message is numbered within two calls to Redis.
LEMMA NumberedSoon ==
    ASSUME IntakeType, Prompt, NEW c \in Connections, task[c].stage = "seqExpire"
    PROVE  /\ task[c].msg \in Messages
           /\ accepted[task[c].msg].at <= now
           /\ now <= accepted[task[c].msg].at + 2 * SOCKET_TIMEOUT
<1>1. task[c].msg \in Messages /\ task[c] \in TaskType
  BY DEF IntakeType, Awaited, StateType, Messages
<1>2. /\ task[c].since \in Nat /\ task[c].since <= now
      /\ now - task[c].since <= SOCKET_TIMEOUT
  BY <1>1 DEF IntakeType, StateType, Redis, TaskType
<1>3. /\ accepted[task[c].msg].at <= task[c].since
      /\ task[c].since <= accepted[task[c].msg].at + SOCKET_TIMEOUT
  BY DEF Prompt
<1>4. QED
  BY <1>1, <1>2, <1>3, MessageTyped, IntakeAssumption

\* No message is accepted or numbered otherwise than late.
LateOnly ==
    /\ now' \in Nat /\ now' >= now
    /\ \A i \in Messages : /\ i \in Messages'
                           /\ accepted'[i].at = accepted[i].at
                           /\ accepted'[i].by = accepted[i].by
                           /\ accepted[i].seq # 0 => accepted'[i].seq = accepted[i].seq
    /\ \A i \in Messages' : accepted'[i].seq # 0 =>
         /\ i \in Messages
         /\ accepted[i].seq = 0 => now <= accepted[i].at + 2 * SOCKET_TIMEOUT

\* A counter that ran out stays so.
LEMMA RanOutStays ==
    ASSUME IntakeType, LateOnly, NEW t \in 1..now, LastUsed(t), t + SEQ_TTL <= now
    PROVE  t \in 1..now' /\ LastUsed(t)' /\ t + SEQ_TTL <= now'
<1>1. now \in Nat /\ SEQ_TTL \in Nat /\ SOCKET_TIMEOUT \in Nat
  BY IntakeAssumption DEF IntakeType, StateType
<1>2. PICK m \in Messages : /\ accepted[m].seq # 0
                            /\ accepted[m].at <= t
                            /\ t <= accepted[m].at + 2 * SOCKET_TIMEOUT
  BY DEF LastUsed
<1>3. /\ m \in Messages' /\ accepted'[m].seq # 0
      /\ accepted'[m].at <= t /\ t <= accepted'[m].at + 2 * SOCKET_TIMEOUT
  BY <1>2 DEF LateOnly
<1>4. ASSUME NEW k \in Messages', accepted'[k].seq # 0
      PROVE  accepted'[k].at <= t \/ accepted'[k].at + 2 * SOCKET_TIMEOUT >= t + SEQ_TTL
  <2>1. k \in Messages /\ accepted'[k].at = accepted[k].at
    BY <1>4 DEF LateOnly
  <2>2. CASE accepted[k].seq # 0
    BY <2>1, <2>2 DEF LastUsed
  <2>3. CASE accepted[k].seq = 0
    <3>1. now <= accepted[k].at + 2 * SOCKET_TIMEOUT /\ accepted[k].at \in Nat
      BY <2>1, <2>3, <1>4, MessageTyped DEF LateOnly
    <3>2. QED
      BY <2>1, <3>1, <1>1
  <2>4. QED
    BY <2>2, <2>3
<1>5. QED
  BY <1>1, <1>3, <1>4 DEF LastUsed, LateOnly

LEMMA AnewStays ==
    ASSUME IntakeType, LateOnly, NEW i \in Messages, NEW j \in Messages
    PROVE  /\ RanOutAfter(i) => RanOutAfter(i)'
           /\ AnewBetween(i, j) => AnewBetween(i, j)'
<1>1. accepted'[i].at = accepted[i].at /\ accepted'[j].at = accepted[j].at
  BY DEF LateOnly
<1>2. ASSUME RanOutAfter(i) PROVE RanOutAfter(i)'
  BY <1>1, <1>2, RanOutStays DEF RanOutAfter
<1>3. ASSUME AnewBetween(i, j) PROVE AnewBetween(i, j)'
  BY <1>1, <1>3, RanOutStays DEF AnewBetween
<1>4. QED
  BY <1>2, <1>3

\* No call of INCR is answered.
LEMMA NoIncrKeeps ==
    ASSUME IntakeType, IntakeType', NumbersInv, LateOnly,
           failures' = 0 => failures = 0, Prompt', Refreshed',
           counter' = counter,
           \A i \in Messages, n \in Nat : Has(i, n) => accepted[i].at < counterEnds',
           \A i \in Messages', n \in Nat : Has(i, n)' => i \in Messages /\ Has(i, n)
    PROVE  NumbersInv'
<1> SUFFICES ASSUME failures' = 0 PROVE Counted' /\ Unlike'
  BY DEF NumbersInv
<1>1. Counted /\ Unlike
  BY DEF NumbersInv
<1>2. Counted'
  <2> SUFFICES ASSUME NEW i \in Messages', NEW n \in Nat, Has(i, n)'
               PROVE  /\ n >= 1 /\ accepted'[i].at <= now'
                      /\ accepted'[i].at < counterEnds'
                      /\ n <= counter' \/ RanOutAfter(i)'
    BY DEF Counted
  <2>1. i \in Messages /\ Has(i, n) /\ accepted'[i].at = accepted[i].at
    BY DEF LateOnly
  <2>2. /\ n >= 1 /\ accepted[i].at <= now /\ accepted[i].at < counterEnds'
        /\ n <= counter \/ RanOutAfter(i)
    BY <2>1, <1>1 DEF Counted
  <2>3. now \in Nat /\ now' \in Nat /\ now' >= now /\ accepted[i].at \in Nat
    BY <2>1, MessageTyped DEF LateOnly
  <2>4. QED
    BY <2>1, <2>2, <2>3, AnewStays
<1>3. Unlike'
  <2> SUFFICES ASSUME NEW i \in Messages', NEW j \in Messages', NEW n \in Nat, NEW k \in Nat,
                      i < j, Has(i, n)', Has(j, k)'
               PROVE  /\ n # k \/ AnewBetween(i, j)' \/ AnewBetween(j, i)'
                      /\ accepted'[i].by = accepted'[j].by => n < k \/ AnewBetween(i, j)'
    BY DEF Unlike
  <2>1. /\ i \in Messages /\ Has(i, n) /\ accepted'[i].by = accepted[i].by
        /\ j \in Messages /\ Has(j, k) /\ accepted'[j].by = accepted[j].by
    BY DEF LateOnly
  <2>2. /\ n # k \/ AnewBetween(i, j) \/ AnewBetween(j, i)
        /\ accepted[i].by = accepted[j].by => n < k \/ AnewBetween(i, j)
    BY <2>1, <1>1 DEF Unlike
  <2>3. QED
    BY <2>1, <2>2, AnewStays
<1>4. QED
  BY <1>2, <1>3

\* A task at a call of next_seq has been there, or its message was accepted now.
NumberingAsBefore(d) ==
    task'[d].stage \in {"incr", "seqExpire"} =>
        \/ task'[d] = task[d]
        \/ /\ task'[d].stage = "incr" /\ task'[d].since = now
           /\ accepted'[task'[d].msg].at = now

\* No call of next_seq is answered: numbers stay what they are, and a message
\* that is new has none.
LEMMA NoNumberKeeps ==
    ASSUME IntakeType, IntakeType', NumbersInv,
           counter' = counter, counterEnds' = counterEnds,
           failures' = 0 => failures = 0, now' >= now,
           \A c \in Connections : NumberingAsBefore(c),
           \A i \in DOMAIN accepted : i \in DOMAIN accepted' /\ accepted'[i] = accepted[i],
           \A i \in DOMAIN accepted' \ DOMAIN accepted : accepted'[i].seq = 0
    PROVE  NumbersInv'
<1> SUFFICES ASSUME failures' = 0 PROVE NumbersInv'
  BY DEF NumbersInv
<1>0. now \in Nat /\ now' \in Nat /\ SOCKET_TIMEOUT \in Nat
  BY IntakeAssumption DEF IntakeType, StateType
<1>1. Prompt /\ Refreshed
  BY DEF NumbersInv
<1>2. /\ \A i \in Messages : i \in Messages' /\ accepted'[i] = accepted[i]
      /\ \A i \in Messages' : accepted'[i].seq # 0 => i \in Messages
  BY DEF Messages
<1>3. LateOnly
  BY <1>0, <1>2 DEF LateOnly
<1>4. ASSUME NEW c \in Connections, task'[c].stage \in {"incr", "seqExpire"}
      PROVE  /\ accepted'[task'[c].msg].at <= task'[c].since
             /\ task'[c].since <= accepted'[task'[c].msg].at + SOCKET_TIMEOUT
             /\ task'[c].stage = "incr" => accepted'[task'[c].msg].at = task'[c].since
  <2>1. CASE task'[c] = task[c]
    <3>1. task[c].msg \in Messages
      BY <2>1, <1>4 DEF IntakeType, Awaited, Messages
    <3>2. QED
      BY <2>1, <3>1, <1>1, <1>2, <1>4 DEF Prompt
  <2>2. CASE /\ task'[c].stage = "incr" /\ task'[c].since = now
             /\ accepted'[task'[c].msg].at = now
    BY <2>2, <1>0
  <2>3. QED
    BY <2>1, <2>2, <1>4 DEF NumberingAsBefore
<1>5. Prompt'
  BY <1>4 DEF Prompt
<1>6. ASSUME NEW t \in 1..now, LastUsed(t) PROVE t \in 1..now' /\ LastUsed(t)'
  BY <1>0, <1>2, <1>6 DEF LastUsed
<1>7. Refreshed'
  <2>1. Never' = Never /\ Absent' = Absent
    BY DEF Never, Absent
  <2>2. QED
    BY <2>1, <1>1, <1>6 DEF Refreshed
<1>8. ASSUME NEW i \in Messages', NEW n \in Nat, Has(i, n)'
      PROVE  i \in Messages /\ Has(i, n)
  <2>1. CASE accepted'[i].seq = n /\ n # 0
    BY <2>1, <1>2 DEF Has
  <2>2. CASE \E c \in Connections : /\ task'[c].stage = "seqExpire"
                                    /\ task'[c].msg = i /\ task'[c].seq = n
    <3>1. PICK c \in Connections : /\ task'[c].stage = "seqExpire"
                                   /\ task'[c].msg = i /\ task'[c].seq = n
      BY <2>2
    <3>2. task'[c] = task[c]
      BY <3>1 DEF NumberingAsBefore
    <3>3. i \in Messages
      BY <3>1, <3>2 DEF IntakeType, Awaited, Messages
    <3>4. QED
      BY <3>1, <3>2, <3>3 DEF Has
  <2>3. QED
    BY <2>1, <2>2, <1>8 DEF Has
<1>9. \A i \in Messages, n \in Nat : Has(i, n) => accepted[i].at < counterEnds'
  BY DEF NumbersInv, Counted
<1>10. QED
  BY <1>3, <1>5, <1>7, <1>8, <1>9, NoIncrKeeps

\* INCR numbers a message above the others, or begins anew after they ran out.
LEMMA IncrKeepsNumbers ==
    ASSUME IntakeType, IntakeType', NumbersInv, NEW c \in Connections, Incr(c)
    PROVE  NumbersInv'
<1> DEFINE m == task[c].msg
<1> SUFFICES ASSUME failures = 0 PROVE Prompt' /\ Refreshed' /\ Counted' /\ Unlike'
  BY DEF NumbersInv, Incr, Answered
<1>1. Prompt /\ Refreshed /\ Counted /\ Unlike
  BY DEF NumbersInv
<1>2. /\ now \in Nat \ {0} /\ counter \in Nat /\ counterEnds \in Nat
      /\ SEQ_TTL \in Nat /\ SOCKET_TIMEOUT \in Nat /\ Never \in Nat /\ Never > now
      /\ \A i \in Messages : accepted[i].at \in Nat /\ i \in Nat
  BY IntakeAssumption, NeverTyped, MessageTyped, SMTT(30) DEF IntakeType, StateType
<1>3. /\ task[c].stage = "incr" /\ accepted' = accepted /\ now' = now
      /\ task'[c] = [task[c] EXCEPT !.stage = "seqExpire", !.since = now, !.seq = Following]
      /\ \A d \in Connections : d # c => task'[d] = task[d]
      /\ IncrEffect
  BY DEF Incr, Answered, IntakeType, StateType
<1>4. /\ m \in Messages /\ accepted[m].by = c
      /\ \A j \in Messages : j > m => accepted[j].by # c
  BY <1>3 DEF IntakeType, Awaited, Messages
<1>5. accepted[m].at <= now /\ now <= accepted[m].at + SOCKET_TIMEOUT
  <2>1. task[c] \in TaskType /\ accepted[m].at = task[c].since
    BY <1>1, <1>3 DEF Prompt, IntakeType, StateType
  <2>2. task[c].since <= now /\ now - task[c].since <= SOCKET_TIMEOUT
    BY <1>3 DEF IntakeType, StateType, Redis
  <2>3. QED
    BY <2>1, <2>2, <1>2 DEF TaskType
<1>6. /\ task'[c].stage = "seqExpire" /\ task'[c].since = now
      /\ task'[c].seq = Following /\ task'[c].msg = m
  <2>1. task[c] \in TaskType
    BY DEF IntakeType, StateType
  <2>2. QED
    BY <2>1, <1>3 DEF TaskType
<1>7. Following \in Nat /\ Following >= 1 /\ counter' = Following
  BY <1>2, <1>3 DEF Following, IncrEffect
<1> HIDE DEF m
<1>8. ASSUME NEW i \in Messages, NEW n \in Nat, Has(i, n)'
      PROVE  Has(i, n) \/ (i = m /\ n = Following)
  <2>1. CASE accepted'[i].seq = n /\ n # 0
    BY <2>1, <1>3 DEF Has
  <2>2. CASE \E d \in Connections : /\ task'[d].stage = "seqExpire"
                                    /\ task'[d].msg = i /\ task'[d].seq = n
    <3>1. PICK d \in Connections : /\ task'[d].stage = "seqExpire"
                                   /\ task'[d].msg = i /\ task'[d].seq = n
      BY <2>2
    <3>2. CASE d = c
      BY <3>1, <3>2, <1>6
    <3>3. CASE d # c
      BY <3>1, <3>3, <1>3 DEF Has
    <3>4. QED
      BY <3>2, <3>3
  <2>3. QED
    BY <2>1, <2>2, <1>8 DEF Has
<1>9. ASSUME NEW i \in Messages, NEW n \in Nat, Has(i, n)
      PROVE  /\ n >= 1 /\ accepted[i].at < counterEnds'
             /\ n <= counter' \/ RanOutAfter(i)
             /\ n < Following \/ AnewBetween(i, m)
  <2>1. /\ n >= 1 /\ accepted[i].at < counterEnds
        /\ n <= counter \/ RanOutAfter(i)
    BY <1>1, <1>9 DEF Counted
  <2>2. RanOutAfter(i) => AnewBetween(i, m)
    BY <1>2, <1>4, <1>5 DEF RanOutAfter, AnewBetween
  <2>3. CASE Counting
    BY <2>1, <2>2, <2>3, <1>2, <1>3, <1>7 DEF Following, IncrEffect
  <2>4. CASE ~Counting
    <3>1. counterEnds # Absent /\ counterEnds # Never
      BY <2>1, <2>4, <1>2 DEF Counting, Absent
    <3>2. PICK t \in 1..now : LastUsed(t) /\ counterEnds = t + SEQ_TTL
      BY <3>1, <1>1 DEF Refreshed
    <3>3. RanOutAfter(i)
      BY <3>2, <2>1, <2>4, <1>2 DEF RanOutAfter, Counting
    <3>4. counterEnds' = Never
      BY <2>4, <1>3 DEF IncrEffect
    <3>5. QED
      BY <3>3, <3>4, <2>1, <2>2, <2>4, <1>2 DEF Counting
  <2>5. QED
    BY <2>3, <2>4
<1>10. \A i, j \in Messages :
         /\ RanOutAfter(i) => RanOutAfter(i)'
         /\ AnewBetween(i, j) => AnewBetween(i, j)'
  BY <1>3 DEF RanOutAfter, AnewBetween, LastUsed, Messages
<1>11. Prompt'
  <2> SUFFICES ASSUME NEW d \in Connections, task'[d].stage \in {"incr", "seqExpire"}
               PROVE  /\ accepted[task'[d].msg].at <= task'[d].since
                      /\ task'[d].since <= accepted[task'[d].msg].at + SOCKET_TIMEOUT
                      /\ task'[d].stage = "incr" =>
                           accepted[task'[d].msg].at = task'[d].since
    BY <1>3 DEF Prompt
  <2>1. CASE d = c
    BY <2>1, <1>5, <1>6
  <2>2. CASE d # c
    BY <2>2, <1>1, <1>3 DEF Prompt
  <2>3. QED
    BY <2>1, <2>2
<1>12. Refreshed'
  <2>1. CASE Counting
    BY <2>1, <1>1, <1>3 DEF Refreshed, IncrEffect, LastUsed, Messages, Never, Absent
  <2>2. CASE ~Counting
    BY <2>2, <1>3 DEF Refreshed, IncrEffect, Never
  <2>3. QED
    BY <2>1, <2>2
<1>13. Counted'
  <2> SUFFICES ASSUME NEW i \in Messages, NEW n \in Nat, Has(i, n)'
               PROVE  /\ n >= 1 /\ accepted[i].at <= now
                      /\ accepted[i].at < counterEnds'
                      /\ n <= counter' \/ RanOutAfter(i)'
    BY <1>3 DEF Counted, Messages
  <2>1. CASE Has(i, n)
    BY <2>1, <1>1, <1>9, <1>10 DEF Counted
  <2>2. CASE i = m /\ n = Following
    <3>1. counterEnds' > now
      BY <1>2, <1>3 DEF IncrEffect, Counting
    <3>2. counterEnds' \in Nat
      BY DEF IntakeType, StateType
    <3>3. QED
      BY <2>2, <3>1, <3>2, <1>2, <1>4, <1>5, <1>7
  <2>3. QED
    BY <2>1, <2>2, <1>8
<1>14. Unlike'
  <2> SUFFICES ASSUME NEW i \in Messages, NEW j \in Messages, NEW n \in Nat, NEW k \in Nat,
                      i < j, Has(i, n)', Has(j, k)'
               PROVE  /\ n # k \/ AnewBetween(i, j)' \/ AnewBetween(j, i)'
                      /\ accepted[i].by = accepted[j].by => n < k \/ AnewBetween(i, j)'
    BY <1>3 DEF Unlike, Messages
  <2>1. CASE Has(i, n) /\ Has(j, k)
    BY <2>1, <1>1, <1>10 DEF Unlike
  <2>2. CASE i = m /\ n = Following
    <3>1. accepted[j].by # accepted[i].by /\ j # m
      BY <2>2, <1>2, <1>4
    <3>2. Has(j, k)
      BY <3>1, <1>8
    <3>3. k < Following \/ AnewBetween(j, i)'
      BY <2>2, <3>2, <1>9, <1>10
    <3>4. QED
      BY <2>2, <3>1, <3>3, <1>7
  <2>3. CASE j = m /\ k = Following
    <3>1. i # m
      BY <2>3, <1>2
    <3>2. Has(i, n)
      BY <3>1, <1>8
    <3>3. n < Following \/ AnewBetween(i, j)'
      BY <2>3, <3>2, <1>9, <1>10
    <3>4. QED
      BY <2>3, <3>3, <1>7
  <2>4. QED
    BY <2>1, <2>2, <2>3, <1>8
<1>15. QED
  BY <1>11, <1>12, <1>13, <1>14

\* EXPIRE lets the counter live, if it is still there, and the message gets the
\* number that INCR returned.
LEMMA SeqExpireKeepsNumbers ==
    ASSUME IntakeType, IntakeType', NumbersInv, NEW c \in Connections, SeqExpire(c)
    PROVE  NumbersInv'
<1> DEFINE n == task[c].seq
           m == task[c].msg
<1> SUFFICES ASSUME failures = 0 PROVE NumbersInv'
  BY DEF NumbersInv, SeqExpire
<1>1. Prompt /\ Refreshed /\ Counted
  BY DEF NumbersInv
<1>2. /\ task[c].stage = "seqExpire" /\ counter' = counter /\ now' = now
      /\ failures' = failures /\ SeqExpireEffect
      /\ accepted' = [accepted EXCEPT ![m].seq = n]
  BY DEF SeqExpire, Numbered, NumberOf, SeqExpireEffect
<1>3. /\ now \in Nat \ {0} /\ counterEnds \in Nat /\ n \in Nat
      /\ SEQ_TTL \in Nat /\ SOCKET_TIMEOUT \in Nat
  BY IntakeAssumption DEF IntakeType, StateType, TaskType
<1>4. m \in Messages /\ accepted[m].seq = 0
  BY <1>2 DEF IntakeType, Awaited, Messages
<1>5. Has(m, n) /\ n >= 1
  BY <1>1, <1>2, <1>3, <1>4 DEF Has, Counted
<1>6. accepted[m].at <= now /\ now <= accepted[m].at + 2 * SOCKET_TIMEOUT
  BY <1>1, <1>2, NumberedSoon
<1>7. /\ Messages' = Messages /\ accepted'[m].seq = n
      /\ \A i \in Messages : /\ accepted'[i].at = accepted[i].at
                             /\ accepted'[i].by = accepted[i].by
                             /\ i # m => accepted'[i] = accepted[i]
  <2>1. accepted[m] \in AcceptedType /\ accepted \in Seq(AcceptedType)
    BY <1>4 DEF IntakeType, StateType, Messages
  <2>2. QED
    BY <1>2, <1>4, <2>1 DEF Messages, AcceptedType
<1>8. \A d \in Connections : task'[d].stage \in {"incr", "seqExpire"} =>
        d # c /\ task'[d] = task[d]
  <2>1. task \in [Connections -> TaskType]
    BY DEF IntakeType, StateType
  <2>2. CASE task' = [task EXCEPT ![c] = Ready]
    BY <2>1, <2>2 DEF Ready
  <2>3. CASE Check(c, [task[c] EXCEPT !.what = "event", !.seq = 0])
    <3> DEFINE t == [task[c] EXCEPT !.what = "event", !.seq = 0]
    <3>1. t \in TaskType
      BY <2>1 DEF TaskType
    <3> HIDE DEF t
    <3>2. Checked(c, t)
      BY <3>1, <2>3, CheckMakes DEF t
    <3>3. CASE task' = [task EXCEPT ![c] = [t EXCEPT !.stage = "add", !.since = now]]
      BY <3>1, <3>3, <2>1 DEF TaskType
    <3>4. QED
      BY <3>2, <3>3, <2>2 DEF Checked
  <2>4. QED
    BY <2>2, <2>3 DEF SeqExpire, Numbered
<1> HIDE DEF n, m
<1>9. LateOnly
  BY <1>2, <1>3, <1>4, <1>6, <1>7 DEF LateOnly
<1>10. Prompt'
  <2> SUFFICES ASSUME NEW d \in Connections, task'[d].stage \in {"incr", "seqExpire"}
               PROVE  /\ accepted'[task'[d].msg].at <= task'[d].since
                      /\ task'[d].since <= accepted'[task'[d].msg].at + SOCKET_TIMEOUT
                      /\ task'[d].stage = "incr" =>
                           accepted'[task'[d].msg].at = task'[d].since
    BY DEF Prompt
  <2>1. task'[d] = task[d] /\ task[d].msg \in Messages
    BY <1>8 DEF IntakeType, Awaited, Messages
  <2>2. QED
    BY <2>1, <1>1, <1>7 DEF Prompt
<1>11. /\ Refreshed'
       /\ \A i \in Messages, k \in Nat : Has(i, k) => accepted[i].at < counterEnds'
  <2>1. CASE Counting
    <3>1. counterEnds' = now + SEQ_TTL
      BY <2>1, <1>2 DEF SeqExpireEffect
    <3>2. \A i \in Messages : accepted'[i].seq # 0 => accepted'[i].at <= now
      <4>1. ASSUME NEW i \in Messages, i # m, accepted[i].seq # 0
            PROVE  accepted[i].at <= now
        <5>1. accepted[i].seq \in Nat /\ Has(i, accepted[i].seq)
          BY <4>1, MessageTyped DEF Has
        <5>2. QED
          BY <5>1, <1>1 DEF Counted
      <4>2. QED
        BY <4>1, <1>6, <1>7
    <3>3. LastUsed(now)'
      BY <3>2, <1>2, <1>3, <1>4, <1>5, <1>6, <1>7 DEF LastUsed
    <3>4. Refreshed'
      BY <3>1, <3>3, <1>2, <1>3 DEF Refreshed
    <3>5. \A i \in Messages, k \in Nat : Has(i, k) => accepted[i].at < counterEnds'
      BY <3>1, <1>1, <1>3, MessageTyped, IntakeAssumption DEF Counted
    <3>6. QED
      BY <3>4, <3>5
  <2>2. CASE ~Counting
    <3>1. counterEnds' = counterEnds /\ counterEnds <= now
      BY <2>2, <1>2, <1>3 DEF SeqExpireEffect, Counting
    <3>2. ASSUME NEW t \in 1..now, LastUsed(t), counterEnds = t + SEQ_TTL
          PROVE  t \in 1..now' /\ LastUsed(t)'
      BY <3>1, <3>2, <1>9, RanOutStays
    <3>3. Never' = Never /\ Absent' = Absent
      BY DEF Never, Absent
    <3>4. QED
      BY <3>1, <3>2, <3>3, <1>1, <1>3 DEF Refreshed, Counted
  <2>3. QED
    BY <2>1, <2>2
<1>12. ASSUME NEW i \in Messages', NEW k \in Nat, Has(i, k)'
       PROVE  i \in Messages /\ Has(i, k)
  <2>1. CASE accepted'[i].seq = k /\ k # 0
    <3>1. CASE i = m
      BY <2>1, <3>1, <1>4, <1>5, <1>7
    <3>2. CASE i # m
      BY <2>1, <3>2, <1>7 DEF Has
    <3>3. QED
      BY <3>1, <3>2
  <2>2. CASE \E d \in Connections : /\ task'[d].stage = "seqExpire"
                                    /\ task'[d].msg = i /\ task'[d].seq = k
    BY <2>2, <1>7, <1>8 DEF Has
  <2>3. QED
    BY <2>1, <2>2, <1>12 DEF Has
<1>13. QED
  BY <1>2, <1>9, <1>10, <1>11, <1>12, NoIncrKeeps

LEMMA OthersWait ==
    ASSUME IntakeType, NEW c \in Connections, NEW t \in TaskType,
           task[c].stage \in {"ready", "add", "expire"},
           Checked(c, t) \/ Duplicate(c) \/ Unique(c)
    PROVE  \A d \in Connections : NumberingAsBefore(d)
<1>1. task \in [Connections -> TaskType] /\ accepted \in Seq(AcceptedType)
  BY DEF IntakeType, StateType
<1>2. CASE task' = [task EXCEPT ![c] = Ready]
  BY <1>1, <1>2 DEF Ready, NumberingAsBefore
<1>3. CASE task' = [task EXCEPT ![c] = [t EXCEPT !.stage = "add", !.since = now]]
  BY <1>1, <1>3 DEF TaskType, NumberingAsBefore
<1>4. CASE /\ task' = [task EXCEPT ![c].stage = "incr", ![c].since = now,
                                   ![c].msg = Len(accepted) + 1]
           /\ accepted' = Append(accepted, [key |-> task[c].key, by |-> c,
                                            at |-> now, seq |-> 0])
  <2>1. accepted'[Len(accepted) + 1].at = now
    BY <1>1, <1>4
  <2>2. /\ task'[c].since = now /\ task'[c].msg = Len(accepted) + 1
        /\ task'[c].stage = "incr"
    BY <1>1, <1>4 DEF TaskType
  <2>3. \A d \in Connections : d # c => task'[d] = task[d]
    BY <1>1, <1>4
  <2>4. QED
    BY <2>1, <2>2, <2>3 DEF NumberingAsBefore
<1>5. QED
  BY <1>2, <1>3, <1>4 DEF Checked, Duplicate, Dropped, Unique

\* What becomes of the accepted messages when a check is over.
LEMMA DecidedAccepts ==
    ASSUME IntakeType, NEW c \in Connections, Duplicate(c) \/ Unique(c)
    PROVE  /\ \A i \in DOMAIN accepted :
                i \in DOMAIN accepted' /\ accepted'[i] = accepted[i]
           /\ \A i \in DOMAIN accepted' \ DOMAIN accepted :
                /\ i = Len(accepted) + 1 /\ Unique(c)
                /\ accepted'[i].key = task[c].key /\ accepted'[i].at = now
                /\ accepted'[i].seq = 0
<1>1. accepted \in Seq(AcceptedType)
  BY DEF IntakeType, StateType
<1>2. CASE UNCHANGED accepted
  BY <1>2
<1>3. CASE Unique(c) /\ accepted' = Append(accepted, [key |-> task[c].key, by |-> c,
                                               at |-> now, seq |-> 0])
  BY <1>1, <1>3
<1>4. QED
  BY <1>2, <1>3 DEF Duplicate, Unique

LEMMA NumbersStep == IntakeType /\ IntakeType' /\ NumbersInv /\ [Next]_vars => NumbersInv'
<1> SUFFICES ASSUME IntakeType, IntakeType', NumbersInv, [Next]_vars PROVE NumbersInv'
  OBVIOUS
<1>0. task \in [Connections -> TaskType] /\ failures \in Nat /\ now \in Nat
  BY DEF IntakeType, StateType
<1>1. CASE UNCHANGED vars
  BY <1>1 DEF vars, NumbersInv, Prompt, Refreshed, Counted, Unlike, Has, RanOutAfter,
              AnewBetween, LastUsed, Messages
<1>2. ASSUME NEW c \in Connections, NEW k \in Keys, Receive(c, k) PROVE NumbersInv'
  <2> DEFINE t == [Ready EXCEPT !.key = k]
  <2>1. t \in TaskType
    BY DEF Ready, TaskType
  <2> HIDE DEF t
  <2>2. Checked(c, t) /\ task[c].stage = "ready"
        /\ UNCHANGED <<now, counter, counterEnds, accepted, failures>>
    BY <1>2, <2>1, CheckMakes DEF Receive, t
  <2>3. \A d \in Connections : NumberingAsBefore(d)
    BY <2>1, <2>2, OthersWait
  <2>4. QED
    BY <1>0, <2>2, <2>3, NoNumberKeeps
<1>3. ASSUME NEW c \in Connections, Sadd(c) PROVE NumbersInv'
  <2>1. \A d \in Connections : NumberingAsBefore(d)
    BY <1>0, <1>3 DEF NumberingAsBefore, Sadd, TaskType
  <2>2. UNCHANGED <<now, counter, counterEnds, accepted, failures>>
    BY <1>3 DEF Sadd, Answered
  <2>3. QED
    BY <1>0, <2>1, <2>2, NoNumberKeeps
<1>4. ASSUME NEW c \in Connections, Expire(c) PROVE NumbersInv'
  <2>1. /\ task[c].stage = "expire" /\ UNCHANGED <<now, counter, counterEnds, failures>>
        /\ Duplicate(c) \/ Unique(c)
    BY <1>4 DEF Expire, Answered
  <2>2. \A d \in Connections : NumberingAsBefore(d)
    BY <2>1, OthersWait, ReadyTyped
  <2>3. QED
    BY <1>0, <2>1, <2>2, DecidedAccepts, NoNumberKeeps
<1>5. ASSUME NEW c \in Connections, SaddFails(c) \/ ExpireFails(c) \/ SeqFails(c)
      PROVE  NumbersInv'
  <2>1. failures' = failures + 1
    BY <1>5 DEF SaddFails, ExpireFails, SeqFails, Fails
  <2>2. QED
    BY <1>0, <2>1 DEF NumbersInv
<1>6. ASSUME NEW r \in Routers, Restart(r) PROVE NumbersInv'
  <2>1. \A d \in Connections : NumberingAsBefore(d)
    BY <1>6 DEF NumberingAsBefore, Restart, Ready
  <2>2. UNCHANGED <<now, counter, counterEnds, accepted, failures>>
    BY <1>6 DEF Restart
  <2>3. QED
    BY <1>0, <2>1, <2>2, NoNumberKeeps
<1>7. CASE Tick \/ \E r \in Routers : Cleanup(r)
  <2>1. UNCHANGED <<task, counter, counterEnds, accepted, failures>> /\ now' >= now
    BY <1>0, <1>7 DEF Tick, Cleanup
  <2>2. QED
    BY <2>1, NoNumberKeeps DEF NumberingAsBefore
<1>8. QED
  BY <1>1, <1>2, <1>3, <1>4, <1>5, <1>6, <1>7, IncrKeepsNumbers, SeqExpireKeepsNumbers
     DEF Next, RedisStep

\* While Redis answers, no two messages of a pair get the same number, and the
\* messages of a connection get growing ones, however INCR and EXPIRE of many
\* routers interleave, unless the counter ran out in between after SEQ_TTL
\* without a message (SeqNumTracker.next_seq).
THEOREM NumbersOfPairHolds == Spec => []NumbersOfPair
<1>1. Init => NumbersInv
  BY DEF Init, NumbersInv, Prompt, Refreshed, Counted, Unlike, Has, Messages, Ready
<1>2. IntakeType /\ IntakeType' /\ NumbersInv /\ [Next]_vars => NumbersInv'
  BY NumbersStep
<1>3. IntakeType /\ NumbersInv => NumbersOfPair
  <2> SUFFICES ASSUME IntakeType, NumbersInv, failures = 0,
                      NEW i \in Messages, NEW j \in Messages,
                      i < j, accepted[i].seq # 0, accepted[j].seq # 0
               PROVE  /\ \/ accepted[i].seq # accepted[j].seq
                         \/ AnewBetween(i, j) \/ AnewBetween(j, i)
                      /\ accepted[i].by = accepted[j].by
                           => accepted[i].seq < accepted[j].seq \/ AnewBetween(i, j)
    BY DEF NumbersOfPair
  <2>1. /\ Has(i, accepted[i].seq) /\ accepted[i].seq \in Nat
        /\ Has(j, accepted[j].seq) /\ accepted[j].seq \in Nat
    BY MessageTyped DEF Has
  <2>2. QED
    BY <2>1 DEF NumbersInv, Unlike
<1>4. QED
  BY <1>1, <1>2, <1>3, TypeAlways, PTL DEF Spec

-----------------------------------------------------------------------------
(* Copies *)

\* A handler to which SADD answered that the key is new.
Fresh(c) == task[c].stage = "expire" /\ task[c].new

\* A key stays in Redis for DEDUP_TTL after it was created, and after each
\* acceptance: longer than the call of EXPIRE may last.
CopiesInv ==
    failures = 0 =>
        /\ \A c \in Connections : Fresh(c) =>
             /\ dedup[task[c].key] >= task[c].since + DEDUP_TTL
             /\ \A d \in Connections \ {c} : Fresh(d) => task[d].key # task[c].key
             /\ \A i \in DOMAIN accepted : accepted[i].key = task[c].key =>
                  task[c].since - accepted[i].at >= DEDUP_TTL
        /\ \A i \in DOMAIN accepted :
             accepted[i].at <= now /\ dedup[accepted[i].key] >= accepted[i].at + DEDUP_TTL
        /\ AcceptedOnce

LEMMA AcceptedTyped ==
    ASSUME IntakeType, NEW i \in DOMAIN accepted
    PROVE  accepted[i] \in AcceptedType /\ i \in Nat
BY DEF IntakeType, StateType

\* The accepted messages stay, keys are kept as long as they have to be, and
\* no handler gets the answer that its key is new.
LEMMA NothingNewKeeps ==
    ASSUME IntakeType, CopiesInv, failures' = 0 => failures = 0,
           now' \in Nat, now' >= now,
           dedup' \in [Keys -> Nat],
           \A k \in Keys : dedup'[k] >= dedup[k] \/ dedup'[k] >= now + DEDUP_TTL,
           \A c \in Connections : Fresh(c)' => task'[c] = task[c],
           DOMAIN accepted' = DOMAIN accepted,
           \A i \in DOMAIN accepted : accepted'[i].key = accepted[i].key
                                      /\ accepted'[i].at = accepted[i].at
    PROVE  CopiesInv'
<1> SUFFICES ASSUME failures' = 0 PROVE CopiesInv'
  BY DEF CopiesInv
<1>1. /\ failures = 0 /\ now \in Nat /\ dedup \in [Keys -> Nat] /\ DEDUP_TTL \in Nat
      /\ \A c \in Connections : Fresh(c) =>
           /\ dedup[task[c].key] >= task[c].since + DEDUP_TTL
           /\ \A d \in Connections \ {c} : Fresh(d) => task[d].key # task[c].key
           /\ \A i \in DOMAIN accepted : accepted[i].key = task[c].key =>
                task[c].since - accepted[i].at >= DEDUP_TTL
      /\ \A i \in DOMAIN accepted :
           accepted[i].at <= now /\ dedup[accepted[i].key] >= accepted[i].at + DEDUP_TTL
      /\ AcceptedOnce
  BY IntakeAssumption DEF IntakeType, StateType, CopiesInv
<1>2. \A i \in DOMAIN accepted : accepted[i].key \in Keys /\ accepted[i].at \in Nat
  BY AcceptedTyped DEF AcceptedType
<1>3. ASSUME NEW c \in Connections, Fresh(c)'
      PROVE  /\ Fresh(c) /\ task'[c] = task[c]
             /\ task[c].key \in Keys /\ task[c].since \in Nat /\ task[c].since <= now
  BY <1>3 DEF Fresh, IntakeType, StateType, Redis, TaskType
<1>4. ASSUME NEW c \in Connections, Fresh(c)'
      PROVE  /\ dedup'[task'[c].key] >= task'[c].since + DEDUP_TTL
             /\ \A d \in Connections \ {c} : Fresh(d)' => task'[d].key # task'[c].key
             /\ \A i \in DOMAIN accepted' : accepted'[i].key = task'[c].key =>
                  task'[c].since - accepted'[i].at >= DEDUP_TTL
  <2>1. dedup[task[c].key] \in Nat /\ dedup'[task[c].key] \in Nat
    BY <1>1, <1>3, <1>4
  <2>2. dedup'[task'[c].key] >= task'[c].since + DEDUP_TTL
    BY <1>1, <1>3, <1>4, <2>1
  <2>3. \A d \in Connections \ {c} : Fresh(d)' => task'[d].key # task'[c].key
    BY <1>1, <1>3, <1>4
  <2>4. \A i \in DOMAIN accepted' : accepted'[i].key = task'[c].key =>
          task'[c].since - accepted'[i].at >= DEDUP_TTL
    BY <1>1, <1>3, <1>4
  <2>5. QED
    BY <2>2, <2>3, <2>4
<1>5. ASSUME NEW i \in DOMAIN accepted'
      PROVE  /\ accepted'[i].at <= now'
             /\ dedup'[accepted'[i].key] >= accepted'[i].at + DEDUP_TTL
  <2>1. dedup[accepted[i].key] \in Nat /\ dedup'[accepted[i].key] \in Nat
        /\ accepted[i].key \in Keys /\ accepted[i].at \in Nat
    BY <1>1, <1>2
  <2>2. QED
    BY <1>1, <2>1
<1>6. AcceptedOnce'
  BY <1>1 DEF AcceptedOnce, Messages
<1>7. QED
  BY <1>4, <1>5, <1>6 DEF CopiesInv

LEMMA SaddKeepsCopies ==
    ASSUME IntakeType, CopiesInv, NEW c \in Connections, Sadd(c)
    PROVE  CopiesInv'
<1> DEFINE k == task[c].key
<1>1. /\ UNCHANGED <<now, failures, accepted>> /\ SaddEffect(k)
      /\ task[c].stage = "add" /\ k \in Keys /\ now \in Nat
      /\ dedup \in [Keys -> Nat] /\ task[c] \in TaskType
  BY DEF Sadd, Answered, IntakeType, StateType, Redis
<1>2. /\ task'[c].key = k /\ task'[c].since = now /\ task'[c].new = ~Holds(k)
      /\ \A d \in Connections : d # c => task'[d] = task[d]
  BY <1>1 DEF Sadd, IntakeType, StateType, TaskType
<1>3. Never \in Nat /\ Never >= now + DEDUP_TTL /\ DEDUP_TTL \in Nat
  BY NeverTyped, IntakeAssumption
<1>4. CASE Holds(k)
  <2>1. dedup' = dedup
    BY <1>1, <1>4 DEF SaddEffect
  <2>2. \A d \in Connections : Fresh(d)' => task'[d] = task[d]
    BY <1>2, <1>4 DEF Fresh
  <2> HIDE DEF k
  <2>3. now' \in Nat /\ now' >= now /\ dedup' \in [Keys -> Nat]
        /\ \A j \in Keys : dedup'[j] >= dedup[j]
    BY <1>1, <2>1
  <2>4. QED
    BY <1>1, <2>1, <2>2, <2>3, NothingNewKeeps
<1>5. CASE ~Holds(k)
  <2> HIDE DEF k
  <2> SUFFICES ASSUME failures = 0 PROVE CopiesInv'
    BY <1>1 DEF CopiesInv
  <2>1. dedup' = [dedup EXCEPT ![k] = Never] /\ dedup[k] <= now /\ dedup[k] \in Nat
    BY <1>1, <1>5 DEF SaddEffect, Holds
  <2>2. /\ \A d \in Connections : Fresh(d) =>
             /\ dedup[task[d].key] >= task[d].since + DEDUP_TTL
             /\ \A e \in Connections \ {d} : Fresh(e) => task[e].key # task[d].key
             /\ \A i \in DOMAIN accepted : accepted[i].key = task[d].key =>
                  task[d].since - accepted[i].at >= DEDUP_TTL
        /\ \A i \in DOMAIN accepted :
             accepted[i].at <= now /\ dedup[accepted[i].key] >= accepted[i].at + DEDUP_TTL
        /\ AcceptedOnce
    BY DEF CopiesInv
  <2>3. ASSUME NEW d \in Connections, Fresh(d)
        PROVE  task[d].key \in Keys /\ task[d].key # k
               /\ dedup[task[d].key] \in Nat /\ task[d].since \in Nat
    <3>1. /\ task[d].key \in Keys /\ task[d].since \in Nat
          /\ task[d].since <= now /\ now - task[d].since <= SOCKET_TIMEOUT
      BY <2>3 DEF Fresh, IntakeType, StateType, Redis, TaskType
    <3>2. dedup[task[d].key] \in Nat
      BY <1>1, <3>1
    <3>3. dedup[task[d].key] > now
      BY <2>2, <2>3, <3>1, <3>2, <1>1, IntakeAssumption
    <3>4. QED
      BY <2>1, <3>1, <3>2, <3>3, <1>1
  <2>4. ASSUME NEW d \in Connections, Fresh(d)', d # c
        PROVE  Fresh(d) /\ task'[d] = task[d] /\ task[d].key # k
    BY <1>2, <2>3, <2>4 DEF Fresh
  <2>5. ASSUME NEW i \in DOMAIN accepted
        PROVE  /\ accepted[i].key \in Keys /\ accepted[i].at \in Nat /\ accepted[i].at <= now
               /\ dedup'[accepted[i].key] >= accepted[i].at + DEDUP_TTL
               /\ accepted[i].key = k => now - accepted[i].at >= DEDUP_TTL
    <3>1. accepted[i].key \in Keys /\ accepted[i].at \in Nat
      BY AcceptedTyped DEF AcceptedType
    <3>2. dedup[accepted[i].key] \in Nat
      BY <3>1, <1>1
    <3>3. accepted[i].at <= now /\ dedup[accepted[i].key] >= accepted[i].at + DEDUP_TTL
      BY <2>2
    <3>4. CASE accepted[i].key = k
      BY <3>1, <3>2, <3>3, <3>4, <1>1, <1>3, <2>1
    <3>5. CASE accepted[i].key # k
      BY <3>1, <3>2, <3>3, <3>5, <1>1, <2>1
    <3>6. QED
      BY <3>4, <3>5
  <2>6. ASSUME NEW d \in Connections, Fresh(d)'
        PROVE  /\ dedup'[task'[d].key] >= task'[d].since + DEDUP_TTL
               /\ \A e \in Connections \ {d} : Fresh(e)' => task'[e].key # task'[d].key
               /\ \A i \in DOMAIN accepted' : accepted'[i].key = task'[d].key =>
                    task'[d].since - accepted'[i].at >= DEDUP_TTL
    <3>1. CASE d = c
      <4>1. dedup'[k] = Never
        BY <1>1, <2>1
      <4>2. \A e \in Connections \ {c} : Fresh(e)' => task'[e].key # k
        BY <2>4
      <4>3. \A i \in DOMAIN accepted' : accepted'[i].key = k => now - accepted'[i].at >= DEDUP_TTL
        BY <1>1, <2>5
      <4>4. QED
        BY <3>1, <4>1, <4>2, <4>3, <1>2, <1>3 DEF k
    <3>2. CASE d # c
      <4>1. /\ Fresh(d) /\ task'[d] = task[d] /\ task[d].key # k
            /\ task[d].key \in Keys
        BY <3>2, <2>6, <2>4, <2>3
      <4>2. dedup'[task[d].key] = dedup[task[d].key]
        BY <4>1, <1>1, <2>1
      <4>3. ASSUME NEW e \in Connections \ {d}, Fresh(e)'
            PROVE  task'[e].key # task'[d].key
        <5>1. CASE e = c
          BY <5>1, <4>1, <1>2 DEF k
        <5>2. CASE e # c
          BY <5>2, <4>1, <4>3, <2>4, <2>2
        <5>3. QED
          BY <5>1, <5>2
      <4>4. QED
        BY <4>1, <4>2, <4>3, <1>1, <2>2
    <3>3. QED
      BY <3>1, <3>2
  <2>7. AcceptedOnce'
    BY <1>1, <2>2 DEF AcceptedOnce, Messages
  <2>8. QED
    BY <1>1, <2>5, <2>6, <2>7 DEF CopiesInv
<1>6. QED
  BY <1>4, <1>5

LEMMA ExpireKeepsCopies ==
    ASSUME IntakeType, IntakeType', CopiesInv, NEW c \in Connections, Expire(c)
    PROVE  CopiesInv'
<1> DEFINE k == task[c].key
<1>1. /\ UNCHANGED <<now, failures>> /\ ExpireEffect(k)
      /\ task[c].stage = "expire" /\ k \in Keys /\ now \in Nat
      /\ dedup \in [Keys -> Nat] /\ task[c] \in TaskType
      /\ IF task[c].new THEN Unique(c) ELSE Duplicate(c)
  BY DEF Expire, IsNew, Answered, IntakeType, StateType, Redis
<1>2. DEDUP_TTL \in Nat
  BY IntakeAssumption
<1>3. /\ dedup' \in [Keys -> Nat]
      /\ \A j \in Keys : dedup'[j] = dedup[j] \/ dedup'[j] = now + DEDUP_TTL
      /\ Holds(k) => dedup'[k] = now + DEDUP_TTL
  BY <1>1, <1>2 DEF ExpireEffect
<1>4. \A d \in Connections : d # c => task'[d] = task[d]
  <2>1. task \in [Connections -> TaskType]
    BY DEF IntakeType, StateType
  <2>2. CASE task' = [task EXCEPT ![c] = Ready]
    BY <2>1, <2>2
  <2>3. CASE task' = [task EXCEPT ![c].stage = "incr", ![c].since = now,
                                  ![c].msg = Len(accepted) + 1]
    BY <2>1, <2>3
  <2>4. QED
    BY <1>1, <2>2, <2>3 DEF Unique, Duplicate, Dropped
<1>5. task'[c].stage # "expire"
  BY <1>1, ReadyTyped, SMTT(30) DEF Unique, Duplicate, Dropped, Ready, IntakeType, StateType, TaskType
<1>6. ASSUME NEW d \in Connections, Fresh(d)'
      PROVE  d # c /\ Fresh(d) /\ task'[d] = task[d]
  BY <1>4, <1>5, <1>6 DEF Fresh
<1>7. \A j \in Keys : dedup'[j] >= dedup[j] \/ dedup'[j] >= now + DEDUP_TTL
  BY <1>1, <1>2, <1>3
<1>8. CASE UNCHANGED accepted
  <2>1. now' \in Nat /\ now' >= now
    BY <1>1
  <2>2. QED
    BY <1>1, <1>3, <1>6, <1>7, <1>8, <2>1, NothingNewKeeps
<1>9. CASE task[c].new /\ accepted' = Append(accepted, [key |-> k, by |-> c,
                                                       at |-> now, seq |-> 0])
  <2> SUFFICES ASSUME failures = 0 PROVE CopiesInv'
    BY <1>1 DEF CopiesInv
  <2>1. /\ \A d \in Connections : Fresh(d) =>
             /\ dedup[task[d].key] >= task[d].since + DEDUP_TTL
             /\ \A e \in Connections \ {d} : Fresh(e) => task[e].key # task[d].key
             /\ \A i \in DOMAIN accepted : accepted[i].key = task[d].key =>
                  task[d].since - accepted[i].at >= DEDUP_TTL
        /\ \A i \in DOMAIN accepted :
             accepted[i].at <= now /\ dedup[accepted[i].key] >= accepted[i].at + DEDUP_TTL
        /\ AcceptedOnce
    BY DEF CopiesInv
  <2>2. /\ DOMAIN accepted' = DOMAIN accepted \cup {Len(accepted) + 1}
        /\ Len(accepted) \in Nat /\ DOMAIN accepted = 1..Len(accepted)
        /\ \A i \in DOMAIN accepted : accepted'[i] = accepted[i]
        /\ accepted'[Len(accepted) + 1].key = k
        /\ accepted'[Len(accepted) + 1].at = now
    <3> DEFINE a == [key |-> k, by |-> c, at |-> now, seq |-> 0]
    <3>1. accepted \in Seq(AcceptedType) /\ accepted' = Append(accepted, a)
      BY <1>9 DEF IntakeType, StateType
    <3>2. a.key = k /\ a.at = now
      OBVIOUS
    <3> HIDE DEF a
    <3>3. QED
      BY <3>1, <3>2
  <2>3. Fresh(c) /\ task[c].since \in Nat /\ task[c].since <= now
        /\ now - task[c].since <= SOCKET_TIMEOUT
    BY <1>1, <1>9 DEF Fresh, IntakeType, StateType, Redis, TaskType
  <2>4. dedup'[k] = now + DEDUP_TTL
    <3>1. dedup[k] \in Nat /\ dedup[k] >= task[c].since + DEDUP_TTL
      BY <1>1, <2>1, <2>3
    <3>2. Holds(k)
      BY <1>1, <3>1, <2>3, IntakeAssumption DEF Holds
    <3>3. QED
      BY <3>2, <1>3
  <2>5. ASSUME NEW i \in DOMAIN accepted
        PROVE  /\ accepted[i].key \in Keys /\ accepted[i].at \in Nat /\ accepted[i].at <= now
               /\ dedup'[accepted[i].key] >= accepted[i].at + DEDUP_TTL
               /\ accepted[i].key = k => now - accepted[i].at >= DEDUP_TTL
    <3>1. accepted[i].key \in Keys /\ accepted[i].at \in Nat
      BY AcceptedTyped DEF AcceptedType
    <3>2. dedup[accepted[i].key] \in Nat /\ dedup'[accepted[i].key] \in Nat
      BY <3>1, <1>1, <1>3
    <3>3. accepted[i].at <= now /\ dedup[accepted[i].key] >= accepted[i].at + DEDUP_TTL
      BY <2>1
    <3>4. dedup'[accepted[i].key] >= accepted[i].at + DEDUP_TTL
      BY <3>1, <3>2, <3>3, <1>1, <1>2, <1>3
    <3>5. accepted[i].key = k => task[c].since - accepted[i].at >= DEDUP_TTL
      BY <2>1, <2>3
    <3>6. QED
      BY <3>1, <3>3, <3>4, <3>5, <2>3, <1>1, <1>2
  <2> HIDE DEF k
  <2>6. ASSUME NEW d \in Connections, Fresh(d)'
        PROVE  /\ dedup'[task'[d].key] >= task'[d].since + DEDUP_TTL
               /\ \A e \in Connections \ {d} : Fresh(e)' => task'[e].key # task'[d].key
               /\ \A i \in DOMAIN accepted' : accepted'[i].key = task'[d].key =>
                    task'[d].since - accepted'[i].at >= DEDUP_TTL
    <3>1. d # c /\ Fresh(d) /\ task'[d] = task[d]
      BY <1>6, <2>6
    <3>2. task[d].key \in Keys /\ task[d].since \in Nat /\ task[d].since <= now
      BY <3>1 DEF Fresh, IntakeType, StateType, Redis, TaskType
    <3>3. dedup[task[d].key] \in Nat /\ dedup'[task[d].key] \in Nat
      BY <3>2, <1>1, <1>3
    <3>4. dedup'[task[d].key] >= task[d].since + DEDUP_TTL
      BY <3>1, <3>2, <3>3, <2>1, <1>1, <1>2, <1>3
    <3>5. task[d].key # k
      BY <3>1, <2>1, <2>3 DEF k
    <3>6. \A e \in Connections \ {d} : Fresh(e)' => task'[e].key # task'[d].key
      BY <3>1, <1>6, <2>1
    <3>7. \A i \in DOMAIN accepted' : accepted'[i].key = task'[d].key =>
            task'[d].since - accepted'[i].at >= DEDUP_TTL
      BY <3>1, <3>5, <2>1, <2>2
    <3>8. QED
      BY <3>1, <3>4, <3>6, <3>7
  <2>7. ASSUME NEW i \in DOMAIN accepted'
        PROVE  /\ accepted'[i].at <= now'
               /\ dedup'[accepted'[i].key] >= accepted'[i].at + DEDUP_TTL
    BY <1>1, <1>2, <2>2, <2>4, <2>5
  <2>8. AcceptedOnce'
    <3> SUFFICES ASSUME NEW i \in DOMAIN accepted', NEW j \in DOMAIN accepted',
                        i < j, accepted'[i].key = accepted'[j].key
                 PROVE  accepted'[j].at - accepted'[i].at >= DEDUP_TTL
      BY DEF AcceptedOnce, Messages
    <3>1. i \in DOMAIN accepted
      BY <2>2
    <3>2. CASE j \in DOMAIN accepted
      BY <3>1, <3>2, <2>1, <2>2 DEF AcceptedOnce, Messages
    <3>3. CASE j = Len(accepted) + 1
      BY <3>1, <3>3, <2>2, <2>5
    <3>4. QED
      BY <2>2, <3>2, <3>3
  <2>9. QED
    BY <2>6, <2>7, <2>8 DEF CopiesInv
<1>10. QED
  BY <1>1, <1>8, <1>9 DEF Unique, Duplicate

LEMMA NumberedKeepsCopies ==
    ASSUME IntakeType, CopiesInv, NEW c \in Connections, SeqExpire(c)
    PROVE  CopiesInv'
<1>1. /\ task[c].stage = "seqExpire" /\ UNCHANGED <<now, dedup, failures>>
      /\ accepted' = [accepted EXCEPT ![task[c].msg].seq = NumberOf(c)]
  BY DEF SeqExpire, Numbered
<1>2. task[c].msg \in DOMAIN accepted /\ accepted \in Seq(AcceptedType)
      /\ accepted[task[c].msg] \in AcceptedType
      /\ task \in [Connections -> TaskType] /\ now \in Nat /\ dedup \in [Keys -> Nat]
  BY <1>1 DEF IntakeType, StateType, Awaited
<1>3. /\ DOMAIN accepted' = DOMAIN accepted
      /\ \A i \in DOMAIN accepted : accepted'[i].key = accepted[i].key
                                    /\ accepted'[i].at = accepted[i].at
  BY <1>1, <1>2 DEF AcceptedType
<1>4. \A d \in Connections : Fresh(d)' => task'[d] = task[d]
  <2>1. CASE task' = [task EXCEPT ![c] = Ready]
    BY <2>1, <1>2 DEF Ready, Fresh
  <2>2. CASE Check(c, [task[c] EXCEPT !.what = "event", !.seq = 0])
    <3> DEFINE t == [task[c] EXCEPT !.what = "event", !.seq = 0]
    <3>1. t \in TaskType
      BY <1>2 DEF TaskType
    <3> HIDE DEF t
    <3>2. Checked(c, t)
      BY <3>1, <2>2, CheckMakes DEF t
    <3>3. CASE task' = [task EXCEPT ![c] = [t EXCEPT !.stage = "add", !.since = now]]
      BY <3>1, <3>3, <1>2 DEF TaskType, Fresh
    <3>4. QED
      BY <3>2, <3>3, <2>1 DEF Checked
  <2>3. QED
    BY <2>1, <2>2 DEF SeqExpire, Numbered
<1>5. \A k \in Keys : dedup'[k] >= dedup[k]
  BY <1>1, <1>2
<1>6. now' \in Nat /\ now' >= now /\ dedup' \in [Keys -> Nat]
      /\ failures' = failures
  BY <1>1, <1>2
<1>7. QED
  BY <1>3, <1>4, <1>5, <1>6, NothingNewKeeps

LEMMA CopiesStep == IntakeType /\ IntakeType' /\ CopiesInv /\ [Next]_vars => CopiesInv'
<1> SUFFICES ASSUME IntakeType, IntakeType', CopiesInv, [Next]_vars PROVE CopiesInv'
  OBVIOUS
<1>0. task \in [Connections -> TaskType] /\ failures \in Nat /\ now \in Nat
      /\ dedup \in [Keys -> Nat]
  BY DEF IntakeType, StateType
<1>1. CASE UNCHANGED vars
  BY <1>1 DEF vars, CopiesInv, Fresh, AcceptedOnce, Messages
<1>2. ASSUME UNCHANGED <<now, dedup, failures, accepted>>,
             \A d \in Connections : Fresh(d)' => task'[d] = task[d]
      PROVE  CopiesInv'
  <2>1. now' \in Nat /\ now' >= now /\ dedup' \in [Keys -> Nat]
        /\ \A k \in Keys : dedup'[k] >= dedup[k]
    BY <1>0, <1>2
  <2>2. QED
    BY <1>2, <2>1, NothingNewKeeps
<1>3. ASSUME NEW c \in Connections, NEW k \in Keys, Receive(c, k) PROVE CopiesInv'
  <2> DEFINE t == [Ready EXCEPT !.key = k]
  <2>1. t \in TaskType
    BY DEF Ready, TaskType
  <2> HIDE DEF t
  <2>2. Checked(c, t) /\ UNCHANGED <<now, dedup, failures, accepted>>
    BY <1>3, <2>1, CheckMakes DEF Receive, t
  <2>3. \A d \in Connections : Fresh(d)' => task'[d] = task[d]
    <3>1. CASE task' = [task EXCEPT ![c] = Ready]
      BY <1>0, <3>1 DEF Fresh, Ready
    <3>2. CASE task' = [task EXCEPT ![c] = [t EXCEPT !.stage = "add", !.since = now]]
      BY <1>0, <2>1, <3>2 DEF Fresh, TaskType
    <3>3. QED
      BY <2>2, <3>1, <3>2 DEF Checked
  <2>4. QED
    BY <1>2, <2>2, <2>3
<1>4. ASSUME NEW c \in Connections, Incr(c) PROVE CopiesInv'
  <2>1. UNCHANGED <<now, dedup, failures, accepted>>
    BY <1>4 DEF Incr, Answered
  <2>2. \A d \in Connections : Fresh(d)' => task'[d] = task[d]
    BY <1>0, <1>4 DEF Incr, Fresh, TaskType
  <2>3. QED
    BY <1>2, <2>1, <2>2
<1>5. ASSUME NEW c \in Connections, SaddFails(c) \/ ExpireFails(c) \/ SeqFails(c)
      PROVE  CopiesInv'
  <2>1. failures' = failures + 1
    BY <1>5 DEF SaddFails, ExpireFails, SeqFails, Fails
  <2>2. QED
    BY <1>0, <2>1 DEF CopiesInv
<1>6. ASSUME NEW r \in Routers, Restart(r) PROVE CopiesInv'
  <2>1. UNCHANGED <<now, dedup, failures, accepted>>
    BY <1>6 DEF Restart
  <2>2. \A d \in Connections : Fresh(d)' => task'[d] = task[d]
    BY <1>6 DEF Restart, Fresh, Ready
  <2>3. QED
    BY <1>2, <2>1, <2>2
<1>7. CASE Tick
  <2>1. now' = now + 1 /\ UNCHANGED <<dedup, failures, accepted, task>>
    BY <1>7 DEF Tick
  <2>2. now' \in Nat /\ now' >= now /\ dedup' \in [Keys -> Nat]
        /\ \A k \in Keys : dedup'[k] >= dedup[k]
    BY <1>0, <2>1
  <2>3. QED
    BY <2>1, <2>2, NothingNewKeeps
<1>8. CASE \E r \in Routers : Cleanup(r)
  <2>1. UNCHANGED <<now, dedup, failures, accepted, task>>
    BY <1>8 DEF Cleanup
  <2>2. QED
    BY <1>2, <2>1
<1>9. QED
  BY <1>1, <1>3, <1>4, <1>5, <1>6, <1>7, <1>8, SaddKeepsCopies, ExpireKeepsCopies,
     NumberedKeepsCopies DEF Next, RedisStep

\* While Redis answers, no message is accepted twice within DEDUP_TTL, on
\* whatever routers and connections its copies arrive, whatever the routers
\* forget and however often they restart (MessageDeduplicator.is_duplicate).
THEOREM AcceptedOnceHolds == Spec => []AcceptedOnce
<1>1. Init => CopiesInv
  BY DEF Init, CopiesInv, Fresh, AcceptedOnce, Messages, Ready
<1>2. IntakeType /\ IntakeType' /\ CopiesInv /\ [Next]_vars => CopiesInv'
  BY CopiesStep
<1>3. CopiesInv => AcceptedOnce
  BY DEF CopiesInv, AcceptedOnce
<1>4. QED
  BY <1>1, <1>2, <1>3, TypeAlways, PTL DEF Spec

-----------------------------------------------------------------------------
(* Originals *)

Entry == [key: Keys, at: Nat]

LocalType == local \in [Routers -> Seq(Entry)]

\* The key of a message that was accepted, of one that is being checked, and of
\* one to which SADD answered that the key is new.
Known(k)   == \E i \in Messages : accepted[i].key = k
Handled(k) == \E c \in Connections : task[c].stage \in {"add", "expire"} /\ task[c].key = k
Made(k)    == \E c \in Connections : Fresh(c) /\ task[c].key = k

\* A message that is numbered was accepted, and so was the one of an event.
NumberedKnown ==
    \A c \in Connections :
        \/ task[c].stage \in {"incr", "seqExpire"}
        \/ task[c].stage \in {"add", "expire"} /\ task[c].what = "event"
        => Known(task[c].key)

\* What a router remembers was accepted or is being checked.
Memories == \A r \in Routers, k \in Keys : InLocal(r, k) => Known(k) \/ Handled(k)

\* What Redis has was accepted, or a handler was told that it is new.
Shared == \A k \in Keys : Holds(k) => Known(k) \/ Made(k)

\* The same for what a handler was told to be a duplicate.
Answers ==
    \A c \in Connections : task[c].stage = "expire" /\ ~task[c].new =>
        Known(task[c].key) \/ Made(task[c].key)

OriginalsInv ==
    /\ LocalType
    /\ NumberedKnown
    /\ restarts = 0 => Memories /\ Shared /\ Answers

\* LRUDedupSet.add remembers the key, and no other that it did not have.
LEMMA AddedKeys ==
    ASSUME NEW s \in Seq(Entry), NEW k \in Keys, now \in Nat
    PROVE  /\ Added(s, k) \in Seq(Entry)
           /\ \A i \in DOMAIN Added(s, k) :
                \/ Added(s, k)[i].key = k
                \/ \E j \in DOMAIN s : s[j].key = Added(s, k)[i].key
<1> DEFINE known == {i \in DOMAIN s : s[i].key = k}
           n     == CHOOSE i \in known : TRUE
           room  == IF known # {} THEN RemoveAt(s, n)
                    ELSE IF Len(s) >= MAX_KEYS THEN Tail(s) ELSE s
           e     == [key |-> k, at |-> now]
<1>1. Added(s, k) = Append(room, e)
  BY DEF Added
<1>2. e \in Entry /\ e.key = k
  BY DEF Entry
<1>3. room \in Seq(Entry) /\ \A i \in DOMAIN room : \E j \in DOMAIN s : s[j] = room[i]
  <2>1. CASE known # {}
    <3>1. n \in known
      BY <2>1
    <3>2. n \in 1..Len(s) /\ Len(s) \in Nat
      BY <3>1
    <3> DEFINE a == SubSeq(s, 1, n - 1)
               b == SubSeq(s, n + 1, Len(s))
    <3>3. room = a \o b
      BY <2>1 DEF RemoveAt
    <3> HIDE DEF known, n, room
    <3>4. /\ a \in Seq(Entry) /\ Len(a) = n - 1
          /\ \A i \in 1..(n - 1) : a[i] = s[i]
      BY <3>2
    <3>5. /\ b \in Seq(Entry) /\ Len(b) = Len(s) - n
          /\ \A i \in 1..(Len(s) - n) : b[i] = s[n + i]
      BY <3>2
    <3> HIDE DEF a, b
    <3>6. /\ room \in Seq(Entry) /\ Len(room) = Len(s) - 1
          /\ \A i \in 1..Len(room) :
               room[i] = IF i <= n - 1 THEN a[i] ELSE b[i - (n - 1)]
      <4>1. /\ room \in Seq(Entry) /\ Len(room) = Len(a) + Len(b)
            /\ \A i \in 1..(Len(a) + Len(b)) :
                 room[i] = IF i <= Len(a) THEN a[i] ELSE b[i - Len(a)]
        <5>1. a \in Seq(Entry) /\ b \in Seq(Entry)
          BY <3>4, <3>5
        <5>2. room \in Seq(Entry)
          BY <5>1, <3>3
        <5>3. Len(room) = Len(a) + Len(b)
          BY <5>1, <3>3
        <5>4. \A i \in 1..(Len(a) + Len(b)) :
                room[i] = IF i <= Len(a) THEN a[i] ELSE b[i - Len(a)]
          BY <5>1, <3>3
        <5>5. QED
          BY <5>2, <5>3, <5>4
      <4>2. Len(a) + Len(b) = Len(s) - 1
        BY <3>2, <3>4, <3>5
      <4>3. QED
        BY <4>1, <4>2, <3>4
    <3>7. ASSUME NEW i \in DOMAIN room PROVE \E j \in DOMAIN s : s[j] = room[i]
      <4>1. i \in 1..(Len(s) - 1)
        BY <3>2, <3>6
      <4>2. CASE i <= n - 1
        BY <4>1, <4>2, <3>2, <3>4, <3>6
      <4>3. CASE i > n - 1
        <5>1. i + 1 \in DOMAIN s /\ i - (n - 1) \in 1..(Len(s) - n)
          BY <4>1, <4>3, <3>2
        <5>2. room[i] = s[i + 1]
          <6>1. PICK m \in 1..(Len(s) - n) : m = i - (n - 1)
            BY <5>1
          <6>2. room[i] = b[m]
            <7>1. i \in 1..Len(room) /\ ~(i <= n - 1)
              BY <4>1, <4>3, <3>2, <3>6
            <7>2. room[i] = b[i - (n - 1)]
              BY <7>1, <3>6
            <7>3. QED
              BY <7>2, <6>1
          <6>3. b[m] = s[n + m]
            BY <3>5
          <6>4. n + m = i + 1
            BY <4>1, <6>1, <3>2
          <6>5. QED
            BY <6>2, <6>3, <6>4
        <5>3. QED
          BY <5>1, <5>2
      <4>4. QED
        BY <4>1, <4>2, <4>3, <3>2
    <3>8. QED
      BY <3>6, <3>7
  <2>2. CASE known = {} /\ Len(s) >= MAX_KEYS
    <3>1. s # <<>> /\ Len(s) \in Nat
      BY <2>2, IntakeAssumption
    <3>2. room = Tail(s)
      BY <2>2
    <3> HIDE DEF room
    <3>3. room \in Seq(Entry) /\ DOMAIN room = 1..(Len(s) - 1)
          /\ \A i \in DOMAIN room : i + 1 \in DOMAIN s /\ room[i] = s[i + 1]
      BY <3>1, <3>2
    <3>4. QED
      BY <3>3
  <2>3. CASE known = {} /\ ~(Len(s) >= MAX_KEYS)
    BY <2>3
  <2>4. QED
    BY <2>1, <2>2, <2>3
<1> HIDE DEF room, e
<1>4. /\ Append(room, e) \in Seq(Entry)
      /\ \A i \in DOMAIN Append(room, e) :
           Append(room, e)[i] = e \/ (i \in DOMAIN room /\ Append(room, e)[i] = room[i])
  BY <1>2, <1>3
<1>5. QED
  BY <1>1, <1>2, <1>3, <1>4

\* LRUDedupSet.cleanup_old only forgets.
LEMMA RecentKeys ==
    ASSUME NEW s \in Seq(Entry)
    PROVE  /\ Recent(s) \in Seq(Entry)
           /\ \A i \in DOMAIN Recent(s) : \E j \in DOMAIN s : s[j] = Recent(s)[i]
<1> DEFINE n == Cardinality({i \in DOMAIN s : now - s[i].at > DEDUP_TTL})
<1>1. n \in Nat
  <2>1. Len(s) \in Nat /\ DOMAIN s = 1..Len(s)
    OBVIOUS
  <2>2. IsFiniteSet(DOMAIN s)
    BY <2>1, FS_Interval
  <2>3. IsFiniteSet({i \in DOMAIN s : now - s[i].at > DEDUP_TTL})
    BY <2>2, FS_Subset
  <2>4. QED
    BY <2>3, FS_CardinalityType
<1>2. Recent(s) = SubSeq(s, n + 1, Len(s))
  BY DEF Recent
<1> HIDE DEF n
<1>3. CASE n < Len(s)
  <2>1. /\ Recent(s) \in Seq(Entry) /\ DOMAIN Recent(s) = 1..(Len(s) - n)
        /\ \A i \in 1..(Len(s) - n) : n + i \in DOMAIN s /\ Recent(s)[i] = s[n + i]
    BY <1>1, <1>2, <1>3
  <2>2. QED
    BY <2>1
<1>4. CASE ~(n < Len(s))
  <2>1. Recent(s) = <<>>
    BY <1>1, <1>2, <1>4
  <2>2. QED
    BY <2>1
<1>5. QED
  BY <1>3, <1>4

\* After a check the router remembers the key, and no other that it did not:
\* the key was known and the handler is done, or Redis is asked.
LEMMA CheckRemembers ==
    ASSUME IntakeType, LocalType, NEW c \in Connections, NEW t \in TaskType,
           t.key \in Keys, Check(c, t)
    PROVE  /\ LocalType'
           /\ \A r \in Routers, k \in Keys :
                InLocal(r, k)' => InLocal(r, k) \/ k = t.key
           /\ \/ /\ task' = [task EXCEPT ![c] = Ready]
                 /\ InLocal(RouterOf[c], t.key)
              \/ task' = [task EXCEPT ![c] = [t EXCEPT !.stage = "add", !.since = now]]
<1> DEFINE q == RouterOf[c]
<1>1. now \in Nat /\ q \in Routers /\ local[q] \in Seq(Entry)
  BY IntakeAssumption DEF IntakeType, StateType, LocalType
<1>2. PICK s : /\ local' = [local EXCEPT ![q] = s]
               /\ s \in {Added(local[q], t.key), Recent(Added(local[q], t.key))}
  BY DEF Check
<1>3. /\ s \in Seq(Entry)
      /\ \A i \in DOMAIN s : \/ s[i].key = t.key
                             \/ \E j \in DOMAIN local[q] : local[q][j].key = s[i].key
  <2> DEFINE a == Added(local[q], t.key)
  <2>1. /\ a \in Seq(Entry)
        /\ \A i \in DOMAIN a : \/ a[i].key = t.key
                               \/ \E j \in DOMAIN local[q] : local[q][j].key = a[i].key
    BY <1>1, AddedKeys
  <2> HIDE DEF a
  <2>2. /\ Recent(a) \in Seq(Entry)
        /\ \A i \in DOMAIN Recent(a) : \E j \in DOMAIN a : a[j] = Recent(a)[i]
    BY <2>1, RecentKeys
  <2>3. s = a \/ s = Recent(a)
    BY <1>2 DEF a
  <2>4. ASSUME NEW i \in DOMAIN Recent(a)
        PROVE  \/ Recent(a)[i].key = t.key
               \/ \E j \in DOMAIN local[q] : local[q][j].key = Recent(a)[i].key
    <3>1. PICK j \in DOMAIN a : a[j] = Recent(a)[i]
      BY <2>2
    <3>2. QED
      BY <2>1, <3>1
  <2>5. CASE s = a
    BY <2>1, <2>5
  <2>6. CASE s = Recent(a)
    BY <2>2, <2>4, <2>6
  <2>7. QED
    BY <2>3, <2>5, <2>6
<1>4. /\ local' \in [Routers -> Seq(Entry)] /\ local'[q] = s
      /\ \A r \in Routers : r # q => local'[r] = local[r]
  BY <1>1, <1>2, <1>3 DEF LocalType
<1>5. \A r \in Routers, k \in Keys : InLocal(r, k)' => InLocal(r, k) \/ k = t.key
  BY <1>3, <1>4 DEF InLocal
<1>6. \/ /\ task' = [task EXCEPT ![c] = Ready]
         /\ InLocal(q, t.key)
      \/ task' = [task EXCEPT ![c] = [t EXCEPT !.stage = "add", !.since = now]]
  BY DEF Check, Dropped
<1>7. QED
  BY <1>4, <1>5, <1>6 DEF LocalType

\* What has to be shown of a step without a restart.
LEMMA OriginalsKept ==
    ASSUME Memories, Shared, Answers,
           \A k \in Keys : Known(k) => Known(k)',
           \A k \in Keys : Made(k) => Made(k)' \/ Known(k)',
           \A k \in Keys : Handled(k) => Handled(k)' \/ Known(k)',
           \A r \in Routers, k \in Keys : InLocal(r, k)' =>
             (\E q \in Routers : InLocal(q, k)) \/ Known(k)' \/ Handled(k)',
           \A k \in Keys : Holds(k)' => Holds(k) \/ Known(k)' \/ Made(k)',
           \A c \in Connections : task'[c].stage = "expire" /\ ~task'[c].new =>
             /\ task'[c].key \in Keys
             /\ task'[c] = task[c] \/ Known(task[c].key)' \/ Made(task[c].key)'
    PROVE  Memories' /\ Shared' /\ Answers'
<1>1. Memories'
  <2> SUFFICES ASSUME NEW r \in Routers, NEW k \in Keys, InLocal(r, k)'
               PROVE  Known(k)' \/ Handled(k)'
    BY DEF Memories
  <2>1. CASE \E q \in Routers : InLocal(q, k)
    BY <2>1 DEF Memories
  <2>2. QED
    BY <2>1
<1>2. Shared'
  <2> SUFFICES ASSUME NEW k \in Keys, Holds(k)' PROVE Known(k)' \/ Made(k)'
    BY DEF Shared
  <2>1. CASE Holds(k)
    BY <2>1 DEF Shared
  <2>2. QED
    BY <2>1
<1>3. Answers'
  <2> SUFFICES ASSUME NEW c \in Connections, task'[c].stage = "expire", ~task'[c].new
               PROVE  Known(task[c].key)' \/ Made(task[c].key)'
    BY DEF Answers
  <2>0. PICK k \in Keys : k = task'[c].key
    OBVIOUS
  <2>1. (Known(task[c].key)' <=> Known(k)') /\ (Made(task[c].key)' <=> Made(k)')
    BY <2>0 DEF Known, Made
  <2>2. CASE task'[c] = task[c]
    <3>1. k = task[c].key /\ (Known(k) \/ Made(k))
      BY <2>0, <2>2 DEF Answers
    <3>2. QED
      BY <3>1, <2>1
  <2>3. QED
    BY <2>2
<1>4. QED
  BY <1>1, <1>2, <1>3

\* A message is read, or its event is made, and its check begins: nothing more
\* is remembered than the key, which is known or is now being checked.
LEMMA BeginKeepsOriginals ==
    ASSUME IntakeType, OriginalsInv, NEW c \in Connections, NEW t \in TaskType,
           task[c].stage \notin {"add", "expire"}, t.key \in Keys,
           t.what = "event" => Known(t.key),
           \/ Check(c, t)
           \/ task' = [task EXCEPT ![c] = Ready] /\ UNCHANGED local,
           UNCHANGED <<now, dedup, restarts>>,
           \A k \in Keys : Known(k)' <=> Known(k)
    PROVE  OriginalsInv'
<1> DEFINE u == [t EXCEPT !.stage = "add", !.since = now]
<1>1. task \in [Connections -> TaskType] /\ LocalType /\ RouterOf[c] \in Routers
      /\ dedup \in [Keys -> Nat]
      /\ \A d \in Connections : task[d].stage \in Redis => task[d].key \in Keys
  BY IntakeAssumption DEF IntakeType, StateType, OriginalsInv
<1>2. /\ LocalType'
      /\ \A r \in Routers, k \in Keys : InLocal(r, k)' => InLocal(r, k) \/ k = t.key
      /\ \/ /\ task' = [task EXCEPT ![c] = Ready]
            /\ \A r \in Routers, k \in Keys :
                 InLocal(r, k)' => \E q \in Routers : InLocal(q, k)
         \/ task' = [task EXCEPT ![c] = u]
  <2>1. CASE Check(c, t)
    BY <1>1, <2>1, CheckRemembers, ZenonT(60)
  <2>2. CASE task' = [task EXCEPT ![c] = Ready] /\ UNCHANGED local
    BY <1>1, <2>2 DEF LocalType, InLocal
  <2>3. QED
    BY <2>1, <2>2
<1>3. u.stage = "add" /\ u.key = t.key /\ u.what = t.what
  BY DEF TaskType
<1> HIDE DEF u
<1>4. /\ \A d \in Connections : d # c => task'[d] = task[d]
      /\ task'[c] = Ready \/ task'[c] = u
  BY <1>1, <1>2
<1>5. Ready.stage = "ready"
  BY DEF Ready
<1>6. NumberedKnown'
  <2> SUFFICES ASSUME NEW d \in Connections,
                      \/ task'[d].stage \in {"incr", "seqExpire"}
                      \/ task'[d].stage \in {"add", "expire"} /\ task'[d].what = "event"
               PROVE  Known(task[d].key)'
    BY DEF NumberedKnown
  <2>1. CASE d # c
    <3>1. task'[d] = task[d] /\ Known(task[d].key) /\ task[d].key \in Keys
      BY <1>1, <1>4, <2>1 DEF OriginalsInv, NumberedKnown, Redis
    <3>2. PICK k \in Keys : k = task[d].key
      BY <3>1
    <3>3. Known(k)' /\ task'[d].key = k
      BY <1>1, <3>1, <3>2
    <3>4. QED
      BY <3>3 DEF Known
  <2>2. CASE d = c
    <3>1. task'[c] = u /\ t.what = "event"
      BY <2>2, <1>3, <1>4, <1>5
    <3>2. Known(t.key)' /\ task'[c].key = t.key
      BY <3>1, <1>3
    <3>3. QED
      BY <3>2, <2>2 DEF Known
  <2>3. QED
    BY <2>1, <2>2
<1>7. ASSUME restarts = 0 PROVE Memories' /\ Shared' /\ Answers'
  <2>1. Memories /\ Shared /\ Answers
    BY <1>7 DEF OriginalsInv
  <2>2. \A k \in Keys : Made(k) => Made(k)'
    BY <1>4 DEF Made, Fresh
  <2>3. \A k \in Keys : Handled(k) => Handled(k)'
    BY <1>4 DEF Handled
  <2>4. ASSUME NEW r \in Routers, NEW k \in Keys, InLocal(r, k)'
        PROVE  (\E q \in Routers : InLocal(q, k)) \/ Handled(k)'
    <3>1. CASE task' = [task EXCEPT ![c] = u]
      <4>1. task'[c] = u
        BY <1>1, <3>1
      <4>2. QED
        BY <4>1, <2>4, <1>2, <1>3 DEF Handled
    <3>2. QED
      BY <3>1, <2>4, <1>2
  <2>5. \A k \in Keys : Holds(k)' => Holds(k)
    BY DEF Holds
  <2>6. ASSUME NEW d \in Connections, task'[d].stage = "expire"
        PROVE  task'[d].key \in Keys /\ task'[d] = task[d]
    BY <2>6, <1>1, <1>3, <1>4, <1>5 DEF Redis
  <2>7. QED
    BY <2>1, <2>2, <2>3, <2>4, <2>5, <2>6, OriginalsKept
<1>8. QED
  BY <1>2, <1>6, <1>7 DEF OriginalsInv

\* A check is over: the message was accepted, or it is a duplicate of what
\* another handler was told to be new, if it has not been accepted.
LEMMA EndKeepsOriginals ==
    ASSUME IntakeType, OriginalsInv, NEW c \in Connections,
           task[c].stage \in {"add", "expire"},
           \/ Unique(c)
           \/ Duplicate(c) /\ task[c].stage = "expire" /\ ~task[c].new,
           UNCHANGED <<now, local, restarts>>,
           \A k \in Keys : Holds(k)' => Holds(k) \/ (Unique(c) /\ k = task[c].key)
    PROVE  OriginalsInv'
<1> DEFINE key == task[c].key
<1>1. task \in [Connections -> TaskType] /\ accepted \in Seq(AcceptedType)
      /\ \A d \in Connections : task[d].stage \in Redis => task[d].key \in Keys
  BY DEF IntakeType, StateType
<1>2. key \in Keys
  BY <1>1 DEF Redis
<1>3. \A k \in Keys : Known(k) => Known(k)'
  <2> DEFINE a == [key |-> key, by |-> c, at |-> now, seq |-> 0]
  <2>1. CASE accepted' = Append(accepted, a)
    <3> HIDE DEF a
    <3>1. \A i \in DOMAIN accepted : i \in DOMAIN accepted' /\ accepted'[i] = accepted[i]
      BY <1>1, <2>1
    <3>2. QED
      BY <3>1 DEF Known, Messages
  <2>2. CASE UNCHANGED accepted
    BY <2>2 DEF Known, Messages
  <2>3. QED
    BY <2>1, <2>2 DEF Unique, Duplicate
<1>4. \A k \in Keys : Unique(c) /\ k = key => Known(k)'
  <2>1. CASE task[c].what = "message"
    <3> DEFINE a == [key |-> key, by |-> c, at |-> now, seq |-> 0]
    <3>1. Unique(c) => accepted' = Append(accepted, a)
      BY <2>1 DEF Unique
    <3>2. a.key = key
      OBVIOUS
    <3> HIDE DEF a, key
    <3>3. Unique(c) => Len(accepted) + 1 \in DOMAIN accepted'
                       /\ accepted'[Len(accepted) + 1].key = key
      BY <1>1, <3>1, <3>2
    <3>4. QED
      BY <3>3 DEF Known, Messages
  <2>2. CASE task[c].what = "event"
    <3>1. Known(key)
      BY <2>2 DEF OriginalsInv, NumberedKnown
    <3>2. QED
      BY <1>3, <3>1
  <2>3. QED
    BY <1>1, <2>1, <2>2 DEF TaskType
<1>5. /\ \A d \in Connections : d # c => task'[d] = task[d]
      /\ \/ task'[c].stage = "ready"
         \/ task'[c].stage = "incr" /\ task'[c].key = key /\ Unique(c)
  <2>1. CASE task' = [task EXCEPT ![c] = Ready]
    BY <1>1, <2>1 DEF Ready
  <2>2. CASE /\ task' = [task EXCEPT ![c].stage = "incr", ![c].since = now,
                                     ![c].msg = Len(accepted) + 1]
             /\ Unique(c)
    BY <1>1, <2>2 DEF TaskType
  <2>3. QED
    BY <2>1, <2>2 DEF Unique, Duplicate, Dropped
<1> HIDE DEF key
<1>6. NumberedKnown'
  <2> SUFFICES ASSUME NEW d \in Connections,
                      \/ task'[d].stage \in {"incr", "seqExpire"}
                      \/ task'[d].stage \in {"add", "expire"} /\ task'[d].what = "event"
               PROVE  Known(task[d].key)'
    BY DEF NumberedKnown
  <2>1. PICK k \in Keys : k = task'[d].key
    BY <1>1, <1>2, <1>5 DEF Redis
  <2>2. Known(k)'
    <3>1. CASE d # c
      BY <1>1, <1>3, <1>5, <2>1, <3>1 DEF OriginalsInv, NumberedKnown, Redis
    <3>2. CASE d = c
      BY <1>4, <1>5, <2>1, <3>2
    <3>3. QED
      BY <3>1, <3>2
  <2>3. QED
    BY <2>1, <2>2 DEF Known
<1>7. ASSUME restarts = 0 PROVE Memories' /\ Shared' /\ Answers'
  <2>1. Memories /\ Shared /\ Answers
    BY <1>7 DEF OriginalsInv
  <2>2. ASSUME NEW k \in Keys, Made(k) PROVE Made(k)' \/ Known(k)'
    <3>1. PICK d \in Connections : Fresh(d) /\ task[d].key = k
      BY <2>2 DEF Made
    <3>2. CASE d # c
      BY <3>1, <3>2, <1>5 DEF Made, Fresh
    <3>3. CASE d = c
      <4>1. Unique(c)
        BY <3>1, <3>3 DEF Fresh
      <4>2. QED
        BY <3>1, <3>3, <4>1, <1>4 DEF key
    <3>4. QED
      BY <3>2, <3>3
  <2>3. \A k \in Keys : Made(k)' => Handled(k)'
    BY DEF Made, Fresh, Handled
  <2>4. ASSUME NEW k \in Keys, Handled(k) PROVE Handled(k)' \/ Known(k)'
    <3>1. PICK d \in Connections : task[d].stage \in {"add", "expire"} /\ task[d].key = k
      BY <2>4 DEF Handled
    <3>2. CASE d # c
      BY <3>1, <3>2, <1>5 DEF Handled
    <3>3. CASE d = c /\ Unique(c)
      BY <3>1, <3>3, <1>4 DEF key
    <3>4. CASE d = c /\ task[c].stage = "expire" /\ ~task[c].new
      <4>1. Known(k) \/ Made(k)
        BY <2>1, <3>1, <3>4 DEF Answers
      <4>2. QED
        BY <4>1, <1>3, <2>2, <2>3
    <3>5. QED
      BY <3>2, <3>3, <3>4
  <2>5. \A r \in Routers, k \in Keys : InLocal(r, k)' => InLocal(r, k)
    BY DEF InLocal
  <2>6. \A k \in Keys : Holds(k)' => Holds(k) \/ Known(k)'
    BY <1>4 DEF key
  <2>7. ASSUME NEW d \in Connections, task'[d].stage = "expire"
        PROVE  task'[d].key \in Keys /\ task'[d] = task[d]
    BY <2>7, <1>1, <1>5 DEF Redis
  <2>8. QED
    BY <2>1, <2>2, <2>4, <2>5, <2>6, <2>7, <1>3, OriginalsKept
<1>8. LocalType'
  BY DEF OriginalsInv, LocalType
<1>9. QED
  BY <1>6, <1>7, <1>8 DEF OriginalsInv

LEMMA SaddKeepsOriginals ==
    ASSUME IntakeType, OriginalsInv, NEW c \in Connections, Sadd(c)
    PROVE  OriginalsInv'
<1>0. PICK key \in Keys : key = task[c].key
  BY DEF IntakeType, StateType, Sadd, Answered, Redis
<1> DEFINE u == [task[c] EXCEPT !.stage = "expire", !.since = now, !.new = ~Holds(key)]
<1>1. /\ task \in [Connections -> TaskType] /\ dedup \in [Keys -> Nat]
      /\ \A d \in Connections : task[d].stage \in Redis => task[d].key \in Keys
  BY DEF IntakeType, StateType
<1>2. /\ task' = [task EXCEPT ![c] = u] /\ task[c].stage = "add" /\ key \in Keys
      /\ UNCHANGED <<now, local, accepted, restarts>> /\ SaddEffect(key)
  BY <1>0, <1>1 DEF Sadd, Answered, Redis
<1>3. /\ u.stage = "expire" /\ u.key = key /\ u.what = task[c].what
      /\ u.new = ~Holds(key)
  BY <1>0, <1>1 DEF TaskType
<1> HIDE DEF u
<1>4. task'[c] = u /\ \A d \in Connections : d # c => task'[d] = task[d]
  BY <1>1, <1>2
<1>5. \A k \in Keys : Known(k)' <=> Known(k)
  BY <1>2 DEF Known, Messages
<1>6. NumberedKnown'
  <2> SUFFICES ASSUME NEW d \in Connections,
                      \/ task'[d].stage \in {"incr", "seqExpire"}
                      \/ task'[d].stage \in {"add", "expire"} /\ task'[d].what = "event"
               PROVE  Known(task[d].key)'
    BY DEF NumberedKnown
  <2>1. /\ task'[d].key = task[d].key
        /\ \/ task[d].stage \in {"incr", "seqExpire"}
           \/ task[d].stage \in {"add", "expire"} /\ task[d].what = "event"
    BY <1>0, <1>2, <1>3, <1>4
  <2>2. Known(task[d].key)
    BY <2>1 DEF OriginalsInv, NumberedKnown
  <2>3. QED
    BY <2>1, <2>2, <1>2 DEF Known, Messages
<1>7. ASSUME restarts = 0 PROVE Memories' /\ Shared' /\ Answers'
  <2>1. Memories /\ Shared /\ Answers
    BY <1>7 DEF OriginalsInv
  <2>2. \A k \in Keys : Made(k) => Made(k)'
    BY <1>2, <1>4 DEF Made, Fresh
  <2>3. \A k \in Keys : Handled(k) => Handled(k)'
    BY <1>0, <1>2, <1>3, <1>4 DEF Handled
  <2>4. \A r \in Routers, k \in Keys : InLocal(r, k)' => InLocal(r, k)
    BY <1>2 DEF InLocal
  <2>5. ~Holds(key) => Made(key)'
    BY <1>3, <1>4 DEF Made, Fresh
  <2>6. \A k \in Keys : Holds(k)' => Holds(k) \/ Made(k)'
    <3>1. \A k \in Keys : k # key => dedup'[k] = dedup[k]
      BY <1>1, <1>2 DEF SaddEffect
    <3>2. QED
      BY <1>2, <2>5, <3>1 DEF Holds
  <2>7. ASSUME NEW d \in Connections, task'[d].stage = "expire", ~task'[d].new
        PROVE  /\ task'[d].key \in Keys
               /\ task'[d] = task[d] \/ Known(task[d].key)' \/ Made(task[d].key)'
    <3>1. CASE d # c
      BY <2>7, <3>1, <1>1, <1>4 DEF Redis
    <3>2. CASE d = c
      <4>1. task'[c].key = key /\ Holds(key)
        BY <2>7, <3>2, <1>3, <1>4
      <4>2. Known(key)' \/ Made(key)'
        BY <4>1, <2>1, <2>2, <1>2, <1>5 DEF Shared
      <4>3. QED
        BY <4>1, <4>2, <3>2, <1>2 DEF Known, Made
    <3>3. QED
      BY <3>1, <3>2
  <2>8. QED
    BY <2>1, <2>2, <2>3, <2>4, <2>6, <2>7, <1>5, OriginalsKept
<1>8. LocalType'
  BY <1>2 DEF OriginalsInv, LocalType
<1>9. QED
  BY <1>2, <1>6, <1>7, <1>8 DEF OriginalsInv

\* Nothing is learned: at most keys are forgotten, or a call counts.
LEMMA QuietKeepsOriginals ==
    ASSUME IntakeType, OriginalsInv, LocalType',
           \A r \in Routers, k \in Keys : InLocal(r, k)' => InLocal(r, k),
           \A k \in Keys : Holds(k)' => Holds(k),
           \A c \in Connections :
             \/ task'[c] = task[c]
             \/ /\ task[c].stage \in {"incr", "seqExpire"} /\ task'[c].key = task[c].key
                /\ task'[c].stage \in {"incr", "seqExpire"},
           UNCHANGED <<accepted, restarts>>
    PROVE  OriginalsInv'
<1>1. \A d \in Connections : task[d].stage \in Redis => task[d].key \in Keys
  BY DEF IntakeType, StateType
<1>2. \A k \in Keys : Known(k)' <=> Known(k)
  BY DEF Known, Messages
<1>3. NumberedKnown'
  BY DEF OriginalsInv, NumberedKnown, Known, Messages
<1>4. ASSUME restarts = 0 PROVE Memories' /\ Shared' /\ Answers'
  <2>1. Memories /\ Shared /\ Answers
    BY <1>4 DEF OriginalsInv
  <2>2. \A k \in Keys : Made(k) => Made(k)'
    BY DEF Made, Fresh
  <2>3. \A k \in Keys : Handled(k) => Handled(k)'
    BY DEF Handled
  <2>4. ASSUME NEW d \in Connections, task'[d].stage = "expire"
        PROVE  task'[d].key \in Keys /\ task'[d] = task[d]
    BY <2>4, <1>1 DEF Redis
  <2>5. QED
    BY <2>1, <2>2, <2>3, <2>4, <1>2, OriginalsKept
<1>5. QED
  BY <1>3, <1>4 DEF OriginalsInv

LEMMA RedisKeepsOriginals ==
    ASSUME IntakeType, OriginalsInv, NEW c \in Connections, RedisStep(c)
    PROVE  OriginalsInv'
<1>1. /\ task \in [Connections -> TaskType] /\ accepted \in Seq(AcceptedType)
      /\ dedup \in [Keys -> Nat] /\ now \in Nat
      /\ \A d \in Connections : task[d].stage \in Redis => task[d].key \in Keys
  BY DEF IntakeType, StateType
<1>2. ASSUME NEW key \in Keys, SaddEffect(key) \/ ExpireEffect(key) \/ UNCHANGED dedup,
             UNCHANGED now
      PROVE  /\ \A k \in Keys : Holds(k)' => Holds(k) \/ k = key
             /\ ~SaddEffect(key) => \A k \in Keys : Holds(k)' => Holds(k)
  BY <1>1, <1>2 DEF SaddEffect, ExpireEffect, Holds
<1>3. CASE SaddFails(c) \/ ExpireFails(c)
  <2>1. /\ task[c].stage \in {"add", "expire"} /\ Unique(c)
        /\ UNCHANGED <<now, local, restarts>>
        /\ SaddEffect(task[c].key) \/ ExpireEffect(task[c].key) \/ UNCHANGED dedup
    BY <1>3 DEF SaddFails, ExpireFails, Fails, Unchecked
  <2>2. \A k \in Keys : Holds(k)' => Holds(k) \/ k = task[c].key
    BY <1>1, <1>2, <2>1 DEF Redis
  <2>3. QED
    BY <2>1, <2>2, EndKeepsOriginals
<1>4. CASE Expire(c)
  <2>1. /\ task[c].stage = "expire" /\ UNCHANGED <<now, local, restarts>>
        /\ ExpireEffect(task[c].key)
        /\ Unique(c) \/ (Duplicate(c) /\ ~task[c].new)
    BY <1>4 DEF Expire, Answered, IsNew
  <2>2. \A k \in Keys : Holds(k)' => Holds(k)
    <3>1. task[c].key \in Keys
      BY <1>1, <2>1 DEF Redis
    <3>2. QED
      BY <1>1, <2>1, <3>1 DEF ExpireEffect, Holds
  <2>3. QED
    BY <2>1, <2>2, EndKeepsOriginals
<1>5. CASE Incr(c)
  <2>1. /\ task[c].stage = "incr" /\ UNCHANGED <<now, local, restarts, dedup, accepted>>
        /\ task' = [task EXCEPT ![c].stage = "seqExpire", ![c].since = now,
                                ![c].seq = Following]
    BY <1>5 DEF Incr, Answered
  <2>2. /\ \A d \in Connections : d # c => task'[d] = task[d]
        /\ task'[c].stage = "seqExpire" /\ task'[c].key = task[c].key
    BY <1>1, <2>1 DEF TaskType
  <2>3. LocalType'
    BY <2>1 DEF OriginalsInv, LocalType
  <2>4. QED
    BY <2>1, <2>2, <2>3, QuietKeepsOriginals DEF InLocal, Holds
<1>6. CASE SeqExpire(c) \/ SeqFails(c)
  <2>1. PICK n \in {NumberOf(c), cached[RouterOf[c]] + 1} : Numbered(c, n)
    BY <1>6 DEF SeqExpire, SeqFails
  <2>2. task[c].stage \in {"incr", "seqExpire"} /\ UNCHANGED <<now, dedup, restarts>>
    BY <1>6 DEF SeqExpire, SeqFails, Fails
  <2>3. /\ task[c].msg \in DOMAIN accepted /\ task[c].key \in Keys
        /\ Known(task[c].key)
    BY <1>1, <2>2 DEF IntakeType, Awaited, OriginalsInv, NumberedKnown, Redis
  <2>4. accepted' = [accepted EXCEPT ![task[c].msg].seq = n]
    BY <2>1 DEF Numbered
  <2>5. /\ DOMAIN accepted' = DOMAIN accepted
        /\ \A i \in DOMAIN accepted : accepted'[i].key = accepted[i].key
    BY <1>1, <2>3, <2>4 DEF AcceptedType
  <2>6. \A k \in Keys : Known(k)' <=> Known(k)
    BY <2>5 DEF Known, Messages
  <2> DEFINE t == [task[c] EXCEPT !.what = "event", !.seq = 0]
  <2>7. t \in TaskType /\ t.key = task[c].key
    BY <1>1 DEF TaskType
  <2>8. \/ Check(c, t)
        \/ task' = [task EXCEPT ![c] = Ready] /\ UNCHANGED local
    BY <2>1 DEF Numbered
  <2> HIDE DEF t
  <2>9. QED
    BY <2>2, <2>3, <2>6, <2>7, <2>8, BeginKeepsOriginals
<1>7. QED
  BY <1>3, <1>4, <1>5, <1>6, SaddKeepsOriginals DEF RedisStep

LEMMA OriginalsStep == IntakeType /\ OriginalsInv /\ [Next]_vars => OriginalsInv'
<1> SUFFICES ASSUME IntakeType, OriginalsInv, [Next]_vars PROVE OriginalsInv'
  OBVIOUS
<1>1. /\ task \in [Connections -> TaskType] /\ dedup \in [Keys -> Nat] /\ now \in Nat
      /\ restarts \in Nat /\ LocalType
  BY DEF IntakeType, StateType, OriginalsInv
<1>2. CASE UNCHANGED vars
  <2>1. LocalType'
    BY <1>1, <1>2 DEF vars, LocalType
  <2>2. QED
    BY <1>2, <2>1, QuietKeepsOriginals DEF vars, InLocal, Holds
<1>3. ASSUME NEW c \in Connections, NEW k \in Keys, Receive(c, k) PROVE OriginalsInv'
  <2> DEFINE t == [Ready EXCEPT !.key = k]
  <2>1. t \in TaskType /\ t.key = k /\ t.what = "message"
    BY DEF Ready, TaskType
  <2>2. /\ task[c].stage = "ready" /\ Check(c, t)
        /\ UNCHANGED <<now, dedup, accepted, restarts>>
    BY <1>3 DEF Receive
  <2> HIDE DEF t
  <2>3. \A j \in Keys : Known(j)' <=> Known(j)
    BY <2>2 DEF Known, Messages
  <2>4. QED
    BY <2>1, <2>2, <2>3, BeginKeepsOriginals
<1>4. ASSUME NEW r \in Routers, Cleanup(r) PROVE OriginalsInv'
  <2>1. /\ local' = [local EXCEPT ![r] = Recent(local[r])]
        /\ UNCHANGED <<now, dedup, task, accepted, restarts>>
    BY <1>4 DEF Cleanup
  <2>2. /\ Recent(local[r]) \in Seq(Entry)
        /\ \A i \in DOMAIN Recent(local[r]) :
             \E j \in DOMAIN local[r] : local[r][j] = Recent(local[r])[i]
    BY <1>1, RecentKeys DEF LocalType
  <2>3. /\ local' \in [Routers -> Seq(Entry)] /\ local'[r] = Recent(local[r])
        /\ \A q \in Routers : q # r => local'[q] = local[q]
    BY <1>1, <2>1, <2>2 DEF LocalType
  <2>4. \A q \in Routers, k \in Keys : InLocal(q, k)' => InLocal(q, k)
    BY <2>2, <2>3 DEF InLocal
  <2>5. LocalType' /\ \A k \in Keys : Holds(k)' => Holds(k)
    BY <2>1, <2>3 DEF LocalType, Holds
  <2>6. QED
    BY <2>1, <2>4, <2>5, QuietKeepsOriginals
<1>5. ASSUME NEW r \in Routers, Restart(r) PROVE OriginalsInv'
  <2>1. /\ restarts' # 0 /\ UNCHANGED accepted
        /\ local' = [local EXCEPT ![r] = <<>>]
        /\ \A c \in Connections : task'[c] = Ready \/ task'[c] = task[c]
    BY <1>1, <1>5 DEF Restart
  <2>2. LocalType'
    BY <1>1, <2>1 DEF LocalType
  <2>3. Ready.stage = "ready"
    BY DEF Ready
  <2>4. NumberedKnown'
    BY <2>1, <2>3 DEF OriginalsInv, NumberedKnown, Known, Messages
  <2>5. QED
    BY <2>1, <2>2, <2>4 DEF OriginalsInv
<1>6. CASE Tick
  <2>1. now' = now + 1 /\ UNCHANGED <<local, dedup, task, accepted, restarts>>
    BY <1>6 DEF Tick
  <2>2. LocalType' /\ \A k \in Keys : Holds(k)' => Holds(k)
    BY <1>1, <2>1 DEF LocalType, Holds
  <2>3. QED
    BY <2>1, <2>2, QuietKeepsOriginals DEF InLocal
<1>7. QED
  BY <1>2, <1>3, <1>4, <1>5, <1>6, RedisKeepsOriginals DEF Next

\* While no router restarts, a message is only taken for the copy of one that
\* was accepted or is being checked, whichever calls to Redis fail, before or
\* after they took effect (MessageDeduplicator.is_duplicate).
THEOREM DuplicatesAreCopiesHolds == Spec => []DuplicatesAreCopies
<1>1. Init => OriginalsInv
  <2> SUFFICES ASSUME Init PROVE OriginalsInv
    OBVIOUS
  <2>1. LocalType
    BY DEF Init, LocalType
  <2>2. NumberedKnown /\ Answers
    BY DEF Init, NumberedKnown, Answers, Ready
  <2>3. Memories /\ Shared
    BY DEF Init, Memories, Shared, InLocal, Holds, Absent
  <2>4. QED
    BY <2>1, <2>2, <2>3 DEF OriginalsInv
<1>2. IntakeType /\ OriginalsInv /\ [Next]_vars => OriginalsInv'
  BY OriginalsStep
<1>3. OriginalsInv => DuplicatesAreCopies
  BY DEF OriginalsInv, Memories, Shared, DuplicatesAreCopies, Known, Handled, Made, Fresh
<1>4. QED
  BY <1>1, <1>2, <1>3, TypeAlways, PTL DEF Spec
=============================================================================
