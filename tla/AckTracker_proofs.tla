------------------------- MODULE AckTracker_proofs -------------------------
(***************************************************************************)
(* What the acknowledgement tracker guarantees for any number of messages, *)
(* any clock, any backoff table and any pattern of blocked channels.       *)
(***************************************************************************)
EXTENDS AckTracker, FiniteSetTheorems, TLAPS

\* The channel chosen for a retry is always a channel of FALLBACK_ORDER, so
\* mark_retry finds it there.
LEMMA RetryChannelType ==
    ASSUME TypeOK, NEW m \in MsgId, NEW B
    PROVE  RetryChannel(m, B) \in Fallback
  BY DEF TypeOK, Entry, RetryChannel, Fallback

\* Every channel has a next channel in FALLBACK_ORDER.
LEMMA NextChannelType ==
    ASSUME NEW c \in Channels
    PROVE  NextChannel[c] \in Fallback
  BY DEF Channels, Fallback, NextChannel

\* Starting to send the next entry of a list leaves the loop well typed.
LEMMA StartSendType ==
    ASSUME TypeOK, NEW B, NEW left \in SUBSET (1..registered), StartSend(left, B)
    PROVE  /\ batch' \subseteq 1..registered
           /\ sending' \in 0..registered
           /\ via' \in Fallback
           /\ resent' \in [MsgId -> Nat]
           /\ resentAt' \in [MsgId -> Nat]
<1>1. CASE left = {}
  BY <1>1 DEF StartSend, TypeOK
<1>2. CASE left # {}
  <2>1. PICK m \in left : /\ batch' = left \ {m}
                          /\ sending' = m
                          /\ via' = RetryChannel(m, B)
                          /\ resent' = [resent EXCEPT ![m] = @ + 1]
                          /\ resentAt' = [resentAt EXCEPT ![m] = now]
    BY <1>2 DEF StartSend
  <2>2. m \in MsgId
    BY ConstantsAssumption DEF TypeOK, MsgId
  <2>3. QED
    BY <2>1, <2>2, RetryChannelType DEF TypeOK
<1>3. QED
  BY <1>1, <1>2

\* The sets of ids of a well-typed state are finite.
LEMMA IdsFinite ==
    ASSUME TypeOK
    PROVE  /\ IsFiniteSet(pending)
           /\ \A S \in SUBSET pending : IsFiniteSet(S) /\ Cardinality(S) \in Nat
<1>1. IsFiniteSet(1..registered)
  BY FS_Interval DEF TypeOK
<1>2. IsFiniteSet(pending)
  BY <1>1, FS_Subset DEF TypeOK
<1>3. QED
  BY <1>2, FS_Subset, FS_CardinalityType

-----------------------------------------------------------------------------
\* What is due keeps being due while the clock only moves forward and the entry
\* is left alone, which is what the list of the retry loop relies on.
LEMMA DueStaysDue ==
    ASSUME TypeOK, now' \in Nat, now' >= now, NEW m \in MsgId,
           entry'[m] = entry[m], ShouldRetry(m, now)
    PROVE  ShouldRetry(m, now)'
<1>1. entry[m].lastRetry \in Nat /\ entry[m].retries \in 0..MAX_RETRIES
  BY DEF TypeOK, Entry
<1>2. Backoff[entry[m].retries] \in Nat
  BY <1>1, ConstantsAssumption
<1>3. QED
  BY <1>1, <1>2 DEF TypeOK, ShouldRetry

\* Counting one more message, ACK or failure keeps the counters well typed.
LEMMA StatsType ==
    ASSUME NEW s \in Stats, NEW n \in Nat
    PROVE  /\ [s EXCEPT !.total  = @ + n] \in Stats
           /\ [s EXCEPT !.acked  = @ + n] \in Stats
           /\ [s EXCEPT !.failed = @ + n] \in Stats
  BY DEF Stats

LEMMA InitInv == Init => TypeOK /\ RetryInv
<1> SUFFICES ASSUME Init PROVE TypeOK /\ RetryInv
  OBVIOUS
<1>1. TypeOK
  BY ConstantsAssumption DEF Init, TypeOK, Entry, Stats, NoStats, Channels,
     Fallback, MsgId
<1>2. RetryInv
  BY ConstantsAssumption DEF Init, RetryInv, MsgId
<1>3. QED
  BY <1>1, <1>2

LEMMA RegisterSendInv ==
    ASSUME TypeOK, RetryInv, NEW e \in Events, NEW ch \in SendChannels,
           RegisterSend(e, ch)
    PROVE  TypeOK' /\ RetryInv'
<1> USE ConstantsAssumption DEF MsgId
<1> DEFINE m == registered + 1
<1>1. /\ m \in MsgId /\ registered' = m /\ pending' = pending \cup {m}
      /\ entry' = [entry EXCEPT ![m] =
                     [event |-> e, channel |-> ch, next |-> NextChannel[ch],
                      sentAt |-> now, retries |-> 0, lastRetry |-> 0]]
      /\ stats' = [stats EXCEPT !.total = @ + 1]
      /\ UNCHANGED <<now, delivered, failed, saved, batch, sending, via, resent,
                     resentAt, restarts>>
  BY DEF RegisterSend, TypeOK, loopVars
<1>2. TypeOK'
  <2>1. ch \in Channels /\ NextChannel[ch] \in Fallback
    BY NextChannelType
  <2>2. entry' \in [MsgId -> Entry]
    BY <1>1, <2>1 DEF TypeOK, Entry
  <2>3. stats' \in Stats
    BY <1>1, StatsType DEF TypeOK
  <2>4. registered' \in 0..MaxMsgs /\ 1..registered' = (1..registered) \cup {m}
    BY <1>1, SMTT(30) DEF TypeOK
  <2>5. QED
    <3>1. pending' \subseteq 1..registered'
      BY <1>1, <2>4 DEF TypeOK
    <3>2. /\ delivered' \subseteq 1..registered' /\ failed' \subseteq 1..registered'
          /\ batch' \subseteq 1..registered' /\ sending' \in 0..registered'
      BY <1>1, <2>4, SMTT(30) DEF TypeOK
    <3>3. QED
      BY <1>1, <2>2, <2>3, <2>4, <3>1, <3>2 DEF TypeOK
<1>3. RetryInv'
  <2>1. m \notin batch \cup {sending}
    BY DEF TypeOK
  <2>2. ASSUME NEW k \in MsgId, k # m
        PROVE  entry'[k] = entry[k]
    BY <1>1, <2>2 DEF TypeOK
  <2>3. /\ entry'[m].retries = 0 /\ entry'[m].lastRetry = 0
        /\ resent[m] = 0 /\ resentAt[m] = 0
    BY <1>1, SMTT(30) DEF TypeOK, RetryInv
  <2>4. ASSUME NEW k \in batch PROVE ShouldRetry(k, now)'
    <3>1. k \in MsgId /\ entry'[k] = entry[k]
      BY <2>1, <2>2 DEF TypeOK
    <3>2. ShouldRetry(k, now) /\ now' \in Nat /\ now' >= now
      BY <1>1, <3>1 DEF TypeOK, RetryInv
    <3>3. QED
      BY <3>1, <3>2, DueStaysDue
  <2>5. \A k \in MsgId : k > registered' => k # m /\ k > registered
    <3>1. registered \in Int /\ registered' = registered + 1
      BY <1>1 DEF TypeOK
    <3>2. QED
      BY <3>1
  <2>6. QED
    BY <1>1, <2>1, <2>2, <2>3, <2>4, <2>5 DEF RetryInv
<1>4. QED
  BY <1>2, <1>3

LEMMA ReceiveAckInv ==
    ASSUME TypeOK, RetryInv, NEW e \in Events, NEW ok \in BOOLEAN,
           ReceiveAck(e, ok)
    PROVE  TypeOK' /\ RetryInv'
<1>1. PICK m \in pending :
        /\ pending' = pending \ {m}
        /\ IF ok
           THEN /\ delivered' = delivered \cup {m}
                /\ stats' = [stats EXCEPT !.acked = @ + 1]
                /\ failed' = failed
           ELSE /\ failed' = failed \cup {m}
                /\ stats' = [stats EXCEPT !.failed = @ + 1]
                /\ delivered' = delivered
        /\ saved' = stats'
        /\ UNCHANGED <<now, registered, entry, batch, sending, via, resent,
                       resentAt, restarts>>
  BY DEF ReceiveAck, loopVars
<1>2. TypeOK'
  <2>1. stats' \in Stats
    BY <1>1 DEF TypeOK, Stats
  <2>2. QED
    BY <1>1, <2>1 DEF TypeOK
<1>3. RetryInv'
  BY <1>1 DEF RetryInv, ShouldRetry
<1>4. QED
  BY <1>2, <1>3

LEMMA GetPendingRetriesInv ==
    ASSUME TypeOK, RetryInv, NEW B \in BlockedSets, GetPendingRetries(B)
    PROVE  TypeOK' /\ RetryInv'
<1> DEFINE out == ExpiredAt(now)
           due == {m \in pending \ out : ShouldRetry(m, now)}
<1>1. /\ sending = 0 /\ now' \in Nat /\ now' >= now
      /\ failed' = failed \cup out
      /\ stats' = [stats EXCEPT !.failed = @ + Cardinality(out)]
      /\ StartSend(due, B)
      /\ pending' \subseteq pending
      /\ UNCHANGED <<registered, delivered, entry, saved, restarts>>
  BY DEF GetPendingRetries, TypeOK
<1>2. due \in SUBSET (1..registered) /\ out \in SUBSET pending
  BY DEF TypeOK, ExpiredAt
<1>3. TypeOK'
  <2>1. Cardinality(out) \in Nat
    BY <1>2, IdsFinite
  <2>2. stats' \in Stats
    BY <1>1, <2>1 DEF TypeOK, Stats
  <2>3. QED
    BY <1>1, <1>2, <2>2, StartSendType DEF TypeOK
<1>4. RetryInv'
  <2>1. ASSUME NEW m \in due
        PROVE  /\ m \in MsgId /\ m \in pending /\ m \in 1..registered /\ m # 0
               /\ resent[m] = entry[m].retries
               /\ resentAt[m] <= entry[m].lastRetry
               /\ entry[m].retries < MAX_RETRIES
               /\ entry[m].retries \in Nat
               /\ ShouldRetry(m, now)'
    <3>1. m \in MsgId /\ m \in pending /\ m \in 1..registered /\ m # 0
      BY ConstantsAssumption DEF TypeOK, MsgId
    <3>2. resent[m] = entry[m].retries /\ resentAt[m] <= entry[m].lastRetry
      BY <1>1, <3>1 DEF RetryInv
    <3>3. ShouldRetry(m, now)
      OBVIOUS
    <3>4. ShouldRetry(m, now)'
      BY <1>1, <3>1, <3>3, DueStaysDue
    <3>5. entry[m].retries \in Nat
      BY <3>1, ConstantsAssumption DEF TypeOK, Entry
    <3>6. QED
      BY <3>1, <3>2, <3>3, <3>4, <3>5 DEF ShouldRetry
  <2>2. CASE due = {}
    <3>1. batch' = {} /\ sending' = 0 /\ UNCHANGED <<via, resent, resentAt>>
      BY <1>1, <2>2 DEF StartSend
    <3>2. 0 \notin MsgId
      BY ConstantsAssumption DEF MsgId
    <3>3. QED
      BY <1>1, <3>1, <3>2 DEF RetryInv
  <2>3. CASE due # {}
    <3>1. PICK m \in due : /\ batch' = due \ {m}
                           /\ sending' = m
                           /\ resent' = [resent EXCEPT ![m] = @ + 1]
                           /\ resentAt' = [resentAt EXCEPT ![m] = now]
      BY <1>1, <2>3 DEF StartSend
    <3>2. /\ resent'[m] = entry[m].retries + 1
          /\ resent'[m] <= MAX_RETRIES
          /\ resentAt'[m] <= now'
          /\ \A k \in MsgId : k # m => /\ resent'[k] = resent[k]
                                     /\ resentAt'[k] = resentAt[k]
      BY <1>1, <2>1, <3>1, ConstantsAssumption DEF TypeOK
    <3>3. ASSUME NEW k \in batch'
          PROVE  ShouldRetry(k, now)'
      BY <2>1, <3>1
    <3>4. ASSUME NEW k \in MsgId
          PROVE  /\ k > registered => resent'[k] = 0 /\ resentAt'[k] = 0
                 /\ k \in (pending' \cup batch') \ {m} =>
                      /\ resent'[k] = entry[k].retries
                      /\ resentAt'[k] <= entry[k].lastRetry
                 /\ resent'[k] <= MAX_RETRIES
      <4>1. m <= registered
        BY <2>1 DEF TypeOK
      <4>2. CASE k = m
        <5>1. ~(k > registered)
          BY <4>1, <4>2 DEF TypeOK
        <5>2. QED
          BY <3>2, <4>2, <5>1
      <4>3. CASE k # m
        <5>1. k > registered => resent[k] = 0 /\ resentAt[k] = 0
          BY DEF RetryInv
        <5>2. k \in pending => /\ resent[k] = entry[k].retries
                              /\ resentAt[k] <= entry[k].lastRetry
          BY <1>1, <2>1 DEF RetryInv, MsgId
        <5>3. k \in batch' => k \in pending
          BY <3>1
        <5>4. resent[k] <= MAX_RETRIES
          BY DEF RetryInv
        <5>5. QED
          BY <1>1, <3>2, <4>3, <5>1, <5>2, <5>3, <5>4
      <4>4. QED
        BY <4>2, <4>3
    <3>5. QED
      BY <1>1, <2>1, <3>1, <3>2, <3>3, <3>4 DEF RetryInv
  <2>4. QED
    BY <2>2, <2>3
<1>5. QED
  BY <1>3, <1>4

LEMMA MarkRetryInv ==
    ASSUME TypeOK, RetryInv, NEW B \in BlockedSets, MarkRetry(B)
    PROVE  TypeOK' /\ RetryInv'
<1> DEFINE s == sending
<1>1. /\ s \in MsgId /\ s # 0
      /\ StartSend(batch, B)
      /\ batch \in SUBSET (1..registered)
      /\ UNCHANGED <<now, registered, pending, delivered, failed, stats, saved,
                     restarts>>
  BY ConstantsAssumption DEF MarkRetry, TypeOK, sets, MsgId
<1>2. /\ entry[s].retries < MAX_RETRIES
      /\ entry[s].retries \in 0..MAX_RETRIES
      /\ resent[s] = entry[s].retries + 1
      /\ resentAt[s] <= now
  BY <1>1 DEF RetryInv, TypeOK, Entry
<1> DEFINE new == Retried(entry[s])
<1>3. entry' = IF s \in pending THEN [entry EXCEPT ![s] = new] ELSE entry
  BY DEF MarkRetry
<1>4. new \in Entry /\ new.retries = entry[s].retries + 1 /\ new.lastRetry = now
  <2>1. NextChannel[via] \in Fallback /\ via \in Channels
    BY NextChannelType DEF TypeOK, Channels
  <2>2. entry[s].retries + 1 \in 0..MAX_RETRIES
    BY <1>2, ConstantsAssumption
  <2>3. entry[s] \in Entry /\ now \in Nat
    BY <1>1 DEF TypeOK
  <2>4. QED
    BY <2>1, <2>2, <2>3 DEF Entry, Retried
<1>5. TypeOK'
  <2>1. entry' \in [MsgId -> Entry]
    BY <1>1, <1>3, <1>4 DEF TypeOK
  <2>2. QED
    BY <1>1, <2>1, StartSendType DEF TypeOK
<1> HIDE DEF new
<1>6. RetryInv'
  <2>1. \A k \in MsgId : k # s => entry'[k] = entry[k]
    BY <1>1, <1>3 DEF TypeOK
  <2>2. s \in pending => /\ entry'[s].retries = entry[s].retries + 1
                         /\ entry'[s].lastRetry = now
    BY <1>1, <1>3, <1>4 DEF TypeOK
  <2>3. s \notin batch
    BY DEF RetryInv
  <2>4. ASSUME NEW k \in batch
        PROVE  /\ k \in MsgId /\ k # s /\ k \in 1..registered /\ k # 0
               /\ entry'[k] = entry[k]
               /\ resent[k] = entry[k].retries
               /\ resentAt[k] <= entry[k].lastRetry
               /\ entry[k].retries < MAX_RETRIES
               /\ entry[k].retries \in Nat
               /\ ShouldRetry(k, now)'
    <3>1. k \in MsgId /\ k # s /\ k \in 1..registered /\ k # 0
      BY <2>3, ConstantsAssumption DEF TypeOK, MsgId
    <3>2. entry'[k] = entry[k]
      BY <2>1, <3>1
    <3>3. /\ resent[k] = entry[k].retries /\ resentAt[k] <= entry[k].lastRetry
          /\ ShouldRetry(k, now)
      BY <3>1 DEF RetryInv
    <3>4. ShouldRetry(k, now)'
      <4>1. now' \in Nat /\ now' >= now
        BY <1>1 DEF TypeOK
      <4>2. QED
        BY <3>1, <3>2, <3>3, <4>1, DueStaysDue
    <3>5. entry[k].retries \in Nat
      BY <3>1, ConstantsAssumption DEF TypeOK, Entry
    <3>6. QED
      BY <3>1, <3>2, <3>3, <3>4, <3>5 DEF ShouldRetry
  <2>5. CASE batch = {}
    <3>1. batch' = {} /\ sending' = 0 /\ UNCHANGED <<resent, resentAt>>
      BY <1>1, <2>5 DEF StartSend
    <3>2. 0 \notin MsgId
      BY ConstantsAssumption DEF MsgId
    <3>3. ASSUME NEW k \in MsgId, k \in pending
          PROVE  resent[k] = entry'[k].retries /\ resentAt[k] <= entry'[k].lastRetry
      <4>1. CASE k = s
        BY <1>2, <2>2, <3>3, <4>1
      <4>2. CASE k # s
        BY <2>1, <3>3, <4>2 DEF RetryInv
      <4>3. QED
        BY <4>1, <4>2
    <3>4. QED
      BY <1>1, <3>1, <3>2, <3>3 DEF RetryInv
  <2>6. CASE batch # {}
    <3>1. PICK m \in batch : /\ batch' = batch \ {m}
                             /\ sending' = m
                             /\ resent' = [resent EXCEPT ![m] = @ + 1]
                             /\ resentAt' = [resentAt EXCEPT ![m] = now]
      BY <1>1, <2>6 DEF StartSend
    <3>2. /\ resent'[m] = entry'[m].retries + 1
          /\ resent'[m] <= MAX_RETRIES
          /\ resentAt'[m] <= now'
          /\ \A k \in MsgId : k # m => /\ resent'[k] = resent[k]
                                     /\ resentAt'[k] = resentAt[k]
      BY <1>1, <2>4, <3>1, ConstantsAssumption DEF TypeOK
    <3>3. ASSUME NEW k \in MsgId
          PROVE  /\ k > registered => resent'[k] = 0 /\ resentAt'[k] = 0
                 /\ k \in (pending \cup batch') \ {m} =>
                      /\ resent'[k] = entry'[k].retries
                      /\ resentAt'[k] <= entry'[k].lastRetry
                 /\ resent'[k] <= MAX_RETRIES
      <4>1. m <= registered
        BY <2>4 DEF TypeOK
      <4>2. CASE k = m
        BY <2>4, <3>2, <4>1, <4>2 DEF TypeOK
      <4>3. CASE k = s /\ k # m
        BY <1>1, <1>2, <2>2, <2>3, <3>1, <3>2, <4>3 DEF RetryInv
      <4>4. CASE k # s /\ k # m
        BY <1>1, <2>1, <3>1, <3>2, <4>4 DEF RetryInv
      <4>5. QED
        BY <4>2, <4>3, <4>4
    <3>4. QED
      BY <1>1, <2>4, <3>1, <3>2, <3>3 DEF RetryInv
  <2>7. QED
    BY <2>5, <2>6
<1>7. QED
  BY <1>5, <1>6

LEMMA NextInv == TypeOK /\ RetryInv /\ [Next]_vars => TypeOK' /\ RetryInv'
<1> SUFFICES ASSUME TypeOK, RetryInv, [Next]_vars PROVE TypeOK' /\ RetryInv'
  OBVIOUS
<1>1. CASE Cleanup
  <2>1. Cardinality(ExpiredAt(now)) \in Nat
    BY IdsFinite DEF ExpiredAt
  <2>2. stats' \in Stats
    BY <1>1, <2>1 DEF Cleanup, TypeOK, Stats
  <2>3. TypeOK'
    BY <1>1, <2>2 DEF Cleanup, TypeOK, ExpiredAt, loopVars
  <2>4. RetryInv'
    BY <1>1 DEF Cleanup, RetryInv, ShouldRetry, loopVars
  <2>5. QED
    BY <2>3, <2>4
<1>2. CASE Restart
  <2>1. TypeOK'
    BY <1>2, ConstantsAssumption DEF Restart, TypeOK
  <2>2. RetryInv'
    BY <1>2, ConstantsAssumption DEF Restart, RetryInv, MsgId
  <2>3. QED
    BY <2>1, <2>2
<1>3. CASE Tick
  <2>1. TypeOK' /\ now' >= now
    BY <1>3 DEF Tick, TypeOK, sets, loopVars
  <2>2. ASSUME NEW m \in batch PROVE ShouldRetry(m, now)'
    <3>1. m \in MsgId /\ entry'[m] = entry[m]
      BY <1>3, ConstantsAssumption DEF Tick, TypeOK, MsgId
    <3>2. QED
      BY <2>1, <3>1, DueStaysDue DEF RetryInv, TypeOK
  <2>3. \A m \in MsgId : resentAt[m] <= now => resentAt[m] <= now'
    BY <1>3 DEF Tick, TypeOK
  <2>4. QED
    BY <1>3, <2>1, <2>2, <2>3 DEF Tick, RetryInv, sets, loopVars
<1>4. CASE UNCHANGED vars
  BY <1>4 DEF TypeOK, RetryInv, ShouldRetry, vars
<1>5. QED
  BY <1>1, <1>2, <1>3, <1>4, RegisterSendInv, ReceiveAckInv,
     GetPendingRetriesInv, MarkRetryInv DEF Next

\* The state of the tracker and of the retry loop is well typed: retry counts
\* stay within the backoff table and every verdict is about a registered send.
THEOREM TypeCorrect == Spec => []TypeOK
<1>1. TypeOK /\ RetryInv => TypeOK
  OBVIOUS
<1>2. QED
  BY InitInv, NextInv, <1>1, PTL DEF Spec

\* No message is put on the wire again more than MAX_RETRIES times, whatever is
\* acknowledged, expired or re-sent while the retry loop awaits a send.
THEOREM RetriesAreBounded == Spec => []RetriesBounded
<1>1. TypeOK /\ RetryInv => RetriesBounded
  BY DEF RetryInv, RetriesBounded
<1>2. QED
  BY InitInv, NextInv, <1>1, PTL DEF Spec

\* Two retries of one message are separated by its backoff: the list of the loop
\* may be old, but what it still holds has stayed due since it was read.
THEOREM BackoffIsRespected == Spec => BackoffRespected
<1>1. TypeOK /\ RetryInv /\ [Next]_vars =>
        [\A m \in MsgId : resent[m] > 0 /\ resent'[m] > resent[m] =>
           resentAt'[m] - resentAt[m] > Backoff[resent[m]]]_vars
  <2> SUFFICES ASSUME TypeOK, RetryInv, Next, NEW m \in MsgId,
                      resent'[m] > resent[m]
               PROVE  resentAt'[m] - resentAt[m] > Backoff[resent[m]]
    BY DEF vars
  <2>1. resent' # resent
    BY DEF TypeOK
  <2>2. ASSUME NEW left \in SUBSET MsgId, NEW B, StartSend(left, B)
        PROVE  m \in left /\ resentAt'[m] = now
    <3>1. left # {}
      BY <2>1, <2>2 DEF StartSend
    <3>2. PICK k \in left : /\ resent' = [resent EXCEPT ![k] = @ + 1]
                            /\ resentAt' = [resentAt EXCEPT ![k] = now]
      BY <2>2, <3>1 DEF StartSend
    <3>3. k # m => resent'[m] = resent[m]
      BY <3>2 DEF TypeOK
    <3>4. QED
      BY <3>2, <3>3 DEF TypeOK
  <2>3. pending \in SUBSET MsgId /\ batch \in SUBSET MsgId
    BY ConstantsAssumption DEF TypeOK, MsgId
  <2>4. ASSUME ShouldRetry(m, now), resentAt'[m] = now,
               m \in pending \cup batch, m # sending
        PROVE  resentAt'[m] - resentAt[m] > Backoff[resent[m]]
    <3>1. resent[m] = entry[m].retries /\ resentAt[m] <= entry[m].lastRetry
      BY <2>4 DEF RetryInv
    <3>2. entry[m].lastRetry \in Nat /\ entry[m].retries \in 0..MAX_RETRIES
      BY DEF TypeOK, Entry
    <3>3. Backoff[entry[m].retries] \in Nat
      BY <3>2, ConstantsAssumption
    <3>4. QED
      BY <2>4, <3>1, <3>2, <3>3 DEF ShouldRetry, TypeOK
  <2>5. ASSUME NEW B \in BlockedSets, GetPendingRetries(B)
        PROVE  resentAt'[m] - resentAt[m] > Backoff[resent[m]]
    <3> DEFINE due == {k \in pending \ ExpiredAt(now) : ShouldRetry(k, now)}
    <3>1. StartSend(due, B) /\ sending = 0
      BY <2>5 DEF GetPendingRetries
    <3>2. m \in due /\ resentAt'[m] = now
      BY <2>2, <2>3, <3>1
    <3>3. m # 0
      BY ConstantsAssumption DEF MsgId
    <3>4. QED
      BY <2>4, <3>1, <3>2, <3>3
  <2>6. ASSUME NEW B \in BlockedSets, MarkRetry(B)
        PROVE  resentAt'[m] - resentAt[m] > Backoff[resent[m]]
    <3>1. StartSend(batch, B)
      BY <2>6 DEF MarkRetry
    <3>2. m \in batch /\ resentAt'[m] = now
      BY <2>2, <2>3, <3>1
    <3>3. m # sending /\ ShouldRetry(m, now)
      BY <3>2 DEF RetryInv
    <3>4. QED
      BY <2>4, <3>2, <3>3
  <2>7. QED
    BY <2>1, <2>5, <2>6 DEF Next, RegisterSend, ReceiveAck, Cleanup, Restart,
       Tick, loopVars
<1>2. QED
  BY InitInv, NextInv, <1>1, PTL DEF Spec, BackoffRespected

-----------------------------------------------------------------------------
\* The first pass of get_pending_retries fails nothing that its second pass,
\* which reads the clock later, does not delete.
LEMMA ExpiredStaysExpired ==
    ASSUME TypeOK, NEW later \in now..(now + 1)
    PROVE  ExpiredAt(now) \subseteq ExpiredAt(later)
<1> SUFFICES ASSUME NEW m \in ExpiredAt(now) PROVE m \in ExpiredAt(later)
  OBVIOUS
<1>1. m \in pending /\ IsExpired(m, now) /\ m \in MsgId
  BY ConstantsAssumption DEF ExpiredAt, TypeOK, MsgId
<1>2. entry[m].sentAt \in Nat /\ now \in Nat
  BY <1>1 DEF TypeOK, Entry
<1>3. QED
  BY <1>1, <1>2, ConstantsAssumption DEF IsExpired, ExpiredAt

\* A set of pending ids that leaves, in favour of a count that grows by the size
\* of a part of it, leaves the sum no larger.
LEMMA RemovalCount ==
    ASSUME TypeOK, NEW A \in SUBSET pending, NEW C \in SUBSET A
    PROVE  Cardinality(pending \ A) + Cardinality(C) <= Cardinality(pending)
<1>1. /\ IsFiniteSet(pending) /\ IsFiniteSet(A) /\ IsFiniteSet(C)
      /\ Cardinality(pending) \in Nat /\ Cardinality(A) \in Nat
      /\ Cardinality(C) \in Nat
  BY IdsFinite, FS_CardinalityType
<1>2. Cardinality(C) <= Cardinality(A)
  BY <1>1, FS_Subset
<1>3. Cardinality(pending \ A) = Cardinality(pending) - Cardinality(A)
  <2>1. A = A \cap pending
    OBVIOUS
  <2>2. Cardinality(pending \ A) = Cardinality(pending) - Cardinality(pending \cap A)
    BY <1>1, FS_Difference
  <2>3. QED
    BY <2>1, <2>2
<1>4. QED
  BY <1>1, <1>2, <1>3

\* The counters never report more messages than were sent, in the process and in
\* the file it restarts from.
THEOREM AccountingHolds == Spec => []Accounting
<1>1. Init => Accounting
  BY FS_EmptySet DEF Init, Accounting, NoStats
<1>2. TypeOK /\ RetryInv /\ Accounting /\ [Next]_vars => Accounting'
  <2> SUFFICES ASSUME TypeOK, Accounting, [Next]_vars PROVE Accounting'
    OBVIOUS
  <2>1. /\ Cardinality(pending) \in Nat /\ IsFiniteSet(pending)
        /\ stats \in Stats /\ saved \in Stats
    BY IdsFinite, FS_CardinalityType DEF TypeOK
  <2>2. ASSUME NEW A \in SUBSET pending, NEW C \in SUBSET A,
               pending' = pending \ A,
               stats' = [stats EXCEPT !.failed = @ + Cardinality(C)],
               saved' \in {saved, stats'}
        PROVE  Accounting'
    <3>1. Cardinality(pending \ A) + Cardinality(C) <= Cardinality(pending)
      BY RemovalCount
    <3>2. Cardinality(C) \in Nat /\ Cardinality(pending \ A) \in Nat
      BY IdsFinite
    <3>3. /\ stats'.failed = stats.failed + Cardinality(C)
          /\ stats'.acked = stats.acked /\ stats'.total = stats.total
      BY <2>1, <2>2 DEF Stats
    <3>4. Cardinality(pending') + stats'.acked + stats'.failed <= stats'.total
      BY <2>1, <2>2, <3>1, <3>2, <3>3 DEF Accounting, Stats
    <3>5. stats'.acked + stats'.failed <= stats'.total
      BY <2>1, <2>2, <3>2, <3>3, <3>4 DEF Stats
    <3>6. QED
      BY <2>2, <3>4, <3>5 DEF Accounting
  <2>3. ASSUME NEW e \in Events, NEW ch \in SendChannels, RegisterSend(e, ch)
        PROVE  Accounting'
    <3>1. pending' = pending \cup {registered + 1} /\ saved' = saved
      BY <2>3 DEF RegisterSend
    <3>2. registered + 1 \notin pending
      BY DEF TypeOK
    <3>3. Cardinality(pending') = Cardinality(pending) + 1
      BY <2>1, <3>1, <3>2, FS_AddElement
    <3>4. /\ stats'.total = stats.total + 1
          /\ stats'.acked = stats.acked /\ stats'.failed = stats.failed
      BY <2>1, <2>3 DEF RegisterSend, Stats
    <3>5. QED
      BY <2>1, <3>1, <3>3, <3>4 DEF Accounting, Stats
  <2>4. ASSUME NEW e \in Events, NEW ok \in BOOLEAN, ReceiveAck(e, ok)
        PROVE  Accounting'
    <3>1. PICK m \in pending :
            /\ pending' = pending \ {m} /\ saved' = stats'
            /\ stats' = IF ok THEN [stats EXCEPT !.acked = @ + 1]
                              ELSE [stats EXCEPT !.failed = @ + 1]
      BY <2>4 DEF ReceiveAck
    <3>2. Cardinality(pending') = Cardinality(pending) - 1
      BY <2>1, <3>1, FS_RemoveElement
    <3>3. Cardinality(pending') \in Nat
      BY <2>1, <3>1, IdsFinite
    <3>4. /\ stats'.acked + stats'.failed = stats.acked + stats.failed + 1
          /\ stats'.total = stats.total
          /\ stats'.acked \in Nat /\ stats'.failed \in Nat
      BY <2>1, <3>1 DEF Stats
    <3>5. QED
      BY <2>1, <3>1, <3>2, <3>3, <3>4 DEF Accounting, Stats
  <2>5. ASSUME NEW B \in BlockedSets, GetPendingRetries(B)
        PROVE  Accounting'
    <3>1. PICK later \in now..(now + 1) : pending' = pending \ ExpiredAt(later)
      BY <2>5 DEF GetPendingRetries
    <3>2. /\ saved' = saved
          /\ stats' = [stats EXCEPT !.failed = @ + Cardinality(ExpiredAt(now))]
      BY <2>5 DEF GetPendingRetries
    <3>3. ExpiredAt(now) \subseteq ExpiredAt(later)
      BY ExpiredStaysExpired
    <3>4. ExpiredAt(later) \in SUBSET pending
      BY DEF ExpiredAt
    <3>5. QED
      BY <2>2, <3>1, <3>2, <3>3, <3>4
  <2>6. CASE Cleanup
    <3>1. ExpiredAt(now) \in SUBSET pending
      BY DEF ExpiredAt
    <3>2. QED
      BY <2>2, <2>6, <3>1 DEF Cleanup
  <2>7. CASE Restart
    BY <2>1, <2>7, FS_EmptySet DEF Restart, Accounting, Stats
  <2>8. ASSUME UNCHANGED <<pending, stats, saved>>
        PROVE  Accounting'
    BY <2>8 DEF Accounting
  <2>9. QED
    BY <2>3, <2>4, <2>5, <2>6, <2>7, <2>8 DEF Next, MarkRetry, Tick, sets, vars
<1>3. QED
  BY InitInv, NextInv, <1>1, <1>2, PTL DEF Spec

\* A message never has two verdicts: an ACK and an expiry of the same message
\* exclude each other, and an id with a verdict is never pending again.
THEOREM OneVerdictHolds == Spec => []OneVerdict
<1>1. Init => OneVerdict
  BY DEF Init, OneVerdict
<1>2. TypeOK /\ RetryInv /\ OneVerdict /\ [Next]_vars => OneVerdict'
  <2> SUFFICES ASSUME TypeOK, OneVerdict, [Next]_vars PROVE OneVerdict'
    OBVIOUS
  <2>1. ASSUME NEW e \in Events, NEW ch \in SendChannels, RegisterSend(e, ch)
        PROVE  OneVerdict'
    BY <2>1 DEF RegisterSend, OneVerdict, TypeOK
  <2>2. ASSUME NEW e \in Events, NEW ok \in BOOLEAN, ReceiveAck(e, ok)
        PROVE  OneVerdict'
    BY <2>2 DEF ReceiveAck, OneVerdict
  <2>3. ASSUME NEW B \in BlockedSets, GetPendingRetries(B)
        PROVE  OneVerdict'
    <3>1. PICK later \in now..(now + 1) : pending' = pending \ ExpiredAt(later)
      BY <2>3 DEF GetPendingRetries
    <3>2. failed' = failed \cup ExpiredAt(now) /\ delivered' = delivered
      BY <2>3 DEF GetPendingRetries
    <3>3. ExpiredAt(now) \subseteq ExpiredAt(later) /\ ExpiredAt(now) \subseteq pending
      BY ExpiredStaysExpired DEF ExpiredAt
    <3>4. QED
      BY <3>1, <3>2, <3>3 DEF OneVerdict
  <2>4. CASE Cleanup
    BY <2>4 DEF Cleanup, OneVerdict, ExpiredAt
  <2>5. CASE Restart
    BY <2>5 DEF Restart, OneVerdict
  <2>6. ASSUME UNCHANGED sets
        PROVE  OneVerdict'
    BY <2>6 DEF sets, OneVerdict
  <2>7. QED
    BY <2>1, <2>2, <2>3, <2>4, <2>5, <2>6 DEF Next, MarkRetry, Tick, sets, vars
<1>3. QED
  BY InitInv, NextInv, <1>1, <1>2, PTL DEF Spec
=============================================================================
