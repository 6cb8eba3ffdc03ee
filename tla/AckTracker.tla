----------------------------- MODULE AckTracker -----------------------------
(***************************************************************************)
(* End-to-end delivery confirmation: ack_tracker.py and the two places of  *)
(* smart_router.py that drive it (route_message registers a send, the      *)
(* background ack_retry_loop re-sends what was not acknowledged).          *)
(*                                                                         *)
(* Everything runs on one asyncio event loop, so a synchronous method of   *)
(* the tracker is one step.  The only await between two of its steps is    *)
(* the one inside ack_retry_loop, while a RETRY message is being sent: the *)
(* loop then works on a list it read before the await.                     *)
(***************************************************************************)
EXTENDS Integers, FiniteSets

CONSTANTS
    MaxMsgs,        \* bound: number of messages registered for an ACK
    Events,         \* original event ids; two sends may carry the same one
    SendChannels,   \* channels route_message may have delivered through
    BlockedSets,    \* sets of channels the circuit breaker may be blocking
    MAX_RETRIES,    \* ack_tracker.MAX_RETRIES
    Backoff,        \* ack_tracker.RETRY_BACKOFF, indexed by retries made
    ACK_TIMEOUT,    \* ack_tracker.ACK_TIMEOUT
    ACK_MAX_AGE,    \* ack_tracker.ACK_MAX_AGE
    Epoch,          \* the clock when the process first starts
    MaxSendTime,    \* bound: no message is registered after this time
    MaxTime,        \* bound: the clock stops here
    MaxRestarts     \* bound: number of crashes

MsgId == 1..MaxMsgs
Fallback == {"direct", "mesh", "gossip", "nostr"}
Channels == Fallback \cup {"other"}

ASSUME ConstantsAssumption ==
    /\ MaxMsgs \in Nat \ {0}
    /\ SendChannels \subseteq Channels
    /\ BlockedSets \subseteq SUBSET Fallback
    /\ MAX_RETRIES \in Nat
    /\ Backoff \in [0..MAX_RETRIES -> Nat]
    /\ ACK_TIMEOUT \in Nat /\ ACK_MAX_AGE \in Nat
    /\ Epoch \in Nat /\ MaxSendTime \in Nat /\ MaxTime \in Nat
    /\ MaxRestarts \in Nat
    \* time.time() - 0 exceeds every backoff: an entry never retried is due
    /\ \A r \in 0..MAX_RETRIES : Epoch > Backoff[r]

VARIABLES
    now,         \* time.time()
    registered,  \* how many ids were handed out; ids grow with time
    pending,     \* keys of ACKTracker._pending
    delivered,   \* keys of ACKTracker._delivered
    failed,      \* keys of ACKTracker._failed
    entry,       \* the PendingACK object of each id handed out
    stats,       \* total_sent, acked, failed of ACKTracker.stats
    saved,       \* the stats in STATE_FILE
    batch,       \* ack_retry_loop: entries of its list not yet sent
    sending,     \* ack_retry_loop: the id whose RETRY is being sent, 0 if none
    via,         \* ack_retry_loop: its new_channel
    resent,      \* history: RETRY messages put on the wire, per id
    resentAt,    \* history: when the last of them was, 0 if none
    restarts     \* number of crashes so far

vars == <<now, registered, pending, delivered, failed, entry, stats, saved,
          batch, sending, via, resent, resentAt, restarts>>

loopVars == <<batch, sending, via, resent, resentAt>>
sets     == <<pending, delivered, failed>>

Entry == [event: Events, channel: Channels, next: Fallback, sentAt: Nat,
          retries: 0..MAX_RETRIES, lastRetry: Nat]
Stats == [total: Nat, acked: Nat, failed: Nat]
NoStats == [total |-> 0, acked |-> 0, failed |-> 0]

\* The channel after c in FALLBACK_ORDER, "gossip" for one that is not in it.
NextChannel == [direct |-> "mesh", mesh |-> "gossip", gossip |-> "nostr",
                nostr |-> "direct", other |-> "gossip"]

IsExpired(m, t) == t - entry[m].sentAt > ACK_MAX_AGE

ShouldRetry(m, t) ==
    /\ entry[m].retries < MAX_RETRIES
    /\ t - entry[m].lastRetry > Backoff[entry[m].retries]

ExpiredAt(t) == {m \in pending : IsExpired(m, t)}

\* The channel of the next RETRY of m while the circuit breaker blocks B.
RetryChannel(m, B) ==
    IF entry[m].next \notin B THEN entry[m].next
    ELSE IF "mesh"   \notin B THEN "mesh"
    ELSE IF "gossip" \notin B THEN "gossip"
    ELSE IF "nostr"  \notin B THEN "nostr"
    ELSE IF "direct" \notin B THEN "direct" ELSE "mesh"

Init ==
    /\ now = Epoch
    /\ registered = 0
    /\ pending = {} /\ delivered = {} /\ failed = {}
    /\ \E e \in Events :
         entry = [m \in MsgId |->
                    [event |-> e, channel |-> "mesh", next |-> "gossip",
                     sentAt |-> Epoch, retries |-> 0, lastRetry |-> 0]]
    /\ stats = NoStats
    /\ saved = NoStats
    /\ batch = {} /\ sending = 0 /\ via = "mesh"
    /\ resent = [m \in MsgId |-> 0] /\ resentAt = [m \in MsgId |-> 0]
    /\ restarts = 0

\* register_send, called by route_message with a fresh message id.
RegisterSend(e, ch) ==
    /\ registered < MaxMsgs
    /\ now <= MaxSendTime
    /\ LET m == registered + 1 IN
         /\ registered' = m
         /\ pending' = pending \cup {m}
         /\ entry' = [entry EXCEPT ![m] =
                        [event |-> e, channel |-> ch, next |-> NextChannel[ch],
                         sentAt |-> now, retries |-> 0, lastRetry |-> 0]]
    /\ stats' = [stats EXCEPT !.total = @ + 1]
    /\ UNCHANGED <<now, delivered, failed, saved, loopVars, restarts>>

\* receive_ack: the oldest pending entry with that event id takes the verdict.
ReceiveAck(e, ok) ==
    \E m \in pending :
      /\ entry[m].event = e
      /\ \A k \in pending : entry[k].event = e => m <= k
      /\ pending' = pending \ {m}
      /\ IF ok
         THEN /\ delivered' = delivered \cup {m}
              /\ stats' = [stats EXCEPT !.acked = @ + 1]
              /\ UNCHANGED failed
         ELSE /\ failed' = failed \cup {m}
              /\ stats' = [stats EXCEPT !.failed = @ + 1]
              /\ UNCHANGED delivered
      /\ saved' = stats'
      /\ UNCHANGED <<now, registered, entry, loopVars, restarts>>

\* The loop takes the oldest entry left of its list and starts to send it.
StartSend(left, B) ==
    IF left = {}
    THEN batch' = {} /\ sending' = 0 /\ UNCHANGED <<via, resent, resentAt>>
    ELSE \E m \in left :
           /\ \A k \in left : m <= k
           /\ batch' = left \ {m}
           /\ sending' = m
           /\ via' = RetryChannel(m, B)
           /\ resent' = [resent EXCEPT ![m] = @ + 1]
           /\ resentAt' = [resentAt EXCEPT ![m] = now]

\* Mutant: the second pass, which deletes the expired entries, is missing.
GetPendingRetries_NoDelete(B) ==
    /\ sending = 0
    /\ LET timedOut == ExpiredAt(now) IN
         /\ failed' = failed \cup timedOut
         /\ stats' = [stats EXCEPT !.failed = @ + Cardinality(timedOut)]
         /\ StartSend({m \in pending \ timedOut : ShouldRetry(m, now)}, B)
    /\ UNCHANGED <<now, registered, pending, delivered, entry, saved, restarts>>

\* get_pending_retries reads the clock for each entry, in one pass that fails
\* the expired ones and picks those to retry, and in a second pass that
\* deletes: at `later' an entry may have expired that had not in the first.
GetPendingRetries(B) ==
    /\ sending = 0
    /\ \E later \in now..(now + 1) :
         /\ later <= MaxTime
         /\ now' = later
         /\ LET timedOut == ExpiredAt(now) IN
              /\ failed' = failed \cup timedOut
              /\ stats' = [stats EXCEPT !.failed = @ + Cardinality(timedOut)]
              /\ StartSend({m \in pending \ timedOut : ShouldRetry(m, now)}, B)
         /\ pending' = pending \ ExpiredAt(later)
    /\ UNCHANGED <<registered, delivered, entry, saved, restarts>>

\* Mutants: a retry that is not counted, and one that is not dated.
Retried_NotCounted(e) == [e EXCEPT !.lastRetry = now, !.channel = via,
                                   !.next = NextChannel[via]]
Retried_NotDated(e) == [e EXCEPT !.retries = @ + 1, !.channel = via,
                                 !.next = NextChannel[via]]

\* The entry e after a retry over the channel `via'.
Retried(e) == [e EXCEPT !.retries = @ + 1, !.lastRetry = now,
                        !.channel = via, !.next = NextChannel[via]]

\* The await on send_via_channel returns, whatever its result: mark_retry,
\* then the next entry of the list.
MarkRetry(B) ==
    /\ sending # 0
    /\ entry' = IF sending \in pending
                THEN [entry EXCEPT ![sending] = Retried(entry[sending])]
                ELSE entry
    /\ StartSend(batch, B)
    /\ UNCHANGED <<now, registered, sets, stats, saved, restarts>>

\* Mutant: the cleanup counts the expired as failed without removing them.
Cleanup_Keeps ==
    /\ ExpiredAt(now) # {}
    /\ failed' = failed \cup ExpiredAt(now)
    /\ stats' = [stats EXCEPT !.failed = @ + Cardinality(ExpiredAt(now))]
    /\ saved' = stats'
    /\ UNCHANGED <<now, registered, pending, delivered, entry, loopVars, restarts>>

\* Mutant: the cleanup leaves out what was never retried.
Cleanup_OnlyRetried ==
    /\ \E m \in ExpiredAt(now) : entry[m].retries > 0
    /\ LET gone == {m \in ExpiredAt(now) : entry[m].retries > 0} IN
         /\ pending' = pending \ gone
         /\ failed' = failed \cup gone
         /\ stats' = [stats EXCEPT !.failed = @ + Cardinality(gone)]
    /\ saved' = stats'
    /\ UNCHANGED <<now, registered, delivered, entry, loopVars, restarts>>

\* One round of cleanup_loop that finds something.
Cleanup ==
    /\ ExpiredAt(now) # {}
    /\ pending' = pending \ ExpiredAt(now)
    /\ failed' = failed \cup ExpiredAt(now)
    /\ stats' = [stats EXCEPT !.failed = @ + Cardinality(ExpiredAt(now))]
    /\ saved' = stats'
    /\ UNCHANGED <<now, registered, delivered, entry, loopVars, restarts>>

\* The process dies; a new one loads the stats of STATE_FILE and nothing else.
Restart ==
    /\ restarts < MaxRestarts
    /\ restarts' = restarts + 1
    /\ pending' = {} /\ delivered' = {} /\ failed' = {}
    /\ stats' = saved
    /\ batch' = {} /\ sending' = 0
    /\ UNCHANGED <<now, registered, entry, saved, via, resent, resentAt>>

Tick ==
    /\ now < MaxTime
    /\ now' = now + 1
    /\ UNCHANGED <<registered, sets, entry, stats, saved, loopVars, restarts>>

Next ==
    \/ \E e \in Events, ch \in SendChannels : RegisterSend(e, ch)
    \/ \E e \in Events, ok \in BOOLEAN : ReceiveAck(e, ok)
    \/ \E B \in BlockedSets : GetPendingRetries(B)
    \/ \E B \in BlockedSets : MarkRetry(B)
    \/ Cleanup
    \/ Restart
    \/ Tick

Spec == Init /\ [][Next]_vars

\* Time goes on and the cleanup task of the event loop is scheduled.
FairSpec == Spec /\ WF_vars(Tick) /\ WF_vars(Cleanup)
-----------------------------------------------------------------------------
\* Type correctness of the tracker and of the loop that retries.
TypeOK ==
    /\ now \in Nat
    /\ registered \in 0..MaxMsgs
    /\ pending \subseteq 1..registered
    /\ delivered \subseteq 1..registered
    /\ failed \subseteq 1..registered
    /\ entry \in [MsgId -> Entry]
    /\ stats \in Stats
    /\ saved \in Stats
    /\ batch \subseteq 1..registered
    /\ sending \in 0..registered
    /\ via \in Fallback
    /\ resent \in [MsgId -> Nat]
    /\ resentAt \in [MsgId -> Nat]
    /\ restarts \in 0..MaxRestarts

\* The counters never report more than was sent: what is pending, acknowledged
\* and failed adds up to at most total_sent, in this process and in the file a
\* restart reads, although the expired are counted in two places, an entry may
\* vanish between the passes of get_pending_retries and a crash forgets the
\* pending ones.
Accounting ==
    /\ Cardinality(pending) + stats.acked + stats.failed <= stats.total
    /\ saved.acked + saved.failed <= saved.total

\* A message has one verdict: an ACK that races the expiry, or comes late, does
\* not put a message among the delivered and the failed, nor leave it pending.
OneVerdict ==
    /\ pending \cap (delivered \cup failed) = {}
    /\ delivered \cap failed = {}

\* A message is put on the wire again at most MAX_RETRIES times, although the
\* retry count is only incremented after the await that sends it.
RetriesBounded == \A m \in MsgId : resent[m] <= MAX_RETRIES

\* The inductive invariant behind the two properties of retries.  The list of
\* the retry loop is stale as soon as it awaits, but only the loop itself
\* changes a retry count, so what is still in the list stays due: an entry was
\* sent as often as it was retried, and once more while its send is awaited.
RetryInv ==
    /\ sending \notin batch
    /\ \A m \in MsgId :
         /\ m > registered => resent[m] = 0 /\ resentAt[m] = 0
         /\ m \in (pending \cup batch) \ {sending} =>
              resent[m] = entry[m].retries /\ resentAt[m] <= entry[m].lastRetry
         /\ m \in batch => ShouldRetry(m, now)
         /\ m = sending => /\ entry[m].retries < MAX_RETRIES
                           /\ resent[m] = entry[m].retries + 1
                           /\ resentAt[m] <= now
         /\ resent[m] <= MAX_RETRIES

\* On the wire two retries of a message are separated by more than the backoff
\* of the retries made, although the decision to retry is older than the send
\* and the retry is only dated after it.
BackoffRespected ==
    [][\A m \in MsgId : resent[m] > 0 /\ resent'[m] > resent[m] =>
          resentAt'[m] - resentAt[m] > Backoff[resent[m]]]_vars

\* No pending entry is kept for ever: it is acknowledged, expires or is lost in
\* a crash.
EventuallySettled == \A m \in MsgId : m \in pending ~> m \notin pending
=============================================================================
