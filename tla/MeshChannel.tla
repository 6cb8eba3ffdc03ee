---------------------------- MODULE MeshChannel ----------------------------
(***************************************************************************)
(* The mesh channel of smart_router.py: the part of send_via_channel that  *)
(* buffers messages and writes them to the content router, the task        *)
(* _reconnect_mesh, the flush of the buffer in self_learning_loop, and the *)
(* circuit breaker of the channel (router_policy.py).                      *)
(*                                                                         *)
(* A task runs without interruption between two awaits.  The writes are    *)
(* not awaited, the drains are: until a drain returns, other tasks send,   *)
(* reconnect and flush.                                                    *)
(*                                                                         *)
(* _pending_mesh_queue always is empty, and is not modelled: before a      *)
(* message gets there the buffer is unpacked as if it were one value, but  *)
(* a newline follows every value in it, so that serialization.py raises    *)
(* ValueError.                                                             *)
(***************************************************************************)
EXTENDS Integers, Sequences, FiniteSets, Functions

CONSTANTS
    Senders,           \* the tasks that call send_via_channel
    Attempts,          \* the length of backoff: attempts of one reconnection
    IncidentLimit,     \* incident_limit
    RecoveryThreshold, \* _cb_recovery_threshold
    MaxSends,          \* bound: number of messages the channel takes
    MaxConns,          \* bound: number of connections
    MaxTasks,          \* bound: no message is refused while so many reconnect
    MaxFaults          \* bound: number of broken connections and slow drains

ASSUME MeshAssumption ==
    /\ Attempts \in Nat \ {0} /\ IncidentLimit \in Nat \ {0}
    /\ RecoveryThreshold \in Nat \ {0}
    /\ MaxSends \in Nat /\ MaxConns \in Nat \ {0}
    /\ MaxTasks \in Nat \ {0} /\ MaxFaults \in Nat

VARIABLES
    serving,     \* the content router accepts connections
    conns,       \* number of connections made
    alive,       \* those that are not broken
    wire,        \* what was written to each, without what was lost
    writer,      \* _cr_writer: a connection, or None
    buf,         \* _mesh_buf
    recent,      \* the interval since _last_mesh_drain is not over
    drain,       \* connection that each sender, or the loop, waits for
    awake,       \* self_learning_loop is between its sleep and its flush
    tasks,       \* number of reconnections before each attempt
    blocked,     \* the channel is in _blocked_until
    incidents,   \* number of incidents in the window
    recovery,    \* _cb_recovery_count
    failing,     \* _channel_health has counted failures
    sent,        \* number of messages taken by send_via_channel
    lost,        \* history: the messages that will not arrive
    faults       \* history

link    == <<serving, conns, alive>>
data    == <<wire, writer, buf, lost>>
breaker == <<blocked, incidents, recovery, failing>>
vars    == <<link, data, breaker, recent, drain, awake, tasks, sent, faults>>

None == 0
Loop == "self_learning_loop"

Messages == 1..MaxSends

\* ensure_channels: the router starts with a connection if it can get one.
Init ==
    /\ serving \in BOOLEAN
    /\ conns = IF serving THEN 1 ELSE 0
    /\ alive = 1..conns
    /\ wire = [c \in 1..MaxConns |-> <<>>]
    /\ writer = IF serving THEN 1 ELSE None
    /\ buf = <<>> /\ recent = FALSE
    /\ drain = [t \in Senders \union {Loop} |-> None]
    /\ awake = FALSE
    /\ tasks = [k \in 1..(Attempts + 1) |-> 0]
    /\ blocked = FALSE /\ incidents = 0 /\ recovery = 0 /\ failing = FALSE
    /\ sent = 0 /\ lost = {} /\ faults = 0
-----------------------------------------------------------------------------
(* The circuit breaker.                                                    *)

\* len(inc) >= self.incident_limit.
Enough(n) == n >= IncidentLimit

\* record_incident, when b says whether the channel is blocked: incidents that
\* are too old are forgotten.
Incident(b) ==
    \E kept \in 0..incidents :
      /\ blocked' = (b \/ Enough(kept + 1))
      /\ incidents' = IF Enough(kept + 1) THEN 0 ELSE kept + 1

\* The end of send_via_channel: a message that took long is an incident.
Report(b) == Incident(b) \/ (blocked' = b /\ UNCHANGED incidents)

\* block_ttl is over.
Unblock ==
    /\ blocked
    /\ blocked' = FALSE
    /\ UNCHANGED <<link, data, incidents, recovery, failing, recent, drain, awake,
                   tasks, sent, faults>>
-----------------------------------------------------------------------------
(* send_via_channel.                                                       *)

\* Mutant: the reconnection is left to the sender that noticed the break.
Refused_NoReconnect == UNCHANGED tasks

\* asyncio.ensure_future(self._reconnect_mesh()).
Reconnecting == tasks' = [tasks EXCEPT ![1] = @ + 1]

\* A message that is not taken, because there is no connection.
Refused == Reconnecting

Refuse ==
    /\ ~blocked /\ writer = None
    /\ SumFunction(tasks) < MaxTasks
    /\ Refused
    /\ failing' = TRUE
    /\ UNCHANGED <<link, data, blocked, incidents, recovery, recent, drain, awake,
                   sent, faults>>

\* Mutant: what was written stays in the buffer.
Rest_All(b) == b

\* The buffer after it was written.
Rest(b) == <<>>

\* Data is written and the buffer cleared: a broken connection swallows it.
Write(b) ==
    /\ buf' = Rest(b)
    /\ IF writer \in alive
         THEN wire' = [wire EXCEPT ![writer] = @ \o b] /\ UNCHANGED lost
         ELSE lost' = lost \union Range(b) /\ UNCHANGED wire
    /\ UNCHANGED writer

\* Mutant: the buffer is replaced, not extended.
Buffered_Only(m) == <<m>>

\* self._mesh_buf.extend.
Buffered(m) == Append(buf, m)

\* Sender s hands over a message.  It is written, after those in the buffer,
\* unless a drain has ended less than 10 ms ago.
Send(s) ==
    /\ drain[s] = None /\ ~blocked /\ writer # None
    /\ sent < MaxSends
    /\ sent' = sent + 1
    /\ IF recent
         THEN /\ buf' = Buffered(sent + 1)
              /\ Report(blocked)
              /\ UNCHANGED <<wire, writer, lost, drain>>
         ELSE /\ Write(Buffered(sent + 1))
              /\ drain' = [drain EXCEPT ![s] = writer]
              /\ UNCHANGED <<blocked, incidents>>
    /\ UNCHANGED <<link, recovery, failing, recent, awake, tasks, faults>>

\* The drain of sender s returns.  _last_mesh_drain is set to when it began,
\* which may be long ago.  Before it reports, the sender awaits the push of its
\* message to the subscribers: that changes nothing here, and is left out (Push
\* has it), as it is after a message that is only buffered and a failed drain.
DrainOk(s) ==
    /\ drain[s] \in alive
    /\ drain' = [drain EXCEPT ![s] = None]
    /\ recent' \in BOOLEAN
    /\ IF recovery + 1 >= RecoveryThreshold
         THEN recovery' = 0 /\ Report(FALSE)
         ELSE recovery' = recovery + 1 /\ Report(blocked)
    /\ UNCHANGED <<link, data, failing, awake, tasks, sent, faults>>

\* The drain of task t raises: the connection is broken, or 3 s are over.
DrainFails(t) ==
    /\ drain[t] # None
    /\ \/ drain[t] \notin alive /\ UNCHANGED faults
       \/ drain[t] \in alive /\ faults < MaxFaults /\ faults' = faults + 1
    /\ drain' = [drain EXCEPT ![t] = None]

\* The writer is given up, whichever it is now, unless unpacking the buffer
\* raises.  The message counts as sent.
SendFails(s) ==
    /\ DrainFails(s)
    /\ IF buf = <<>> THEN writer' = None /\ Reconnecting
                     ELSE UNCHANGED <<writer, tasks>>
    /\ Report(blocked)
    /\ UNCHANGED <<link, wire, buf, lost, recovery, failing, recent, awake, sent>>

\* 10 ms are over.
IntervalEnds ==
    /\ recent /\ recent' = FALSE
    /\ UNCHANGED <<link, data, breaker, drain, awake, tasks, sent, faults>>
-----------------------------------------------------------------------------
(* _reconnect_mesh.                                                        *)

\* The k-th attempt of a reconnection succeeds.
Reconnect(k) ==
    /\ k <= Attempts /\ tasks[k] > 0
    /\ serving /\ conns < MaxConns
    /\ conns' = conns + 1 /\ alive' = alive \union {conns + 1}
    /\ writer' = conns + 1
    /\ tasks' = [tasks EXCEPT ![k] = @ - 1]
    /\ blocked' = FALSE /\ recovery' = RecoveryThreshold /\ failing' = FALSE
    /\ UNCHANGED <<serving, wire, buf, lost, incidents, recent, drain, awake, sent,
                   faults>>

\* It fails.  After each failure the task sleeps, also after the last.
AttemptFails(k) ==
    /\ k <= Attempts /\ tasks[k] > 0
    /\ ~serving
    /\ tasks' = [tasks EXCEPT ![k] = @ - 1, ![k + 1] = @ + 1]
    /\ UNCHANGED <<link, data, breaker, recent, drain, awake, sent, faults>>

\* All attempts have failed.
GiveUp ==
    /\ tasks[Attempts + 1] > 0
    /\ tasks' = [tasks EXCEPT ![Attempts + 1] = @ - 1]
    /\ writer' = None
    /\ UNCHANGED <<link, wire, buf, lost, breaker, recent, drain, awake, sent, faults>>
-----------------------------------------------------------------------------
(* self_learning_loop.                                                     *)

\* The first part of a round: failures are an incident if they prevail, and
\* are forgotten from time to time.
LearnHealth ==
    /\ ~awake /\ drain[Loop] = None
    /\ awake' = TRUE
    /\ \/ failing /\ Incident(blocked)
       \/ UNCHANGED <<blocked, incidents>>
    /\ failing' \in {failing, FALSE}
    /\ UNCHANGED <<link, data, recovery, recent, drain, tasks, sent, faults>>

\* Mutant: the round ends before the buffer is written.
Flush_Never == FALSE

\* There is something to write.
Flush == buf # <<>> /\ writer # None

\* The last part of a round.
LearnFlush ==
    /\ awake /\ Flush
    /\ awake' = FALSE
    /\ Write(buf)
    /\ drain' = [drain EXCEPT ![Loop] = writer]
    /\ UNCHANGED <<link, breaker, recent, tasks, sent, faults>>

\* There was nothing to write, or an exception has ended the round before.
LearnNothing ==
    /\ awake /\ awake' = FALSE
    /\ UNCHANGED <<link, data, breaker, recent, drain, tasks, sent, faults>>

LearnDrainOk ==
    /\ drain[Loop] \in alive
    /\ drain' = [drain EXCEPT ![Loop] = None]
    /\ UNCHANGED <<link, data, breaker, recent, awake, tasks, sent, faults>>

\* The writer is given up, and what was buffered in the meantime is dropped.
LearnDrainFails ==
    /\ DrainFails(Loop)
    /\ writer' = None
    /\ buf' = <<>> /\ lost' = lost \union Range(buf)
    /\ UNCHANGED <<link, wire, breaker, recent, awake, tasks, sent>>
-----------------------------------------------------------------------------
(* The content router.                                                     *)

\* Connection c breaks.  What was not read yet is lost.
Break(c) ==
    /\ c \in alive /\ faults < MaxFaults
    /\ faults' = faults + 1
    /\ alive' = alive \ {c}
    /\ \E n \in 0..Len(wire[c]) :
         /\ wire' = [wire EXCEPT ![c] = SubSeq(@, 1, n)]
         /\ lost' = lost \union Range(SubSeq(wire[c], n + 1, Len(wire[c])))
    /\ UNCHANGED <<serving, conns, writer, buf, breaker, recent, drain, awake, tasks,
                   sent>>

\* It stops accepting connections, and starts again.
Stop ==
    /\ serving /\ faults < MaxFaults
    /\ serving' = FALSE /\ faults' = faults + 1
    /\ UNCHANGED <<conns, alive, data, breaker, recent, drain, awake, tasks, sent>>

Start ==
    /\ ~serving /\ serving' = TRUE
    /\ UNCHANGED <<conns, alive, data, breaker, recent, drain, awake, tasks, sent,
                   faults>>

Next ==
    \/ \E s \in Senders : Send(s) \/ DrainOk(s) \/ SendFails(s)
    \/ \E k \in 1..Attempts : Reconnect(k) \/ AttemptFails(k)
    \/ Refuse \/ GiveUp \/ Unblock \/ IntervalEnds
    \/ LearnHealth \/ LearnFlush \/ LearnNothing \/ LearnDrainOk \/ LearnDrainFails
    \/ (\E c \in alive : Break(c)) \/ Stop \/ Start

Spec == Init /\ [][Next]_vars

\* Awaits end and sleeps are over; the content router starts again, and a
\* reconnection makes its next attempt.  Clients go on sending, also in the
\* moments in which the channel is not blocked; and not every round of the loop
\* ends in an exception.
Fairness ==
    /\ \A s \in Senders : /\ SF_vars(Send(s))
                          /\ WF_vars(DrainOk(s)) /\ WF_vars(SendFails(s))
    /\ SF_vars(Refuse) /\ SF_vars(LearnFlush)
    /\ \A k \in 1..Attempts : WF_vars(Reconnect(k)) /\ WF_vars(AttemptFails(k))
    /\ WF_vars(GiveUp) /\ WF_vars(Unblock) /\ WF_vars(IntervalEnds)
    /\ WF_vars(LearnHealth) /\ WF_vars(LearnNothing)
    /\ WF_vars(LearnDrainOk) /\ WF_vars(LearnDrainFails)
    /\ WF_vars(Start)

FairSpec == Spec /\ Fairness
-----------------------------------------------------------------------------
\* Type correctness; what a task waits for are connections that were made.
TypeOK ==
    /\ serving \in BOOLEAN /\ conns \in 0..MaxConns /\ alive \subseteq 1..conns
    /\ wire \in [1..MaxConns -> Seq(Messages)]
    /\ writer \in 0..conns
    /\ buf \in Seq(Messages) /\ lost \subseteq Messages
    /\ recent \in BOOLEAN /\ awake \in BOOLEAN
    /\ drain \in [Senders \union {Loop} -> 0..conns]
    /\ tasks \in [1..(Attempts + 1) -> Nat]
    /\ blocked \in BOOLEAN /\ failing \in BOOLEAN
    /\ incidents \in 0..(IncidentLimit - 1) /\ recovery \in 0..RecoveryThreshold
    /\ sent \in 0..MaxSends /\ faults \in 0..MaxFaults

Increasing(q) == \A i, j \in DOMAIN q : i < j => q[i] < q[j]
Before(p, q)  == \A i \in DOMAIN p, j \in DOMAIN q : p[i] < q[j]

\* Whichever tasks write, the messages are on the connections, and from one
\* connection to the next, in the order in which they were taken, none twice;
\* and those in the buffer come after all of them.
InOrder ==
    /\ Increasing(buf)
    /\ \A c \in 1..MaxConns : Increasing(wire[c]) /\ Before(wire[c], buf)
    /\ \A c, d \in 1..MaxConns : c < d => Before(wire[c], wire[d])

Written == UNION {Range(wire[c]) : c \in 1..MaxConns}

\* A message that was taken is in the buffer, on a connection, or was lost; and
\* none is lost while no connection breaks and no drain takes too long.
NoneVanishes ==
    /\ 1..sent = Range(buf) \union Written \union lost
    /\ lost \cap (Range(buf) \union Written) = {}
    /\ faults = 0 => lost = {}

\* The channel recovers: whatever breaks, however often reconnections give up
\* and the breaker blocks, the messages of the clients are taken in the end.
AllTaken == <>(sent = MaxSends)

\* No message stays in the buffer while there is a connection to write it to.
BufferIsWritten ==
    \A m \in Messages : m \in Range(buf) ~> m \notin Range(buf) \/ writer = None
=============================================================================
