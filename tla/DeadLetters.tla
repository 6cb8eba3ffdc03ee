----------------------------- MODULE DeadLetters -----------------------------
(***************************************************************************)
(* Messages to agents that are offline: the heartbeats and the table of    *)
(* dead letters (l5t_middleware.py, dead_letter.py), the handlers of the   *)
(* router that put letters into the table and give them to an agent that   *)
(* subscribes (smart_router.py), and the sync call of the health engine,   *)
(* which works on the same table in a process of its own.                  *)
(*                                                                         *)
(* A sync reads the table, waits for the relays, marks what it read as     *)
(* delivered and hands it over.  What the relays return is handed over     *)
(* besides, but is marked under a hash of its own, which no row has (the   *)
(* key of the bridge stands for the sender, and the last "p" tag for the   *)
(* receiver): it changes nothing here, and neither do the copies that push *)
(* publishes.  Time is in seconds, and too short for a letter to expire.   *)
(***************************************************************************)
EXTENDS Integers, FiniteSets

CONSTANTS
    Agents,
    Bodies,              \* contents that differ
    Sessions,            \* connections to the router: a handler each
    Calls,               \* connections to the health engine: a call each
    HEARTBEAT_TIMEOUT,
    MaxTime,             \* bound: the last second of the clock
    MaxLetters,          \* bound: rows of the table
    MaxFaults            \* bound: connections lost and processes that crash

ASSUME DeadLettersAssumption ==
    /\ Sessions \cap Calls = {}
    /\ HEARTBEAT_TIMEOUT \in Nat /\ MaxTime \in Nat \ {0}
    /\ MaxLetters \in Nat /\ MaxFaults \in Nat

VARIABLES
    now,        \* time.time()
    beat,       \* last_heartbeat of each agent
    on,         \* the agents with the flag online
    table,      \* rows of dead_letter_queue
    delivered,  \* those with delivered = 1
    sync,       \* what each handler or call that syncs is doing
    handed,     \* history: how often a row was handed to its agent, up to 2
    cut,        \* history: rows that were in the hands of a sync that failed
    together,   \* history: agents that have had two syncs at a time
    edge,       \* history: rows that were handed over without being marked
    faults      \* counter for MaxFaults

history == <<handed, cut, together, edge>>
vars == <<now, beat, on, table, delivered, sync, history, faults>>

\* A row.  Its hash is that of all it says, with the time in whole seconds.
Letter == [to: Agents, body: Bodies, at: 1..MaxTime]

Tasks == Sessions \cup Calls

Idle == [stage |-> "idle"]

Init ==
    /\ now = 1
    /\ beat = [a \in Agents |-> 0]
    /\ on = {}
    /\ table = {} /\ delivered = {}
    /\ sync = [t \in Tasks |-> Idle]
    /\ handed = [l \in Letter |-> 0]
    /\ cut = {} /\ together = {} /\ edge = {}
    /\ faults = 0

\* The tasks of the process of task t.
Process(t) == IF t \in Sessions THEN Sessions ELSE Calls

\* No task of P is between marking letters and handing them over, where it
\* awaits nothing.
Free(P) == \A t \in P : sync[t].stage # "hand"

Busy(a) == {t \in Tasks : sync[t].stage # "idle" /\ sync[t].to = a}
-----------------------------------------------------------------------------
(* Senders and heartbeats *)

\* AgentStatus.is_online.
Online(a) == a \in on /\ now - beat[a] < HEARTBEAT_TIMEOUT

\* process_heartbeat; the letters that wait are only counted.
Heartbeat(a) ==
    /\ Free(Sessions)
    /\ beat' = [beat EXCEPT ![a] = now]
    /\ on' = on \cup {a}
    /\ UNCHANGED <<now, table, delivered, sync, history, faults>>

\* route_message finds the receiver offline.  A letter with a hash that is in
\* the table is ignored.
Send(a, b) ==
    /\ Free(Sessions)
    /\ ~Online(a)
    /\ LET l == [to |-> a, body |-> b, at |-> now] IN
         /\ l \notin table /\ Cardinality(table) < MaxLetters
         /\ table' = table \cup {l}
    /\ UNCHANGED <<now, beat, on, delivered, sync, history, faults>>
-----------------------------------------------------------------------------
(* Syncs *)

\* Mutant: letters of the present second are left for the next time.
Undelivered_Earlier(a) == {l \in table \ delivered : l.to = a /\ l.at < now}

Undelivered(a) == {l \in table \ delivered : l.to = a}

\* A sync begins.  It gives rows from time since on, and marks those after it:
\* _get_local_undelivered and pull compare differently.  What the other process
\* does between these two selects comes to the same before or after them.
SyncStart(t, a, since) ==
    /\ Free(Process(t)) /\ sync[t] = Idle
    /\ LET give == {l \in Undelivered(a) : since > 0 => l.at >= since}
           mark == {l \in Undelivered(a) : l.at > since}
       IN sync' = [sync EXCEPT ![t] =
                     [stage |-> "fetch", to |-> a, alive |-> TRUE,
                      give |-> give, mark |-> mark]]
    /\ together' = IF Busy(a) = {} THEN together ELSE together \cup {a}
    /\ UNCHANGED <<now, beat, on, table, delivered, handed, cut, edge, faults>>

\* An agent has subscribed: sync_for_agent(agent_name, since=0).
Subscribe(s, a) == SyncStart(s, a, 0)

\* /api/v1/deadletter/sync, with the time its client names.
CallSync(q, a) == \E since \in 0..now : SyncStart(q, a, since)

\* Mutant: all rows of the agent are marked.
MarkedBy_Agent(t) == Undelivered(sync[t].to)

\* Mutant: the calls of the health engine mark nothing.
MarkedBy_Router(t) == IF t \in Calls THEN {} ELSE sync[t].mark

\* The rows whose hashes are among those of the messages of the sync.
MarkedBy(t) == sync[t].mark

\* The relays have answered, or failed to, and the letters are marked.
Mark(t) ==
    /\ Free(Process(t)) /\ sync[t].stage = "fetch"
    /\ delivered' = delivered \cup MarkedBy(t)
    /\ sync' = [sync EXCEPT ![t].stage = "hand"]
    /\ UNCHANGED <<now, beat, on, table, history, faults>>

\* SQLite fails in the middle of the marking: the exception ends the sync, and
\* those that are marked by then are written to nobody.
MarkFails(t) ==
    /\ Free(Process(t)) /\ sync[t].stage = "fetch"
    /\ faults < MaxFaults
    /\ faults' = faults + 1
    /\ \E part \in SUBSET MarkedBy(t) :
         /\ delivered' = delivered \cup part
         /\ cut' = cut \cup part
    /\ sync' = [sync EXCEPT ![t] = Idle]
    /\ UNCHANGED <<now, beat, on, table, handed, together, edge>>

\* The letters are written to the subscriber, or returned to the caller.  A
\* connection that is lost takes nothing, and the exception is caught.
Hand(t) ==
    /\ sync[t].stage = "hand"
    /\ LET give == sync[t].give IN
         IF sync[t].alive
           THEN /\ handed' = [l \in Letter |-> handed[l] +
                              IF l \in give /\ handed[l] < 2 THEN 1 ELSE 0]
                /\ edge' = edge \cup (give \ sync[t].mark)
                /\ UNCHANGED cut
           ELSE /\ cut' = cut \cup give
                /\ UNCHANGED <<handed, edge>>
    /\ sync' = [sync EXCEPT ![t] = Idle]
    /\ UNCHANGED <<now, beat, on, table, delivered, together, faults>>
-----------------------------------------------------------------------------
(* Faults *)

\* The connection of a sync is lost.
Lose(t) ==
    /\ faults < MaxFaults
    /\ sync[t] # Idle /\ sync[t].alive
    /\ faults' = faults + 1
    /\ sync' = [sync EXCEPT ![t].alive = FALSE]
    /\ UNCHANGED <<now, beat, on, table, delivered, history>>

\* A process crashes and is started again.  The router reads the file of its
\* heartbeats, and takes every agent to be offline.
Restart(P) ==
    /\ faults < MaxFaults
    /\ faults' = faults + 1
    /\ on' = IF P = Sessions THEN {} ELSE on
    /\ cut' = cut \cup UNION {sync[t].give : t \in {u \in P : sync[u].stage = "hand"}}
    /\ sync' = [t \in Tasks |-> IF t \in P THEN Idle ELSE sync[t]]
    /\ UNCHANGED <<now, beat, table, delivered, handed, together, edge>>

Tick ==
    /\ now < MaxTime
    /\ now' = now + 1
    /\ UNCHANGED <<beat, on, table, delivered, sync, history, faults>>
-----------------------------------------------------------------------------
Next ==
    \/ \E a \in Agents : \/ Heartbeat(a)
                         \/ \E b \in Bodies : Send(a, b)
                         \/ \E s \in Sessions : Subscribe(s, a)
                         \/ \E q \in Calls : CallSync(q, a)
    \/ \E t \in Tasks : Mark(t) \/ MarkFails(t) \/ Hand(t) \/ Lose(t)
    \/ \E P \in {Sessions, Calls} : Restart(P)
    \/ Tick

Spec == Init /\ [][Next]_vars

\* A task that can go on does so.  The wait for a relay has a limit, but for a
\* relay that never ends its answer; another task may be in the way (SF).
FairSpec ==
    /\ Spec
    /\ \A t \in Tasks : SF_vars(Mark(t)) /\ WF_vars(Hand(t))
-----------------------------------------------------------------------------
(* Properties *)

InHand == UNION {sync[t].give : t \in {u \in Tasks : sync[u].stage = "hand"}}

\* A row is marked before it is written (l5t_middleware.py:217 says after it),
\* and what marks it is what read it: a row that is marked has been handed to
\* its agent, or is about to be, or was in the hands of a sync at the moment
\* when its process crashed, or it could not mark all, or it wrote to a lost
\* connection.  No other row is lost, whatever comes in or fails while a sync
\* waits for the relays.
NothingForgotten ==
    \A l \in delivered : handed[l] > 0 \/ l \in InHand \cup cut

\* The agent gets a row from the table once, unless two syncs for it overlapped,
\* or the row was made in the very second its caller names.
OnceUnlessTogether ==
    \A l \in table : handed[l] > 1 => l.to \in together \/ l \in edge

\* If an agent subscribes again and again, each letter for it is handed over in
\* the end, or was in the hands of a sync that failed.
NoneStaysBehind ==
    \A a \in Agents :
        []<><<\E s \in Sessions : Subscribe(s, a)>>_vars =>
            \A l \in {m \in Letter : m.to = a} :
                l \in table ~> (handed[l] > 0 \/ l \in cut)
=============================================================================
