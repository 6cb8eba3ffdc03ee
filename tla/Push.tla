-------------------------------- MODULE Push --------------------------------
(***************************************************************************)
(* How the router pushes messages to its subscribers (smart_router.py:     *)
(* subscribe and unsubscribe in handle_client, _push_to_subscribers,       *)
(* _push_single, _reorder_timeout_loop), composed with ReorderBuffer.      *)
(*                                                                         *)
(* A task is the handler of a connection, a worker of the priority queue   *)
(* that sends a message to the mesh, or the loop that looks for timeouts.  *)
(* One task runs at a time, and a write suspends it only when the drain    *)
(* does: when the socket is slow, or closing.  While `running` is a task   *)
(* no other task takes a step and no socket changes.                       *)
(*                                                                         *)
(* An event that has passed the check for duplicates is modelled by the    *)
(* number it carries; which events pass is the subject of MessageIntake.   *)
(* Broadcasts and events without a number (those that ack_retry_loop sends *)
(* have none) bypass the buffer, and are left out, as are pairs that are   *)
(* cleaned up (ReorderBuffer has that).                                    *)
(***************************************************************************)
EXTENDS ReorderBuffer, Sequences

CONSTANTS
    Conns,             \* the clients' connections
    Senders,           \* those that send messages
    Listeners,         \* those that may subscribe; what happens to the others
                       \* matters to nobody, since they need not send
    Workers,           \* the tasks of _priority_worker
    Loop,              \* _reorder_timeout_loop
    Nobody,
    MaxSubs,           \* bound: subscriptions made
    MaxSlow,           \* bound: how often a socket becomes slow
    MaxGone            \* bound: how many connections are lost or end

Tasks == Senders \cup Workers \cup {Loop}
Sid   == 1..MaxSubs

ASSUME PushAssumption ==
    /\ Senders \subseteq Conns /\ Listeners \subseteq Conns
    /\ Loop \notin Conns \cup Workers /\ Workers \cap Conns = {}
    /\ Nobody \notin Conns \cup Workers \cup {Loop}
    /\ MaxSubs \in Nat /\ MaxSlow \in Nat /\ MaxGone \in Nat

VARIABLES
    conn,        \* the socket of a connection: "ok", "slow", or "gone"
    ended,       \* connections whose handle_client has returned
    owner,       \* whose subscription a number of _sub_next_id is
    subs,        \* the keys of _event_subscribers
    task,        \* what each task is doing
    running,     \* the task that has the event loop, or Nobody
    wire,        \* the messages written for a subscription
    pushed,      \* history: messages whose _push_single has returned
    aborted,     \* history: messages an exception left unpushed
    audience,    \* history: the subscriptions there were when a message was
                 \* released, but for those of the connection it excludes
    inHand,      \* history: messages not yet pushed when a message was released
    doubled,     \* history: pairs of which a number came while it was held back
    slowed, lost \* counters for the bounds

pushVars == <<conn, ended, owner, subs, task, running, wire, pushed, aborted,
              audience, inHand, doubled, slowed, lost>>
vars == <<reorderVars, pushVars>>

Idle == [stage |-> "read", ready |-> <<>>, targets |-> <<>>, dead |-> {}]

Init ==
    /\ ReorderInit
    /\ conn = [c \in Conns |-> "ok"]
    /\ ended = {}
    /\ owner = <<>>
    /\ subs = {}
    /\ task = [t \in Tasks |-> Idle]
    /\ running = Nobody
    /\ wire = [n \in Sid |-> <<>>]
    /\ pushed = {} /\ aborted = {}
    /\ audience = [i \in MsgId |-> {}]
    /\ inHand = [i \in MsgId |-> {}]
    /\ doubled = {}
    /\ slowed = 0 /\ lost = 0

OwnedBy(c) == {n \in DOMAIN owner : owner[n] = c}
Listed(s)  == {s[k] : k \in DOMAIN s}
InHand     == UNION {Listed(task[t].ready) : t \in Tasks}
Reading(c) == c \notin ended /\ (c \in Senders => task[c].stage = "read")

\* list(_event_subscribers.items()) when S are the keys: the order of a dict is
\* that of insertion.
Subscribers(S) ==
    [k \in 1..Cardinality(S) |->
        CHOOSE n \in S : Cardinality({m \in S : m <= n}) = k]
-----------------------------------------------------------------------------
(* Subscriptions and connections *)

Subscribe(c) ==
    /\ running = Nobody /\ Reading(c) /\ conn[c] = "ok"
    /\ Len(owner) < MaxSubs
    /\ owner' = Append(owner, c)
    /\ subs' = subs \cup {Len(owner) + 1}
    /\ UNCHANGED <<reorderVars, conn, ended, task, running, wire, pushed,
                   aborted, audience, inHand, doubled, slowed, lost>>

\* Any key of _event_subscribers would be deleted; clients name their own.
Unsubscribe(c, n) ==
    /\ running = Nobody /\ Reading(c) /\ conn[c] # "gone"
    /\ n \in subs
    /\ subs' = subs \ {n}
    /\ UNCHANGED <<reorderVars, conn, ended, owner, task, running, wire, pushed,
                   aborted, audience, inHand, doubled, slowed, lost>>

\* The finally of handle_client.
AfterHandler(c, s) == s \ OwnedBy(c)

\* A handler that is reading ends: nothing came for 30 seconds, or the client
\* closed the connection, or the connection is lost.
HandlerEnds(c) ==
    /\ running = Nobody /\ Reading(c)
    /\ conn[c] = "gone" \/ lost < MaxGone
    /\ lost' = IF conn[c] = "gone" THEN lost ELSE lost + 1
    /\ conn' = [conn EXCEPT ![c] = "gone"]
    /\ ended' = ended \cup {c}
    /\ subs' = AfterHandler(c, subs)
    /\ UNCHANGED <<reorderVars, owner, task, running, wire, pushed, aborted,
                   audience, inHand, doubled, slowed>>

\* The peer resets the connection; its handler has not noticed yet.
Lose(c) ==
    /\ running = Nobody
    /\ conn[c] # "gone" /\ lost < MaxGone
    /\ lost' = lost + 1
    /\ conn' = [conn EXCEPT ![c] = "gone"]
    /\ UNCHANGED <<reorderVars, ended, owner, subs, task, running, wire, pushed,
                   aborted, audience, inHand, doubled, slowed>>

\* The peer reads more slowly than is written, and catches up again.
Slows(c) ==
    /\ running = Nobody
    /\ conn[c] = "ok" /\ slowed < MaxSlow
    /\ slowed' = slowed + 1
    /\ conn' = [conn EXCEPT ![c] = "slow"]
    /\ UNCHANGED <<reorderVars, ended, owner, subs, task, running, wire, pushed,
                   aborted, audience, inHand, doubled, lost>>

CatchesUp(c) ==
    /\ running = Nobody
    /\ conn[c] = "slow"
    /\ conn' = [conn EXCEPT ![c] = "ok"]
    /\ UNCHANGED <<reorderVars, ended, owner, subs, task, running, wire, pushed,
                   aborted, audience, inHand, doubled, slowed, lost>>
-----------------------------------------------------------------------------
(* Pushing *)

\* Only a handler names a writer that is left out: its own.
Excluded(t, n) == t \in Senders /\ owner[n] = t

\* The messages that the present call of the reorder buffer returns.
Fresh == {i \in MsgId : released'[i] > batch}

\* Mutant: the list of ready messages is not sorted.
FreshLists_AnyOrder ==
    {l \in [1..Cardinality(Fresh) -> Fresh] : \A a, b \in DOMAIN l : l[a] = l[b] => a = b}

\* The list they come in: in order for a pair; only a timeout mixes pairs.
FreshLists ==
    {l \in [1..Cardinality(Fresh) -> Fresh] :
        /\ \A a, b \in DOMAIN l : l[a] = l[b] => a = b
        /\ \A a, b \in DOMAIN l :
             (msg'[l[a]].pair = msg'[l[b]].pair /\ a < b) =>
                \/ released'[l[a]] < released'[l[b]]
                \/ released'[l[a]] = released'[l[b]] /\ Before(l[a], l[b])'}

\* Task t begins to push what the buffer returned.
StartPushing(t) ==
    /\ IF Fresh = {}
         THEN /\ task' = [task EXCEPT ![t] = Idle]
              /\ running' = Nobody
         ELSE \E l \in FreshLists :
              /\ task' = [task EXCEPT ![t] = [Idle EXCEPT !.stage = "write",
                                              !.ready = l,
                                              !.targets = Subscribers(subs)]]
              /\ running' = t
    /\ audience' = [i \in MsgId |-> IF i \in Fresh
                                    THEN {n \in subs : ~Excluded(t, n)}
                                    ELSE audience[i]]
    /\ inHand' = [i \in MsgId |-> IF i \in Fresh THEN InHand ELSE inHand[i]]
    /\ UNCHANGED <<conn, ended, owner, subs, wire, pushed, aborted, slowed, lost>>

\* _push_to_subscribers by task t: there are subscribers, the event is no duplicate,
\* and the buffer takes it.  That is_duplicate is awaited only delays it.
HandOver(t, p, s) ==
    /\ running = Nobody /\ task[t].stage = "read"
    /\ subs # {}
    /\ doubled' = IF \E i \in buffers[p] : msg[i].seq = s THEN doubled \cup {p}
                  ELSE doubled
    /\ Receive(p, s)
    /\ StartPushing(t)

\* handle_client has read a message and numbered it.
PushEvent(c, p, s) == Reading(c) /\ conn[c] # "gone" /\ HandOver(c, p, s)

\* send_via_channel("mesh") by a worker: a message that was numbered, and handed
\* over by the handler of its client if it passed the check, is handed over again.
PushSent(w, p, s) == HandOver(w, p, s)

\* One round of _reorder_timeout_loop.
LoopRound ==
    /\ running = Nobody /\ task[Loop].stage = "read"
    /\ CheckTimeouts
    /\ StartPushing(Loop)
    /\ UNCHANGED doubled

\* Mutant: the first subscriber that is dead ends the round.
AfterDead_Break(t) == [task[t] EXCEPT !.targets = <<>>,
                                      !.dead = @ \cup {task[t].targets[1]}]

\* The subscriber is entered in dead_ids, and the loop goes on.
AfterDead(t) == [task[t] EXCEPT !.targets = Tail(@),
                                !.dead = @ \cup {task[t].targets[1]}]

\* Mutant: after a drain that had to wait the write is made again.
AfterWait_Again(t) == [task[t] EXCEPT !.stage = "write"]

AfterWait(t) == [task[t] EXCEPT !.stage = "write", !.targets = Tail(@)]

\* One turn of the loop of _push_single: the message is written, and the drain
\* returns at once, suspends, or raises.  A socket that is gone takes nothing.
WriteNext(t) ==
    /\ running = t /\ task[t].targets # <<>>
    /\ LET n == task[t].targets[1]
           c == owner[n]
           m == task[t].ready[1]
       IN IF Excluded(t, n)
            THEN /\ task' = [task EXCEPT ![t].targets = Tail(@)]
                 /\ UNCHANGED <<running, wire>>
            ELSE /\ wire' = [wire EXCEPT ![n] = IF conn[c] = "gone" THEN @
                                                ELSE Append(@, m)]
                 /\ CASE conn[c] = "ok" ->
                           /\ task' = [task EXCEPT ![t].targets = Tail(@)]
                           /\ UNCHANGED running
                      [] conn[c] = "gone" /\ c \notin ended ->
                           /\ task' = [task EXCEPT ![t] = AfterDead(t)]
                           /\ UNCHANGED running
                      [] OTHER ->
                           /\ task' = [task EXCEPT ![t].stage = "drain"]
                           /\ running' = Nobody
    /\ UNCHANGED <<reorderVars, conn, ended, owner, subs, pushed, aborted,
                   audience, inHand, doubled, slowed, lost>>

\* An awaited drain returns; also when the connection was closed in order.
DrainReturns(t) ==
    /\ running = Nobody /\ task[t].stage = "drain"
    /\ LET c == owner[task[t].targets[1]] IN
         conn[c] = "ok" \/ (conn[c] = "gone" /\ c \in ended)
    /\ task' = [task EXCEPT ![t] = AfterWait(t)]
    /\ running' = t
    /\ UNCHANGED <<reorderVars, conn, ended, owner, subs, wire, pushed, aborted,
                   audience, inHand, doubled, slowed, lost>>

\* An awaited drain raises, since the connection is lost.
DrainRaises(t) ==
    /\ running = Nobody /\ task[t].stage = "drain"
    /\ conn[owner[task[t].targets[1]]] = "gone"
    /\ task' = [task EXCEPT ![t] = [AfterDead(t) EXCEPT !.stage = "write"]]
    /\ running' = t
    /\ UNCHANGED <<reorderVars, conn, ended, owner, subs, wire, pushed, aborted,
                   audience, inHand, doubled, slowed, lost>>

\* All subscribers have been tried: those that are dead are deleted, and the
\* next message of the list is next.
MessageDone(t) ==
    /\ running = t /\ task[t].targets = <<>>
    /\ task[t].dead \subseteq subs
    /\ subs' = subs \ task[t].dead
    /\ pushed' = pushed \cup {task[t].ready[1]}
    /\ LET rest == Tail(task[t].ready) IN
         IF rest = <<>>
           THEN /\ task' = [task EXCEPT ![t] = Idle]
                /\ running' = Nobody
           ELSE /\ task' = [task EXCEPT ![t] =
                     [@ EXCEPT !.ready = rest, !.dead = {},
                               !.targets = Subscribers(subs \ task[t].dead)]]
                /\ UNCHANGED running
    /\ UNCHANGED <<reorderVars, conn, ended, owner, wire, aborted, audience,
                   inHand, doubled, slowed, lost>>

\* A dead subscriber is deleted that somebody else has deleted: the exception
\* leaves the rest of the list unpushed.  It ends the handler of a connection;
\* the loop, and send_via_channel for a worker, catch it.
PushAborts(t) ==
    /\ running = t /\ task[t].targets = <<>>
    /\ ~(task[t].dead \subseteq subs)
    /\ LET before == {n \in task[t].dead : \A m \in task[t].dead :
                                             m <= n => m \in subs}
       IN IF t \notin Senders
            THEN /\ subs' = subs \ before
                 /\ UNCHANGED <<conn, ended>>
            ELSE /\ subs' = AfterHandler(t, subs \ before)
                 /\ conn' = [conn EXCEPT ![t] = "gone"]
                 /\ ended' = ended \cup {t}
    /\ pushed' = pushed \cup {task[t].ready[1]}
    /\ aborted' = aborted \cup Listed(Tail(task[t].ready))
    /\ task' = [task EXCEPT ![t] = Idle]
    /\ running' = Nobody
    /\ UNCHANGED <<reorderVars, owner, wire, audience, inHand, doubled,
                   slowed, lost>>

Runs(t) == WriteNext(t) \/ MessageDone(t) \/ PushAborts(t)
DrainEnds(t) == DrainReturns(t) \/ DrainRaises(t)

Time == Tick /\ running = Nobody /\ UNCHANGED pushVars

Next ==
    \/ \E c \in Listeners : \/ Subscribe(c) \/ HandlerEnds(c)
                            \/ Lose(c) \/ Slows(c) \/ CatchesUp(c)
    \/ \E c \in Conns : \E n \in OwnedBy(c) : Unsubscribe(c, n)
    \/ \E c \in Senders, p \in Pairs, s \in SeqNum : PushEvent(c, p, s)
    \/ \E w \in Workers, p \in Pairs, s \in SeqNum : PushSent(w, p, s)
    \/ LoopRound
    \/ \E t \in Tasks : Runs(t) \/ DrainReturns(t) \/ DrainRaises(t)
    \/ Time

Spec == Init /\ [][Next]_vars

\* A task that can run runs, time passes, and the loop makes its rounds, since
\* it catches every exception.  A slow peer catches up or is lost: that is asked
\* of the peers, since the code waits for a drain without a limit.
FairSpec ==
    /\ Spec
    /\ WF_vars(Time) /\ WF_vars(LoopRound)
    /\ WF_vars(\E t \in Tasks : Runs(t))
    /\ \A t \in Tasks : WF_vars(DrainEnds(t))
    /\ \A c \in Listeners : WF_vars(CatchesUp(c))
-----------------------------------------------------------------------------
(* Properties *)

\* How often message i was written for subscription n.
Copies(n, i) == Cardinality({k \in DOMAIN wire[n] : wire[n][k] = i})

\* A dead subscriber, or one that comes or goes in the middle, costs no other
\* subscriber a message: whatever the buffer released is still being pushed,
\* or was cut off by the exception of _push_single, for which a connection must
\* have been lost, or was written once for each subscription that was there all
\* the time and still has its connection.
NoneLeftOut ==
    \A i \in Released \ InHand :
        \/ i \in aborted /\ lost > 0
        \/ /\ i \in pushed
           /\ \A n \in audience[i] \cap subs :
                conn[owner[n]] # "gone" => Copies(n, i) = 1

\* No subscription gets a message twice: what was handed over once is written
\* once, however drains wait or fail; and of two hand-overs with one number, by the
\* handler of the client and again by a worker, one is written, whatever was late,
\* overtaken or released by a timeout.  That fails once a number has come again
\* while it was held back: both are then in the buffer, and one of them stays at
\* its head until a timeout sets what is expected back to the number after it.
PushedOnce ==
    /\ \A n \in Sid, i \in MsgId : Copies(n, i) <= 1
    /\ bufferFull = 0 =>
         \A n \in Sid : \A i, j \in Listed(wire[n]) :
           msg[i].pair = msg[j].pair /\ msg[i].seq = msg[j].seq =>
             i = j \/ msg[i].pair \in doubled

\* What a subscriber sees of a pair is in the order of the numbers, but for
\* one case: a message may overtake those that were released before it and
\* whose push was suspended when it came.
OvertakesOnlySuspended ==
    bufferFull = 0 =>
        \A n \in Sid : \A a, b \in DOMAIN wire[n] :
            LET i == wire[n][a]
                j == wire[n][b]
            IN (/\ a < b /\ msg[i].pair = msg[j].pair /\ Unique(msg[i].pair)
                /\ msg[i].seq > msg[j].seq)
                   => j \in inHand[i]

\* The clock stops before everything that is held with i has waited too long.
ClockStops(i) == /\ now = MaxTime /\ i \in Buffered
                 /\ \E j \in buffers[msg[i].pair] : now - msg[j].at <= REORDER_TIMEOUT

\* Every message that is handed to the buffer leaves the router in the end: it
\* was pushed, or cut off by an exception, or dropped as a copy; unless it
\* waits for a time that MaxTime excludes.
EventuallyPushed ==
    <>[](\A i \in Arrived :
            \/ i \in pushed \cup aborted \cup duplicates \cup discarded
            \/ ClockStops(i))
=============================================================================
