-------------------------------- MODULE Pbft --------------------------------
(***************************************************************************)
(* PBFT of snin_pbft.py: the replicas of class PBFTReplica and the ordered *)
(* broadcast of class PBFTCluster.                                         *)
(*                                                                         *)
(* Nothing the handlers await suspends: the queue has no limit and is not  *)
(* read when empty.  So a handler is one step, and once the delivery of    *)
(* the queue has begun it goes on until the queue is empty.  Calls of      *)
(* handle_request and start_view_change come in between; they leave their  *)
(* messages in the queue, as the self-test of the module does.             *)
(*                                                                         *)
(* Signatures are never verified, and all replicas follow the code.  The   *)
(* certificates of a VIEW-CHANGE, the pre_prepares of an entry and the     *)
(* NEW-VIEW message are read by nobody, and left out.                      *)
(***************************************************************************)
EXTENDS Integers, FiniteSets, Sequences

CONSTANTS
    N,                    \* replicas
    Digests, NoDigest,    \* what a request is known by
    Window,               \* high_water - low_water
    CheckpointInterval,
    MaxRequests,          \* bound: requests accepted
    MaxView,              \* bound: views voted for
    MaxCalls              \* bound: both together

Replicas == 0..(N - 1)
f        == (N - 1) \div 3
Quorum   == 2 * f + 1
Numbers  == 0..MaxRequests
Views    == 0..MaxView

ASSUME PbftAssumption ==
    /\ N \in Nat \ {0} /\ NoDigest \notin Digests
    /\ Window \in Nat \ {0}
    /\ CheckpointInterval \in Nat /\ CheckpointInterval >= Window
    /\ MaxRequests \in Nat /\ MaxView \in Nat /\ MaxCalls \in Nat

VARIABLES
    queue,         \* _broadcast_queue
    turn,          \* the replica that is next to get the first message
    draining,      \* the delivery of the queue has begun
    view, seqNum, lastExecuted, log,
    checkpoint,    \* low_water and last_checkpoint, which never differ
    active,        \* replicas with view_change_active
    votes,         \* view_change_votes
    accepted,      \* history: number and digest of each request accepted
    executed,      \* history: what each replica executed, in order
    mixed          \* history: a request and a view change were under way at once

vars == <<queue, turn, draining, view, seqNum, lastExecuted, log, checkpoint,
          active, votes, accepted, executed, mixed>>

NoPrepare == [view |-> -1, digest |-> NoDigest]

\* A PBFTLogEntry; the one of an absent key has no digest.
Entry(v, d) == [view     |-> v,
                digest   |-> d,
                prepares |-> [s \in Replicas |-> NoPrepare],
                commits  |-> [s \in Replicas |-> NoDigest],
                executed |-> FALSE]
Absent == Entry(-1, NoDigest)

Message(type, v, n, d, s) ==
    [type |-> type, view |-> v, n |-> n, digest |-> d, sender |-> s]

Init ==
    /\ queue = <<>> /\ turn = 0 /\ draining = FALSE
    /\ view = [r \in Replicas |-> 0]
    /\ seqNum = [r \in Replicas |-> 0]
    /\ lastExecuted = [r \in Replicas |-> -1]
    /\ log = [r \in Replicas |-> [n \in Numbers |-> Absent]]
    /\ checkpoint = [r \in Replicas |-> 0]
    /\ active = {}
    /\ votes = [r \in Replicas |-> [v \in Views |-> {}]]
    /\ accepted = <<>>
    /\ executed = [r \in Replicas |-> <<>>]
    /\ mixed = FALSE

IsPrimary(r)   == view[r] % N = r
HighWater(r)   == checkpoint[r] + Window
Has(r, n)      == log[r][n].digest # NoDigest
SameView       == \A r, q \in Replicas : view[r] = view[q]
Voted(v)       == \E r \in Replicas : votes[r][v] # {}
Queued(types)  == \E k \in DOMAIN queue : queue[k].type \in types

\* _is_prepared, asked of an entry.
Prepared(e, v) ==
    /\ e.view = v
    /\ Cardinality({s \in Replicas : e.prepares[s] = [view |-> v, digest |-> e.digest]})
         >= Quorum

\* _is_committed_local, asked of an entry.
Committed(e) ==
    Cardinality({s \in Replicas : e.commits[s] = e.digest}) >= Quorum

\* Mutant: an entry that was executed is executed again.
Executes_Again(e) == Committed(e)

\* What handle_commit asks of an entry before it is executed.
Executes(e) == Committed(e) /\ ~e.executed
-----------------------------------------------------------------------------
(* Calls *)

\* The entry the primary makes.
OwnEntry(r, d) == Entry(view[r], d)

\* handle_request, on the replica that takes itself for the primary.
HandleRequest(r, d) ==
    /\ ~draining
    /\ IsPrimary(r)
    /\ LET n == seqNum[r] IN
         /\ n < HighWater(r)
         /\ Len(accepted) < MaxRequests /\ n \in Numbers
         /\ \A v \in Views : Voted(v) => Len(accepted) + v < MaxCalls
         /\ log' = [log EXCEPT ![r] = [@ EXCEPT ![n] = OwnEntry(r, d)]]
         /\ seqNum' = [seqNum EXCEPT ![r] = n + 1]
         /\ queue' = Append(queue, Message("pre_prepare", view[r], n, d, r))
         /\ accepted' = Append(accepted, <<n, d>>)
    /\ mixed' = (mixed \/ Queued({"view_change"}) \/ ~SameView)
    /\ UNCHANGED <<turn, draining, view, lastExecuted, checkpoint, active,
                   votes, executed>>

\* start_view_change.
StartViewChange(r) ==
    /\ ~draining
    /\ r \notin active
    /\ view[r] < MaxView /\ Len(accepted) + view[r] < MaxCalls
    /\ active' = active \cup {r}
    /\ votes' = [votes EXCEPT ![r][view[r] + 1] = @ \cup {r}]
    /\ queue' = Append(queue, Message("view_change", view[r] + 1, 0, NoDigest, r))
    /\ mixed' = (mixed \/ Queued({"pre_prepare"}))
    /\ UNCHANGED <<turn, draining, view, seqNum, lastExecuted, log, checkpoint,
                   accepted, executed>>
-----------------------------------------------------------------------------
(* Delivery: the first message goes to each replica in turn *)

\* The replica whose turn it is is done, and broadcasts what is in out.
Advance(out) ==
    /\ turn' = (turn + 1) % N
    /\ queue' = (IF turn = N - 1 THEN Tail(queue) ELSE queue) \o out
    /\ draining' = (queue' # <<>>)

Receives(r, m, type) ==
    /\ queue # <<>> /\ r = turn /\ m = queue[1]
    /\ m.type = type
    /\ r # m.sender

\* _send_commit, for an entry that is prepared: what becomes of the entry, and
\* what is broadcast.
WithCommit(r, e)  == [e EXCEPT !.commits = [@ EXCEPT ![r] = e.digest]]
Commit(r, n, e)   == Message("commit", view[r], n, e.digest, r)

SetEntry(r, n, e) == log' = [log EXCEPT ![r] = [@ EXCEPT ![n] = e]]

AcceptsPrePrepare(r, m) ==
    /\ ~IsPrimary(r)
    /\ m.view = view[r]
    /\ checkpoint[r] <= m.n /\ m.n < HighWater(r)

\* The entry there is for the number of a PRE-PREPARE, whatever its view and
\* digest are, or else a new one.
EntryFor(r, m) == IF Has(r, m.n) THEN log[r][m.n] ELSE Entry(m.view, m.digest)

HandlePrePrepare(r, m) ==
    /\ Receives(r, m, "pre_prepare")
    /\ AcceptsPrePrepare(r, m)
    /\ LET own == [view |-> view[r], digest |-> m.digest]
           e   == [EntryFor(r, m) EXCEPT !.prepares = [@ EXCEPT ![r] = own]]
           out == <<Message("prepare", view[r], m.n, m.digest, r)>>
       IN IF Prepared(e, view[r])
            THEN /\ SetEntry(r, m.n, WithCommit(r, e))
                 /\ Advance(Append(out, Commit(r, m.n, e)))
            ELSE /\ SetEntry(r, m.n, e)
                 /\ Advance(out)
    /\ UNCHANGED <<view, seqNum, lastExecuted, checkpoint, active, votes,
                   accepted, executed, mixed>>

HandlePrepare(r, m) ==
    /\ Receives(r, m, "prepare")
    /\ Has(r, m.n)
    /\ LET sent == [view |-> m.view, digest |-> m.digest]
           e    == [log[r][m.n] EXCEPT !.prepares = [@ EXCEPT ![m.sender] = sent]]
       IN IF Prepared(e, m.view)
            THEN /\ SetEntry(r, m.n, WithCommit(r, e))
                 /\ Advance(<<Commit(r, m.n, e)>>)
            ELSE /\ SetEntry(r, m.n, e)
                 /\ Advance(<<>>)
    /\ UNCHANGED <<view, seqNum, lastExecuted, checkpoint, active, votes,
                   accepted, executed, mixed>>

\* handle_request gives out no number from HighWater on, so that with the constants of
\* the code, where the window is the interval, this never comes about.
CheckpointDue(r, n) == n - checkpoint[r] >= CheckpointInterval

\* _execute_request and _create_checkpoint.
Execute(r, n, e) ==
    /\ executed' = [executed EXCEPT ![r] = Append(@, <<n, e.digest>>)]
    /\ lastExecuted' = [lastExecuted EXCEPT ![r] = IF n > @ THEN n ELSE @]
    /\ LET done == [log[r] EXCEPT ![n] = [e EXCEPT !.executed = TRUE]] IN
         IF CheckpointDue(r, n)
           THEN /\ checkpoint' = [checkpoint EXCEPT ![r] = n]
                /\ log' = [log EXCEPT ![r] = [k \in Numbers |->
                             IF k < n THEN Absent ELSE done[k]]]
           ELSE /\ UNCHANGED checkpoint
                /\ log' = [log EXCEPT ![r] = done]

HandleCommit(r, m) ==
    /\ Receives(r, m, "commit")
    /\ Has(r, m.n)
    /\ LET e == [log[r][m.n] EXCEPT !.commits = [@ EXCEPT ![m.sender] = m.digest]]
       IN IF Executes(e)
            THEN Execute(r, m.n, e)
            ELSE /\ SetEntry(r, m.n, e)
                 /\ UNCHANGED <<lastExecuted, checkpoint, executed>>
    /\ Advance(<<>>)
    /\ UNCHANGED <<view, seqNum, active, votes, accepted, mixed>>

\* Mutant: the new primary counts on from the number it had.
FirstNumber_Keeps(r) == seqNum[r]

\* The number the next request gets after _enter_new_view.
FirstNumber(r) == lastExecuted[r] + 1

\* Mutant: one vote more than a quorum is needed.
EnoughVotes_More(voters) == Cardinality(voters) > Quorum

EnoughVotes(voters) == Cardinality(voters) >= Quorum

HandleViewChange(r, m) ==
    /\ Receives(r, m, "view_change")
    /\ LET all == votes[r][m.view] \cup {m.sender} IN
         /\ votes' = [votes EXCEPT ![r] = [@ EXCEPT ![m.view] = all]]
         /\ IF EnoughVotes(all)
              THEN /\ view' = [view EXCEPT ![r] = m.view]
                   /\ active' = active \ {r}
                   /\ seqNum' = [seqNum EXCEPT ![r] = FirstNumber(r)]
              ELSE UNCHANGED <<view, active, seqNum>>
    /\ Advance(<<>>)
    /\ UNCHANGED <<lastExecuted, log, checkpoint, accepted, executed, mixed>>

\* A message is not for this replica, or the handler returns at once.
Ignore ==
    /\ queue # <<>>
    /\ LET m == queue[1] IN
         \/ turn = m.sender
         \/ m.type = "pre_prepare" /\ ~AcceptsPrePrepare(turn, m)
         \/ m.type \in {"prepare", "commit"} /\ ~Has(turn, m.n)
    /\ Advance(<<>>)
    /\ UNCHANGED <<view, seqNum, lastExecuted, log, checkpoint, active, votes,
                   accepted, executed, mixed>>

Deliver ==
    /\ queue # <<>>
    /\ LET m == queue[1] IN \/ HandlePrePrepare(turn, m) \/ HandlePrepare(turn, m)
                            \/ HandleCommit(turn, m) \/ HandleViewChange(turn, m)
                            \/ Ignore

Next == \/ \E r \in Replicas : \/ \E d \in Digests : HandleRequest(r, d)
                               \/ StartViewChange(r)
        \/ Deliver

Spec == Init /\ [][Next]_vars
-----------------------------------------------------------------------------
(* Properties *)

\* Whatever the cluster accepted has been executed by every replica, once and
\* in the order of acceptance, when the queue has been delivered; also over
\* view changes, as long as none is under way at the same time as a request.
AcceptedIsExecuted ==
    (queue = <<>> /\ ~mixed) => \A r \in Replicas : executed[r] = accepted

\* What a number stands for, once a replica has executed it.
Chosen(n) ==
    LET under == {d \in Digests : \E r \in Replicas :
                     \E k \in DOMAIN executed[r] : executed[r][k] = <<n, d>>}
    IN IF under = {} THEN NoDigest ELSE CHOOSE d \in under : TRUE

Log == INSTANCE ReplicatedLog WITH
         requested <- {accepted[k] : k \in DOMAIN accepted},
         chosen    <- [n \in Numbers |-> Chosen(n)],
         applied   <- [r \in Replicas |->
                         [k \in DOMAIN executed[r] |-> executed[r][k][1]]]

\* Until a view change and a request are under way at the same time, the replicas
\* implement a replicated log, over any number of view changes: what is executed
\* was requested, a number stands for the same request on all replicas, and no
\* replica executes a number twice or after a later one.
ImplementsLog == Log!Init /\ [][mixed' \/ Log!Next]_(Log!logVars)

\* A number stands for the same request on every replica that executed it: the
\* "replicas agree on ordering" (line 12).
SameOrder ==
    \A r, q \in Replicas : \A j \in DOMAIN executed[r], k \in DOMAIN executed[q] :
        executed[r][j][1] = executed[q][k][1] => executed[r][j][2] = executed[q][k][2]

\* After the delivery at most one replica is in an older view than the others:
\* the one whose vote completed the quorum, which does not count its own.
OnlyLastVoterLags ==
    queue = <<>> =>
        \A r, q \in Replicas : view[r] < view[q] =>
            /\ r \in active
            /\ Cardinality(votes[r][view[q]]) = Quorum
            /\ \A p \in Replicas \ {r} : view[p] = view[q]
=============================================================================
