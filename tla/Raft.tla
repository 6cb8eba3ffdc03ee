-------------------------------- MODULE Raft --------------------------------
(***************************************************************************)
(* The RAFT engine of snin_raft.py: elections, log replication and the     *)
(* state it saves, on nodes that call each other by NATS request/reply.    *)
(*                                                                         *)
(* A handler of an RPC runs to its end without an await, so it is one      *)
(* step.  The callers are coroutines: an election or a round of heartbeats *)
(* (task "main", the main loop) and one task per proposed command.  Each   *)
(* calls its peers one after the other and awaits every reply, or its      *)
(* timeout of 2 s; between two calls everything may happen, and the code   *)
(* goes on with its own local count of votes or list of peers.             *)
(*                                                                         *)
(* Log positions are counted, not indexed: commit[n] is commit_index + 1,  *)
(* matched is match_index + 1, and next is next_index, the number of       *)
(* entries that precede it.                                                *)
(*                                                                         *)
(* A command is bytes.  A request carries it as text, each byte a character *)
(* (latin-1, nothing is lost); the follower encodes the text as UTF-8,      *)
(* which writes two bytes for each byte from 0x80 on.  A command that has   *)
(* such a byte is longer and another one wherever it is stored again.       *)
(***************************************************************************)
EXTENDS Integers, Sequences, FiniteSets

CONSTANTS
    Node,        \* the node ids
    PeerSeq,     \* RaftEngine.peers of each node, in the order it calls them
    Command,     \* commands a client may propose, each at most once
    Plain,       \* those of them that have no byte from 0x80 on
    Nil,         \* Python's None
    MaxTerm,     \* bound: no election is started in this term
    Candidates,  \* bound: nodes whose election timeout may expire
    MaxElections,\* bound: number of elections (campaigns of a node in a term)
    MaxLate,     \* bound: requests under way that nobody waits for
    MaxRestarts  \* bound: number of restarts of nodes

ASSUME NodeAssumption ==
    /\ IsFiniteSet(Node) /\ Cardinality(Node) > 1
    /\ Nil \notin Node
    /\ PeerSeq \in [Node -> Seq(Node)]
    /\ \A n \in Node : /\ Len(PeerSeq[n]) = Cardinality(Node) - 1
                       /\ {PeerSeq[n][i] : i \in 1..Len(PeerSeq[n])} = Node \ {n}
ASSUME TaskAssumption == "main" \notin Command /\ Plain \subseteq Command
ASSUME BoundAssumption ==
    /\ Candidates \subseteq Node
    /\ MaxTerm \in Nat /\ MaxElections \in Nat
    /\ MaxLate \in Nat /\ MaxRestarts \in Nat

VARIABLES
    role,       \* "follower", "candidate" or "leader"
    term,       \* current_term
    votedFor,   \* voted_for
    leaderId,   \* leader_id
    log,        \* the entries: term, command and how often it was encoded anew
    commit,     \* commit_index + 1
    applied,    \* entries given to the on_commit callbacks; last_applied + 1 of them
    next,       \* next_index
    matched,    \* match_index + 1
    saved,      \* the state file: term, votedFor, commit
    call,       \* what each task of a node is doing
    net,        \* requests under way, in order, per subject and sender
    proposed,   \* commands proposed so far
    restarts,   \* number of restarts so far
    grants,     \* history: <<voter, term, candidate>> for every vote given
    elected     \* history: <<node, term>> for every election won, with its term

nodeVars == <<role, term, votedFor, leaderId>>
logVars  == <<log, commit, applied>>
peerVars == <<next, matched>>
auxVars  == <<saved, proposed, restarts, grants, elected>>
vars == <<nodeVars, logVars, peerVars, auxVars, call, net>>

Task == {"main"} \cup Command
Kind == {"vote", "append"}
LogEntry == [term: Nat, cmd: Command, coded: Nat]

Peers(n) == Node \ {n}
Last(n)  == IF log[n] = <<>> THEN 0 ELSE log[n][Len(log[n])].term

\* Mutant: half of the nodes is taken for a majority.
Quorum_Half == Cardinality(Node) \div 2

Quorum == (Cardinality(Node) \div 2) + 1

Idle == [stage |-> "idle", kind |-> "append", peer |-> 0, votes |-> 0,
         rpc |-> Nil, reply |-> Nil]
Dead == [Idle EXCEPT !.stage = "dead"]

Init ==
    /\ role = [n \in Node |-> "follower"]
    /\ term = [n \in Node |-> 0]
    /\ votedFor = [n \in Node |-> Nil]
    /\ leaderId = [n \in Node |-> Nil]
    /\ log = [n \in Node |-> <<>>]
    /\ commit = [n \in Node |-> 0]
    /\ applied = [n \in Node |-> <<>>]
    /\ next = [n \in Node |-> [p \in Node |-> 0]]
    /\ matched = [n \in Node |-> [p \in Node |-> 0]]
    /\ saved = [n \in Node |-> [term |-> 0, votedFor |-> Nil, commit |-> 0]]
    /\ call = [n \in Node |-> [t \in Task |-> Idle]]
    /\ net = [k \in Kind |-> [s \in Node |-> [d \in Node |-> <<>>]]]
    /\ proposed = {}
    /\ restarts = 0
    /\ grants = {} /\ elected = {}
-----------------------------------------------------------------------------
\* _rpc_call: task t of n publishes the request and awaits the reply.
Request(n, t, k, i, votes, rpc) ==
    /\ call' = [call EXCEPT ![n][t] =
                  [stage |-> "sent", kind |-> k, peer |-> i, votes |-> votes,
                   rpc |-> rpc, reply |-> Nil]]
    /\ net' = [net EXCEPT ![k][n][PeerSeq[n][i]] =
                 Append(@, [task |-> t, live |-> TRUE, rpc |-> rpc])]

\* _send_append_entries up to its await, for the i-th peer, by task t of n whose
\* log is lg and whose commit index is c.  Each byte of a command becomes one
\* character, so the text stands for the same entry.  When next_index points
\* beyond the log the lookup of the previous entry raises and ends the task.
SendAppend(n, t, i, lg, c) ==
    LET prev == next[n][PeerSeq[n][i]] IN
    IF prev > Len(lg)
    THEN call' = [call EXCEPT ![n][t] = Dead] /\ UNCHANGED net
    ELSE Request(n, t, "append", i, 0,
                 [term |-> term[n], from |-> n, prev |-> prev,
                  prevTerm |-> IF prev = 0 THEN 0 ELSE lg[prev].term,
                  entries |-> SubSeq(lg, prev + 1, Len(lg)), commit |-> c])

\* _start_election up to its first await.
StartElection(n) ==
    /\ role[n] # "leader"
    /\ call[n]["main"].stage = "idle"
    /\ n \in Candidates /\ term[n] < MaxTerm
    /\ Cardinality({g \in grants : g[1] = g[3]}) < MaxElections
    /\ role' = [role EXCEPT ![n] = "candidate"]
    /\ term' = [term EXCEPT ![n] = @ + 1]
    /\ votedFor' = [votedFor EXCEPT ![n] = n]
    /\ grants' = grants \cup {<<n, term[n] + 1, n>>}
    /\ Request(n, "main", "vote", 1, 1,
               [term |-> term[n] + 1, from |-> n, lastIndex |-> Len(log[n]),
                lastTerm |-> Last(n)])
    /\ UNCHANGED <<leaderId, logVars, peerVars, saved, proposed, restarts, elected>>

\* The main loop of a leader sends a round of heartbeats.
SendHeartbeats(n) ==
    /\ role[n] = "leader"
    /\ call[n]["main"].stage = "idle"
    /\ SendAppend(n, "main", 1, log[n], commit[n])
    /\ UNCHANGED <<nodeVars, logVars, peerVars, auxVars>>

\* propose: only a leader appends, and replicates at once.
Propose(n, c) ==
    /\ c \notin proposed
    /\ role[n] = "leader"
    /\ proposed' = proposed \cup {c}
    /\ log' = [log EXCEPT ![n] = Append(@, [term |-> term[n], cmd |-> c, coded |-> 0])]
    /\ SendAppend(n, c, 1, log'[n], commit[n])
    /\ UNCHANGED <<nodeVars, commit, applied, peerVars, saved, restarts, grants,
                   elected>>
-----------------------------------------------------------------------------
\* A call that has its reply, or Nil instead of it.
Answered(c, reply) == [c EXCEPT !.stage = "answered", !.reply = reply]

\* The request at the head of queue k from s to n is taken, and answered if its
\* caller still waits.
Answer(n, s, k, reply) ==
    LET m == Head(net[k][s][n]) IN
      /\ net' = [net EXCEPT ![k][s][n] = Tail(@)]
      /\ call' = IF m.live
                 THEN [call EXCEPT ![s][m.task] = Answered(@, reply)]
                 ELSE call

\* Mutant: the vote is forgotten at every request, not only at a newer term.
VoteOf_ResetAlways(n, rpc) == IF rpc.term >= term[n] THEN Nil ELSE votedFor[n]

\* The vote of n once it has looked at the term of a request.
VoteOf(n, rpc) == IF rpc.term > term[n] THEN Nil ELSE votedFor[n]

\* Mutant: a vote is granted whoever was voted for.
Grants_Twice(n, rpc) ==
    /\ rpc.term >= term[n]
    /\ rpc.lastTerm > Last(n) \/ (rpc.lastTerm = Last(n) /\ rpc.lastIndex >= Len(log[n]))

\* A vote goes to one candidate of a term, whose log is up to date.
Grants(n, rpc) ==
    /\ rpc.term >= term[n]
    /\ VoteOf(n, rpc) \in {Nil, rpc.from}
    /\ rpc.lastTerm > Last(n) \/ (rpc.lastTerm = Last(n) /\ rpc.lastIndex >= Len(log[n]))

\* _handle_vote_request
HandleVote(n, s) ==
    /\ net["vote"][s][n] # <<>>
    /\ LET rpc   == Head(net["vote"][s][n]).rpc
           newer == rpc.term > term[n]
           grant == Grants(n, rpc)
       IN /\ term' = [term EXCEPT ![n] = IF newer THEN rpc.term ELSE @]
          /\ role' = [role EXCEPT ![n] = IF newer THEN "follower" ELSE @]
          /\ votedFor' = [votedFor EXCEPT ![n] = IF grant THEN rpc.from
                                                    ELSE VoteOf(n, rpc)]
          /\ grants' = IF grant THEN grants \cup {<<n, rpc.term, rpc.from>>}
                                ELSE grants
          /\ Answer(n, s, "vote", [granted |-> grant])
    /\ UNCHANGED <<leaderId, logVars, peerVars, saved, proposed, restarts, elected>>

\* A follower encodes the text of a command as UTF-8.
Stored(e) == IF e.cmd \in Plain THEN e ELSE [e EXCEPT !.coded = @ + 1]
StoredAll(entries) == [i \in 1..Len(entries) |-> Stored(entries[i])]

\* Mutant: the entries are appended to whatever the log holds.
NewLog_NoTruncate(n, rpc) == log[n] \o StoredAll(rpc.entries)

\* The log cut after the previous entry, then the entries of the request.
NewLog(n, rpc) == SubSeq(log[n], 1, rpc.prev) \o StoredAll(rpc.entries)

\* _handle_append_entries
HandleAppend(n, s) ==
    /\ net["append"][s][n] # <<>>
    /\ LET rpc == Head(net["append"][s][n]).rpc
           current == rpc.term >= term[n]
           match == /\ current
                    /\ \/ rpc.prev = 0
                       \/ /\ rpc.prev <= Len(log[n])
                          /\ log[n][rpc.prev].term = rpc.prevTerm
           newLog == IF match THEN NewLog(n, rpc) ELSE log[n]
       IN /\ term' = [term EXCEPT ![n] = IF current THEN rpc.term ELSE @]
          /\ votedFor' = [votedFor EXCEPT ![n] =
                            IF rpc.term > term[n] THEN Nil ELSE @]
          /\ role' = [role EXCEPT ![n] = IF current THEN "follower" ELSE @]
          /\ leaderId' = [leaderId EXCEPT ![n] = IF current THEN rpc.from ELSE @]
          /\ log' = [log EXCEPT ![n] = newLog]
          /\ commit' = [commit EXCEPT ![n] =
                          IF match /\ rpc.commit > @
                          THEN IF rpc.commit < Len(newLog) THEN rpc.commit
                               ELSE Len(newLog)
                          ELSE @]
          /\ Answer(n, s, "append",
                    [success |-> match,
                     matched |-> IF match THEN Len(newLog) ELSE 0])
    /\ UNCHANGED <<applied, peerVars, auxVars>>
-----------------------------------------------------------------------------
\* What _save_state writes: the log is not part of it.
StateOf(n) == [term |-> term[n], votedFor |-> votedFor[n], commit |-> commit[n]]

\* What a new leader takes for the next index of every peer.
NextOfLeader(n) == Len(log[n])

\* The vote of the peer just called is counted; then the next peer is called, or
\* the count alone decides: neither the role nor the term is looked at again.
ResumeElection(n, reply) ==
    LET c == call[n]["main"]
        votes == c.votes + (IF reply # Nil /\ reply.granted THEN 1 ELSE 0)
    IN /\ c.kind = "vote"
       /\ UNCHANGED <<term, votedFor, logVars, proposed, restarts, grants>>
       /\ \/ /\ c.peer < Len(PeerSeq[n])
             /\ Request(n, "main", "vote", c.peer + 1, votes, c.rpc)
             /\ UNCHANGED <<role, leaderId, peerVars, saved, elected>>
          \/ /\ c.peer = Len(PeerSeq[n])
             /\ votes < Quorum
             /\ call' = [call EXCEPT ![n]["main"] = Idle]
             /\ UNCHANGED <<role, leaderId, peerVars, saved, elected, net>>
          \/ /\ c.peer = Len(PeerSeq[n])
             /\ votes >= Quorum
             /\ call' = [call EXCEPT ![n]["main"] = Idle]
             \* _become_leader
             /\ role' = [role EXCEPT ![n] = "leader"]
             /\ leaderId' = [leaderId EXCEPT ![n] = n]
             /\ next' = [next EXCEPT ![n] = [p \in Node |-> NextOfLeader(n)]]
             /\ matched' = [matched EXCEPT ![n] = [p \in Node |-> 0]]
             /\ saved' = [saved EXCEPT ![n] = StateOf(n)]
             /\ elected' = elected \cup {<<n, c.rpc.term>>}
             /\ UNCHANGED net

\* Mutant: a position counts as matched one entry early.
Committable_OffByOne(n, mt) ==
    {i \in (commit[n] + 1)..Len(log[n]) :
       /\ log[n][i].term = term[n]
       /\ 1 + Cardinality({p \in Peers(n) : mt[p] >= i - 1}) >= Quorum}

\* _advance_commit: positions beyond the commit index that a majority matched
\* and that carry the current term.
Committable(n, mt) ==
    {i \in (commit[n] + 1)..Len(log[n]) :
       /\ log[n][i].term = term[n]
       /\ 1 + Cardinality({p \in Peers(n) : mt[p] >= i}) >= Quorum}

\* Mutant: everything up to the commit index is applied again.
ToApply_Again(n, top) == SubSeq(log[n], 1, top)

\* _apply_committed: the entries between last_applied and the commit index.
ToApply(n, top) == SubSeq(log[n], Len(applied[n]) + 1, top)

\* The reply of the peer just called moves next_index and match_index, and maybe
\* the commit index, whose entries are applied; then the next peer is called.
ResumeAppend(n, t, reply) ==
    LET c == call[n][t]
        p == PeerSeq[n][c.peer]
        ok == reply # Nil /\ reply.success
        mt == IF ok THEN [matched[n] EXCEPT ![p] = reply.matched] ELSE matched[n]
        found == IF ok THEN Committable(n, mt) ELSE {}
    IN /\ c.kind = "append"
       /\ matched' = [matched EXCEPT ![n] = mt]
       /\ next' = IF reply = Nil THEN next
                  ELSE [next EXCEPT ![n][p] =
                          IF ok THEN IF reply.matched > @ THEN reply.matched ELSE @
                          ELSE IF @ > 0 THEN @ - 1 ELSE 0]
       /\ \/ found = {} /\ UNCHANGED <<commit, applied>>
          \/ \E top \in found :
               /\ \A i \in found : i <= top
               /\ commit' = [commit EXCEPT ![n] = top]
               /\ applied' = [applied EXCEPT ![n] =
                                @ \o ToApply(n, top)]
       /\ IF c.peer < Len(PeerSeq[n])
          THEN SendAppend(n, t, c.peer + 1, log[n], commit'[n])
          ELSE call' = [call EXCEPT ![n][t] = Idle] /\ UNCHANGED net
       /\ UNCHANGED <<nodeVars, log, auxVars>>

\* The reply arrives.
Reply(n, t) ==
    /\ call[n][t].stage = "answered"
    /\ \/ t = "main" /\ ResumeElection(n, call[n][t].reply)
       \/ ResumeAppend(n, t, call[n][t].reply)

\* The reply is lost, or comes after the timeout.
ReplyLost(n, t) ==
    /\ call[n][t].stage = "answered"
    /\ \/ t = "main" /\ ResumeElection(n, Nil)
       \/ ResumeAppend(n, t, Nil)

\* Requests under way that nobody waits for.
LateRequests ==
    UNION {{<<k, s, d, i>> : i \in {i \in 1..Len(net[k][s][d]) : ~net[k][s][d][i].live}}
             : k \in Kind, s \in Node, d \in Node}

\* A request that is not answered in time: it is lost (its caller's timeout
\* follows), or it stays under way and nobody waits for its answer any more.
RequestLost(n, t) ==
    /\ call[n][t].stage = "sent"
    /\ LET c == call[n][t]
           d == PeerSeq[n][c.peer]
           q == net[c.kind][n][d]
       IN \E i \in 1..Len(q) :
            /\ q[i].task = t /\ q[i].live
            /\ \/ net' = [net EXCEPT ![c.kind][n][d] =
                            SubSeq(q, 1, i - 1) \o SubSeq(q, i + 1, Len(q))]
               \/ /\ Cardinality(LateRequests) < MaxLate
                  /\ net' = [net EXCEPT ![c.kind][n][d] = [@ EXCEPT ![i].live = FALSE]]
    /\ call' = [call EXCEPT ![n][t] = Answered(@, Nil)]
    /\ UNCHANGED <<nodeVars, logVars, peerVars, auxVars>>

\* Mutant: the vote is not read back.
Loaded_NoVote(file) == [file EXCEPT !.votedFor = Nil]

\* _load_state: the term, the vote and the commit index are read back.
Loaded(file) == file

\* A node stops, saving its state when it can, and starts again from the state
\* file: the log is not in it, and messages to the old process are lost.
Restart(n, graceful) ==
    /\ restarts < MaxRestarts
    /\ restarts' = restarts + 1
    /\ saved' = IF graceful THEN [saved EXCEPT ![n] = StateOf(n)] ELSE saved
    /\ LET file == Loaded(saved'[n]) IN
         /\ term' = [term EXCEPT ![n] = file.term]
         /\ votedFor' = [votedFor EXCEPT ![n] = file.votedFor]
         /\ commit' = [commit EXCEPT ![n] = file.commit]
    /\ role' = [role EXCEPT ![n] = "follower"]
    /\ leaderId' = [leaderId EXCEPT ![n] = Nil]
    /\ log' = [log EXCEPT ![n] = <<>>]
    /\ applied' = [applied EXCEPT ![n] = <<>>]
    /\ next' = [next EXCEPT ![n] = [p \in Node |-> 0]]
    /\ matched' = [matched EXCEPT ![n] = [p \in Node |-> 0]]
    /\ call' = [m \in Node |-> [t \in Task |->
                  IF m = n THEN Idle
                  ELSE IF /\ call[m][t].stage = "sent"
                          /\ PeerSeq[m][call[m][t].peer] = n
                       THEN Answered(call[m][t], Nil)
                       ELSE call[m][t]]]
    /\ net' = [k \in Kind |-> [s \in Node |-> [d \in Node |->
                 IF d = n THEN <<>>
                 ELSE IF s = n
                      THEN [i \in 1..Len(net[k][s][d]) |->
                              [net[k][s][d][i] EXCEPT !.live = FALSE]]
                      ELSE net[k][s][d]]]]
    /\ UNCHANGED <<proposed, grants, elected>>
-----------------------------------------------------------------------------
Next ==
    \E n \in Node :
      \/ StartElection(n)
      \/ SendHeartbeats(n)
      \/ \E c \in Command : Propose(n, c)
      \/ \E s \in Peers(n) : HandleVote(n, s) \/ HandleAppend(n, s)
      \/ \E t \in Task : Reply(n, t) \/ ReplyLost(n, t) \/ RequestLost(n, t)
      \/ \E graceful \in BOOLEAN : Restart(n, graceful)

Spec == Init /\ [][Next]_vars

\* The event loops run: a leader starts its rounds, a request that is under way
\* is handled, and a reply that has come resumes its task.
Fairness ==
    \A n \in Node :
      /\ WF_vars(SendHeartbeats(n))
      /\ \A s \in Peers(n) : WF_vars(HandleVote(n, s) \/ HandleAppend(n, s))
      /\ \A t \in Task : WF_vars(Reply(n, t))
FairSpec == Spec /\ Fairness
-----------------------------------------------------------------------------
\* Type correctness: what requests, answers, calls and the state of a node are.
Stage       == {"idle", "sent", "answered", "dead"}
VoteRPC     == [term: Nat, from: Node, lastIndex: Nat, lastTerm: Nat]
AppendRPC   == [term: Nat, from: Node, prev: Nat, prevTerm: Nat,
                entries: Seq(LogEntry), commit: Nat]
VoteReply   == [granted: BOOLEAN]
AppendReply == [success: BOOLEAN, matched: Nat]
VoteCall    == [stage: Stage, kind: {"vote"}, peer: Nat, votes: Nat,
                rpc: VoteRPC, reply: {Nil} \cup VoteReply]
AppendCall  == [stage: Stage, kind: {"append"}, peer: Nat, votes: Nat,
                rpc: {Nil} \cup AppendRPC, reply: {Nil} \cup AppendReply]
Call        == VoteCall \cup AppendCall
Message     == [task: Task, live: BOOLEAN, rpc: VoteRPC \cup AppendRPC]
Vote        == Node \cup {Nil}

TypeOK ==
    /\ role \in [Node -> {"follower", "candidate", "leader"}]
    /\ term \in [Node -> Nat] /\ votedFor \in [Node -> Vote]
    /\ leaderId \in [Node -> Vote]
    /\ log \in [Node -> Seq(LogEntry)] /\ commit \in [Node -> Nat]
    /\ next \in [Node -> [Node -> Nat]] /\ matched \in [Node -> [Node -> Nat]]
    /\ saved \in [Node -> [term: Nat, votedFor: Vote, commit: Nat]]
    /\ call \in [Node -> [Task -> Call]]
    /\ net \in [Kind -> [Node -> [Node -> Seq(Message)]]]
    /\ proposed \subseteq Command /\ restarts \in Nat
    /\ grants \subseteq Node \X Nat \X Node /\ elected \subseteq Node \X Nat

\* While no node restarts, at most one node wins the election of a term: a vote
\* that is given is kept for its term, whatever requests come late and however
\* terms change between the calls of a candidate.  (A restart forgets a vote
\* that was given after the last _save_state.)
OneWinnerPerTerm ==
    restarts = 0 => \A a, b \in elected : a[2] = b[2] => a[1] = b[1]

\* A winner was voted for by a majority in the term it campaigned in: votes of
\* requests that were lost, late or of another campaign are not counted.
WinnerHasMajority ==
    \A e \in elected :
      2 * Cardinality({v \in Node : <<v, e[2], e[1]>> \in grants}) > Cardinality(Node)

\* A vote in the state file is honoured for its term, through every restart:
\* the node never gives another candidate a vote of that term.
SavedVoteHonoured ==
    [][\A g \in grants' \ grants :
         LET file == saved[g[1]] IN
           g[2] = file.term /\ file.votedFor # Nil => g[3] = file.votedFor]_vars

\* While nodes do not restart their terms only grow, and a vote changes only
\* together with the term.
TermsAndVotes ==
    [][restarts' = 0 => \A n \in Node :
         /\ term'[n] >= term[n]
         /\ votedFor[n] # Nil /\ votedFor'[n] # votedFor[n] => term'[n] > term[n]]_vars

IsPrefixOf(a, b) == Len(a) <= Len(b) /\ a = SubSeq(b, 1, Len(a))

\* The same command, proposed in the same term: byte for byte when every byte of
\* it is below 0x80.
SameEntry(a, b) == a.term = b.term /\ a.cmd = b.cmd /\ (a.cmd \in Plain => a = b)

\* One node was elected, maybe in several terms, and no node restarted.
Winners == {e[1] : e \in elected}
OneLeader == restarts = 0 /\ Cardinality(Winners) <= 1

\* While only one node was elected, every log has the entries of its log, from
\* the first one on and in its order: also when requests of its earlier terms
\* are still under way, when it was deposed in the middle of a round, and when
\* it was elected again.
LogsFollowLeader ==
    OneLeader => \A l \in Winners, n \in Node :
      /\ Len(log[n]) <= Len(log[l])
      /\ \A i \in 1..Len(log[n]) : SameEntry(log[n][i], log[l][i])

\* While only one node was elected, a committed entry is in the log of a
\* majority, whichever replies of the heartbeats and of the concurrent proposals
\* were lost or overtaken.
CommittedOnMajority ==
    OneLeader => \A n \in Node : \A i \in 1..commit[n] :
      2 * Cardinality({m \in Node : /\ Len(log[m]) >= i
                                    /\ SameEntry(log[m][i], log[n][i])})
        > Cardinality(Node)

\* While only one node was elected, what is applied is committed, in the order
\* of the log and once, however the tasks that advance the commit index overlap.
AppliedInOrder ==
    OneLeader => \A n \in Node :
      Len(applied[n]) <= commit[n] /\ IsPrefixOf(applied[n], log[n])

\* What a node has committed it gives to its callbacks in the end (on_commit: "a
\* callback for committed log entries").  The code does not: a follower learns
\* the commit index of its leader and applies nothing.
CommittedIsApplied ==
    \A n \in Node : commit[n] > 0 ~> Len(applied[n]) >= commit[n]
=============================================================================
