---------------------------- MODULE Raft_proofs ----------------------------
(***************************************************************************)
(* The RAFT engine, for any number of nodes, terms, elections, restarts    *)
(* and commands: who wins was voted for by a majority, there is one winner *)
(* per term while no node restarts, a vote in the state file counts, and   *)
(* while one node is elected the logs follow its log.                      *)
(*                                                                         *)
(* A vote is counted two awaits after it was given, and the candidate may  *)
(* have moved on meanwhile.  The invariant therefore says what a request   *)
(* under way, the call that waits for it and the count of the call know of *)
(* the votes that were given.                                              *)
(***************************************************************************)
EXTENDS Raft, FiniteSetTheorems, SequenceTheorems, TLAPS

\* A request for a vote comes from the main loop of its candidate.
RequestOK(m, k, s) ==
    IF k = "vote" THEN m.task = "main" /\ m.rpc \in VoteRPC /\ m.rpc.from = s
                  ELSE m.rpc \in AppendRPC

\* In the queue q of requests of kind k from s to d, with the calls of s: who
\* sent a live request still waits for its answer, and for no other.
Waits(q, calls, k, s, d) ==
    \A i \in 1..Len(q) :
      /\ RequestOK(q[i], k, s)
      /\ q[i].live =>
           /\ calls[q[i].task].stage = "sent" /\ calls[q[i].task].kind = k
           /\ PeerSeq[s][calls[q[i].task].peer] = d
           /\ calls[q[i].task].rpc = q[i].rpc
           /\ \A j \in 1..Len(q) : q[j].live /\ q[j].task = q[i].task => j = i

Queues == \A k \in Kind, s, d \in Node : Waits(net[k][s][d], call[s], k, s, d)

\* A call under way is a call of a peer; the task of a command that was not
\* proposed does nothing.
Tasks ==
    /\ \A n \in Node, t \in Task :
         call[n][t].stage = "sent" => call[n][t].peer \in 1..Len(PeerSeq[n])
    /\ \A n \in Node, c \in Command : c \notin proposed => call[n][c].stage = "idle"

\* The nodes that the count of a campaign covers when its i-th peer is called.
Counted(n, i) == {n} \cup {PeerSeq[n][j] : j \in 1..(i - 1)}

Voters(S, t, n, gs) == {v \in S : <<v, t, n>> \in gs}

\* A campaign counts votes that were given, to it and in its term.
CampaignOK(n, c, gs) ==
    c.stage \in {"sent", "answered"} /\ c.kind = "vote" =>
      /\ c.peer \in 1..Len(PeerSeq[n]) /\ c.rpc.from = n
      /\ c.votes <= Cardinality(Voters(Counted(n, c.peer), c.rpc.term, n, gs))
      /\ c.reply # Nil /\ c.reply.granted =>
           c.stage = "answered" /\ <<PeerSeq[n][c.peer], c.rpc.term, n>> \in gs

Campaigns == \A n \in Node : CampaignOK(n, call[n]["main"], grants)

\* Winners had a majority: the invariant that the steps keep.
ElectionInv == TypeOK /\ Queues /\ Tasks /\ Campaigns /\ WinnerHasMajority

-----------------------------------------------------------------------------
(* Nodes and their peers *)

\* A node calls each other node once.
LEMMA PeersDiffer ==
    ASSUME NEW n \in Node
    PROVE  /\ Len(PeerSeq[n]) \in Nat /\ Len(PeerSeq[n]) > 0
           /\ \A i \in 1..Len(PeerSeq[n]) : PeerSeq[n][i] \in Node \ {n}
           /\ \A i, j \in 1..Len(PeerSeq[n]) : PeerSeq[n][i] = PeerSeq[n][j] => i = j
           /\ Cardinality(Node) \in Nat
<1> DEFINE p == PeerSeq[n]
           f == [i \in 1..Len(p) |-> p[i]]
<1>1. p \in Seq(Node) /\ Len(p) = Cardinality(Node) - 1
      /\ {p[i] : i \in 1..Len(p)} = Node \ {n}
  BY NodeAssumption
<1>2. Cardinality(Node) \in Nat /\ Cardinality(Node) > 1 /\ IsFiniteSet(Node)
  BY NodeAssumption, FS_CardinalityType
<1>3. Len(p) \in Nat /\ Len(p) > 0
  BY <1>1, <1>2
<1>4. \A i \in 1..Len(p) : p[i] \in Node \ {n}
  BY <1>1
<1>5. f \in Surjection(1..Len(p), Node \ {n})
  BY <1>1, <1>4 DEF Surjection
<1>6. IsFiniteSet(1..Len(p)) /\ Cardinality(1..Len(p)) = Len(p)
  BY <1>3, FS_Interval, SMTT(30)
<1>7. Cardinality(Node \ {n}) = Len(p)
  BY <1>1, <1>2, FS_RemoveElement
<1>8. f \in Injection(1..Len(p), Node \ {n})
  BY <1>5, <1>6, <1>7, FS_SurjSameCardinalityImpliesInj
<1>9. \A i, j \in 1..Len(p) : p[i] = p[j] => i = j
  BY <1>8 DEF Injection, IsInjective
<1>10. QED
  BY <1>2, <1>3, <1>4, <1>9

\* More votes make no count smaller, and the count covers finitely many nodes.
LEMMA MoreVotes ==
    ASSUME NEW n \in Node, NEW i \in 1..Len(PeerSeq[n]), NEW t, NEW gs, NEW more,
           gs \subseteq more
    PROVE  /\ IsFiniteSet(Voters(Counted(n, i), t, n, gs))
           /\ Cardinality(Voters(Counted(n, i), t, n, gs)) \in Nat
           /\ Cardinality(Voters(Counted(n, i), t, n, more)) \in Nat
           /\ Cardinality(Voters(Counted(n, i), t, n, gs))
                <= Cardinality(Voters(Counted(n, i), t, n, more))
<1>1. Counted(n, i) \subseteq Node
  BY PeersDiffer DEF Counted
<1>2. Voters(Counted(n, i), t, n, more) \in SUBSET Node
      /\ Voters(Counted(n, i), t, n, gs) \in SUBSET Voters(Counted(n, i), t, n, more)
  BY <1>1 DEF Voters
<1>3. IsFiniteSet(Voters(Counted(n, i), t, n, more))
  BY <1>2, NodeAssumption, FS_Subset
<1>4. QED
  BY <1>2, <1>3, FS_Subset, FS_CardinalityType

\* The vote of the peer that was called adds one to the count.
LEMMA CountOne ==
    ASSUME NEW n \in Node, NEW i \in 1..Len(PeerSeq[n]), NEW t, NEW gs,
           NEW b \in BOOLEAN, b => <<PeerSeq[n][i], t, n>> \in gs
    PROVE  Cardinality(Voters(Counted(n, i), t, n, gs)) + (IF b THEN 1 ELSE 0)
             <= Cardinality(Voters(Counted(n, i + 1), t, n, gs))
<1> DEFINE p == PeerSeq[n][i]
           S == Voters(Counted(n, i), t, n, gs)
           T == Voters(Counted(n, i + 1), t, n, gs)
<1>1. Len(PeerSeq[n]) \in Nat
  BY PeersDiffer
<1>2. Counted(n, i + 1) = Counted(n, i) \cup {p} /\ p \notin Counted(n, i)
  <2>1. 1..(i + 1 - 1) = 1..(i - 1) \cup {i}
    BY <1>1
  <2>2. \A j \in 1..(i - 1) : PeerSeq[n][j] # p
    BY <1>1, PeersDiffer
  <2>3. p # n
    BY PeersDiffer
  <2>4. p \notin Counted(n, i)
    BY <2>2, <2>3 DEF Counted
  <2>5. \A v : v \in Counted(n, i + 1) <=> v \in Counted(n, i) \/ v = p
    <3> DEFINE D == 1..(i - 1)
               E == 1..(i + 1 - 1)
    <3>1. E = D \cup {i}
      BY <2>1
    <3> HIDE DEF D, E
    <3>2. \A v : v \in {PeerSeq[n][j] : j \in E}
                   <=> v \in {PeerSeq[n][j] : j \in D} \/ v = p
      BY <3>1
    <3>3. QED
      BY <3>2 DEF Counted, D, E
  <2>6. QED
    BY <2>4, <2>5
<1>3. IsFiniteSet(S) /\ Cardinality(S) \in Nat
  BY MoreVotes
<1>4. T = IF <<p, t, n>> \in gs THEN S \cup {p} ELSE S
  BY <1>2 DEF Voters
<1>5. p \notin S
  BY <1>2 DEF Voters
<1> HIDE DEF S, T, p
<1>6. Cardinality(S \cup {p}) = Cardinality(S) + 1
  BY <1>3, <1>5, FS_AddElement
<1>7. Cardinality(T) \in {Cardinality(S), Cardinality(S) + 1}
      /\ (b => Cardinality(T) = Cardinality(S) + 1)
  BY <1>4, <1>6 DEF p
<1>8. QED
  BY <1>3, <1>7 DEF S, T

-----------------------------------------------------------------------------
(* Queues and calls *)

\* The queue r has requests of q, the i-th that at f[i]; those that are still
\* live have senders that did not move on.
Thins(f, r, q, new, old) ==
    /\ f \in [1..Len(r) -> 1..Len(q)]
    /\ \A i, j \in 1..Len(r) : f[i] = f[j] => i = j
    /\ \A i \in 1..Len(r) :
         /\ r[i].task = q[f[i]].task /\ r[i].rpc = q[f[i]].rpc
         /\ r[i].live => q[f[i]].live /\ new[r[i].task] = old[r[i].task]

\* Nothing else is waited for in such a queue.
LEMMA FewerWait ==
    ASSUME NEW q \in Seq(Message), NEW r \in Seq(Message), NEW old, NEW new,
           NEW k, NEW s, NEW d, NEW f, Waits(q, old, k, s, d),
           Thins(f, r, q, new, old)
    PROVE  Waits(r, new, k, s, d)
<1> SUFFICES ASSUME NEW i \in 1..Len(r)
             PROVE  /\ RequestOK(r[i], k, s)
                    /\ r[i].live =>
                         /\ new[r[i].task].stage = "sent" /\ new[r[i].task].kind = k
                         /\ PeerSeq[s][new[r[i].task].peer] = d
                         /\ new[r[i].task].rpc = r[i].rpc
                         /\ \A j \in 1..Len(r) :
                              r[j].live /\ r[j].task = r[i].task => j = i
  BY DEF Waits
<1>1. RequestOK(r[i], k, s)
  BY DEF Waits, RequestOK, Thins
<1>2. ASSUME r[i].live
      PROVE  /\ new[r[i].task].stage = "sent" /\ new[r[i].task].kind = k
             /\ PeerSeq[s][new[r[i].task].peer] = d
             /\ new[r[i].task].rpc = r[i].rpc
  BY <1>2, SMTT(30) DEF Waits, Thins
<1>3. ASSUME r[i].live, NEW j \in 1..Len(r), r[j].live, r[j].task = r[i].task
      PROVE  j = i
  <2>1. q[f[i]].live /\ q[f[j]].live /\ q[f[j]].task = q[f[i]].task
    BY <1>3 DEF Thins
  <2>2. f[j] = f[i]
    BY <2>1 DEF Waits, Thins
  <2>3. QED
    BY <2>2 DEF Thins
<1>4. QED
  BY <1>1, <1>2, <1>3

\* The same queue, when who sent its live requests did not move on.
LEMMA SameQueue ==
    ASSUME NEW q \in Seq(Message), NEW old, NEW new, NEW k, NEW s, NEW d,
           Waits(q, old, k, s, d),
           \A i \in 1..Len(q) : q[i].live => new[q[i].task] = old[q[i].task]
    PROVE  Waits(q, new, k, s, d)
<1> DEFINE f == [i \in 1..Len(q) |-> i]
<1>1. Thins(f, q, q, new, old)
  BY DEF Thins
<1>2. QED
  BY <1>1, FewerWait

\* The queue behind the request that was taken.
LEMMA TailWaits ==
    ASSUME NEW q \in Seq(Message), q # <<>>, NEW old, NEW new, NEW k, NEW s, NEW d,
           Waits(q, old, k, s, d),
           \A i \in 2..Len(q) : q[i].live => new[q[i].task] = old[q[i].task]
    PROVE  Waits(Tail(q), new, k, s, d)
<1> DEFINE r == Tail(q)
           f == [i \in 1..Len(r) |-> i + 1]
<1>1. r \in Seq(Message) /\ Len(r) \in Nat /\ Len(q) = Len(r) + 1
      /\ \A i \in 1..Len(r) : r[i] = q[i + 1]
  OBVIOUS
<1>2. f \in [1..Len(r) -> 1..Len(q)] /\ \A i \in 1..Len(r) : f[i] = i + 1
      /\ i + 1 \in 2..Len(q)
  BY <1>1
<1> HIDE DEF r, f
<1>3. Thins(f, r, q, new, old)
  BY <1>1, <1>2 DEF Thins
<1>4. Waits(r, new, k, s, d)
  BY <1>1, <1>3, FewerWait
<1>5. QED
  BY <1>4 DEF r

\* The queue without its i-th request, which was lost.
LEMMA LostWaits ==
    ASSUME NEW q \in Seq(Message), NEW i \in 1..Len(q), NEW old, NEW new,
           NEW k, NEW s, NEW d, Waits(q, old, k, s, d),
           \A j \in 1..Len(q) : j # i /\ q[j].live => new[q[j].task] = old[q[j].task]
    PROVE  /\ SubSeq(q, 1, i - 1) \o SubSeq(q, i + 1, Len(q)) \in Seq(Message)
           /\ Waits(SubSeq(q, 1, i - 1) \o SubSeq(q, i + 1, Len(q)), new, k, s, d)
<1> DEFINE a == SubSeq(q, 1, i - 1)
           b == SubSeq(q, i + 1, Len(q))
           r == a \o b
           f == [j \in 1..Len(r) |-> IF j < i THEN j ELSE j + 1]
<1>1. /\ a \in Seq(Message) /\ Len(a) = i - 1
      /\ \A j \in 1..(i - 1) : a[j] = q[j]
  OBVIOUS
<1>2. /\ b \in Seq(Message) /\ Len(b) = Len(q) - i
      /\ \A j \in 1..(Len(q) - i) : b[j] = q[j + i]
  OBVIOUS
<1>0. Len(q) \in Nat /\ i \in Nat
  OBVIOUS
<1> HIDE DEF a, b
<1>3. r \in Seq(Message) /\ Len(r) = Len(q) - 1 /\ Len(r) \in Nat
  <2>1. a \in Seq(Message) /\ b \in Seq(Message)
    BY <1>1, <1>2
  <2>2. r \in Seq(Message) /\ Len(r) = Len(a) + Len(b)
    BY <2>1
  <2>3. QED
    BY <1>0, <1>1, <1>2, <2>2
<1>4. \A j \in 1..Len(r) : r[j] = IF j < i THEN q[j] ELSE q[j + 1]
  <2> TAKE j \in 1..Len(r)
  <2>1. CASE j < i
    BY <1>1, <1>2, <1>3, <2>1
  <2>2. CASE ~(j < i)
    <3>1. r[j] = b[j - (i - 1)] /\ j - (i - 1) \in 1..(Len(q) - i)
      BY <1>1, <1>2, <1>3, <2>2
    <3>2. b[j - (i - 1)] = q[(j - (i - 1)) + i]
      BY <1>2, <3>1
    <3>3. QED
      BY <2>2, <3>1, <3>2
  <2>3. QED
    BY <2>1, <2>2
<1> HIDE DEF r
<1>5. /\ f \in [1..Len(r) -> 1..Len(q)]
      /\ \A j \in 1..Len(r) : f[j] # i /\ r[j] = q[f[j]]
      /\ \A j, m \in 1..Len(r) : f[j] = f[m] => j = m
  BY <1>0, <1>3, <1>4
<1> HIDE DEF f
<1>6. Thins(f, r, q, new, old)
  <2>1. \A j \in 1..Len(r) :
           /\ r[j].task = q[f[j]].task /\ r[j].rpc = q[f[j]].rpc
           /\ r[j].live = q[f[j]].live /\ f[j] \in 1..Len(q) /\ f[j] # i
    BY <1>5
  <2>2. \A j \in 1..Len(r) :
           r[j].live => q[f[j]].live /\ new[r[j].task] = old[r[j].task]
    BY <2>1
  <2>3. QED
    BY <1>5, <2>1, <2>2 DEF Thins
<1>7. Waits(r, new, k, s, d)
  BY <1>3, <1>6, FewerWait
<1>8. QED
  BY <1>3, <1>7 DEF r, a, b

\* A request that nobody waits for any more, in its place in the queue.
LEMMA LateWaits ==
    ASSUME NEW q \in Seq(Message), NEW r \in Seq(Message), NEW old, NEW new,
           NEW k, NEW s, NEW d, Waits(q, old, k, s, d), Len(r) = Len(q),
           \A j \in 1..Len(q) :
             /\ r[j].task = q[j].task /\ r[j].rpc = q[j].rpc
             /\ r[j].live => q[j].live /\ new[q[j].task] = old[q[j].task]
    PROVE  Waits(r, new, k, s, d)
<1> DEFINE f == [i \in 1..Len(r) |-> i]
<1>1. Thins(f, r, q, new, old)
  BY DEF Thins
<1>2. QED
  BY <1>1, FewerWait

\* A request joins the queue; its sender was not waiting before.
LEMMA RequestWaits ==
    ASSUME NEW q \in Seq(Message), NEW m \in Message, NEW old, NEW new,
           NEW k, NEW s, NEW d, Waits(q, old, k, s, d), RequestOK(m, k, s),
           m.live, new[m.task].stage = "sent", new[m.task].kind = k,
           PeerSeq[s][new[m.task].peer] = d, new[m.task].rpc = m.rpc,
           \A i \in 1..Len(q) : q[i].live =>
             q[i].task # m.task /\ new[q[i].task] = old[q[i].task]
    PROVE  Waits(Append(q, m), new, k, s, d)
<1> DEFINE r == Append(q, m)
<1>1. /\ Len(r) = Len(q) + 1 /\ Len(q) \in Nat /\ r[Len(q) + 1] = m
      /\ \A i \in 1..Len(q) : r[i] = q[i]
  OBVIOUS
<1> HIDE DEF r
<1>2. Waits(q, new, k, s, d)
  BY SameQueue
<1>3. \A i \in 1..Len(r) : i \in 1..Len(q) \/ i = Len(q) + 1
  BY <1>1
<1>4. Waits(r, new, k, s, d)
  BY <1>1, <1>2, <1>3 DEF Waits
<1>5. QED
  BY <1>4 DEF r

-----------------------------------------------------------------------------
(* What the steps do to calls and queues *)

\* A task that does not wait has no live request under way; the other tasks
\* are where they were.
MovesOne(new, old, t) ==
    old[t].stage # "sent" /\ \A u \in Task : u # t => new[u] = old[u]

LEMMA NoneLive ==
    ASSUME NEW q \in Seq(Message), NEW old, NEW new, NEW k, NEW s, NEW d, NEW t,
           Waits(q, old, k, s, d), MovesOne(new, old, t)
    PROVE  \A i \in 1..Len(q) : q[i].live =>
             q[i].task # t /\ new[q[i].task] = old[q[i].task]
<1>1. \A i \in 1..Len(q) : q[i].task \in Task
  <2>1. \A i \in 1..Len(q) : q[i] \in Message
    OBVIOUS
  <2>2. QED
    BY <2>1 DEF Message
<1>2. \A i \in 1..Len(q) : q[i].live => old[q[i].task].stage = "sent"
  BY DEF Waits
<1>3. QED
  BY <1>1, <1>2 DEF MovesOne

\* One queue of the network is replaced.
Replaced(Y, X, a, b, d, v) == Y = [X EXCEPT ![a][b][d] = v]

IsNet(X) == X \in [Kind -> [Node -> [Node -> Seq(Message)]]]

LEMMA OneQueue ==
    ASSUME NEW X, IsNet(X), NEW a \in Kind, NEW b \in Node, NEW d \in Node,
           NEW v \in Seq(Message), NEW Y, Replaced(Y, X, a, b, d, v)
    PROVE  /\ IsNet(Y) /\ Y[a][b][d] = v
           /\ \A x \in Kind, y, z \in Node :
                x # a \/ y # b \/ z # d => Y[x][y][z] = X[x][y][z]
BY DEF Replaced, IsNet

\* The requests of a queue.
LEMMA InQueue ==
    ASSUME NEW q \in Seq(Message)
    PROVE  \A i \in 1..Len(q) : q[i] \in Message /\ q[i].task \in Task
<1>1. \A i \in 1..Len(q) : q[i] \in Message
  OBVIOUS
<1>2. QED
  BY <1>1 DEF Message

\* Types of one call and of one queue.
LEMMA CallTypes ==
    ASSUME TypeOK
    PROVE  /\ \A n \in Node, t \in Task : call[n][t] \in Call
           /\ \A k \in Kind, s, d \in Node : net[k][s][d] \in Seq(Message)
           /\ "main" \in Task /\ "vote" \in Kind /\ "append" \in Kind
           /\ \A n \in Node : \A t \in Task : call[n][t].kind = "vote" =>
                call[n][t] \in VoteCall
           /\ \A n \in Node : \A t \in Task : call[n][t].kind = "append" =>
                call[n][t] \in AppendCall
BY DEF TypeOK, Task, Kind, Call, VoteCall, AppendCall

\* A task ends a round.
Stops(n, t, c) ==
    c \in {Idle, Dead} /\ call' = [call EXCEPT ![n][t] = c] /\ UNCHANGED net

LEMMA StopKeeps ==
    ASSUME TypeOK, Queues, NEW n \in Node, NEW t \in Task, NEW c,
           call[n][t].stage # "sent", Stops(n, t, c)
    PROVE  /\ call' \in [Node -> [Task -> Call]] /\ Queues'
           /\ call'[n][t] = c
           /\ \A m \in Node, u \in Task : m # n \/ u # t => call'[m][u] = call[m][u]
<1>1. c \in Call /\ call' = [call EXCEPT ![n][t] = c] /\ UNCHANGED net
  BY DEF Stops, Idle, Dead, Call, AppendCall, Stage
<1>2. /\ call' \in [Node -> [Task -> Call]] /\ call'[n][t] = c
      /\ \A m \in Node, u \in Task : m # n \/ u # t => call'[m][u] = call[m][u]
  BY <1>1 DEF TypeOK
<1>3. ASSUME NEW k \in Kind, NEW s \in Node, NEW d \in Node
      PROVE  Waits(net'[k][s][d], call'[s], k, s, d)
  <2>1. net'[k][s][d] = net[k][s][d] /\ net[k][s][d] \in Seq(Message)
        /\ Waits(net[k][s][d], call[s], k, s, d)
    BY <1>1, CallTypes DEF Queues
  <2> DEFINE q == net[k][s][d]
             old == call[s]
             new == call'[s]
  <2>2. \A u \in Task : s # n \/ u # t => new[u] = old[u]
    BY <1>2
  <2>3. s = n => old[t].stage # "sent"
    OBVIOUS
  <2>4. q \in Seq(Message) /\ Waits(q, old, k, s, d)
    BY <2>1
  <2> HIDE DEF q, old, new
  <2>5. \A i \in 1..Len(q) : q[i].live => new[q[i].task] = old[q[i].task]
    <3>1. CASE s = n
      <4>1. MovesOne(new, old, t)
        BY <2>2, <2>3, <3>1 DEF MovesOne
      <4>2. QED
        BY <2>4, <4>1, NoneLive
    <3>2. CASE s # n
      BY <2>2, <2>4, <3>2, InQueue
    <3>3. QED
      BY <3>1, <3>2
  <2>6. Waits(q, new, k, s, d)
    BY <2>4, <2>5, SameQueue
  <2>7. QED
    BY <2>1, <2>6 DEF q, new
<1>4. QED
  BY <1>2, <1>3 DEF Queues

\* A task that does not wait sends its next request.
LEMMA RequestKeeps ==
    ASSUME TypeOK, Queues, NEW n \in Node, NEW t \in Task, NEW k \in Kind,
           NEW i \in 1..Len(PeerSeq[n]), NEW votes \in Nat, NEW rpc,
           IF k = "vote" THEN t = "main" /\ rpc \in VoteRPC /\ rpc.from = n
                         ELSE rpc \in AppendRPC,
           call[n][t].stage # "sent", Request(n, t, k, i, votes, rpc)
    PROVE  /\ call' \in [Node -> [Task -> Call]]
           /\ net' \in [Kind -> [Node -> [Node -> Seq(Message)]]] /\ Queues'
           /\ call'[n][t] = [stage |-> "sent", kind |-> k, peer |-> i,
                             votes |-> votes, rpc |-> rpc, reply |-> Nil]
           /\ \A m \in Node, u \in Task : m # n \/ u # t => call'[m][u] = call[m][u]
<1> DEFINE c == [stage |-> "sent", kind |-> k, peer |-> i, votes |-> votes,
                 rpc |-> rpc, reply |-> Nil]
           msg == [task |-> t, live |-> TRUE, rpc |-> rpc]
           p == PeerSeq[n][i]
<1>1. p \in Node /\ i \in Nat /\ k \in {"vote", "append"}
  BY PeersDiffer DEF Kind
<1>2. c \in Call
  BY <1>1 DEF Call, VoteCall, AppendCall, Stage
<1>3. msg \in Message /\ RequestOK(msg, k, n)
  BY <1>1 DEF Message, RequestOK
<1>4. call' = [call EXCEPT ![n][t] = c]
      /\ net' = [net EXCEPT ![k][n][p] = Append(@, msg)]
  BY DEF Request
<1>5. c.stage = "sent" /\ c.kind = k /\ c.peer = i /\ c.rpc = rpc
      /\ msg.task = t /\ msg.live /\ msg.rpc = rpc
  OBVIOUS
<1> HIDE DEF c, msg
<1>6. /\ call' \in [Node -> [Task -> Call]] /\ call'[n][t] = c
      /\ \A m \in Node, u \in Task : m # n \/ u # t => call'[m][u] = call[m][u]
  BY <1>2, <1>4 DEF TypeOK
<1>7. Append(net[k][n][p], msg) \in Seq(Message)
  BY <1>1, <1>3, CallTypes
<1>8. /\ net' \in [Kind -> [Node -> [Node -> Seq(Message)]]]
      /\ net'[k][n][p] = Append(net[k][n][p], msg)
      /\ \A j \in Kind, s, d \in Node : j # k \/ s # n \/ d # p =>
            net'[j][s][d] = net[j][s][d]
  <2> DEFINE q == Append(net[k][n][p], msg)
  <2>1. Replaced(net', net, k, n, p, q)
    BY <1>4 DEF Replaced
  <2>2. IsNet(net) /\ q \in Seq(Message)
    BY <1>7 DEF TypeOK, IsNet
  <2> HIDE DEF q, p
  <2>3. /\ IsNet(net')
        /\ net'[k][n][p] = q
        /\ \A j \in Kind, s, d \in Node : j # k \/ s # n \/ d # p =>
             net'[j][s][d] = net[j][s][d]
    BY <1>1, <2>1, <2>2, OneQueue
  <2>4. QED
    BY <2>3 DEF q, IsNet
<1>9. ASSUME NEW j \in Kind, NEW s \in Node, NEW d \in Node
      PROVE  Waits(net'[j][s][d], call'[s], j, s, d)
  <2> DEFINE q == net[j][s][d]
             old == call[s]
             new == call'[s]
  <2>1. q \in Seq(Message) /\ Waits(q, old, j, s, d)
    BY CallTypes DEF Queues
  <2>2. \A u \in Task : s # n \/ u # t => new[u] = old[u]
    BY <1>6
  <2>3. s = n => old[t].stage # "sent" /\ new[t] = c
    BY <1>6
  <2>4. net'[j][s][d] = IF j = k /\ s = n /\ d = p THEN Append(q, msg) ELSE q
    BY <1>8
  <2> HIDE DEF q, old, new
  <2>5. \A l \in 1..Len(q) : q[l].live =>
           (s = n => q[l].task # t) /\ new[q[l].task] = old[q[l].task]
    <3>1. CASE s = n
      <4>1. MovesOne(new, old, t)
        BY <2>2, <2>3, <3>1 DEF MovesOne
      <4>2. QED
        BY <2>1, <4>1, NoneLive
    <3>2. CASE s # n
      BY <2>1, <2>2, <3>2, InQueue
    <3>3. QED
      BY <3>1, <3>2
  <2>6. CASE ~(j = k /\ s = n /\ d = p)
    <3>1. Waits(q, new, j, s, d)
      BY <2>1, <2>5, SameQueue
    <3>2. QED
      BY <2>4, <2>6, <3>1 DEF new
  <2>7. CASE j = k /\ s = n /\ d = p
    <3>1. /\ msg \in Message /\ RequestOK(msg, j, s) /\ msg.live
          /\ new[msg.task].stage = "sent" /\ new[msg.task].kind = j
          /\ PeerSeq[s][new[msg.task].peer] = d /\ new[msg.task].rpc = msg.rpc
      BY <1>3, <1>5, <2>3, <2>7
    <3>2. \A l \in 1..Len(q) : q[l].live =>
            q[l].task # msg.task /\ new[q[l].task] = old[q[l].task]
      BY <1>5, <2>5, <2>7
    <3>3. Waits(Append(q, msg), new, j, s, d)
      BY <2>1, <3>1, <3>2, RequestWaits
    <3>4. QED
      BY <2>4, <2>7, <3>3 DEF new
  <2>8. QED
    BY <2>6, <2>7
<1>10. QED
  BY <1>6, <1>8, <1>9 DEF Queues, c

\* A task has at most one live request under way.
LEMMA OnlyOne ==
    ASSUME Queues, NEW k \in Kind, NEW s \in Node, NEW d \in Node,
           NEW i \in 1..Len(net[k][s][d]), net[k][s][d][i].live,
           NEW j \in Kind, NEW e \in Node, NEW l \in 1..Len(net[j][s][e]),
           net[j][s][e][l].live, net[j][s][e][l].task = net[k][s][d][i].task
    PROVE  j = k /\ e = d /\ l = i
<1> DEFINE q == net[k][s][d]
           r == net[j][s][e]
           calls == call[s]
<1>1. Waits(q, calls, k, s, d) /\ Waits(r, calls, j, s, e)
  BY DEF Queues
<1>2. i \in 1..Len(q) /\ l \in 1..Len(r) /\ q[i].live /\ r[l].live
      /\ r[l].task = q[i].task
  OBVIOUS
<1>3. (j = k /\ e = d) => r = q
  OBVIOUS
<1> HIDE DEF q, r, calls
<1>4. calls[q[i].task].kind = k /\ PeerSeq[s][calls[q[i].task].peer] = d
  BY <1>1, <1>2 DEF Waits
<1>5. calls[r[l].task].kind = j /\ PeerSeq[s][calls[r[l].task].peer] = e
  BY <1>1, <1>2 DEF Waits
<1>6. j = k /\ e = d
  BY <1>2, <1>4, <1>5
<1>7. \A m \in 1..Len(q) : q[m].live /\ q[m].task = q[i].task => m = i
  BY <1>1, <1>2 DEF Waits
<1>8. QED
  BY <1>2, <1>3, <1>6, <1>7

\* What a call is once its request was answered, or given up.
LEMMA AnsweredType ==
    ASSUME NEW c \in Call, NEW reply,
           \/ reply = Nil
           \/ c.kind = "vote" /\ reply \in VoteReply
           \/ c.kind = "append" /\ reply \in AppendReply
    PROVE  /\ Answered(c, reply) \in Call /\ Answered(c, reply).stage = "answered"
           /\ Answered(c, reply).kind = c.kind /\ Answered(c, reply).peer = c.peer
           /\ Answered(c, reply).votes = c.votes /\ Answered(c, reply).rpc = c.rpc
           /\ Answered(c, reply).reply = reply
<1>1. CASE c \in VoteCall
  BY <1>1 DEF Answered, Call, VoteCall, AppendCall, Stage
<1>2. CASE c \in AppendCall
  BY <1>2 DEF Answered, Call, VoteCall, AppendCall, Stage
<1>3. QED
  BY <1>1, <1>2 DEF Call

\* Task t of node n is the only one that moved on.
OnlyMoves(n, t) ==
    \A m \in Node, u \in Task : m # n \/ u # t => call'[m][u] = call[m][u]

\* The queues but the one from s to d of kind k, when only the task of its i-th
\* request, which is live, moved on.
LEMMA OtherQueues ==
    ASSUME TypeOK, Queues, NEW k \in Kind, NEW s \in Node, NEW d \in Node,
           NEW i \in 1..Len(net[k][s][d]), net[k][s][d][i].live,
           OnlyMoves(s, net[k][s][d][i].task)
    PROVE  /\ \A j \in Kind, a, e \in Node : j # k \/ a # s \/ e # d =>
                Waits(net[j][a][e], call'[a], j, a, e)
           /\ \A l \in 1..Len(net[k][s][d]) : l # i /\ net[k][s][d][l].live =>
                call'[s][net[k][s][d][l].task] = call[s][net[k][s][d][l].task]
<1> DEFINE t == net[k][s][d][i].task
<1>1. \A m \in Node, u \in Task : m # s \/ u # t => call'[m][u] = call[m][u]
  BY DEF OnlyMoves
<1>2. ASSUME NEW j \in Kind, NEW e \in Node, NEW l \in 1..Len(net[j][s][e]),
             net[j][s][e][l].live, j # k \/ e # d \/ l # i
      PROVE  net[j][s][e][l].task # t
  <2> SUFFICES ASSUME net[j][s][e][l].task = net[k][s][d][i].task
               PROVE  FALSE
    OBVIOUS
  <2>1. j = k /\ e = d /\ l = i
    BY <1>2, OnlyOne
  <2>2. QED
    BY <1>2, <2>1
<1> HIDE DEF t
<1>3. ASSUME NEW j \in Kind, NEW a \in Node, NEW e \in Node, j # k \/ a # s \/ e # d
      PROVE  Waits(net[j][a][e], call'[a], j, a, e)
  <2> DEFINE q == net[j][a][e]
             old == call[a]
             new == call'[a]
  <2>1. q \in Seq(Message) /\ Waits(q, old, j, a, e)
    BY CallTypes DEF Queues
  <2>2. \A l \in 1..Len(q) : q[l].live => (a = s => q[l].task # t)
    BY <1>2, <1>3
  <2>3. \A u \in Task : a # s \/ u # t => new[u] = old[u]
    BY <1>1
  <2> HIDE DEF q, old, new
  <2>4. \A l \in 1..Len(q) : q[l].live => new[q[l].task] = old[q[l].task]
    BY <2>1, <2>2, <2>3, InQueue
  <2>5. Waits(q, new, j, a, e)
    BY <2>1, <2>4, SameQueue
  <2>6. QED
    BY <2>5 DEF q, new
<1>4. ASSUME NEW l \in 1..Len(net[k][s][d]), l # i, net[k][s][d][l].live
      PROVE  call'[s][net[k][s][d][l].task] = call[s][net[k][s][d][l].task]
  <2>1. net[k][s][d][l].task \in Task
    BY CallTypes, InQueue
  <2>2. net[k][s][d][l].task # t
    BY <1>2, <1>4
  <2>3. QED
    BY <1>1, <2>1, <2>2
<1>5. QED
  BY <1>3, <1>4

\* A handler takes a request; if its caller still waits, it has the answer.
TakesAnswer(m, u, k, s, n, reply) ==
    /\ m = s /\ call[s][u].stage = "sent" /\ call[s][u].kind = k
    /\ PeerSeq[s][call[s][u].peer] = n
    /\ call[s][u].rpc = Head(net[k][s][n]).rpc
    /\ call'[s][u] = Answered(call[s][u], reply)

LEMMA AnswerKeeps ==
    ASSUME TypeOK, Queues, NEW n \in Node, NEW s \in Node, NEW k \in Kind,
           net[k][s][n] # <<>>, NEW reply,
           IF k = "vote" THEN reply \in VoteReply ELSE reply \in AppendReply,
           Answer(n, s, k, reply)
    PROVE  /\ call' \in [Node -> [Task -> Call]] /\ IsNet(net') /\ Queues'
           /\ \A m \in Node, u \in Task : \/ call'[m][u] = call[m][u]
                                          \/ TakesAnswer(m, u, k, s, n, reply)
<1> DEFINE q == net[k][s][n]
           h == Head(q)
           t == h.task
<1>1. q \in Seq(Message) /\ q # <<>> /\ Waits(q, call[s], k, s, n)
  BY CallTypes DEF Queues
<1>2. /\ Tail(q) \in Seq(Message) /\ 1 \in 1..Len(q) /\ h = q[1] /\ h \in Message
      /\ t \in Task
  <2> HIDE DEF q
  <2>1. Tail(q) \in Seq(Message) /\ 1 \in 1..Len(q) /\ Head(q) = q[1]
    BY <1>1
  <2>2. QED
    BY <1>1, <2>1, InQueue
<1>3. /\ Replaced(net', net, k, s, n, Tail(q))
      /\ call' = IF h.live
                 THEN [call EXCEPT ![s][t] = Answered(call[s][t], reply)]
                 ELSE call
  <2>1. net' = [net EXCEPT ![k][s][n] = Tail(net[k][s][n])]
    BY DEF Answer
  <2>2. QED
    BY <2>1 DEF Answer, Replaced
<1>4. IsNet(net)
  BY DEF TypeOK, IsNet
<1>5. /\ IsNet(net') /\ net'[k][s][n] = Tail(q)
      /\ \A j \in Kind, a, d \in Node : j # k \/ a # s \/ d # n =>
            net'[j][a][d] = net[j][a][d]
  <2> DEFINE r == Tail(q)
  <2>1. r \in Seq(Message) /\ Replaced(net', net, k, s, n, r)
    BY <1>2, <1>3
  <2> HIDE DEF r
  <2>2. /\ IsNet(net') /\ net'[k][s][n] = r
        /\ \A j \in Kind, a, d \in Node : j # k \/ a # s \/ d # n =>
             net'[j][a][d] = net[j][a][d]
    BY <1>4, <2>1, OneQueue
  <2>3. QED
    BY <2>2 DEF r
<1>6. CASE ~h.live
  <2>1. call' = call
    BY <1>3, <1>6
  <2>2. \A i \in 2..Len(q) : q[i].live => call[s][q[i].task] = call[s][q[i].task]
    OBVIOUS
  <2>3. Waits(Tail(q), call[s], k, s, n)
    <3> HIDE DEF q
    <3>1. QED
      BY <1>1, <2>2, TailWaits
  <2>4. Queues'
    BY <1>5, <2>1, <2>3 DEF Queues
  <2>5. QED
    BY <1>5, <2>1, <2>4 DEF TypeOK
<1>7. CASE h.live
  <2> DEFINE c == call[s][t]
  <2>1. c.stage = "sent" /\ c.kind = k /\ PeerSeq[s][c.peer] = n /\ c.rpc = h.rpc
    <3> HIDE DEF q
    <3>1. q[1].live /\ q[1].task = t /\ q[1].rpc = h.rpc
      BY <1>2, <1>7
    <3>2. QED
      BY <1>1, <1>2, <3>1 DEF Waits
  <2>2. c \in Call /\ Answered(c, reply) \in Call
    <3>1. c \in Call /\ c.kind = k
      BY <1>2, <2>1, CallTypes
    <3>2. \/ c.kind = "vote" /\ reply \in VoteReply
          \/ c.kind = "append" /\ reply \in AppendReply
      BY <3>1 DEF Kind
    <3> HIDE DEF c
    <3>3. QED
      BY <3>1, <3>2, AnsweredType
  <2>3. call' = [call EXCEPT ![s][t] = Answered(c, reply)]
    BY <1>3, <1>7
  <2>4. /\ call' \in [Node -> [Task -> Call]] /\ call'[s][t] = Answered(c, reply)
        /\ \A m \in Node, u \in Task : m # s \/ u # t => call'[m][u] = call[m][u]
    <3> HIDE DEF c, t
    <3>1. QED
      BY <1>2, <2>2, <2>3 DEF TypeOK
  <2>5. net[k][s][n][1].live /\ net[k][s][n][1].task = t /\ 1 \in 1..Len(net[k][s][n])
    BY <1>2, <1>7
  <2>6. /\ \A j \in Kind, a, e \in Node : j # k \/ a # s \/ e # n =>
             Waits(net[j][a][e], call'[a], j, a, e)
        /\ \A l \in 1..Len(q) : l # 1 /\ q[l].live =>
             call'[s][q[l].task] = call[s][q[l].task]
    <3>1. OnlyMoves(s, net[k][s][n][1].task)
      BY <2>4, <2>5 DEF OnlyMoves
    <3>2. QED
      BY <2>5, <3>1, OtherQueues
  <2>7. Waits(Tail(q), call'[s], k, s, n)
    <3>1. \A i \in 2..Len(q) : i \in 1..Len(q) /\ i # 1
      <4> HIDE DEF q
      <4>1. QED
        BY <1>1
    <3>2. \A i \in 2..Len(q) : q[i].live => call'[s][q[i].task] = call[s][q[i].task]
      BY <2>6, <3>1
    <3> HIDE DEF q
    <3>3. QED
      BY <1>1, <3>2, TailWaits
  <2>8. Queues'
    BY <1>5, <2>6, <2>7 DEF Queues
  <2>9. \A m \in Node, u \in Task : \/ call'[m][u] = call[m][u]
                                    \/ TakesAnswer(m, u, k, s, n, reply)
    <3>1. TakesAnswer(s, t, k, s, n, reply)
      <4> HIDE DEF t
      <4>1. QED
        BY <2>1, <2>4 DEF TakesAnswer
    <3> HIDE DEF t
    <3>2. QED
      BY <2>4, <3>1
  <2>10. QED
    BY <1>5, <2>4, <2>8, <2>9
<1>8. QED
  BY <1>6, <1>7

\* A request is lost or comes too late: its caller goes on without an answer.
GivesUp(m, u) ==
    call[m][u].stage = "sent" /\ call'[m][u] = Answered(call[m][u], Nil)

LEMMA LostKeeps ==
    ASSUME TypeOK, Queues, NEW n \in Node, NEW t \in Task, RequestLost(n, t),
           call[n][t].peer \in 1..Len(PeerSeq[n])
    PROVE  /\ call' \in [Node -> [Task -> Call]] /\ IsNet(net') /\ Queues'
           /\ \A m \in Node, u \in Task : call'[m][u] = call[m][u] \/ GivesUp(m, u)
<1> DEFINE c == call[n][t]
           k == c.kind
           d == PeerSeq[n][c.peer]
           q == net[k][n][d]
<1>1. PICK i \in 1..Len(q) :
         /\ q[i].task = t /\ q[i].live
         /\ \/ net' = [net EXCEPT ![k][n][d] =
                         SubSeq(q, 1, i - 1) \o SubSeq(q, i + 1, Len(q))]
            \/ net' = [net EXCEPT ![k][n][d] = [q EXCEPT ![i].live = FALSE]]
  BY DEF RequestLost
<1>2. c.stage = "sent" /\ c \in Call
  <2>1. c.stage = "sent"
    BY Zenon DEF RequestLost
  <2>2. QED
    BY <2>1, CallTypes
<1>3. k \in Kind /\ d \in Node /\ Answered(c, Nil) \in Call
  <2>1. d \in Node
    BY PeersDiffer
  <2> HIDE DEF c
  <2>2. k \in Kind
    BY <1>2 DEF Call, VoteCall, AppendCall, Kind
  <2>3. QED
    BY <1>2, <2>1, <2>2, AnsweredType
<1>4. call' = [call EXCEPT ![n][t] = Answered(c, Nil)]
  BY DEF RequestLost
<1>5. /\ call' \in [Node -> [Task -> Call]] /\ call'[n][t] = Answered(c, Nil)
      /\ \A m \in Node, u \in Task : m # n \/ u # t => call'[m][u] = call[m][u]
  <2> HIDE DEF c
  <2>1. QED
    BY <1>3, <1>4 DEF TypeOK
<1>6. \A m \in Node, u \in Task : call'[m][u] = call[m][u] \/ GivesUp(m, u)
  BY <1>2, <1>5 DEF GivesUp
<1>8. q \in Seq(Message) /\ Waits(q, call[n], k, n, d) /\ IsNet(net)
  <2> HIDE DEF d, k
  <2>1. QED
    BY <1>3, CallTypes DEF Queues, TypeOK, IsNet
<1>9. /\ \A j \in Kind, a, e \in Node : j # k \/ a # n \/ e # d =>
           Waits(net[j][a][e], call'[a], j, a, e)
      /\ \A l \in 1..Len(q) : l # i /\ q[l].live =>
           call'[n][q[l].task] = call[n][q[l].task]
  <2> HIDE DEF c, k, d
  <2>1. OnlyMoves(n, net[k][n][d][i].task)
    BY <1>1, <1>5 DEF OnlyMoves
  <2>2. i \in 1..Len(net[k][n][d]) /\ net[k][n][d][i].live
    BY <1>1
  <2>3. QED
    BY <1>3, <2>1, <2>2, OtherQueues
<1> DEFINE lost == SubSeq(q, 1, i - 1) \o SubSeq(q, i + 1, Len(q))
           late == [q EXCEPT ![i].live = FALSE]
           old == call[n]
           new == call'[n]
<1> HIDE DEF q, k, d, c
<1>10. lost \in Seq(Message) /\ Waits(lost, new, k, n, d)
  <2>1. q \in Seq(Message) /\ Waits(q, old, k, n, d)
    BY <1>8
  <2>2. \A j \in 1..Len(q) : j # i /\ q[j].live => new[q[j].task] = old[q[j].task]
    BY <1>9
  <2> HIDE DEF old, new
  <2>3. QED
    BY <2>1, <2>2, LostWaits
<1>11. late \in Seq(Message) /\ Waits(late, new, k, n, d)
  <2>1. q \in Seq(Message) /\ Waits(q, old, k, n, d)
    BY <1>8
  <2>2. \A j \in 1..Len(q) : j # i /\ q[j].live => new[q[j].task] = old[q[j].task]
    BY <1>9
  <2>3. \A j \in 1..Len(q) : q[j] \in Message
    BY <2>1, InQueue
  <2>4. /\ late \in Seq(Message) /\ Len(late) = Len(q)
        /\ \A j \in 1..Len(q) : late[j] = IF j = i THEN [q[i] EXCEPT !.live = FALSE]
                                           ELSE q[j]
    <3>1. [q[i] EXCEPT !.live = FALSE] \in Message
      BY <2>3 DEF Message
    <3>2. QED
      BY <2>1, <2>3, <3>1
  <2> HIDE DEF old, new, late
  <2>5. \A j \in 1..Len(q) :
           /\ late[j].task = q[j].task /\ late[j].rpc = q[j].rpc
           /\ late[j].live => q[j].live /\ new[q[j].task] = old[q[j].task]
    BY <2>2, <2>3, <2>4 DEF Message
  <2>6. QED
    BY <2>1, <2>4, <2>5, LateWaits
<1>12. IsNet(net') /\ Queues'
  <2>1. PICK r \in Seq(Message) : /\ Waits(r, new, k, n, d)
                                  /\ net' = [net EXCEPT ![k][n][d] = r]
    <3> HIDE DEF new
    <3>1. QED
      BY <1>1, <1>10, <1>11
  <2>2. Replaced(net', net, k, n, d, r)
    BY <2>1 DEF Replaced
  <2>3. /\ IsNet(net') /\ net'[k][n][d] = r
        /\ \A j \in Kind, a, e \in Node : j # k \/ a # n \/ e # d =>
             net'[j][a][e] = net[j][a][e]
    BY <1>3, <1>8, <2>2, OneQueue
  <2>4. QED
    BY <1>9, <2>1, <2>3 DEF Queues
<1>13. QED
  BY <1>5, <1>6, <1>12

-----------------------------------------------------------------------------
(* The steps keep the campaigns honest *)

\* What a campaign counts, it may count when more votes were given.
LEMMA CampaignGrows ==
    ASSUME NEW n \in Node, NEW c \in Call, NEW gs, NEW more, gs \subseteq more,
           CampaignOK(n, c, gs)
    PROVE  CampaignOK(n, c, more)
<1> SUFFICES ASSUME c.stage \in {"sent", "answered"}, c.kind = "vote"
             PROVE  CampaignOK(n, c, more)
  BY DEF CampaignOK
<1>1. /\ c.peer \in 1..Len(PeerSeq[n]) /\ c.rpc.from = n
      /\ c.votes <= Cardinality(Voters(Counted(n, c.peer), c.rpc.term, n, gs))
      /\ c.reply # Nil /\ c.reply.granted =>
           c.stage = "answered" /\ <<PeerSeq[n][c.peer], c.rpc.term, n>> \in gs
  BY DEF CampaignOK
<1>2. c.votes \in Nat
  BY DEF Call, VoteCall, AppendCall
<1> DEFINE A == Cardinality(Voters(Counted(n, c.peer), c.rpc.term, n, gs))
           B == Cardinality(Voters(Counted(n, c.peer), c.rpc.term, n, more))
<1>3. A \in Nat /\ B \in Nat /\ A <= B
  BY <1>1, MoreVotes
<1>4. c.votes <= B
  <2>1. c.votes <= A
    BY <1>1
  <2> HIDE DEF A, B
  <2>2. QED
    BY <1>2, <1>3, <2>1
<1>5. QED
  BY <1>1, <1>4 DEF CampaignOK

\* A step in which one task of one node moves on, to a call that is no
\* campaign, or to one that counts what was given.
LEMMA CampaignsKept ==
    ASSUME TypeOK, Campaigns, NEW n \in Node, NEW t \in Task, OnlyMoves(n, t),
           grants \subseteq grants', CampaignOK(n, call'[n][t], grants')
    PROVE  Campaigns'
<1> SUFFICES ASSUME NEW m \in Node
             PROVE  CampaignOK(m, call'[m]["main"], grants')
  BY DEF Campaigns
<1>1. CASE m = n /\ t = "main"
  BY <1>1
<1>2. CASE m # n \/ t # "main"
  <2>1. call'[m]["main"] = call[m]["main"] /\ call[m]["main"] \in Call
    BY <1>2, CallTypes DEF OnlyMoves
  <2>2. CampaignOK(m, call[m]["main"], grants)
    BY DEF Campaigns
  <2>3. QED
    BY <2>1, <2>2, CampaignGrows
<1>3. QED
  BY <1>1, <1>2

\* A majority stays one when more votes are given.
LEMMA MajorityGrows ==
    ASSUME WinnerHasMajority, grants \subseteq grants', NEW e \in elected
    PROVE  2 * Cardinality({v \in Node : <<v, e[2], e[1]>> \in grants'})
             > Cardinality(Node)
<1> DEFINE A == {v \in Node : <<v, e[2], e[1]>> \in grants}
           B == {v \in Node : <<v, e[2], e[1]>> \in grants'}
<1>1. A \in SUBSET B /\ B \in SUBSET Node /\ IsFiniteSet(Node)
  BY NodeAssumption
<1>2. 2 * Cardinality(A) > Cardinality(Node)
  BY DEF WinnerHasMajority
<1> HIDE DEF A, B
<1>3. IsFiniteSet(B) /\ IsFiniteSet(A)
  BY <1>1, FS_Subset
<1>4. /\ Cardinality(A) \in Nat /\ Cardinality(B) \in Nat /\ Cardinality(Node) \in Nat
      /\ Cardinality(A) <= Cardinality(B)
  BY <1>1, <1>3, FS_Subset, FS_CardinalityType
<1>5. 2 * Cardinality(B) > Cardinality(Node)
  BY <1>2, <1>4
<1>6. QED
  BY <1>5 DEF B

\* A step in which nobody wins.
LEMMA MajorityKept ==
    ASSUME WinnerHasMajority, grants \subseteq grants', elected' = elected
    PROVE  WinnerHasMajority'
BY MajorityGrows DEF WinnerHasMajority

\* The tasks, when one of them moves on.
LEMMA TasksKept ==
    ASSUME Tasks, NEW n \in Node, NEW t \in Task, OnlyMoves(n, t),
           call'[n][t].stage = "sent" => call'[n][t].peer \in 1..Len(PeerSeq[n]),
           proposed \subseteq proposed',
           t \in Command => t \in proposed' \/ call'[n][t].stage = "idle"
    PROVE  Tasks'
<1>1. ASSUME NEW m \in Node, NEW u \in Task, call'[m][u].stage = "sent"
      PROVE  call'[m][u].peer \in 1..Len(PeerSeq[m])
  <2>1. CASE m = n /\ u = t
    BY <1>1, <2>1
  <2>2. CASE m # n \/ u # t
    BY <1>1, <2>2 DEF Tasks, OnlyMoves
  <2>3. QED
    BY <2>1, <2>2
<1>2. ASSUME NEW m \in Node, NEW c \in Command, c \notin proposed'
      PROVE  call'[m][c].stage = "idle"
  <2>1. CASE m = n /\ c = t
    BY <1>2, <2>1
  <2>2. CASE m # n \/ c # t
    BY <1>2, <2>2 DEF Tasks, OnlyMoves, Task
  <2>3. QED
    BY <2>1, <2>2
<1>3. QED
  BY <1>1, <1>2 DEF Tasks

\* The start of an election.
LEMMA StartElectionKeeps ==
    ASSUME ElectionInv, NEW n \in Node, StartElection(n)
    PROVE  ElectionInv'
<1> DEFINE rpc == [term |-> term[n] + 1, from |-> n, lastIndex |-> Len(log[n]),
                   lastTerm |-> Last(n)]
           c == [stage |-> "sent", kind |-> "vote", peer |-> 1, votes |-> 1,
                 rpc |-> rpc, reply |-> Nil]
<1>1. TypeOK /\ Queues /\ Tasks /\ Campaigns /\ WinnerHasMajority
      /\ "main" \in Task /\ "vote" \in Kind /\ term[n] \in Nat
  BY DEF ElectionInv, Task, Kind, TypeOK
<1>2. Last(n) \in Nat /\ Len(log[n]) \in Nat
  <2>1. log[n] \in Seq(LogEntry)
    BY <1>1 DEF TypeOK
  <2>2. log[n] # <<>> => log[n][Len(log[n])] \in LogEntry
    BY <2>1
  <2>3. QED
    BY <2>1, <2>2 DEF Last, LogEntry
<1>3. rpc \in VoteRPC /\ rpc.from = n /\ rpc.term = term[n] + 1
  BY <1>1, <1>2 DEF VoteRPC
<1>4. call[n]["main"].stage # "sent" /\ 1 \in 1..Len(PeerSeq[n])
      /\ Request(n, "main", "vote", 1, 1, rpc)
  BY PeersDiffer DEF StartElection
<1> HIDE DEF rpc
<1>5. /\ call' \in [Node -> [Task -> Call]]
      /\ net' \in [Kind -> [Node -> [Node -> Seq(Message)]]] /\ Queues'
      /\ call'[n]["main"] = c
      /\ \A m \in Node, u \in Task : m # n \/ u # "main" => call'[m][u] = call[m][u]
  BY <1>1, <1>3, <1>4, RequestKeeps
<1>6. /\ role' = [role EXCEPT ![n] = "candidate"]
      /\ term' = [term EXCEPT ![n] = @ + 1]
      /\ votedFor' = [votedFor EXCEPT ![n] = n]
      /\ grants' = grants \cup {<<n, term[n] + 1, n>>}
      /\ UNCHANGED <<leaderId, logVars, peerVars, saved, proposed, restarts, elected>>
  BY DEF StartElection
<1>7. TypeOK'
  <2>1. /\ role' \in [Node -> {"follower", "candidate", "leader"}]
        /\ term' \in [Node -> Nat] /\ votedFor' \in [Node -> Vote]
    BY <1>1, <1>6 DEF TypeOK, Vote
  <2>2. grants' \subseteq Node \X Nat \X Node
    BY <1>1, <1>6 DEF TypeOK
  <2>3. QED
    BY <1>1, <1>5, <1>6, <2>1, <2>2 DEF TypeOK, logVars, peerVars
<1>8. OnlyMoves(n, "main")
  BY <1>5 DEF OnlyMoves
<1>9. CampaignOK(n, c, grants')
  <2>1. Counted(n, 1) = {n}
    BY DEF Counted
  <2>2. Voters(Counted(n, 1), rpc.term, n, grants') = {n}
    BY <1>3, <1>6, <2>1 DEF Voters
  <2>3. Cardinality(Voters(Counted(n, 1), rpc.term, n, grants')) = 1
    BY <2>2, FS_Singleton
  <2>4. QED
    BY <1>3, <1>4, <2>3 DEF CampaignOK
<1>10. Campaigns'
  BY <1>1, <1>5, <1>6, <1>8, <1>9, CampaignsKept
<1>11. Tasks'
  <2>1. call'[n]["main"].stage = "sent" => call'[n]["main"].peer \in 1..Len(PeerSeq[n])
    BY <1>4, <1>5
  <2>2. Tasks /\ proposed' = proposed /\ "main" \in Task
    BY <1>1, <1>6
  <2>3. QED
    BY <1>8, <2>1, <2>2, TasksKept, TaskAssumption
<1>12. WinnerHasMajority'
  BY <1>1, <1>6, MajorityKept
<1>13. QED
  BY <1>5, <1>7, <1>10, <1>11, <1>12 DEF ElectionInv

\* A task that does not wait calls its next peer by AppendEntries, or is ended
\* by the lookup of the previous entry.
LEMMA SendAppendKeeps ==
    ASSUME ElectionInv, NEW n \in Node, NEW t \in Task,
           NEW i \in 1..Len(PeerSeq[n]), NEW lg \in Seq(LogEntry), NEW c \in Nat,
           call[n][t].stage # "sent", SendAppend(n, t, i, lg, c)
    PROVE  /\ call' \in [Node -> [Task -> Call]]
           /\ net' \in [Kind -> [Node -> [Node -> Seq(Message)]]] /\ Queues'
           /\ OnlyMoves(n, t) /\ call'[n][t].kind = "append"
           /\ call'[n][t].stage = "sent" => call'[n][t].peer = i
<1> DEFINE prev == next[n][PeerSeq[n][i]]
           rpc == [term |-> term[n], from |-> n, prev |-> prev,
                   prevTerm |-> IF prev = 0 THEN 0 ELSE lg[prev].term,
                   entries |-> SubSeq(lg, prev + 1, Len(lg)), commit |-> c]
<1>1. TypeOK /\ Queues /\ "append" \in Kind /\ term[n] \in Nat
  BY DEF ElectionInv, Kind, TypeOK
<1>2. PeerSeq[n][i] \in Node
  BY PeersDiffer
<1>3. prev \in Nat
  <2>1. next[n] \in [Node -> Nat]
    BY <1>1 DEF TypeOK
  <2>2. QED
    BY <1>2, <2>1
<1> HIDE DEF prev
<1>4. CASE prev > Len(lg)
  <2>1. Stops(n, t, Dead)
    BY <1>4 DEF SendAppend, prev, Stops
  <2>2. /\ call' \in [Node -> [Task -> Call]] /\ Queues' /\ call'[n][t] = Dead
        /\ \A m \in Node, u \in Task : m # n \/ u # t => call'[m][u] = call[m][u]
    BY <1>1, <2>1, StopKeeps
  <2>3. Dead.kind = "append" /\ Dead.stage = "dead"
    BY DEF Dead, Idle
  <2>4. QED
    BY <1>1, <2>1, <2>2, <2>3 DEF OnlyMoves, Stops, TypeOK
<1>5. CASE ~(prev > Len(lg))
  <2>1. /\ SubSeq(lg, prev + 1, Len(lg)) \in Seq(LogEntry)
        /\ prev # 0 => lg[prev] \in LogEntry
    BY <1>3, <1>5
  <2>2. rpc \in AppendRPC
    BY <1>1, <1>3, <2>1 DEF AppendRPC, LogEntry
  <2>3. Request(n, t, "append", i, 0, rpc)
    BY <1>5 DEF SendAppend, prev
  <2> HIDE DEF rpc
  <2>4. /\ call' \in [Node -> [Task -> Call]]
        /\ net' \in [Kind -> [Node -> [Node -> Seq(Message)]]] /\ Queues'
        /\ call'[n][t] = [stage |-> "sent", kind |-> "append", peer |-> i,
                          votes |-> 0, rpc |-> rpc, reply |-> Nil]
        /\ \A m \in Node, u \in Task : m # n \/ u # t => call'[m][u] = call[m][u]
    BY <1>1, <2>2, <2>3, RequestKeeps
  <2>5. QED
    BY <2>4 DEF OnlyMoves
<1>6. QED
  BY <1>4, <1>5

\* A step of a task that is no campaign afterwards and gives no vote.
LEMMA NoCampaignKeeps ==
    ASSUME ElectionInv, TypeOK', Queues', NEW n \in Node, NEW t \in Task,
           OnlyMoves(n, t), call'[n][t].kind = "append",
           call'[n][t].stage = "sent" => call'[n][t].peer \in 1..Len(PeerSeq[n]),
           proposed \subseteq proposed', t \in Command => t \in proposed',
           UNCHANGED <<grants, elected>>
    PROVE  ElectionInv'
<1>1. TypeOK /\ Queues /\ Tasks /\ Campaigns /\ WinnerHasMajority
  BY DEF ElectionInv
<1>2. CampaignOK(n, call'[n][t], grants')
  BY DEF CampaignOK
<1>3. Campaigns'
  BY <1>1, <1>2, CampaignsKept
<1>4. Tasks'
  BY <1>1, TasksKept
<1>5. WinnerHasMajority'
  BY <1>1, MajorityKept
<1>6. QED
  BY <1>3, <1>4, <1>5 DEF ElectionInv

\* A round of heartbeats starts.
LEMMA SendHeartbeatsKeeps ==
    ASSUME ElectionInv, NEW n \in Node, SendHeartbeats(n)
    PROVE  ElectionInv'
<1>1. TypeOK /\ "main" \in Task /\ 1 \in 1..Len(PeerSeq[n])
  BY PeersDiffer DEF ElectionInv, Task
<1>2. log[n] \in Seq(LogEntry) /\ commit[n] \in Nat
  BY <1>1 DEF TypeOK
<1>3. /\ call[n]["main"].stage # "sent"
      /\ SendAppend(n, "main", 1, log[n], commit[n])
      /\ UNCHANGED <<nodeVars, logVars, peerVars, auxVars>>
  BY DEF SendHeartbeats
<1>4. /\ call' \in [Node -> [Task -> Call]]
      /\ net' \in [Kind -> [Node -> [Node -> Seq(Message)]]] /\ Queues'
      /\ OnlyMoves(n, "main") /\ call'[n]["main"].kind = "append"
      /\ call'[n]["main"].stage = "sent" => call'[n]["main"].peer = 1
  BY <1>1, <1>2, <1>3, SendAppendKeeps
<1>5. TypeOK'
  BY <1>1, <1>3, <1>4 DEF TypeOK, nodeVars, logVars, peerVars, auxVars
<1>6. UNCHANGED <<grants, elected, proposed>>
  BY <1>3 DEF auxVars
<1>7. QED
  BY <1>1, <1>4, <1>5, <1>6, NoCampaignKeeps, TaskAssumption

\* A command is proposed.
LEMMA ProposeKeeps ==
    ASSUME ElectionInv, NEW n \in Node, NEW c \in Command, Propose(n, c)
    PROVE  ElectionInv'
<1>1. TypeOK /\ Tasks /\ c \in Task /\ 1 \in 1..Len(PeerSeq[n])
  BY PeersDiffer DEF ElectionInv, Task
<1>2. /\ c \notin proposed /\ proposed' = proposed \cup {c}
      /\ log' = [log EXCEPT ![n] = Append(@, [term |-> term[n], cmd |-> c, coded |-> 0])]
      /\ SendAppend(n, c, 1, log'[n], commit[n])
      /\ UNCHANGED <<nodeVars, commit, applied, peerVars, saved, restarts, grants,
                     elected>>
  BY DEF Propose
<1>3. [term |-> term[n], cmd |-> c, coded |-> 0] \in LogEntry /\ log[n] \in Seq(LogEntry)
  BY <1>1 DEF TypeOK, LogEntry
<1>4. log' \in [Node -> Seq(LogEntry)]
  <2> DEFINE e == [term |-> term[n], cmd |-> c, coded |-> 0]
  <2>1. Append(log[n], e) \in Seq(LogEntry)
    BY <1>3
  <2>2. log' = [log EXCEPT ![n] = Append(log[n], e)]
    BY <1>2
  <2> HIDE DEF e
  <2>3. QED
    BY <1>1, <2>1, <2>2 DEF TypeOK
<1>5. log'[n] \in Seq(LogEntry) /\ commit[n] \in Nat /\ call[n][c].stage # "sent"
  BY <1>1, <1>2, <1>4 DEF TypeOK, Tasks
<1>6. /\ call' \in [Node -> [Task -> Call]]
      /\ net' \in [Kind -> [Node -> [Node -> Seq(Message)]]] /\ Queues'
      /\ OnlyMoves(n, c) /\ call'[n][c].kind = "append"
      /\ call'[n][c].stage = "sent" => call'[n][c].peer = 1
  BY <1>1, <1>2, <1>5, SendAppendKeeps
<1>7. TypeOK'
  <2>1. proposed' \subseteq Command
    BY <1>1, <1>2 DEF TypeOK
  <2>2. QED
    BY <1>1, <1>2, <1>4, <1>6, <2>1 DEF TypeOK, nodeVars, peerVars
<1>8. UNCHANGED <<grants, elected>> /\ proposed \subseteq proposed' /\ c \in proposed'
  BY <1>2
<1>9. QED
  BY <1>1, <1>6, <1>7, <1>8, NoCampaignKeeps

\* A step in which calls get their answers, or give up.
LEMMA TasksAnswered ==
    ASSUME Tasks, proposed' = proposed,
           \A m \in Node, u \in Task :
             \/ call'[m][u] = call[m][u]
             \/ call[m][u].stage = "sent" /\ call'[m][u].stage = "answered"
    PROVE  Tasks'
<1>1. ASSUME NEW m \in Node, NEW u \in Task, call'[m][u].stage = "sent"
      PROVE  call'[m][u].peer \in 1..Len(PeerSeq[m])
  <2>1. call'[m][u] = call[m][u]
    BY <1>1
  <2>2. QED
    BY <1>1, <2>1 DEF Tasks
<1>2. ASSUME NEW m \in Node, NEW c \in Command, c \notin proposed'
      PROVE  call'[m][c].stage = "idle"
  <2>1. c \in Task /\ call[m][c].stage = "idle"
    BY <1>2 DEF Tasks, Task
  <2>2. QED
    BY <2>1
<1>3. QED
  BY <1>1, <1>2 DEF Tasks

\* A campaign that gets an answer may count it if it was a vote for it.
LEMMA CampaignAnswered ==
    ASSUME NEW n \in Node, NEW c \in Call, NEW reply, NEW gs, CampaignOK(n, c, gs),
           c.stage = "sent", c.kind = "vote", reply = Nil \/ reply \in VoteReply,
           reply # Nil /\ reply.granted => <<PeerSeq[n][c.peer], c.rpc.term, n>> \in gs
    PROVE  CampaignOK(n, Answered(c, reply), gs)
<1> DEFINE a == Answered(c, reply)
<1>1. /\ a.stage = "answered" /\ a.kind = c.kind /\ a.peer = c.peer
      /\ a.votes = c.votes /\ a.rpc = c.rpc /\ a.reply = reply
  BY AnsweredType
<1> HIDE DEF a
<1>2. CampaignOK(n, a, gs)
  BY <1>1 DEF CampaignOK
<1>3. QED
  BY <1>2 DEF a

\* What is at the head of a queue.
LEMMA HeadOf ==
    ASSUME TypeOK, Queues, NEW k \in Kind, NEW s \in Node, NEW n \in Node,
           net[k][s][n] # <<>>
    PROVE  RequestOK(Head(net[k][s][n]), k, s) /\ Head(net[k][s][n]) \in Message
<1> DEFINE q == net[k][s][n]
           calls == call[s]
<1>1. q \in Seq(Message) /\ q # <<>> /\ Waits(q, calls, k, s, n)
  BY CallTypes DEF Queues
<1> HIDE DEF q, calls
<1>2. 1 \in 1..Len(q) /\ Head(q) = q[1]
  BY <1>1
<1>3. RequestOK(q[1], k, s)
  BY <1>1, <1>2 DEF Waits
<1>4. RequestOK(Head(q), k, s) /\ Head(q) \in Message
  BY <1>1, <1>2, <1>3, InQueue
<1>5. QED
  BY <1>4 DEF q

\* What the handler of a request for a vote does, the answer included.
VoteHandled(n, s, rpc) ==
    /\ rpc \in VoteRPC /\ rpc.from = s /\ rpc.term \in Nat
    /\ net["vote"][s][n] # <<>> /\ rpc = Head(net["vote"][s][n]).rpc
    /\ Answer(n, s, "vote", [granted |-> Grants(n, rpc)])
    /\ term' = [term EXCEPT ![n] = IF rpc.term > term[n] THEN rpc.term ELSE term[n]]
    /\ role' = [role EXCEPT ![n] = IF rpc.term > term[n] THEN "follower" ELSE role[n]]
    /\ votedFor' = [votedFor EXCEPT ![n] = IF Grants(n, rpc) THEN s ELSE VoteOf(n, rpc)]
    /\ grants' = IF Grants(n, rpc) THEN grants \cup {<<n, rpc.term, s>>} ELSE grants
    /\ UNCHANGED <<leaderId, logVars, peerVars, saved, proposed, restarts, elected>>

LEMMA VoteEffect ==
    ASSUME TypeOK, Queues, NEW n \in Node, NEW s \in Node, HandleVote(n, s)
    PROVE  VoteHandled(n, s, Head(net["vote"][s][n]).rpc)
<1> DEFINE rpc == Head(net["vote"][s][n]).rpc
<1>1. net["vote"][s][n] # <<>> /\ "vote" \in Kind
  BY DEF HandleVote, Kind
<1>2. rpc \in VoteRPC /\ rpc.from = s
  BY <1>1, HeadOf DEF RequestOK
<1>3. rpc.term \in Nat
  BY <1>2 DEF VoteRPC
<1>4. /\ Answer(n, s, "vote", [granted |-> Grants(n, rpc)])
      /\ term' = [term EXCEPT ![n] = IF rpc.term > term[n] THEN rpc.term ELSE @]
      /\ role' = [role EXCEPT ![n] = IF rpc.term > term[n] THEN "follower" ELSE @]
      /\ votedFor' = [votedFor EXCEPT ![n] = IF Grants(n, rpc) THEN rpc.from
                                             ELSE VoteOf(n, rpc)]
      /\ grants' = IF Grants(n, rpc) THEN grants \cup {<<n, rpc.term, rpc.from>>}
                                     ELSE grants
      /\ UNCHANGED <<leaderId, logVars, peerVars, saved, proposed, restarts, elected>>
  BY DEF HandleVote
<1> HIDE DEF rpc
<1>5. rpc = Head(net["vote"][s][n]).rpc
  BY DEF rpc
<1>6. VoteHandled(n, s, rpc)
  BY <1>1, <1>2, <1>3, <1>4, <1>5 DEF VoteHandled
<1>7. QED
  BY <1>5, <1>6

\* The request of a candidate is handled.
LEMMA HandleVoteKeeps ==
    ASSUME ElectionInv, NEW n \in Node, NEW s \in Node, HandleVote(n, s)
    PROVE  ElectionInv'
<1>1. TypeOK /\ Queues /\ Tasks /\ Campaigns /\ WinnerHasMajority /\ "vote" \in Kind
  BY DEF ElectionInv, Kind
<1>2. PICK rpc \in VoteRPC : VoteHandled(n, s, rpc)
  <2>1. VoteHandled(n, s, Head(net["vote"][s][n]).rpc)
    BY <1>1, VoteEffect
  <2>2. Head(net["vote"][s][n]).rpc \in VoteRPC
    BY <2>1 DEF VoteHandled
  <2>3. QED
    BY <2>1, <2>2
<1> DEFINE grant == Grants(n, rpc)
           reply == [granted |-> grant]
<1>3. grant \in BOOLEAN
  BY DEF Grants
<1>4. grants \subseteq grants' /\ (grant => <<n, rpc.term, s>> \in grants')
  BY <1>2 DEF VoteHandled
<1>5. TypeOK /\ s \in Node
  BY <1>1
<1> HIDE DEF grant
<1>6. reply \in VoteReply /\ reply.granted = grant
  BY <1>3 DEF VoteReply
<1>7. Answer(n, s, "vote", reply)
  BY <1>2 DEF grant, VoteHandled
<1> HIDE DEF reply
<1>8. /\ call' \in [Node -> [Task -> Call]] /\ IsNet(net') /\ Queues'
      /\ \A m \in Node, u \in Task : \/ call'[m][u] = call[m][u]
                                     \/ TakesAnswer(m, u, "vote", s, n, reply)
  <2>1. net["vote"][s][n] # <<>>
    BY <1>2 DEF VoteHandled
  <2>2. QED
    BY <1>1, <1>6, <1>7, <2>1, AnswerKeeps
<1>9. TypeOK'
  <2>1. VoteOf(n, rpc) \in Vote
    BY <1>1 DEF VoteOf, TypeOK, Vote
  <2>2. term' \in [Node -> Nat] /\ role' \in [Node -> {"follower", "candidate", "leader"}]
    BY <1>1, <1>2 DEF TypeOK, VoteHandled
  <2>3. votedFor' \in [Node -> Vote]
    BY <1>1, <1>2, <2>1 DEF TypeOK, VoteHandled, Vote
  <2>4. grants' \subseteq Node \X Nat \X Node
    <3>1. rpc.term \in Nat /\ grants' \subseteq grants \cup {<<n, rpc.term, s>>}
      BY <1>2 DEF VoteHandled
    <3>2. grants \subseteq Node \X Nat \X Node
      BY <1>1 DEF TypeOK
    <3>3. QED
      BY <3>1, <3>2
  <2>5. UNCHANGED <<leaderId, logVars, peerVars, saved, proposed, restarts, elected>>
    BY <1>2 DEF VoteHandled
  <2>6. QED
    BY <1>1, <1>8, <2>2, <2>3, <2>4, <2>5 DEF TypeOK, IsNet, logVars, peerVars
<1>10. Tasks'
  <2>1. \A m \in Node, u \in Task :
           \/ call'[m][u] = call[m][u]
           \/ call[m][u].stage = "sent" /\ call'[m][u].stage = "answered"
    BY <1>1, <1>6, <1>8, CallTypes, AnsweredType DEF TakesAnswer
  <2>2. QED
    BY <1>1, <1>2, <2>1, TasksAnswered DEF VoteHandled
<1>11. Campaigns'
  <2> SUFFICES ASSUME NEW m \in Node PROVE CampaignOK(m, call'[m]["main"], grants')
    BY DEF Campaigns
  <2>1. call[m]["main"] \in Call /\ "main" \in Task
    BY <1>1, CallTypes
  <2>2. CampaignOK(m, call[m]["main"], grants')
    BY <1>1, <1>4, <2>1, CampaignGrows DEF Campaigns
  <2>3. CASE TakesAnswer(m, "main", "vote", s, n, reply)
    <3> DEFINE c == call[s]["main"]
    <3>1. /\ m = s /\ c.stage = "sent" /\ c.kind = "vote" /\ PeerSeq[s][c.peer] = n
          /\ c.rpc = rpc /\ call'[s]["main"] = Answered(c, reply)
      BY <1>2, <2>3 DEF TakesAnswer, VoteHandled
    <3>2. c \in Call /\ CampaignOK(s, c, grants')
      BY <2>1, <2>2, <3>1
    <3> HIDE DEF c
    <3>3. reply.granted => <<PeerSeq[s][c.peer], c.rpc.term, s>> \in grants'
      BY <1>4, <1>6, <3>1
    <3>4. CampaignOK(s, Answered(c, reply), grants')
      BY <1>6, <3>1, <3>2, <3>3, CampaignAnswered
    <3>5. QED
      BY <3>1, <3>4
  <2>4. QED
    BY <1>8, <2>1, <2>2, <2>3
<1>12. WinnerHasMajority'
  BY <1>1, <1>2, <1>4, MajorityKept DEF VoteHandled
<1>13. QED
  BY <1>8, <1>9, <1>10, <1>11, <1>12 DEF ElectionInv

\* A request of a leader is handled: no vote is given, and a call that gets its
\* answer is no campaign.
\* What a follower stores of the entries of a request.
LEMMA StoredTypes ==
    ASSUME NEW entries \in Seq(LogEntry)
    PROVE  /\ StoredAll(entries) \in Seq(LogEntry)
           /\ Len(StoredAll(entries)) = Len(entries)
           /\ \A i \in 1..Len(entries) : StoredAll(entries)[i] = Stored(entries[i])
<1>1. \A e \in LogEntry : Stored(e) \in LogEntry
  <2> TAKE e \in LogEntry
  <2>1. e.coded + 1 \in Nat /\ [e EXCEPT !.coded = e.coded + 1] \in LogEntry
    BY DEF LogEntry
  <2>2. QED
    BY <2>1 DEF Stored
<1>2. \A i \in 1..Len(entries) : Stored(entries[i]) \in LogEntry
  BY <1>1
<1>3. QED
  BY <1>2 DEF StoredAll

LEMMA HandleAppendKeeps ==
    ASSUME ElectionInv, NEW n \in Node, NEW s \in Node, HandleAppend(n, s)
    PROVE  ElectionInv'
<1> DEFINE rpc == Head(net["append"][s][n]).rpc
           current == rpc.term >= term[n]
           match == /\ current
                    /\ \/ rpc.prev = 0
                       \/ /\ rpc.prev <= Len(log[n])
                          /\ log[n][rpc.prev].term = rpc.prevTerm
           newLog == IF match THEN NewLog(n, rpc) ELSE log[n]
           newCommit == IF match /\ rpc.commit > commit[n]
                        THEN IF rpc.commit < Len(newLog) THEN rpc.commit
                             ELSE Len(newLog)
                        ELSE commit[n]
           reply == [success |-> match, matched |-> IF match THEN Len(newLog) ELSE 0]
<1>1. TypeOK /\ Queues /\ Tasks /\ Campaigns /\ WinnerHasMajority
      /\ "append" \in Kind /\ "main" \in Task
  BY DEF ElectionInv, Kind, Task
<1>2. net["append"][s][n] # <<>>
  BY Zenon DEF HandleAppend
<1>3. rpc \in AppendRPC
  BY <1>1, <1>2, HeadOf DEF RequestOK
<1>4. /\ term' = [term EXCEPT ![n] = IF current THEN rpc.term ELSE term[n]]
      /\ votedFor' = [votedFor EXCEPT ![n] = IF rpc.term > term[n] THEN Nil
                                             ELSE votedFor[n]]
      /\ role' = [role EXCEPT ![n] = IF current THEN "follower" ELSE role[n]]
      /\ leaderId' = [leaderId EXCEPT ![n] = IF current THEN rpc.from ELSE leaderId[n]]
      /\ log' = [log EXCEPT ![n] = newLog]
      /\ commit' = [commit EXCEPT ![n] = newCommit]
      /\ Answer(n, s, "append", reply)
      /\ UNCHANGED <<applied, peerVars, auxVars>>
  BY Zenon DEF HandleAppend
<1>5. log[n] \in Seq(LogEntry) /\ commit[n] \in Nat
  BY <1>1 DEF TypeOK
<1>6. /\ rpc.term \in Nat /\ rpc.from \in Node /\ rpc.prev \in Nat
      /\ rpc.commit \in Nat /\ rpc.entries \in Seq(LogEntry)
  BY <1>3 DEF AppendRPC
<1>7. newLog \in Seq(LogEntry) /\ Len(newLog) \in Nat
  <2>1. ASSUME match PROVE NewLog(n, rpc) \in Seq(LogEntry)
    <3>0. Len(log[n]) \in Nat /\ (rpc.prev = 0 \/ rpc.prev <= Len(log[n]))
      BY <1>5, <2>1
    <3>1. rpc.prev <= Len(log[n])
      BY <1>6, <3>0
    <3> HIDE DEF rpc
    <3>2. SubSeq(log[n], 1, rpc.prev) \in Seq(LogEntry)
      BY <1>5, <1>6, <3>1
    <3>3. QED
      BY <1>6, <3>2, StoredTypes DEF NewLog
  <2> HIDE DEF match
  <2>2. QED
    BY <1>5, <2>1
<1>8. match \in BOOLEAN
  OBVIOUS
<1> HIDE DEF match, current, newLog, rpc
<1>9. newCommit \in Nat /\ reply \in AppendReply
  BY <1>5, <1>6, <1>7, <1>8 DEF AppendReply
<1> HIDE DEF newCommit, reply
<1>10. /\ call' \in [Node -> [Task -> Call]] /\ IsNet(net') /\ Queues'
       /\ \A m \in Node, u \in Task : \/ call'[m][u] = call[m][u]
                                      \/ TakesAnswer(m, u, "append", s, n, reply)
  BY <1>1, <1>2, <1>4, <1>9, AnswerKeeps
<1>11. TypeOK'
  <2>1. /\ term' \in [Node -> Nat] /\ votedFor' \in [Node -> Vote]
        /\ role' \in [Node -> {"follower", "candidate", "leader"}]
        /\ leaderId' \in [Node -> Vote]
    BY <1>1, <1>4, <1>6 DEF TypeOK, Vote
  <2>2. log' \in [Node -> Seq(LogEntry)] /\ commit' \in [Node -> Nat]
    BY <1>1, <1>4, <1>7, <1>9 DEF TypeOK
  <2>3. QED
    BY <1>1, <1>4, <1>10, <2>1, <2>2 DEF TypeOK, IsNet, peerVars, auxVars
<1>12. Tasks'
  <2>1. \A m \in Node, u \in Task :
           \/ call'[m][u] = call[m][u]
           \/ call[m][u].stage = "sent" /\ call'[m][u].stage = "answered"
    BY <1>1, <1>9, <1>10, CallTypes, AnsweredType DEF TakesAnswer
  <2>2. proposed' = proposed
    BY <1>4 DEF auxVars
  <2>3. QED
    BY <1>1, <2>1, <2>2, TasksAnswered
<1>13. Campaigns'
  <2> SUFFICES ASSUME NEW m \in Node PROVE CampaignOK(m, call'[m]["main"], grants')
    BY DEF Campaigns
  <2>1. grants' = grants /\ call[m]["main"] \in Call
    BY <1>1, <1>4, CallTypes DEF auxVars
  <2>2. CASE call'[m]["main"] = call[m]["main"]
    BY <1>1, <2>1, <2>2 DEF Campaigns
  <2>3. CASE TakesAnswer(m, "main", "append", s, n, reply)
    <3> DEFINE c == call[s]["main"]
    <3>1. m = s /\ c.kind = "append" /\ call'[s]["main"] = Answered(c, reply)
      BY <2>3 DEF TakesAnswer
    <3>2. c \in Call
      BY <2>1, <3>1
    <3> HIDE DEF c
    <3>3. Answered(c, reply).kind = "append"
      BY <1>9, <3>1, <3>2, AnsweredType
    <3>4. QED
      BY <3>1, <3>3 DEF CampaignOK
  <2>4. QED
    BY <1>1, <1>10, <2>2, <2>3
<1>14. WinnerHasMajority'
  <2>1. grants' = grants /\ elected' = elected
    BY <1>4 DEF auxVars
  <2>2. QED
    BY <1>1, <2>1, MajorityKept
<1>15. QED
  BY <1>10, <1>11, <1>12, <1>13, <1>14 DEF ElectionInv

\* A request is lost, or comes when nobody waits for it any more.
LEMMA RequestLostKeeps ==
    ASSUME ElectionInv, NEW n \in Node, NEW t \in Task, RequestLost(n, t)
    PROVE  ElectionInv'
<1>1. TypeOK /\ Queues /\ Tasks /\ Campaigns /\ WinnerHasMajority /\ "main" \in Task
  BY DEF ElectionInv, Task
<1>2. call[n][t].stage = "sent" /\ UNCHANGED <<nodeVars, logVars, peerVars, auxVars>>
  BY Zenon DEF RequestLost
<1>3. call[n][t].peer \in 1..Len(PeerSeq[n])
  BY <1>1, <1>2 DEF Tasks
<1>4. /\ call' \in [Node -> [Task -> Call]] /\ IsNet(net') /\ Queues'
      /\ \A m \in Node, u \in Task : call'[m][u] = call[m][u] \/ GivesUp(m, u)
  BY <1>1, <1>3, LostKeeps
<1>5. TypeOK'
  BY <1>1, <1>2, <1>4 DEF TypeOK, IsNet, nodeVars, logVars, peerVars, auxVars
<1>6. grants' = grants /\ elected' = elected /\ proposed' = proposed
  BY <1>2 DEF auxVars
<1>7. Tasks'
  <2>1. \A m \in Node, u \in Task :
           \/ call'[m][u] = call[m][u]
           \/ call[m][u].stage = "sent" /\ call'[m][u].stage = "answered"
    BY <1>1, <1>4, CallTypes, AnsweredType DEF GivesUp
  <2>2. QED
    BY <1>1, <1>6, <2>1, TasksAnswered
<1>8. Campaigns'
  <2> SUFFICES ASSUME NEW m \in Node PROVE CampaignOK(m, call'[m]["main"], grants)
    BY <1>6 DEF Campaigns
  <2> DEFINE c == call[m]["main"]
  <2>1. c \in Call /\ CampaignOK(m, c, grants)
    BY <1>1, CallTypes DEF Campaigns
  <2>2. CASE GivesUp(m, "main")
    <3>1. c.stage = "sent" /\ call'[m]["main"] = Answered(c, Nil)
      BY <2>2 DEF GivesUp
    <3> HIDE DEF c
    <3>2. CASE c.kind = "vote"
      BY <2>1, <3>1, <3>2, CampaignAnswered
    <3>3. CASE c.kind # "vote"
      <4>1. Answered(c, Nil).kind # "vote"
        BY <2>1, <3>3, AnsweredType
      <4>2. QED
        BY <3>1, <4>1 DEF CampaignOK
    <3>4. QED
      BY <3>2, <3>3
  <2>3. QED
    BY <1>1, <1>4, <2>1, <2>2
<1>9. WinnerHasMajority'
  BY <1>1, <1>6, MajorityKept
<1>10. QED
  BY <1>4, <1>5, <1>7, <1>8, <1>9 DEF ElectionInv

\* Who counts a quorum of votes was voted for by a majority.
LEMMA QuorumWins ==
    ASSUME NEW n \in Node, NEW T, NEW gs, NEW votes \in Nat, votes >= Quorum,
           votes <= Cardinality(Voters(Counted(n, Len(PeerSeq[n]) + 1), T, n, gs))
    PROVE  2 * Cardinality({v \in Node : <<v, T, n>> \in gs}) > Cardinality(Node)
<1> DEFINE A == Voters(Counted(n, Len(PeerSeq[n]) + 1), T, n, gs)
           B == {v \in Node : <<v, T, n>> \in gs}
<1>1. Counted(n, Len(PeerSeq[n]) + 1) \subseteq Node
  BY PeersDiffer DEF Counted
<1>2. A \in SUBSET B /\ B \in SUBSET Node
  BY <1>1 DEF Voters
<1> HIDE DEF A, B
<1>3. IsFiniteSet(B) /\ IsFiniteSet(A)
  BY <1>2, NodeAssumption, FS_Subset
<1>4. Cardinality(A) \in Nat /\ Cardinality(B) \in Nat /\ Cardinality(A) <= Cardinality(B)
  BY <1>2, <1>3, FS_Subset, FS_CardinalityType
<1>5. votes <= Cardinality(A)
  BY DEF A
<1>6. Cardinality(Node) \in Nat
  BY PeersDiffer
<1>7. 2 * Cardinality(B) > Cardinality(Node)
  BY <1>4, <1>5, <1>6 DEF Quorum
<1>8. QED
  BY <1>7 DEF B

\* A candidate counts the answer it awaited, calls its next peer, gives up or
\* becomes leader.
LEMMA ResumeElectionKeeps ==
    ASSUME ElectionInv, NEW n \in Node, NEW reply, call[n]["main"].stage = "answered",
           reply \in {Nil, call[n]["main"].reply}, ResumeElection(n, reply)
    PROVE  ElectionInv'
<1> DEFINE c == call[n]["main"]
           b == reply # Nil /\ reply.granted
           votes == c.votes + (IF b THEN 1 ELSE 0)
<1>1. TypeOK /\ Queues /\ Tasks /\ Campaigns /\ WinnerHasMajority /\ "main" \in Task
      /\ "vote" \in Kind
  BY DEF ElectionInv, Task, Kind
<1>2. /\ c.kind = "vote"
      /\ UNCHANGED <<term, votedFor, logVars, proposed, restarts, grants>>
  BY Zenon DEF ResumeElection
<1>3. c \in VoteCall /\ CampaignOK(n, c, grants)
  BY <1>1, <1>2, CallTypes DEF Campaigns
<1>4. \/ /\ c.peer < Len(PeerSeq[n])
         /\ Request(n, "main", "vote", c.peer + 1, votes, c.rpc)
         /\ UNCHANGED <<role, leaderId, peerVars, saved, elected>>
      \/ /\ Stops(n, "main", Idle)
         /\ UNCHANGED <<role, leaderId, peerVars, saved, elected>>
      \/ /\ c.peer = Len(PeerSeq[n]) /\ votes >= Quorum /\ Stops(n, "main", Idle)
         /\ role' = [role EXCEPT ![n] = "leader"]
         /\ leaderId' = [leaderId EXCEPT ![n] = n]
         /\ next' = [next EXCEPT ![n] = [p \in Node |-> NextOfLeader(n)]]
         /\ matched' = [matched EXCEPT ![n] = [p \in Node |-> 0]]
         /\ saved' = [saved EXCEPT ![n] = StateOf(n)]
         /\ elected' = elected \cup {<<n, c.rpc.term>>}
  BY DEF ResumeElection, Stops
<1>5. c.stage = "answered"
  OBVIOUS
<1>6. reply \in {Nil, c.reply}
  OBVIOUS
<1> HIDE DEF c
<1>7. /\ c.peer \in 1..Len(PeerSeq[n]) /\ c.rpc.from = n /\ c.rpc \in VoteRPC
      /\ c.votes <= Cardinality(Voters(Counted(n, c.peer), c.rpc.term, n, grants))
      /\ c.votes \in Nat /\ c.rpc.term \in Nat
      /\ b => <<PeerSeq[n][c.peer], c.rpc.term, n>> \in grants
  <2>1. c.rpc \in VoteRPC /\ c.votes \in Nat
    BY <1>3 DEF VoteCall
  <2>2. c.rpc.term \in Nat
    BY <2>1 DEF VoteRPC
  <2>3. /\ c.peer \in 1..Len(PeerSeq[n]) /\ c.rpc.from = n
        /\ c.votes <= Cardinality(Voters(Counted(n, c.peer), c.rpc.term, n, grants))
        /\ c.reply # Nil /\ c.reply.granted =>
             <<PeerSeq[n][c.peer], c.rpc.term, n>> \in grants
    BY <1>2, <1>3, <1>5 DEF CampaignOK
  <2>4. QED
    BY <1>6, <2>1, <2>2, <2>3
<1> DEFINE count(i) == Cardinality(Voters(Counted(n, i), c.rpc.term, n, grants))
<1>8. votes \in Nat /\ votes <= count(c.peer + 1)
  <2>1. b \in BOOLEAN
    OBVIOUS
  <2> HIDE DEF b
  <2>2. count(c.peer) + (IF b THEN 1 ELSE 0) <= count(c.peer + 1)
    BY <1>7, <2>1, CountOne
  <2>3. c.votes <= count(c.peer) /\ count(c.peer) \in Nat
    BY <1>7, MoreVotes
  <2>4. count(c.peer + 1) \in Nat
    <3>1. Counted(n, c.peer + 1) \subseteq Node
      BY <1>7, PeersDiffer, SMTT(30) DEF Counted
    <3>2. Voters(Counted(n, c.peer + 1), c.rpc.term, n, grants) \in SUBSET Node
      BY <3>1 DEF Voters
    <3>3. QED
      BY <3>2, NodeAssumption, FS_Subset, FS_CardinalityType
  <2>5. c.votes \in Nat
    BY <1>7
  <2> HIDE DEF count
  <2>6. CASE b
    BY <2>2, <2>3, <2>4, <2>5, <2>6
  <2>7. CASE ~b
    BY <2>2, <2>3, <2>4, <2>5, <2>7
  <2>8. QED
    BY <2>1, <2>6, <2>7
<1> HIDE DEF votes, b
<1>9. CASE /\ c.peer < Len(PeerSeq[n])
           /\ Request(n, "main", "vote", c.peer + 1, votes, c.rpc)
           /\ UNCHANGED <<role, leaderId, peerVars, saved, elected>>
  <2> DEFINE a == [stage |-> "sent", kind |-> "vote", peer |-> c.peer + 1,
                   votes |-> votes, rpc |-> c.rpc, reply |-> Nil]
  <2>1. c.peer + 1 \in 1..Len(PeerSeq[n])
    BY <1>7, <1>9, PeersDiffer
  <2>2. call[n]["main"].stage # "sent"
    BY <1>5 DEF c
  <2>3. /\ call' \in [Node -> [Task -> Call]]
        /\ net' \in [Kind -> [Node -> [Node -> Seq(Message)]]] /\ Queues'
        /\ call'[n]["main"] = a
        /\ \A m \in Node, u \in Task : m # n \/ u # "main" => call'[m][u] = call[m][u]
    BY <1>1, <1>7, <1>8, <1>9, <2>1, <2>2, RequestKeeps
  <2>4. TypeOK'
    BY <1>1, <1>2, <1>9, <2>3 DEF TypeOK, logVars, peerVars
  <2>5. OnlyMoves(n, "main")
    BY <2>3 DEF OnlyMoves
  <2>6. CampaignOK(n, a, grants')
    BY <1>2, <1>7, <1>8, <2>1 DEF CampaignOK
  <2>7. Campaigns'
    BY <1>1, <1>2, <2>3, <2>5, <2>6, CampaignsKept
  <2>8. Tasks'
    <3>1. call'[n]["main"].peer \in 1..Len(PeerSeq[n])
      BY <2>1, <2>3
    <3>2. QED
      BY <1>1, <1>2, <2>5, <3>1, TasksKept, TaskAssumption
  <2>9. WinnerHasMajority'
    BY <1>1, <1>2, <1>9, MajorityKept
  <2>10. QED
    BY <2>3, <2>4, <2>7, <2>8, <2>9 DEF ElectionInv
<1>10. ASSUME Stops(n, "main", Idle)
       PROVE  /\ call' \in [Node -> [Task -> Call]] /\ UNCHANGED net /\ Queues'
              /\ call'[n]["main"].kind = "append" /\ call'[n]["main"].stage = "idle"
              /\ OnlyMoves(n, "main")
  <2>1. call[n]["main"].stage # "sent"
    BY <1>5 DEF c
  <2>2. /\ call' \in [Node -> [Task -> Call]] /\ Queues' /\ call'[n]["main"] = Idle
        /\ \A m \in Node, u \in Task : m # n \/ u # "main" => call'[m][u] = call[m][u]
    BY <1>1, <1>10, <2>1, StopKeeps
  <2>3. Idle.kind = "append" /\ Idle.stage = "idle"
    BY DEF Idle
  <2>4. QED
    BY <1>10, <2>2, <2>3 DEF OnlyMoves, Stops
<1>11. CASE /\ Stops(n, "main", Idle)
            /\ UNCHANGED <<role, leaderId, peerVars, saved, elected>>
  <2>1. TypeOK'
    BY <1>1, <1>2, <1>10, <1>11 DEF TypeOK, logVars, peerVars
  <2>2. QED
    BY <1>1, <1>2, <1>10, <1>11, <2>1, NoCampaignKeeps, TaskAssumption
<1>12. CASE /\ c.peer = Len(PeerSeq[n]) /\ votes >= Quorum /\ Stops(n, "main", Idle)
            /\ role' = [role EXCEPT ![n] = "leader"]
            /\ leaderId' = [leaderId EXCEPT ![n] = n]
            /\ next' = [next EXCEPT ![n] = [p \in Node |-> NextOfLeader(n)]]
            /\ matched' = [matched EXCEPT ![n] = [p \in Node |-> 0]]
            /\ saved' = [saved EXCEPT ![n] = StateOf(n)]
            /\ elected' = elected \cup {<<n, c.rpc.term>>}
  <2>1. NextOfLeader(n) \in Nat
    <3>1. log[n] \in Seq(LogEntry)
      BY <1>1 DEF TypeOK
    <3>2. QED
      BY <3>1 DEF NextOfLeader
  <2>2. /\ role' \in [Node -> {"follower", "candidate", "leader"}]
        /\ leaderId' \in [Node -> Vote]
    BY <1>1, <1>12 DEF TypeOK, Vote
  <2>3. next' \in [Node -> [Node -> Nat]] /\ matched' \in [Node -> [Node -> Nat]]
    BY <1>1, <1>12, <2>1 DEF TypeOK
  <2>4. saved' \in [Node -> [term: Nat, votedFor: Vote, commit: Nat]]
    BY <1>1, <1>12 DEF TypeOK, StateOf
  <2>5. elected' \subseteq Node \X Nat
    BY <1>1, <1>7, <1>12, SMTT(30) DEF TypeOK
  <2>6. TypeOK'
    BY <1>1, <1>2, <1>10, <1>12, <2>2, <2>3, <2>4, <2>5 DEF TypeOK, logVars
  <2>7. CampaignOK(n, call'[n]["main"], grants')
    BY <1>10, <1>12 DEF CampaignOK
  <2>8. Campaigns'
    BY <1>1, <1>2, <1>10, <1>12, <2>7, CampaignsKept
  <2>9. Tasks'
    BY <1>1, <1>2, <1>10, <1>12, TasksKept, TaskAssumption
  <2>10. WinnerHasMajority'
    <3> SUFFICES ASSUME NEW e \in elected'
                 PROVE  2 * Cardinality({v \in Node : <<v, e[2], e[1]>> \in grants'})
                          > Cardinality(Node)
      BY DEF WinnerHasMajority
    <3>1. CASE e \in elected
      BY <1>1, <1>2, <3>1 DEF WinnerHasMajority
    <3>2. CASE e = <<n, c.rpc.term>>
      <4>1. 2 * Cardinality({v \in Node : <<v, c.rpc.term, n>> \in grants})
              > Cardinality(Node)
        BY <1>8, <1>12, QuorumWins
      <4>2. e[1] = n /\ e[2] = c.rpc.term
        BY <3>2
      <4>3. QED
        BY <1>2, <4>1, <4>2
    <3>3. QED
      BY <1>12, <3>1, <3>2
  <2>11. QED
    BY <1>10, <1>12, <2>6, <2>8, <2>9, <2>10 DEF ElectionInv
<1>13. QED
  BY <1>4, <1>9, <1>11, <1>12 DEF c, votes, b

\* The answer to a heartbeat or to the entries of a proposal is taken.
LEMMA ResumeAppendKeeps ==
    ASSUME ElectionInv, NEW n \in Node, NEW t \in Task, NEW reply,
           call[n][t].stage = "answered", reply \in {Nil, call[n][t].reply},
           ResumeAppend(n, t, reply)
    PROVE  ElectionInv'
<1> DEFINE c == call[n][t]
           p == PeerSeq[n][c.peer]
           ok == reply # Nil /\ reply.success
           mt == IF ok THEN [matched[n] EXCEPT ![p] = reply.matched] ELSE matched[n]
           found == IF ok THEN Committable(n, mt) ELSE {}
           nx == IF ok THEN IF reply.matched > next[n][p] THEN reply.matched
                            ELSE next[n][p]
                 ELSE IF next[n][p] > 0 THEN next[n][p] - 1 ELSE 0
<1>1. TypeOK /\ Tasks /\ next[n] \in [Node -> Nat] /\ matched[n] \in [Node -> Nat]
      /\ log[n] \in Seq(LogEntry) /\ commit[n] \in Nat
  BY DEF ElectionInv, TypeOK
<1>2. /\ c.kind = "append"
      /\ matched' = [matched EXCEPT ![n] = mt]
      /\ next' = IF reply = Nil THEN next ELSE [next EXCEPT ![n][p] = nx]
      /\ \/ UNCHANGED <<commit, applied>>
         \/ \E top \in found : commit' = [commit EXCEPT ![n] = top]
      /\ IF c.peer < Len(PeerSeq[n])
         THEN SendAppend(n, t, c.peer + 1, log[n], commit'[n])
         ELSE Stops(n, t, Idle)
      /\ UNCHANGED <<nodeVars, log, auxVars>>
  BY Zenon DEF ResumeAppend, Stops
<1>3. c \in AppendCall /\ c.stage # "sent" /\ (t \in Command => t \in proposed)
  <2>1. c \in AppendCall
    BY <1>1, <1>2, CallTypes
  <2>2. QED
    BY <1>1, <2>1 DEF Tasks
<1>4. c.peer \in Nat /\ reply \in {Nil} \cup AppendReply
  <2>1. reply \in {Nil, c.reply}
    OBVIOUS
  <2> HIDE DEF c
  <2>2. QED
    BY <1>3, <2>1 DEF AppendCall
<1> HIDE DEF c, p
<1>5. reply # Nil => reply.matched \in Nat
  BY <1>4 DEF AppendReply
<1>6. mt \in [Node -> Nat]
  BY <1>1, <1>5
<1>7. found \subseteq Nat
  <2> HIDE DEF mt
  <2>1. (commit[n] + 1)..Len(log[n]) \subseteq Nat
    BY <1>1
  <2>2. QED
    BY <2>1 DEF Committable
<1>8. reply # Nil /\ p \in Node => nx \in Nat
  BY <1>1, <1>5
<1> HIDE DEF mt, found, nx
<1>9. matched' \in [Node -> [Node -> Nat]]
  BY <1>1, <1>2, <1>6 DEF TypeOK
<1>10. next' \in [Node -> [Node -> Nat]]
  <2>1. CASE reply = Nil
    BY <1>1, <1>2, <2>1 DEF TypeOK
  <2>2. CASE reply # Nil
    <3>1. [next[n] EXCEPT ![p] = nx] \in [Node -> Nat]
      BY <1>1, <1>8, <2>2
    <3> DEFINE row == [next[n] EXCEPT ![p] = nx]
    <3>2. next' = [next EXCEPT ![n] = row]
      BY <1>1, <1>2, <2>2 DEF TypeOK
    <3> HIDE DEF row
    <3>3. row \in [Node -> Nat]
      BY <3>1 DEF row
    <3>4. QED
      BY <1>1, <3>2, <3>3 DEF TypeOK
  <2>3. QED
    BY <2>1, <2>2
<1>11. commit' \in [Node -> Nat] /\ commit'[n] \in Nat
  BY <1>1, <1>2, <1>7 DEF TypeOK
<1>12. /\ call' \in [Node -> [Task -> Call]]
       /\ net' \in [Kind -> [Node -> [Node -> Seq(Message)]]] /\ Queues'
       /\ OnlyMoves(n, t) /\ call'[n][t].kind = "append"
       /\ call'[n][t].stage = "sent" => call'[n][t].peer \in 1..Len(PeerSeq[n])
  <2>1. call[n][t].stage # "sent" /\ Queues
    BY <1>3 DEF c, ElectionInv
  <2>2. CASE c.peer < Len(PeerSeq[n])
    <3>1. c.peer + 1 \in 1..Len(PeerSeq[n])
      BY <1>4, <2>2, PeersDiffer
    <3>2. SendAppend(n, t, c.peer + 1, log[n], commit'[n])
      BY <1>2, <2>2
    <3>3. QED
      BY <1>1, <1>11, <2>1, <3>1, <3>2, SendAppendKeeps
  <2>3. CASE ~(c.peer < Len(PeerSeq[n]))
    <3>1. Stops(n, t, Idle)
      BY <1>2, <2>3
    <3>2. /\ call' \in [Node -> [Task -> Call]] /\ Queues' /\ call'[n][t] = Idle
          /\ \A m \in Node, u \in Task : m # n \/ u # t => call'[m][u] = call[m][u]
      BY <1>1, <2>1, <3>1, StopKeeps
    <3>3. Idle.kind = "append" /\ Idle.stage = "idle"
      BY DEF Idle
    <3>4. QED
      BY <1>1, <3>1, <3>2, <3>3 DEF OnlyMoves, Stops, TypeOK
  <2>4. QED
    BY <2>2, <2>3
<1>13. TypeOK'
  BY <1>1, <1>2, <1>9, <1>10, <1>11, <1>12 DEF TypeOK, nodeVars, auxVars
<1>14. UNCHANGED <<grants, elected, proposed>>
  BY <1>2 DEF auxVars
<1>15. QED
  BY <1>3, <1>12, <1>13, <1>14, NoCampaignKeeps

\* The answer arrives, or it is lost or too late.
LEMMA ReplyKeeps ==
    ASSUME ElectionInv, NEW n \in Node, NEW t \in Task, Reply(n, t) \/ ReplyLost(n, t)
    PROVE  ElectionInv'
<1>1. call[n][t].stage = "answered"
  BY Zenon DEF Reply, ReplyLost
<1>2. PICK reply \in {Nil, call[n][t].reply} :
         \/ t = "main" /\ ResumeElection(n, reply)
         \/ ResumeAppend(n, t, reply)
  BY Zenon DEF Reply, ReplyLost
<1>3. CASE t = "main" /\ ResumeElection(n, reply)
  BY <1>1, <1>2, <1>3, ResumeElectionKeeps
<1>4. CASE ResumeAppend(n, t, reply)
  BY <1>1, <1>2, <1>4, ResumeAppendKeeps
<1>5. QED
  BY <1>2, <1>3, <1>4

\* A node starts again: nobody waits for its requests, and who waits for its
\* answers goes on without one.
LEMMA RestartKeeps ==
    ASSUME ElectionInv, NEW n \in Node, NEW graceful \in BOOLEAN, Restart(n, graceful)
    PROVE  ElectionInv'
<1> DEFINE stopped(m, t) == call[m][t].stage = "sent" /\ PeerSeq[m][call[m][t].peer] = n
           late(k, d) == [i \in 1..Len(net[k][n][d]) |->
                            [net[k][n][d][i] EXCEPT !.live = FALSE]]
<1>1. TypeOK /\ Queues /\ Tasks /\ Campaigns /\ WinnerHasMajority /\ "main" \in Task
      /\ StateOf(n) \in [term: Nat, votedFor: Vote, commit: Nat]
  BY DEF ElectionInv, Task, TypeOK, StateOf
<1>2. saved' = IF graceful THEN [saved EXCEPT ![n] = StateOf(n)] ELSE saved
  BY Zenon DEF Restart
<1>3. saved' \in [Node -> [term: Nat, votedFor: Vote, commit: Nat]]
  BY <1>1, <1>2 DEF TypeOK
<1>4. /\ term' = [term EXCEPT ![n] = saved'[n].term]
      /\ votedFor' = [votedFor EXCEPT ![n] = saved'[n].votedFor]
      /\ commit' = [commit EXCEPT ![n] = saved'[n].commit]
      /\ role' = [role EXCEPT ![n] = "follower"]
      /\ leaderId' = [leaderId EXCEPT ![n] = Nil]
      /\ log' = [log EXCEPT ![n] = <<>>]
      /\ next' = [next EXCEPT ![n] = [p \in Node |-> 0]]
      /\ matched' = [matched EXCEPT ![n] = [p \in Node |-> 0]]
      /\ restarts' = restarts + 1
      /\ UNCHANGED <<proposed, grants, elected>>
  BY Zenon DEF Restart, Loaded
<1>5. /\ call' = [m \in Node |-> [t \in Task |->
                    IF m = n THEN Idle
                    ELSE IF stopped(m, t) THEN Answered(call[m][t], Nil)
                    ELSE call[m][t]]]
      /\ net' = [k \in Kind |-> [s \in Node |-> [d \in Node |->
                   IF d = n THEN <<>> ELSE IF s = n THEN late(k, d)
                   ELSE net[k][s][d]]]]
  BY Zenon DEF Restart
<1> HIDE DEF stopped, late
<1>6. \A m \in Node, t \in Task :
         call'[m][t] = IF m = n THEN Idle
                       ELSE IF stopped(m, t) THEN Answered(call[m][t], Nil)
                       ELSE call[m][t]
  BY <1>5
<1>7. \A k \in Kind, s, d \in Node :
         net'[k][s][d] = IF d = n THEN <<>> ELSE IF s = n THEN late(k, d)
                         ELSE net[k][s][d]
  BY <1>5
<1>8. ASSUME NEW m \in Node, NEW t \in Task
      PROVE  /\ Answered(call[m][t], Nil) \in Call
             /\ Answered(call[m][t], Nil).stage = "answered"
             /\ Answered(call[m][t], Nil).kind = call[m][t].kind
  BY <1>1, CallTypes, AnsweredType
<1>9. Idle \in Call /\ Idle.stage = "idle" /\ Idle.kind = "append"
  BY DEF Idle, Call, AppendCall, Stage
<1>10. call' \in [Node -> [Task -> Call]]
  <2>1. \A m \in Node, t \in Task : call'[m][t] \in Call
    BY <1>1, <1>6, <1>8, <1>9, CallTypes
  <2>2. QED
    BY <1>5, <2>1
<1>11. ASSUME NEW k \in Kind, NEW d \in Node
       PROVE  /\ late(k, d) \in Seq(Message) /\ Len(late(k, d)) = Len(net[k][n][d])
              /\ \A i \in 1..Len(net[k][n][d]) :
                   /\ late(k, d)[i].task = net[k][n][d][i].task
                   /\ late(k, d)[i].rpc = net[k][n][d][i].rpc
                   /\ ~late(k, d)[i].live
  <2> DEFINE q == net[k][n][d]
             r == [i \in 1..Len(q) |-> [q[i] EXCEPT !.live = FALSE]]
  <2>1. q \in Seq(Message) /\ \A i \in 1..Len(q) : q[i] \in Message
    BY <1>1, CallTypes, InQueue
  <2> HIDE DEF q
  <2>2. \A i \in 1..Len(q) : /\ [q[i] EXCEPT !.live = FALSE] \in Message
                             /\ [q[i] EXCEPT !.live = FALSE].task = q[i].task
                             /\ [q[i] EXCEPT !.live = FALSE].rpc = q[i].rpc
                             /\ ~[q[i] EXCEPT !.live = FALSE].live
    BY <2>1 DEF Message
  <2>3. r \in Seq(Message) /\ Len(r) = Len(q)
    BY <2>1, <2>2
  <2>4. QED
    BY <2>2, <2>3 DEF q, late
<1>12. IsNet(net')
  <2>1. \A k \in Kind, s, d \in Node : net'[k][s][d] \in Seq(Message)
    <3> TAKE k \in Kind, s, d \in Node
    <3>1. net[k][s][d] \in Seq(Message) /\ late(k, d) \in Seq(Message)
      BY <1>1, <1>11, CallTypes
    <3>2. CASE d = n
      <4>1. net'[k][s][d] = <<>>
        BY <1>7, <3>2
      <4>2. QED
        BY <4>1
    <3>3. CASE d # n /\ s = n
      <4>1. net'[k][s][d] = late(k, d)
        BY <1>7, <3>3
      <4>2. QED
        BY <3>1, <4>1
    <3>4. CASE d # n /\ s # n
      <4>1. net'[k][s][d] = net[k][s][d]
        BY <1>7, <3>4
      <4>2. QED
        BY <3>1, <4>1
    <3>5. QED
      BY <3>2, <3>3, <3>4
  <2>2. QED
    BY <1>5, <2>1 DEF IsNet
<1>13. Queues'
  <2> SUFFICES ASSUME NEW k \in Kind, NEW s \in Node, NEW d \in Node
               PROVE  Waits(net'[k][s][d], call'[s], k, s, d)
    BY DEF Queues
  <2> DEFINE q == net[k][s][d]
             old == call[s]
             new == call'[s]
  <2>1. q \in Seq(Message) /\ Waits(q, old, k, s, d)
    BY <1>1, CallTypes DEF Queues
  <2>2. CASE d = n
    <3>1. net'[k][s][d] = <<>>
      BY <1>7, <2>2
    <3>2. QED
      BY <3>1 DEF Waits
  <2>3. CASE d # n /\ s = n
    <3> DEFINE r == late(k, d)
    <3>1. net'[k][s][d] = r
      BY <1>7, <2>3
    <3>2. /\ r \in Seq(Message) /\ Len(r) = Len(q)
          /\ \A i \in 1..Len(q) : /\ r[i].task = q[i].task /\ r[i].rpc = q[i].rpc
                                  /\ ~r[i].live
      BY <1>11, <2>3
    <3> HIDE DEF r, q, old, new
    <3>3. Waits(r, new, k, s, d)
      BY <2>1, <3>2, LateWaits
    <3>4. QED
      BY <3>1, <3>3 DEF new
  <2>4. CASE d # n /\ s # n
    <3>1. net'[k][s][d] = q
      BY <1>7, <2>4
    <3>2. ASSUME NEW i \in 1..Len(q), q[i].live PROVE new[q[i].task] = old[q[i].task]
      <4>1. q[i].task \in Task
        BY <2>1, InQueue
      <4>2. PeerSeq[s][call[s][q[i].task].peer] = d
        <5>1. PeerSeq[s][old[q[i].task].peer] = d
          <6> HIDE DEF old, q
          <6>1. QED
            BY <2>1, <3>2 DEF Waits
        <5>2. QED
          BY <5>1
      <4>3. ~stopped(s, q[i].task)
        BY <2>4, <4>2 DEF stopped
      <4>4. QED
        BY <1>6, <2>4, <4>1, <4>3
    <3> HIDE DEF q, old, new
    <3>3. Waits(q, new, k, s, d)
      BY <2>1, <3>2, SameQueue
    <3>4. QED
      BY <3>1, <3>3 DEF new
  <2>5. QED
    BY <2>2, <2>3, <2>4
<1>14. TypeOK'
  <2>1. /\ saved'[n].term \in Nat /\ saved'[n].votedFor \in Vote
        /\ saved'[n].commit \in Nat
    BY <1>3
  <2>2. /\ term' \in [Node -> Nat] /\ votedFor' \in [Node -> Vote]
        /\ commit' \in [Node -> Nat] /\ leaderId' \in [Node -> Vote]
        /\ role' \in [Node -> {"follower", "candidate", "leader"}]
    BY <1>1, <1>4, <2>1 DEF TypeOK, Vote
  <2>3. log' \in [Node -> Seq(LogEntry)]
    BY <1>1, <1>4 DEF TypeOK
  <2>4. next' \in [Node -> [Node -> Nat]] /\ matched' \in [Node -> [Node -> Nat]]
    BY <1>1, <1>4 DEF TypeOK
  <2>5. /\ proposed' \subseteq Command /\ restarts' \in Nat
        /\ grants' \subseteq Node \X Nat \X Node /\ elected' \subseteq Node \X Nat
    BY <1>1, <1>4 DEF TypeOK
  <2>6. QED
    BY <1>3, <1>10, <1>12, <2>2, <2>3, <2>4, <2>5 DEF TypeOK, IsNet
<1>15. Tasks'
  <2>1. ASSUME NEW m \in Node, NEW t \in Task, call'[m][t].stage = "sent"
        PROVE  call'[m][t].peer \in 1..Len(PeerSeq[m])
    <3>1. call'[m][t] = call[m][t]
      BY <1>6, <1>8, <1>9, <2>1
    <3>2. QED
      BY <1>1, <2>1, <3>1 DEF Tasks
  <2>2. ASSUME NEW m \in Node, NEW c \in Command, c \notin proposed'
        PROVE  call'[m][c].stage = "idle"
    <3>1. c \in Task /\ call[m][c].stage = "idle"
      BY <1>1, <1>4, <2>2 DEF Tasks, Task
    <3>2. QED
      BY <1>6, <1>9, <3>1 DEF stopped
  <2>3. QED
    BY <2>1, <2>2 DEF Tasks
<1>16. Campaigns'
  <2> SUFFICES ASSUME NEW m \in Node PROVE CampaignOK(m, call'[m]["main"], grants)
    BY <1>4 DEF Campaigns
  <2> DEFINE c == call[m]["main"]
  <2>1. c \in Call /\ CampaignOK(m, c, grants)
    BY <1>1, CallTypes DEF Campaigns
  <2>2. CASE m = n
    BY <1>1, <1>6, <1>9, <2>2 DEF CampaignOK
  <2>3. CASE m # n /\ ~stopped(m, "main")
    BY <1>1, <1>6, <2>1, <2>3
  <2>4. CASE m # n /\ stopped(m, "main")
    <3>1. c.stage = "sent" /\ call'[m]["main"] = Answered(c, Nil)
      BY <1>1, <1>6, <2>4 DEF stopped
    <3> HIDE DEF c
    <3>2. CASE c.kind = "vote"
      BY <2>1, <3>1, <3>2, CampaignAnswered
    <3>3. CASE c.kind # "vote"
      <4>1. Answered(c, Nil).kind # "vote"
        BY <2>1, <3>3, AnsweredType
      <4>2. QED
        BY <3>1, <4>1 DEF CampaignOK
    <3>4. QED
      BY <3>2, <3>3
  <2>5. QED
    BY <2>2, <2>3, <2>4
<1>17. WinnerHasMajority'
  BY <1>1, <1>4, MajorityKept
<1>18. QED
  BY <1>13, <1>14, <1>15, <1>16, <1>17 DEF ElectionInv

-----------------------------------------------------------------------------
(* The theorems *)

\* The invariant of the elections holds.
LEMMA ElectionInvHolds == Spec => []ElectionInv
<1>1. Init => ElectionInv
  <2> SUFFICES ASSUME Init PROVE ElectionInv
    OBVIOUS
  <2>0. 0 \in Nat /\ <<>> \in Seq(LogEntry) /\ <<>> \in Seq(Message)
        /\ Idle \in Call /\ Idle.stage = "idle" /\ Idle.kind = "append"
    BY DEF Idle, Call, AppendCall, Stage
  <2>1. TypeOK
    <3> HIDE DEF Idle
    <3>1. QED
      BY <2>0 DEF Init, TypeOK, Vote
  <2>2. Queues
    BY DEF Init, Queues, Waits
  <2>3. Tasks
    BY <2>0 DEF Init, Tasks, Task
  <2>4. Campaigns
    BY <2>0 DEF Init, Campaigns, CampaignOK, Task
  <2>5. WinnerHasMajority
    BY DEF Init, WinnerHasMajority
  <2>6. QED
    BY <2>1, <2>2, <2>3, <2>4, <2>5 DEF ElectionInv
<1>2. ElectionInv /\ [Next]_vars => ElectionInv'
  <2> SUFFICES ASSUME ElectionInv, [Next]_vars PROVE ElectionInv'
    OBVIOUS
  <2>1. CASE UNCHANGED vars
    <3>1. UNCHANGED <<role, term, votedFor, leaderId, log, commit, next, matched, saved,
                      call, net, proposed, restarts, grants, elected>>
      BY <2>1 DEF vars, nodeVars, logVars, peerVars, auxVars
    <3>2. TypeOK' /\ Queues' /\ Tasks'
      BY <3>1 DEF ElectionInv, TypeOK, Queues, Tasks
    <3>3. Campaigns' /\ WinnerHasMajority'
      BY <3>1 DEF ElectionInv, Campaigns, WinnerHasMajority
    <3>4. QED
      BY <3>2, <3>3 DEF ElectionInv
  <2>2. CASE Next
    <3>1. PICK n \in Node :
            \/ StartElection(n)
            \/ SendHeartbeats(n)
            \/ \E c \in Command : Propose(n, c)
            \/ \E s \in Peers(n) : HandleVote(n, s) \/ HandleAppend(n, s)
            \/ \E t \in Task : Reply(n, t) \/ ReplyLost(n, t) \/ RequestLost(n, t)
            \/ \E graceful \in BOOLEAN : Restart(n, graceful)
      BY <2>2 DEF Next
    <3>2. CASE StartElection(n)
      BY <3>2, StartElectionKeeps
    <3>3. CASE SendHeartbeats(n)
      BY <3>3, SendHeartbeatsKeeps
    <3>4. CASE \E c \in Command : Propose(n, c)
      BY <3>4, ProposeKeeps
    <3>5. CASE \E s \in Peers(n) : HandleVote(n, s) \/ HandleAppend(n, s)
      BY <3>5, HandleVoteKeeps, HandleAppendKeeps DEF Peers
    <3>6. CASE \E t \in Task : Reply(n, t) \/ ReplyLost(n, t) \/ RequestLost(n, t)
      BY <3>6, ReplyKeeps, RequestLostKeeps
    <3>7. CASE \E graceful \in BOOLEAN : Restart(n, graceful)
      BY <3>7, RestartKeeps
    <3>8. QED
      BY <3>1, <3>2, <3>3, <3>4, <3>5, <3>6, <3>7
  <2>3. QED
    BY <2>1, <2>2
<1>3. QED
  BY <1>1, <1>2, PTL DEF Spec

\* Every state that the engines reach is of its type.
THEOREM RaftTypeCorrect == Spec => []TypeOK
<1>1. ElectionInv => TypeOK
  BY DEF ElectionInv
<1>2. QED
  BY <1>1, ElectionInvHolds, PTL

\* Who wins an election was voted for by a majority in its term, through losses,
\* late requests and restarts.
THEOREM WinnerHasMajorityHolds == Spec => []WinnerHasMajority
<1>1. ElectionInv => WinnerHasMajority
  BY DEF ElectionInv
<1>2. QED
  BY <1>1, ElectionInvHolds, PTL

\* What a step does to the term and the vote of a node: a vote that it gives
\* is the node's vote in its term, and takes the place of none of that term.
VoteStep(n) ==
    /\ \A m \in Node : m # n => term'[m] = term[m] /\ votedFor'[m] = votedFor[m]
    /\ term'[n] \in Nat /\ term'[n] >= term[n]
    /\ \/ /\ grants' = grants
          /\ term'[n] = term[n] => votedFor'[n] = votedFor[n]
       \/ /\ votedFor'[n] \in Node
          /\ grants' = grants \cup {<<n, term'[n], votedFor'[n]>>}
          /\ term'[n] = term[n] => votedFor[n] \in {Nil, votedFor'[n]}
    /\ restarts' = restarts
    /\ \/ saved' = saved
       \/ /\ saved' = [saved EXCEPT ![n] = StateOf(n)]
          /\ term' = term /\ votedFor' = votedFor /\ grants' = grants

\* No vote and no term changes.
LEMMA NoVoteStep ==
    ASSUME TypeOK, NEW n \in Node, UNCHANGED <<term, votedFor, grants, restarts>>,
           saved' = saved \/ saved' = [saved EXCEPT ![n] = StateOf(n)]
    PROVE  VoteStep(n)
BY DEF VoteStep, TypeOK

\* Every step but a restart is a step of that kind.
LEMMA StepsVote ==
    ASSUME ElectionInv, Next
    PROVE  \E n \in Node : VoteStep(n) \/ \E graceful \in BOOLEAN : Restart(n, graceful)
<1> USE DEF nodeVars, auxVars
<1>1. TypeOK /\ Queues
  BY DEF ElectionInv
<1>2. PICK n \in Node :
        \/ StartElection(n)
        \/ SendHeartbeats(n)
        \/ \E c \in Command : Propose(n, c)
        \/ \E s \in Peers(n) : HandleVote(n, s) \/ HandleAppend(n, s)
        \/ \E t \in Task : Reply(n, t) \/ ReplyLost(n, t) \/ RequestLost(n, t)
        \/ \E graceful \in BOOLEAN : Restart(n, graceful)
  BY DEF Next
<1>3. CASE StartElection(n)
  <2>1. /\ term' = [term EXCEPT ![n] = term[n] + 1]
        /\ votedFor' = [votedFor EXCEPT ![n] = n]
        /\ grants' = grants \cup {<<n, term[n] + 1, n>>}
        /\ UNCHANGED <<saved, restarts>>
    BY <1>3 DEF StartElection
  <2>2. term'[n] = term[n] + 1 /\ votedFor'[n] = n /\ term[n] \in Nat
        /\ \A m \in Node : m # n => term'[m] = term[m] /\ votedFor'[m] = votedFor[m]
    BY <1>1, <2>1 DEF TypeOK
  <2>3. VoteStep(n)
    BY <2>1, <2>2 DEF VoteStep
  <2>4. QED
    BY <2>3
<1>4. CASE SendHeartbeats(n)
  <2>1. UNCHANGED <<term, votedFor, grants, restarts, saved>>
    BY <1>4 DEF SendHeartbeats
  <2>2. QED
    BY <1>1, <2>1, NoVoteStep
<1>5. CASE \E c \in Command : Propose(n, c)
  <2>1. UNCHANGED <<term, votedFor, grants, restarts, saved>>
    BY <1>5 DEF Propose
  <2>2. QED
    BY <1>1, <2>1, NoVoteStep
<1>6. ASSUME NEW s \in Peers(n), HandleVote(n, s)
      PROVE  VoteStep(n)
  <2>1. s \in Node
    BY DEF Peers
  <2>2. VoteHandled(n, s, Head(net["vote"][s][n]).rpc)
    BY <1>1, <1>6, <2>1, VoteEffect
  <2>3. PICK rpc : VoteHandled(n, s, rpc)
    BY <2>2
  <2>4. /\ rpc.term \in Nat /\ rpc.from = s
        /\ term' = [term EXCEPT ![n] = IF rpc.term > term[n] THEN rpc.term ELSE term[n]]
        /\ votedFor' = [votedFor EXCEPT ![n] = IF Grants(n, rpc) THEN s
                                               ELSE VoteOf(n, rpc)]
        /\ grants' = IF Grants(n, rpc) THEN grants \cup {<<n, rpc.term, s>>} ELSE grants
        /\ UNCHANGED <<saved, restarts>>
    BY <2>3 DEF VoteHandled
  <2>5. /\ term'[n] = IF rpc.term > term[n] THEN rpc.term ELSE term[n]
        /\ votedFor'[n] = IF Grants(n, rpc) THEN s ELSE VoteOf(n, rpc)
        /\ \A m \in Node : m # n => term'[m] = term[m] /\ votedFor'[m] = votedFor[m]
        /\ term[n] \in Nat
    BY <1>1, <2>4 DEF TypeOK
  <2>6. CASE Grants(n, rpc)
    <3>1. rpc.term >= term[n] /\ VoteOf(n, rpc) \in {Nil, s}
      BY <2>4, <2>6 DEF Grants
    <3>2. term'[n] = rpc.term /\ votedFor'[n] = s
      BY <2>4, <2>5, <2>6, <3>1
    <3>3. term'[n] = term[n] => votedFor[n] \in {Nil, s}
      BY <2>4, <2>5, <3>1, <3>2 DEF VoteOf
    <3>4. QED
      BY <2>1, <2>4, <2>5, <2>6, <3>1, <3>2, <3>3 DEF VoteStep
  <2>7. CASE ~Grants(n, rpc)
    <3>1. grants' = grants /\ votedFor'[n] = VoteOf(n, rpc)
      BY <2>4, <2>5, <2>7
    <3>2. term'[n] = term[n] => votedFor'[n] = votedFor[n]
      BY <2>4, <2>5, <3>1 DEF VoteOf
    <3>3. QED
      BY <2>4, <2>5, <3>1, <3>2 DEF VoteStep
  <2>8. QED
    BY <2>6, <2>7
<1>7. ASSUME NEW s \in Peers(n), HandleAppend(n, s)
      PROVE  VoteStep(n)
  <2> DEFINE rpc == Head(net["append"][s][n]).rpc
  <2>1. s \in Node /\ "append" \in Kind /\ net["append"][s][n] # <<>>
    BY <1>7, Zenon DEF Peers, HandleAppend, Kind
  <2>2. rpc \in AppendRPC
    BY <1>1, <2>1, HeadOf DEF RequestOK
  <2>3. rpc.term \in Nat
    BY <2>2 DEF AppendRPC
  <2>4. /\ term' = [term EXCEPT ![n] = IF rpc.term >= term[n] THEN rpc.term ELSE term[n]]
        /\ votedFor' = [votedFor EXCEPT ![n] = IF rpc.term > term[n] THEN Nil
                                               ELSE votedFor[n]]
        /\ UNCHANGED <<saved, restarts, grants>>
    BY <1>7, Zenon DEF HandleAppend
  <2> HIDE DEF rpc
  <2>5. /\ term'[n] = IF rpc.term >= term[n] THEN rpc.term ELSE term[n]
        /\ votedFor'[n] = IF rpc.term > term[n] THEN Nil ELSE votedFor[n]
        /\ \A m \in Node : m # n => term'[m] = term[m] /\ votedFor'[m] = votedFor[m]
        /\ term[n] \in Nat
    BY <1>1, <2>4 DEF TypeOK
  <2>6. QED
    BY <2>3, <2>4, <2>5 DEF VoteStep
<1>8. ASSUME NEW t \in Task, Reply(n, t) \/ ReplyLost(n, t)
      PROVE  VoteStep(n)
  <2>1. \/ \E reply : ResumeElection(n, reply)
        \/ \E reply : ResumeAppend(n, t, reply)
    BY <1>8, Zenon DEF Reply, ReplyLost
  <2>2. ASSUME NEW reply, ResumeElection(n, reply) PROVE VoteStep(n)
    <3>1. /\ UNCHANGED <<term, votedFor, grants, restarts>>
          /\ saved' = saved \/ saved' = [saved EXCEPT ![n] = StateOf(n)]
      BY <2>2, Zenon DEF ResumeElection
    <3>2. QED
      BY <1>1, <3>1, NoVoteStep
  <2>3. ASSUME NEW reply, ResumeAppend(n, t, reply) PROVE VoteStep(n)
    <3>1. UNCHANGED <<term, votedFor, grants, restarts, saved>>
      BY <2>3, Zenon DEF ResumeAppend
    <3>2. QED
      BY <1>1, <3>1, NoVoteStep
  <2>4. QED
    BY <2>1, <2>2, <2>3
<1>9. ASSUME NEW t \in Task, RequestLost(n, t)
      PROVE  VoteStep(n)
  <2>1. UNCHANGED <<term, votedFor, grants, restarts, saved>>
    BY <1>9, Zenon DEF RequestLost
  <2>2. QED
    BY <1>1, <2>1, NoVoteStep
<1>10. QED
  BY <1>2, <1>3, <1>4, <1>5, <1>6, <1>7, <1>8, <1>9

\* While no node restarted, a vote given is the node's vote in its term, and its
\* only one.
VotesKept ==
    restarts = 0 =>
      /\ \A g \in grants : g[2] <= term[g[1]]
                           /\ (g[2] = term[g[1]] => votedFor[g[1]] = g[3])
      /\ \A g, h \in grants : g[1] = h[1] /\ g[2] = h[2] => g[3] = h[3]

LEMMA VotesKeptHolds == Spec => []VotesKept
<1>1. Init => VotesKept
  BY DEF Init, VotesKept
<1>2. ElectionInv /\ VotesKept /\ [Next]_vars => VotesKept'
  <2> SUFFICES ASSUME ElectionInv, VotesKept, [Next]_vars, restarts' = 0
               PROVE  /\ \A g \in grants' : g[2] <= term'[g[1]]
                           /\ (g[2] = term'[g[1]] => votedFor'[g[1]] = g[3])
                      /\ \A g, h \in grants' : g[1] = h[1] /\ g[2] = h[2] => g[3] = h[3]
    BY DEF VotesKept
  <2>1. CASE UNCHANGED vars
    <3>1. UNCHANGED <<restarts, grants, term, votedFor>>
      BY <2>1 DEF vars, nodeVars, auxVars
    <3>2. QED
      BY <3>1 DEF VotesKept
  <2>2. CASE Next
    <3>1. TypeOK /\ Nil \notin Node
      BY NodeAssumption DEF ElectionInv
    <3>2. PICK n \in Node : VoteStep(n)
      <4>1. PICK n \in Node : VoteStep(n) \/ \E graceful \in BOOLEAN : Restart(n, graceful)
        BY <2>2, StepsVote
      <4>2. ~\E graceful \in BOOLEAN : Restart(n, graceful)
        <5>1. restarts \in Nat
          BY <3>1 DEF TypeOK
        <5>2. \A graceful \in BOOLEAN : Restart(n, graceful) => restarts' = restarts + 1
          BY Zenon DEF Restart
        <5>3. QED
          BY <5>1, <5>2
      <4>3. QED
        BY <4>1, <4>2
    <3>3. restarts = 0
      BY <3>2 DEF VoteStep
    <3>4. /\ \A g \in grants : g[2] <= term[g[1]]
                               /\ (g[2] = term[g[1]] => votedFor[g[1]] = g[3])
          /\ \A g, h \in grants : g[1] = h[1] /\ g[2] = h[2] => g[3] = h[3]
      BY <3>3 DEF VotesKept
    <3>5. \A g \in grants : /\ g[1] \in Node /\ g[2] \in Nat /\ g[3] \in Node
                            /\ term[g[1]] \in Nat
      BY <3>1 DEF TypeOK
    <3> DEFINE new == <<n, term'[n], votedFor'[n]>>
    <3>6. ASSUME NEW g \in grants
          PROVE  g[2] <= term'[g[1]] /\ (g[2] = term'[g[1]] => votedFor'[g[1]] = g[3])
      <4>1. CASE g[1] # n
        BY <3>2, <3>4, <3>5, <4>1 DEF VoteStep
      <4>2. CASE g[1] = n
        <5>1. g[2] <= term[n] /\ (g[2] = term[n] => votedFor[n] = g[3])
              /\ g[2] \in Nat /\ g[3] \in Node /\ term[n] \in Nat
          BY <3>4, <3>5, <4>2
        <5>2. term'[n] \in Nat /\ term'[n] >= term[n]
              /\ (term'[n] = term[n] => votedFor'[n] = votedFor[n]
                                        \/ votedFor[n] \in {Nil, votedFor'[n]})
          BY <3>2 DEF VoteStep
        <5>3. g[2] <= term'[n] /\ (g[2] = term'[n] => votedFor'[n] = g[3])
          BY <3>1, <5>1, <5>2
        <5>4. QED
          BY <4>2, <5>3
      <4>3. QED
        BY <4>1, <4>2
    <3>7. \A g \in grants' : g \in grants \/ g = new
      BY <3>2 DEF VoteStep
    <3>8. new[1] = n /\ new[2] = term'[n] /\ new[3] = votedFor'[n] /\ term'[n] \in Nat
      BY <3>2 DEF VoteStep
    <3> HIDE DEF new
    <3>9. \A g \in grants' : g[2] <= term'[g[1]]
                             /\ (g[2] = term'[g[1]] => votedFor'[g[1]] = g[3])
      BY <3>6, <3>7, <3>8
    <3>10. ASSUME NEW g \in grants', NEW h \in grants', g[1] = h[1], g[2] = h[2]
           PROVE  g[3] = h[3]
      <4>1. CASE g \in grants /\ h \in grants
        BY <3>4, <3>10, <4>1
      <4>2. CASE g = new \/ h = new
        BY <3>8, <3>9, <3>10, <4>2
      <4>3. QED
        BY <3>7, <4>1, <4>2
    <3>11. QED
      BY <3>9, <3>10
  <2>3. QED
    BY <2>1, <2>2
<1>3. QED
  BY <1>1, <1>2, ElectionInvHolds, PTL DEF Spec

\* While no node restarts there is one winner per term: two majorities have a
\* voter in common, who gave one vote.
THEOREM OneWinnerPerTermHolds == Spec => []OneWinnerPerTerm
<1>1. ElectionInv /\ VotesKept => OneWinnerPerTerm
  <2> SUFFICES ASSUME ElectionInv, VotesKept, restarts = 0,
                      NEW a \in elected, NEW b \in elected, a[2] = b[2]
               PROVE  a[1] = b[1]
    BY DEF OneWinnerPerTerm
  <2> DEFINE A == {v \in Node : <<v, a[2], a[1]>> \in grants}
             B == {v \in Node : <<v, b[2], b[1]>> \in grants}
  <2>1. 2 * Cardinality(A) > Cardinality(Node) /\ 2 * Cardinality(B) > Cardinality(Node)
    BY DEF ElectionInv, WinnerHasMajority
  <2>2. A \in SUBSET Node /\ B \in SUBSET Node /\ IsFiniteSet(Node)
    BY NodeAssumption
  <2>3. ASSUME A \cap B # {} PROVE a[1] = b[1]
    <3>1. PICK v \in A \cap B : TRUE
      BY <2>3
    <3>2. <<v, a[2], a[1]>> \in grants /\ <<v, b[2], b[1]>> \in grants
      BY <3>1
    <3>3. QED
      BY <3>2 DEF VotesKept
  <2> HIDE DEF A, B
  <2>4. A \cap B # {}
    <3>1. IsFiniteSet(A) /\ IsFiniteSet(B)
      BY <2>2, FS_Subset
    <3>2. Cardinality(A) + Cardinality(B) > Cardinality(Node)
      BY <2>1, <2>2, <3>1, FS_CardinalityType
    <3>3. QED
      BY <2>2, <3>2, FS_MajoritiesIntersect
  <2>5. QED
    BY <2>3, <2>4
<1>2. QED
  BY <1>1, ElectionInvHolds, VotesKeptHolds, PTL

\* The state file is not ahead of the node, and the vote in it is the node's.
SavedKept ==
    \A n \in Node :
      /\ saved[n].term <= term[n]
      /\ saved[n].term = term[n] /\ saved[n].votedFor # Nil =>
           votedFor[n] = saved[n].votedFor

LEMMA SavedKeptHolds == Spec => []SavedKept
<1>1. Init => SavedKept
  BY DEF Init, SavedKept
<1>2. ElectionInv /\ SavedKept /\ [Next]_vars => SavedKept'
  <2> SUFFICES ASSUME ElectionInv, SavedKept, [Next]_vars, NEW m \in Node
               PROVE  /\ saved'[m].term <= term'[m]
                      /\ saved'[m].term = term'[m] /\ saved'[m].votedFor # Nil =>
                           votedFor'[m] = saved'[m].votedFor
    BY DEF SavedKept
  <2>0. /\ saved[m].term <= term[m]
        /\ saved[m].term = term[m] /\ saved[m].votedFor # Nil =>
             votedFor[m] = saved[m].votedFor
        /\ saved[m].term \in Nat /\ term[m] \in Nat /\ saved[m].votedFor \in Vote
    BY DEF SavedKept, ElectionInv, TypeOK
  <2>1. CASE UNCHANGED vars
    BY <2>0, <2>1 DEF vars, nodeVars, auxVars
  <2>2. CASE Next
    <3>1. TypeOK /\ Nil \notin Node
      BY NodeAssumption DEF ElectionInv
    <3>2. PICK n \in Node : VoteStep(n) \/ \E graceful \in BOOLEAN : Restart(n, graceful)
      BY <2>2, StepsVote
    <3>3. CASE VoteStep(n)
      <4>1. CASE saved' = saved /\ m # n
        BY <2>0, <3>3, <4>1 DEF VoteStep
      <4>2. CASE saved' = saved /\ m = n
        <5>1. term'[m] \in Nat /\ term'[m] >= term[m]
              /\ (term'[m] = term[m] => votedFor'[m] = votedFor[m]
                                        \/ votedFor[m] \in {Nil, votedFor'[m]})
          BY <3>3, <4>2 DEF VoteStep
        <5>2. QED
          BY <2>0, <4>2, <5>1
      <4>3. CASE /\ saved' = [saved EXCEPT ![n] = StateOf(n)]
                 /\ term' = term /\ votedFor' = votedFor
        <5>1. saved'[m] = IF m = n THEN StateOf(n) ELSE saved[m]
          BY <3>1, <4>3 DEF TypeOK
        <5>2. QED
          BY <2>0, <4>3, <5>1 DEF StateOf
      <4>4. QED
        BY <3>3, <4>1, <4>2, <4>3 DEF VoteStep
    <3>4. ASSUME NEW graceful \in BOOLEAN, Restart(n, graceful)
          PROVE  /\ saved'[m].term <= term'[m]
                 /\ saved'[m].term = term'[m] /\ saved'[m].votedFor # Nil =>
                      votedFor'[m] = saved'[m].votedFor
      <4>1. /\ term' = [term EXCEPT ![n] = saved'[n].term]
            /\ votedFor' = [votedFor EXCEPT ![n] = saved'[n].votedFor]
            /\ saved' = IF graceful THEN [saved EXCEPT ![n] = StateOf(n)] ELSE saved
        BY <3>4, Zenon DEF Restart, Loaded
      <4>2. saved'[n].term \in Nat
        BY <3>1, <4>1 DEF TypeOK, StateOf
      <4>3. CASE m = n
        BY <3>1, <4>1, <4>2, <4>3 DEF TypeOK
      <4>4. CASE m # n
        BY <2>0, <3>1, <4>1, <4>4 DEF TypeOK
      <4>5. QED
        BY <4>3, <4>4
    <3>5. QED
      BY <3>2, <3>3, <3>4
  <2>3. QED
    BY <2>1, <2>2
<1>3. QED
  BY <1>1, <1>2, ElectionInvHolds, PTL DEF Spec

\* A vote in the state file is honoured for its term, through every restart.
THEOREM SavedVoteHonouredHolds == Spec => SavedVoteHonoured
<1>1. ElectionInv /\ SavedKept /\ [Next]_vars =>
        [\A g \in grants' \ grants :
           LET file == saved[g[1]] IN
             g[2] = file.term /\ file.votedFor # Nil => g[3] = file.votedFor]_vars
  <2> SUFFICES ASSUME ElectionInv, SavedKept, Next, NEW g \in grants' \ grants,
                      g[2] = saved[g[1]].term, saved[g[1]].votedFor # Nil
               PROVE  g[3] = saved[g[1]].votedFor
    OBVIOUS
  <2>1. PICK n \in Node : VoteStep(n) \/ \E graceful \in BOOLEAN : Restart(n, graceful)
    BY StepsVote
  <2>2. \A graceful \in BOOLEAN : Restart(n, graceful) => grants' = grants
    BY Zenon DEF Restart
  <2>3. VoteStep(n)
    BY <2>1, <2>2
  <2>4. /\ term'[n] \in Nat /\ term'[n] >= term[n] /\ g = <<n, term'[n], votedFor'[n]>>
        /\ term'[n] = term[n] => votedFor[n] \in {Nil, votedFor'[n]}
    BY <2>3 DEF VoteStep
  <2>5. g[1] = n /\ g[2] = term'[n] /\ g[3] = votedFor'[n]
    BY <2>4
  <2>6. /\ saved[n].term <= term[n]
        /\ saved[n].term = term[n] /\ saved[n].votedFor # Nil =>
             votedFor[n] = saved[n].votedFor
        /\ saved[n].term \in Nat /\ term[n] \in Nat
    BY DEF SavedKept, ElectionInv, TypeOK
  <2>7. term'[n] = term[n] /\ votedFor[n] = saved[n].votedFor /\ votedFor[n] # Nil
    BY <2>4, <2>5, <2>6
  <2>8. QED
    BY <2>4, <2>5, <2>7
<1>2. QED
  BY <1>1, ElectionInvHolds, SavedKeptHolds, PTL DEF Spec, SavedVoteHonoured

\* Without restarts terms only grow, and a vote changes only with the term.
THEOREM TermsAndVotesHolds == Spec => TermsAndVotes
<1>1. ElectionInv /\ [Next]_vars =>
        [restarts' = 0 => \A n \in Node :
           /\ term'[n] >= term[n]
           /\ votedFor[n] # Nil /\ votedFor'[n] # votedFor[n] => term'[n] > term[n]]_vars
  <2> SUFFICES ASSUME ElectionInv, Next, restarts' = 0, NEW m \in Node
               PROVE  /\ term'[m] >= term[m]
                      /\ votedFor[m] # Nil /\ votedFor'[m] # votedFor[m] =>
                           term'[m] > term[m]
    OBVIOUS
  <2>1. restarts \in Nat /\ term[m] \in Nat
    BY DEF ElectionInv, TypeOK
  <2>2. PICK n \in Node : VoteStep(n) \/ \E graceful \in BOOLEAN : Restart(n, graceful)
    BY StepsVote
  <2>3. \A graceful \in BOOLEAN : Restart(n, graceful) => restarts' = restarts + 1
    BY Zenon DEF Restart
  <2>4. VoteStep(n)
    BY <2>1, <2>2, <2>3
  <2>5. CASE m # n
    BY <2>1, <2>4, <2>5 DEF VoteStep
  <2>6. CASE m = n
    <3>1. term'[m] \in Nat /\ term'[m] >= term[m]
          /\ (term'[m] = term[m] => votedFor'[m] = votedFor[m]
                                    \/ votedFor[m] \in {Nil, votedFor'[m]})
      BY <2>4, <2>6 DEF VoteStep
    <3>2. QED
      BY <2>1, <3>1
  <2>7. QED
    BY <2>5, <2>6
<1>2. QED
  BY <1>1, ElectionInvHolds, PTL DEF Spec, TermsAndVotes
-----------------------------------------------------------------------------
(* Replication while one node is elected.  The invariant follows an entry from *)
(* the log of the winner through the requests under way to the logs, the       *)
(* replies and the counts: requests of one sender arrive in order, so a log    *)
(* never gets shorter, and a reply never reports more than its sender has,     *)
(* however late it comes and whatever term the winner has by then.             *)

\* The number of entries a follower has after a request that matches its log.
End(r) == r.prev + Len(r.entries)

\* The log lg is a prefix of the log all.
Agrees(lg, all) == Len(lg) <= Len(all) /\ \A i \in 1..Len(lg) : lg[i] = all[i]

\* The log lg is what a follower has stored of a prefix of the log all.
Copied(lg, all) == Agrees(lg, StoredAll(all))

\* A request with entries of the log lg, and no more than it and its commit index c.
Carries(r, lg, c) ==
    /\ End(r) <= Len(lg) /\ r.commit <= c
    /\ \A i \in 1..Len(r.entries) : r.entries[i] = lg[r.prev + i]

\* Requests of one sender arrive in their order, so a request that matches never
\* shortens the log of its receiver, which has have entries.
InOrder(q, lg, c, have) ==
    \A i \in 1..Len(q) :
      /\ Carries(q[i].rpc, lg, c) /\ have <= End(q[i].rpc)
      /\ \A j \in i..Len(q) : End(q[i].rpc) <= End(q[j].rpc)

\* A task that is in a round of AppendEntries, or has the answer of a match.
Rounds(c)  == c.kind = "append" /\ c.stage \in {"sent", "answered"}
Matches(c) == c.kind = "append" /\ c.stage = "answered" /\ c.reply # Nil /\ c.reply.success

\* Whoever replicates was elected.
SendersWon ==
    \A s \in Node :
      \/ role[s] = "leader"
      \/ \E t \in Task : Rounds(call[s][t])
      \/ \E d \in Node : net["append"][s][d] # <<>>
      => s \in Winners

\* What is under way from the node l to the others.
Ordered(l) ==
    \A d \in Peers(l) : InOrder(net["append"][l][d], log[l], commit[l], Len(log[d]))

\* What l knows of the others is not more than they have.
Reports(l) ==
    /\ \A p \in Node : matched[l][p] <= Len(log[p])
    /\ \A t \in Task : Matches(call[l][t]) =>
         /\ call[l][t].peer \in 1..Len(PeerSeq[l])
         /\ call[l][t].reply.matched <= Len(log[PeerSeq[l][call[l][t].peer]])

Have(i) == {m \in Node : Len(log[m]) >= i}

Commits(l) ==
    /\ \A n \in Node : commit[n] <= commit[l] /\ commit[n] <= Len(log[n])
    /\ \A i \in 1..commit[l] : 2 * Cardinality(Have(i)) > Cardinality(Node)

Applies ==
    /\ applied \in [Node -> Seq(LogEntry)]
    /\ \A n \in Node : Len(applied[n]) <= commit[n] /\ Agrees(applied[n], log[n])

Following(l) ==
    /\ \A n \in Peers(l) : Copied(log[n], log[l])
    /\ Ordered(l) /\ Reports(l) /\ Commits(l) /\ Applies

\* The invariant of replication, which the steps keep.
ReplicationInv ==
    restarts = 0 =>
      /\ SendersWon
      /\ \A l \in Node : Winners \subseteq {l} => Following(l)

-----------------------------------------------------------------------------
\* Prefixes are what the properties say they are.
LEMMA PrefixAgrees ==
    ASSUME NEW a \in Seq(LogEntry), NEW b \in Seq(LogEntry), Agrees(a, b)
    PROVE  IsPrefixOf(a, b)
<1>1. Len(a) \in Nat /\ Len(b) \in Nat /\ Len(a) <= Len(b)
  BY DEF Agrees
<1>2. SubSeq(b, 1, Len(a)) \in Seq(LogEntry) /\ Len(SubSeq(b, 1, Len(a))) = Len(a)
      /\ \A i \in 1..Len(a) : SubSeq(b, 1, Len(a))[i] = b[i]
  BY <1>1
<1> DEFINE c == SubSeq(b, 1, Len(a))
<1> HIDE DEF c
<1>3. c \in Seq(LogEntry) /\ Len(c) = Len(a) /\ \A i \in 1..Len(a) : a[i] = c[i]
  BY <1>2 DEF c, Agrees
<1>4. a = c
  BY <1>3
<1>5. QED
  BY <1>1, <1>4 DEF IsPrefixOf, c

\* The same requests to a longer log, or with a higher commit index.
LEMMA InOrderGrows ==
    ASSUME NEW q \in Seq(Message), \A i \in 1..Len(q) : q[i].rpc \in AppendRPC,
           NEW lg \in Seq(LogEntry), NEW all \in Seq(LogEntry), NEW c \in Nat,
           NEW d \in Nat, NEW have \in Nat, NEW less \in Nat, less <= have,
           InOrder(q, lg, c, have), Agrees(lg, all), c <= d
    PROVE  InOrder(q, all, d, less)
<1> SUFFICES ASSUME NEW i \in 1..Len(q)
             PROVE  /\ Carries(q[i].rpc, all, d) /\ less <= End(q[i].rpc)
                    /\ \A j \in i..Len(q) : End(q[i].rpc) <= End(q[j].rpc)
  BY DEF InOrder
<1> DEFINE r == q[i].rpc
<1>1. /\ Carries(r, lg, c) /\ have <= End(r)
      /\ \A j \in i..Len(q) : End(r) <= End(q[j].rpc)
  BY DEF InOrder
<1>2. r \in AppendRPC
  OBVIOUS
<1> HIDE DEF r
<1>3. r.prev \in Nat /\ r.entries \in Seq(LogEntry) /\ Len(r.entries) \in Nat
      /\ r.commit \in Nat
  BY <1>2 DEF AppendRPC
<1>4. End(r) \in Nat /\ End(r) <= Len(lg) /\ Len(lg) \in Nat /\ Len(lg) <= Len(all)
      /\ Len(all) \in Nat
  BY <1>1, <1>3 DEF End, Carries, Agrees
<1>5. \A k \in 1..Len(r.entries) : r.entries[k] = all[r.prev + k]
  <2> TAKE k \in 1..Len(r.entries)
  <2>1. r.entries[k] = lg[r.prev + k]
    BY <1>1 DEF Carries
  <2>2. r.prev + k \in 1..Len(lg)
    <3>1. r.prev + Len(r.entries) <= Len(lg)
      BY <1>4 DEF End
    <3> DEFINE e == Len(r.entries)
    <3>2. e \in Nat /\ k \in 1..e /\ r.prev + e <= Len(lg)
      BY <1>3, <3>1
    <3> HIDE DEF e
    <3>3. k \in Nat /\ k >= 1 /\ k <= e /\ r.prev \in Nat /\ Len(lg) \in Nat
      BY <1>3, <1>4, <3>2
    <3> HIDE DEF r
    <3>4. QED
      BY <3>2, <3>3, SMTT(30)
  <2>3. QED
    BY <2>1, <2>2 DEF Agrees
<1>6. Carries(r, all, d)
  BY <1>1, <1>3, <1>4, <1>5 DEF Carries
<1>7. QED
  BY <1>1, <1>4, <1>6 DEF r

\* Some of the requests, in their order.
LEMMA InOrderThins ==
    ASSUME NEW q \in Seq(Message), NEW r \in Seq(Message), NEW f,
           f \in [1..Len(r) -> 1..Len(q)],
           \A i, j \in 1..Len(r) : i <= j => f[i] <= f[j],
           \A i \in 1..Len(r) : r[i].rpc = q[f[i]].rpc,
           NEW lg, NEW c, NEW have, InOrder(q, lg, c, have)
    PROVE  InOrder(r, lg, c, have)
<1> SUFFICES ASSUME NEW i \in 1..Len(r)
             PROVE  /\ Carries(r[i].rpc, lg, c) /\ have <= End(r[i].rpc)
                    /\ \A j \in i..Len(r) : End(r[i].rpc) <= End(r[j].rpc)
  BY DEF InOrder
<1>1. f[i] \in 1..Len(q) /\ r[i].rpc = q[f[i]].rpc
  OBVIOUS
<1>2. Carries(r[i].rpc, lg, c) /\ have <= End(r[i].rpc)
  BY <1>1 DEF InOrder
<1>3. ASSUME NEW j \in i..Len(r) PROVE End(r[i].rpc) <= End(r[j].rpc)
  <2>1. j \in 1..Len(r) /\ i <= j
    BY <1>3
  <2>2. f[j] \in 1..Len(q) /\ f[i] <= f[j] /\ r[j].rpc = q[f[j]].rpc
    BY <2>1
  <2>3. f[j] \in f[i]..Len(q)
    BY <1>1, <2>2
  <2>4. QED
    BY <1>1, <2>2, <2>3 DEF InOrder
<1>4. QED
  BY <1>2, <1>3

\* The request at the head is taken: the others are not shorter.
LEMMA InOrderTail ==
    ASSUME NEW q \in Seq(Message), q # <<>>, NEW lg, NEW c, NEW have,
           InOrder(q, lg, c, have)
    PROVE  /\ Carries(Head(q).rpc, lg, c) /\ have <= End(Head(q).rpc)
           /\ InOrder(Tail(q), lg, c, have)
           /\ InOrder(Tail(q), lg, c, End(Head(q).rpc))
<1> DEFINE r == Tail(q)
<1>1. r \in Seq(Message) /\ Len(r) \in Nat /\ Len(q) = Len(r) + 1 /\ 1 \in 1..Len(q)
      /\ Head(q) = q[1] /\ \A i \in 1..Len(r) : r[i] = q[i + 1]
  OBVIOUS
<1> HIDE DEF r
<1>2. Carries(q[1].rpc, lg, c) /\ have <= End(q[1].rpc)
  BY <1>1 DEF InOrder
<1>3. ASSUME NEW i \in 1..Len(r)
      PROVE  /\ Carries(r[i].rpc, lg, c) /\ have <= End(r[i].rpc)
             /\ End(q[1].rpc) <= End(r[i].rpc)
             /\ \A j \in i..Len(r) : End(r[i].rpc) <= End(r[j].rpc)
  <2>1. i + 1 \in 1..Len(q) /\ r[i] = q[i + 1] /\ i + 1 \in 1..Len(q)
    BY <1>1
  <2>2. Carries(r[i].rpc, lg, c) /\ have <= End(r[i].rpc)
    BY <2>1 DEF InOrder
  <2>3. End(q[1].rpc) <= End(r[i].rpc)
    BY <1>1, <2>1 DEF InOrder
  <2>4. ASSUME NEW j \in i..Len(r) PROVE End(r[i].rpc) <= End(r[j].rpc)
    <3>1. j \in 1..Len(r) /\ r[j] = q[j + 1] /\ j + 1 \in (i + 1)..Len(q)
      BY <1>1
    <3>2. QED
      BY <2>1, <3>1 DEF InOrder
  <2>5. QED
    BY <2>2, <2>3, <2>4
<1>4. QED
  BY <1>1, <1>2, <1>3 DEF InOrder, r

\* A request up to the end of the log joins the queue.
LEMMA InOrderAppends ==
    ASSUME NEW q \in Seq(Message), NEW m \in Message, m.rpc \in AppendRPC,
           \A i \in 1..Len(q) : q[i].rpc \in AppendRPC,
           NEW lg \in Seq(LogEntry), NEW c \in Nat, NEW have \in Nat, have <= Len(lg),
           InOrder(q, lg, c, have), Carries(m.rpc, lg, c), End(m.rpc) = Len(lg)
    PROVE  InOrder(Append(q, m), lg, c, have)
<1> DEFINE r == Append(q, m)
<1>1. /\ Len(r) = Len(q) + 1 /\ Len(q) \in Nat /\ r[Len(q) + 1] = m
      /\ \A i \in 1..Len(q) : r[i] = q[i]
  OBVIOUS
<1> HIDE DEF r
<1>2. ASSUME NEW i \in 1..Len(r)
      PROVE  Carries(r[i].rpc, lg, c) /\ have <= End(r[i].rpc)
             /\ End(r[i].rpc) <= Len(lg)
  <2>1. CASE i \in 1..Len(q)
    BY <1>1, <2>1, SMTT(30) DEF InOrder, Carries
  <2>2. CASE i = Len(q) + 1
    BY <1>1, <2>2
  <2>3. QED
    BY <1>1, <2>1, <2>2
<1>3. ASSUME NEW i \in 1..Len(r), NEW j \in i..Len(r)
      PROVE  End(r[i].rpc) <= End(r[j].rpc)
  <2>1. CASE j = Len(q) + 1
    BY <1>1, <1>2, <2>1
  <2>2. CASE j # Len(q) + 1
    <3>1. i \in 1..Len(q) /\ j \in i..Len(q) /\ j \in 1..Len(q)
      BY <1>1, <2>2
    <3>2. QED
      BY <1>1, <3>1 DEF InOrder
  <2>3. QED
    BY <2>1, <2>2
<1>4. InOrder(r, lg, c, have)
  BY <1>2, <1>3 DEF InOrder
<1>5. QED
  BY <1>4 DEF r

\* Types of what replication reads.
LEMMA LogTypes ==
    ASSUME ElectionInv
    PROVE  /\ \A n \in Node : log[n] \in Seq(LogEntry) /\ Len(log[n]) \in Nat
                              /\ commit[n] \in Nat
           /\ \A n, p \in Node : matched[n][p] \in Nat
           /\ \A s, d \in Node :
                /\ net["append"][s][d] \in Seq(Message)
                /\ \A i \in 1..Len(net["append"][s][d]) :
                     net["append"][s][d][i].rpc \in AppendRPC
<1>1. TypeOK /\ Queues /\ "append" \in Kind
  BY DEF ElectionInv, Kind
<1>2. \A n \in Node : log[n] \in Seq(LogEntry) /\ Len(log[n]) \in Nat /\ commit[n] \in Nat
  BY <1>1 DEF TypeOK
<1>3. \A n, p \in Node : matched[n][p] \in Nat
  BY <1>1 DEF TypeOK
<1>4. ASSUME NEW s \in Node, NEW d \in Node
      PROVE  /\ net["append"][s][d] \in Seq(Message)
             /\ \A i \in 1..Len(net["append"][s][d]) :
                  net["append"][s][d][i].rpc \in AppendRPC
  <2> DEFINE q == net["append"][s][d]
             calls == call[s]
  <2>1. q \in Seq(Message) /\ Waits(q, calls, "append", s, d)
    BY <1>1, CallTypes DEF Queues
  <2> HIDE DEF q, calls
  <2>2. \A i \in 1..Len(q) : q[i].rpc \in AppendRPC
    BY <2>1 DEF Waits, RequestOK
  <2>3. QED
    BY <2>1, <2>2 DEF q
<1>5. QED
  BY <1>2, <1>3, <1>4

LEMMA NewLogTypes ==
    ASSUME ElectionInv'
    PROVE  /\ \A n \in Node : log'[n] \in Seq(LogEntry) /\ Len(log'[n]) \in Nat
                              /\ commit'[n] \in Nat
           /\ \A s, d \in Node : net'["append"][s][d] \in Seq(Message)
<1>1. log' \in [Node -> Seq(LogEntry)] /\ commit' \in [Node -> Nat]
      /\ net' \in [Kind -> [Node -> [Node -> Seq(Message)]]] /\ "append" \in Kind
  BY DEF ElectionInv, TypeOK, Kind
<1>2. QED
  BY <1>1

\* A call that begins no round and matches nothing anew.
CallKept(new, old) ==
    (Rounds(new) => Rounds(old)) /\ (Matches(new) => new = old)

\* Some of the requests of q, in their order.
Thinner(r, q) ==
    \E f \in [1..Len(r) -> 1..Len(q)] :
      /\ \A i, j \in 1..Len(r) : i <= j => f[i] <= f[j]
      /\ \A i \in 1..Len(r) : r[i].rpc = q[f[i]].rpc

\* A step that replicates nothing.
QuietStep ==
    /\ UNCHANGED <<log, commit, applied>>
    /\ \A n, p \in Node : matched'[n][p] \in {matched[n][p], 0}
    /\ elected \subseteq elected'
    /\ \A n \in Node : role'[n] = "leader" => role[n] = "leader" \/ n \in Winners'
    /\ \A n \in Node, t \in Task : CallKept(call'[n][t], call[n][t])
    /\ \A s, d \in Node : Thinner(net'["append"][s][d], net["append"][s][d])

LEMMA SameThinner ==
    ASSUME NEW q \in Seq(Message)
    PROVE  Thinner(q, q)
<1> DEFINE f == [i \in 1..Len(q) |-> i]
<1>1. f \in [1..Len(q) -> 1..Len(q)] /\ \A i \in 1..Len(q) : f[i] = i
  OBVIOUS
<1> HIDE DEF f
<1>2. QED
  BY <1>1 DEF Thinner

LEMMA TailThinner ==
    ASSUME NEW q \in Seq(Message), q # <<>>
    PROVE  Thinner(Tail(q), q)
<1> DEFINE r == Tail(q)
           f == [i \in 1..Len(r) |-> i + 1]
<1>1. r \in Seq(Message) /\ Len(r) \in Nat /\ Len(q) = Len(r) + 1
      /\ \A i \in 1..Len(r) : r[i] = q[i + 1]
  OBVIOUS
<1>2. f \in [1..Len(r) -> 1..Len(q)] /\ \A i \in 1..Len(r) : f[i] = i + 1
  BY <1>1
<1> HIDE DEF f, r
<1>3. /\ \A i, j \in 1..Len(r) : i <= j => f[i] <= f[j]
      /\ \A i \in 1..Len(r) : r[i].rpc = q[f[i]].rpc
  BY <1>1, <1>2
<1>4. Thinner(r, q)
  BY <1>2, <1>3 DEF Thinner
<1>5. QED
  BY <1>4 DEF r

\* More elections have no fewer winners.
LEMMA MoreWinners ==
    ASSUME elected \subseteq elected'
    PROVE  Winners \subseteq Winners'
BY DEF Winners

\* A sender that was not elected before has begun nothing.
LEMMA SendersKept ==
    ASSUME SendersWon, elected \subseteq elected',
           \A n \in Node : role'[n] = "leader" => role[n] = "leader" \/ n \in Winners',
           \A n \in Node : n \in Winners \/
             \A t \in Task : Rounds(call'[n][t]) => Rounds(call[n][t]),
           \A n \in Node : n \in Winners \/
             \A d \in Node : net'["append"][n][d] # <<>> => net["append"][n][d] # <<>>
    PROVE  SendersWon'
<1> SUFFICES ASSUME NEW s \in Node,
                    \/ role'[s] = "leader"
                    \/ \E t \in Task : Rounds(call'[s][t])
                    \/ \E d \in Node : net'["append"][s][d] # <<>>
             PROVE  s \in Winners'
  BY DEF SendersWon, Rounds
<1>1. Winners \subseteq Winners'
  BY MoreWinners
<1>2. QED
  BY <1>1 DEF SendersWon

LEMMA QuietKeeps ==
    ASSUME ElectionInv, ElectionInv', SendersWon, QuietStep
    PROVE  SendersWon' /\ \A l \in Node : Following(l) => Following(l)'
<1>1. SendersWon'
  <2>1. \A n, d \in Node : net'["append"][n][d] # <<>> => net["append"][n][d] # <<>>
    <3> SUFFICES ASSUME NEW n \in Node, NEW d \in Node, net["append"][n][d] = <<>>
                 PROVE  net'["append"][n][d] = <<>>
      OBVIOUS
    <3> DEFINE r == net'["append"][n][d]
               q == net["append"][n][d]
    <3>1. r \in Seq(Message) /\ Thinner(r, q) /\ q = <<>>
      BY NewLogTypes DEF QuietStep
    <3> HIDE DEF r, q
    <3>2. PICK f \in [1..Len(r) -> 1..Len(q)] : TRUE
      BY <3>1 DEF Thinner
    <3>3. Len(q) = 0 /\ Len(r) \in Nat
      BY <3>1
    <3>4. Len(r) = 0
      <4> SUFFICES ASSUME Len(r) > 0 PROVE FALSE
        BY <3>3
      <4>0. 1 \in 1..Len(r)
        BY <3>3
      <4>1. f[1] \in 1..Len(q)
        BY <3>2, <4>0
      <4>2. QED
        BY <3>3, <4>1
    <3>5. QED
      BY <3>1, <3>4 DEF r
  <2>2. \A n \in Node, t \in Task : Rounds(call'[n][t]) => Rounds(call[n][t])
    BY DEF QuietStep, CallKept
  <2>3. QED
    BY <2>1, <2>2, SendersKept DEF QuietStep
<1>2. ASSUME NEW l \in Node, Following(l)
      PROVE  Following(l)'
  <2>1. UNCHANGED <<log, commit, applied>>
    BY DEF QuietStep
  <2>2. ASSUME NEW d \in Peers(l)
        PROVE  InOrder(net'["append"][l][d], log[l], commit[l], Len(log[d]))
    <3> DEFINE r == net'["append"][l][d]
               q == net["append"][l][d]
               have == Len(log[d])
    <3>1. r \in Seq(Message) /\ q \in Seq(Message) /\ Thinner(r, q)
          /\ InOrder(q, log[l], commit[l], have)
      BY <1>2, LogTypes, NewLogTypes DEF QuietStep, Following, Ordered, Peers
    <3> HIDE DEF r, q, have
    <3>2. PICK f \in [1..Len(r) -> 1..Len(q)] :
             /\ \A i, j \in 1..Len(r) : i <= j => f[i] <= f[j]
             /\ \A i \in 1..Len(r) : r[i].rpc = q[f[i]].rpc
      BY <3>1 DEF Thinner
    <3>3. InOrder(r, log[l], commit[l], have)
      BY <3>1, <3>2, InOrderThins
    <3>4. QED
      BY <3>3 DEF r, have
  <2>3. Ordered(l)'
    BY <2>1, <2>2 DEF Ordered
  <2>4. ASSUME NEW p \in Node PROVE matched'[l][p] <= Len(log'[p])
    <3>1. matched[l][p] <= Len(log[p]) /\ Len(log[p]) \in Nat
      BY <1>2, LogTypes DEF Following, Reports
    <3>2. matched'[l][p] \in {matched[l][p], 0}
      BY DEF QuietStep
    <3>3. QED
      BY <2>1, <3>1, <3>2
  <2>5. ASSUME NEW t \in Task, Matches(call'[l][t])
        PROVE  /\ call'[l][t].peer \in 1..Len(PeerSeq[l])
               /\ call'[l][t].reply.matched <= Len(log'[PeerSeq[l][call'[l][t].peer]])
    <3>1. call'[l][t] = call[l][t]
      BY <2>5 DEF QuietStep, CallKept
    <3>2. QED
      BY <1>2, <2>1, <2>5, <3>1 DEF Following, Reports
  <2>6. Reports(l)'
    BY <2>4, <2>5 DEF Reports, Matches
  <2>7. Commits(l)' /\ Applies' /\ \A n \in Peers(l) : Copied(log'[n], log'[l])
    BY <1>2, <2>1 DEF Following, Commits, Applies, Have, Agrees
  <2>8. QED
    BY <2>3, <2>6, <2>7 DEF Following, Copied, Agrees
<1>3. QED
  BY <1>1, <1>2

\* A campaign sends no entries.
LEMMA VoteRequested ==
    ASSUME TypeOK, NEW n \in Node, NEW i \in 1..Len(PeerSeq[n]), NEW votes, NEW rpc,
           rpc \in VoteRPC, Request(n, "main", "vote", i, votes, rpc)
    PROVE  /\ \A s, d \in Node : net'["append"][s][d] = net["append"][s][d]
           /\ \A m \in Node, t \in Task : CallKept(call'[m][t], call[m][t])
<1> DEFINE c == [stage |-> "sent", kind |-> "vote", peer |-> i, votes |-> votes,
                 rpc |-> rpc, reply |-> Nil]
           p == PeerSeq[n][i]
           msg == [task |-> "main", live |-> TRUE, rpc |-> rpc]
<1>1. call' = [call EXCEPT ![n]["main"] = c]
      /\ net' = [net EXCEPT !["vote"][n][p] = Append(net["vote"][n][p], msg)]
  BY DEF Request
<1>2. p \in Node /\ msg \in Message
  BY PeersDiffer DEF Message, Task
<1>3. Append(net["vote"][n][p], msg) \in Seq(Message) /\ IsNet(net)
      /\ "append" \in Kind /\ "vote" \in Kind
  <2>1. net["vote"][n][p] \in Seq(Message)
    BY <1>2, CallTypes
  <2>2. IsNet(net) /\ "append" \in Kind /\ "vote" \in Kind
    BY DEF TypeOK, IsNet, Kind
  <2> HIDE DEF msg, p
  <2>3. QED
    BY <1>2, <2>1, <2>2
<1>4. ~Rounds(c) /\ ~Matches(c)
  BY DEF Rounds, Matches
<1> DEFINE v == Append(net["vote"][n][p], msg)
<1>5. v \in Seq(Message) /\ Replaced(net', net, "vote", n, p, v)
  BY <1>1, <1>3 DEF Replaced
<1> HIDE DEF c, msg, p, v
<1>6. \A s, d \in Node : net'["append"][s][d] = net["append"][s][d]
  BY <1>2, <1>3, <1>5, OneQueue
<1>7. ASSUME NEW m \in Node, NEW t \in Task
      PROVE  CallKept(call'[m][t], call[m][t])
  <2>1. call'[m][t] = call[m][t] \/ call'[m][t] = c
    BY <1>1 DEF TypeOK
  <2>2. QED
    BY <1>4, <2>1 DEF CallKept
<1>8. QED
  BY <1>6, <1>7

LEMMA StartElectionQuiet ==
    ASSUME ElectionInv, NEW n \in Node, StartElection(n)
    PROVE  QuietStep
<1> DEFINE rpc == [term |-> term[n] + 1, from |-> n, lastIndex |-> Len(log[n]),
                   lastTerm |-> Last(n)]
<1>1. /\ role' = [role EXCEPT ![n] = "candidate"]
      /\ Request(n, "main", "vote", 1, 1, rpc)
      /\ UNCHANGED <<leaderId, logVars, peerVars, saved, proposed, restarts, elected>>
  BY Zenon DEF StartElection
<1>2. TypeOK
  BY DEF ElectionInv
<1>3. rpc \in VoteRPC
  <2>1. term[n] \in Nat /\ log[n] \in Seq(LogEntry)
    BY <1>2 DEF TypeOK
  <2>2. Last(n) \in Nat
    <3>1. log[n] # <<>> => log[n][Len(log[n])] \in LogEntry
      BY <2>1
    <3>2. QED
      BY <3>1 DEF Last, LogEntry
  <2>3. QED
    BY <2>1, <2>2 DEF VoteRPC
<1> HIDE DEF rpc
<1>4. 1 \in 1..Len(PeerSeq[n])
  BY PeersDiffer
<1>5. /\ \A s, d \in Node : net'["append"][s][d] = net["append"][s][d]
      /\ \A m \in Node, t \in Task : CallKept(call'[m][t], call[m][t])
  BY <1>1, <1>2, <1>3, <1>4, VoteRequested
<1>6. \A s, d \in Node : Thinner(net'["append"][s][d], net["append"][s][d])
  BY <1>5, LogTypes, SameThinner
<1>7. \A m \in Node : role'[m] = "leader" => role[m] = "leader"
  BY <1>1, <1>2 DEF TypeOK
<1>8. QED
  BY <1>1, <1>5, <1>6, <1>7 DEF QuietStep, logVars, peerVars

LEMMA HandleVoteQuiet ==
    ASSUME ElectionInv, NEW n \in Node, NEW s \in Node, HandleVote(n, s)
    PROVE  QuietStep
<1> DEFINE rpc == Head(net["vote"][s][n]).rpc
           reply == [granted |-> Grants(n, rpc)]
           q == net["vote"][s][n]
<1>1. /\ q # <<>>
      /\ role' = [role EXCEPT ![n] = IF rpc.term > term[n] THEN "follower" ELSE @]
      /\ Answer(n, s, "vote", reply)
      /\ UNCHANGED <<leaderId, logVars, peerVars, saved, proposed, restarts, elected>>
  BY Zenon DEF HandleVote
<1>2. TypeOK /\ Queues /\ "vote" \in Kind /\ "append" \in Kind /\ IsNet(net)
  BY DEF ElectionInv, Kind, TypeOK, IsNet
<1>3. reply \in VoteReply
  BY DEF VoteReply, Grants
<1>4. net' = [net EXCEPT !["vote"][s][n] = Tail(q)]
  BY <1>1, Zenon DEF Answer
<1> HIDE DEF rpc, reply
<1>5. \A m \in Node, u \in Task : \/ call'[m][u] = call[m][u]
                                  \/ TakesAnswer(m, u, "vote", s, n, reply)
  BY <1>1, <1>2, <1>3, AnswerKeeps
<1>6. \A m \in Node, u \in Task : CallKept(call'[m][u], call[m][u])
  <2> SUFFICES ASSUME NEW m \in Node, NEW u \in Task,
                      TakesAnswer(m, u, "vote", s, n, reply)
               PROVE  CallKept(call'[m][u], call[m][u])
    BY <1>5 DEF CallKept
  <2> DEFINE c == call[s][u]
  <2>1. m = s /\ c.kind = "vote" /\ call'[s][u] = Answered(c, reply) /\ c \in Call
    BY <1>2, CallTypes DEF TakesAnswer
  <2> HIDE DEF c
  <2>2. Answered(c, reply).kind = "vote"
    BY <1>3, <2>1, AnsweredType
  <2>3. QED
    BY <2>1, <2>2 DEF CallKept, Rounds, Matches
<1>7. \A a, d \in Node : net'["append"][a][d] = net["append"][a][d]
  <2> DEFINE v == Tail(q)
  <2>1. v \in Seq(Message) /\ Replaced(net', net, "vote", s, n, v)
    BY <1>1, <1>2, <1>4 DEF Replaced, IsNet
  <2> HIDE DEF v, q
  <2>2. QED
    BY <1>2, <2>1, OneQueue
<1>8. \A a, d \in Node : Thinner(net'["append"][a][d], net["append"][a][d])
  BY <1>7, LogTypes, SameThinner
<1>9. \A m \in Node : role'[m] = "leader" => role[m] = "leader"
  BY <1>1, <1>2 DEF TypeOK
<1>10. QED
  BY <1>1, <1>6, <1>8, <1>9 DEF QuietStep, logVars, peerVars

\* A queue without its i-th request.
LEMMA LostThinner ==
    ASSUME NEW q \in Seq(Message), NEW i \in 1..Len(q)
    PROVE  /\ SubSeq(q, 1, i - 1) \o SubSeq(q, i + 1, Len(q)) \in Seq(Message)
           /\ Thinner(SubSeq(q, 1, i - 1) \o SubSeq(q, i + 1, Len(q)), q)
<1> DEFINE a == SubSeq(q, 1, i - 1)
           b == SubSeq(q, i + 1, Len(q))
           r == a \o b
           f == [j \in 1..Len(r) |-> IF j < i THEN j ELSE j + 1]
<1>0. Len(q) \in Nat /\ i \in Nat
  OBVIOUS
<1>1. a \in Seq(Message) /\ Len(a) = i - 1 /\ \A j \in 1..(i - 1) : a[j] = q[j]
  OBVIOUS
<1>2. /\ b \in Seq(Message) /\ Len(b) = Len(q) - i
      /\ \A j \in 1..(Len(q) - i) : b[j] = q[j + i]
  OBVIOUS
<1> HIDE DEF a, b
<1>3. r \in Seq(Message) /\ Len(r) = Len(q) - 1 /\ Len(r) \in Nat
  <2>1. a \in Seq(Message) /\ b \in Seq(Message)
    BY <1>1, <1>2
  <2>2. r \in Seq(Message) /\ Len(r) = Len(a) + Len(b)
    BY <2>1
  <2>3. QED
    BY <1>0, <1>1, <1>2, <2>2
<1>4. \A j \in 1..Len(r) : r[j] = IF j < i THEN q[j] ELSE q[j + 1]
  <2> TAKE j \in 1..Len(r)
  <2>1. CASE j < i
    BY <1>1, <1>2, <1>3, <2>1
  <2>2. CASE ~(j < i)
    <3>1. r[j] = b[j - (i - 1)] /\ j - (i - 1) \in 1..(Len(q) - i)
      BY <1>1, <1>2, <1>3, <2>2
    <3>2. b[j - (i - 1)] = q[(j - (i - 1)) + i]
      BY <1>2, <3>1
    <3>3. QED
      BY <2>2, <3>1, <3>2
  <2>3. QED
    BY <2>1, <2>2
<1> HIDE DEF r
<1>5. /\ f \in [1..Len(r) -> 1..Len(q)]
      /\ \A j \in 1..Len(r) : r[j].rpc = q[f[j]].rpc
      /\ \A j, m \in 1..Len(r) : j <= m => f[j] <= f[m]
  BY <1>0, <1>3, <1>4
<1> HIDE DEF f
<1>6. Thinner(r, q)
  BY <1>5 DEF Thinner
<1>7. QED
  BY <1>3, <1>6 DEF r, a, b

LEMMA RequestLostQuiet ==
    ASSUME ElectionInv, NEW n \in Node, NEW t \in Task, RequestLost(n, t)
    PROVE  QuietStep
<1> DEFINE c == call[n][t]
           k == c.kind
           d == PeerSeq[n][c.peer]
           q == net[k][n][d]
           lost(i) == SubSeq(q, 1, i - 1) \o SubSeq(q, i + 1, Len(q))
<1>1. TypeOK /\ Queues /\ c.peer \in 1..Len(PeerSeq[n]) /\ IsNet(net)
      /\ "append" \in Kind
  BY DEF ElectionInv, Tasks, RequestLost, TypeOK, IsNet, Kind
<1>2. PICK i \in 1..Len(q) :
         \/ net' = [net EXCEPT ![k][n][d] = lost(i)]
         \/ net' = [net EXCEPT ![k][n][d] = [@ EXCEPT ![i].live = FALSE]]
  BY Zenon DEF RequestLost
<1>3. UNCHANGED <<nodeVars, logVars, peerVars, auxVars>>
  BY Zenon DEF RequestLost
<1>4. /\ \A m \in Node, u \in Task : call'[m][u] = call[m][u] \/ GivesUp(m, u)
      /\ IsNet(net')
  BY <1>1, LostKeeps
<1>5. c \in Call /\ k \in Kind /\ d \in Node
  <2>1. c \in Call
    BY <1>1, CallTypes
  <2>2. d \in Node
    BY <1>1, PeersDiffer
  <2> HIDE DEF c, d
  <2>3. QED
    BY <2>1, <2>2 DEF Call, VoteCall, AppendCall, Kind
<1>6. q \in Seq(Message)
  BY <1>1, <1>5 DEF IsNet
<1> HIDE DEF c, k, d
<1>7. \E r \in Seq(Message) : Thinner(r, q) /\ Replaced(net', net, k, n, d, r)
  <2>1. CASE net' = [net EXCEPT ![k][n][d] = lost(i)]
    <3> DEFINE r == lost(i)
    <3>1. Replaced(net', net, k, n, d, r)
      BY <2>1 DEF Replaced
    <3>2. r \in Seq(Message) /\ Thinner(r, q)
      <4> HIDE DEF q
      <4>1. QED
        BY <1>6, LostThinner
    <3> HIDE DEF r
    <3>3. QED
      BY <3>1, <3>2
  <2>2. CASE net' = [net EXCEPT ![k][n][d] = [@ EXCEPT ![i].live = FALSE]]
    <3> DEFINE r == [q EXCEPT ![i].live = FALSE]
    <3>1. Replaced(net', net, k, n, d, r)
      BY <2>2 DEF Replaced
    <3>2. r \in Seq(Message) /\ Thinner(r, q)
      <4> HIDE DEF q
      <4> DEFINE x == [q[i] EXCEPT !.live = FALSE]
                 f == [j \in 1..Len(q) |-> j]
      <4>1. x \in Message /\ x.rpc = q[i].rpc
        <5>1. q[i] \in Message
          BY <1>6
        <5>2. QED
          BY <5>1 DEF Message
      <4>2. r = [q EXCEPT ![i] = x]
        OBVIOUS
      <4> HIDE DEF x, r
      <4>3. r \in Seq(Message) /\ Len(r) = Len(q)
            /\ \A j \in 1..Len(q) : r[j] = IF j = i THEN x ELSE q[j]
        BY <1>6, <4>1, <4>2
      <4>4. /\ f \in [1..Len(r) -> 1..Len(q)]
            /\ \A j, m \in 1..Len(r) : j <= m => f[j] <= f[m]
            /\ \A j \in 1..Len(r) : r[j].rpc = q[f[j]].rpc
        BY <4>1, <4>3
      <4> HIDE DEF f
      <4>5. QED
        BY <4>3, <4>4 DEF Thinner
    <3> HIDE DEF r
    <3>3. QED
      BY <3>1, <3>2
  <2>3. QED
    BY <1>2, <2>1, <2>2
<1>8. ASSUME NEW s \in Node, NEW e \in Node
      PROVE  Thinner(net'["append"][s][e], net["append"][s][e])
  <2>1. PICK r \in Seq(Message) : Thinner(r, q) /\ Replaced(net', net, k, n, d, r)
    BY <1>7
  <2>2. /\ net'[k][n][d] = r
        /\ \A x \in Kind, y, z \in Node :
             x # k \/ y # n \/ z # d => net'[x][y][z] = net[x][y][z]
    BY <1>1, <1>5, <2>1, OneQueue
  <2>3. CASE "append" = k /\ s = n /\ e = d
    BY <2>1, <2>2, <2>3
  <2>4. CASE ~("append" = k /\ s = n /\ e = d)
    BY <1>1, <2>2, <2>4, LogTypes, SameThinner
  <2>5. QED
    BY <2>3, <2>4
<1>9. \A m \in Node, u \in Task : CallKept(call'[m][u], call[m][u])
  <2> SUFFICES ASSUME NEW m \in Node, NEW u \in Task, GivesUp(m, u)
               PROVE  CallKept(call'[m][u], call[m][u])
    BY <1>4 DEF CallKept
  <2> DEFINE o == call[m][u]
  <2>1. o \in Call /\ o.stage = "sent" /\ call'[m][u] = Answered(o, Nil)
    BY <1>1, CallTypes DEF GivesUp
  <2> HIDE DEF o
  <2>2. Answered(o, Nil).kind = o.kind /\ Answered(o, Nil).reply = Nil
    BY <2>1, AnsweredType
  <2>3. QED
    BY <2>1, <2>2 DEF CallKept, Rounds, Matches, o
<1>10. UNCHANGED <<role, log, commit, applied, matched, elected>>
  BY <1>3 DEF nodeVars, logVars, peerVars, auxVars
<1>11. QED
  BY <1>8, <1>9, <1>10 DEF QuietStep

LEMMA ResumeElectionQuiet ==
    ASSUME ElectionInv, NEW n \in Node, NEW reply, call[n]["main"].stage = "answered",
           reply \in {Nil, call[n]["main"].reply}, ResumeElection(n, reply)
    PROVE  QuietStep
<1> DEFINE c == call[n]["main"]
           votes == c.votes + (IF reply # Nil /\ reply.granted THEN 1 ELSE 0)
<1>1. TypeOK /\ "main" \in Task /\ CampaignOK(n, c, grants) /\ Idle.stage = "idle"
  BY DEF ElectionInv, Task, Campaigns, Idle
<1>2. c.kind = "vote" /\ UNCHANGED <<term, votedFor, logVars, proposed, restarts, grants>>
  BY Zenon DEF ResumeElection
<1>3. c \in VoteCall
  BY <1>1, <1>2, CallTypes
<1>4. c.stage = "answered"
  OBVIOUS
<1>5. c.peer \in 1..Len(PeerSeq[n]) /\ c.rpc \in VoteRPC
  <2> HIDE DEF c
  <2>1. QED
    BY <1>1, <1>2, <1>3, <1>4 DEF CampaignOK, VoteCall
<1>6. \/ /\ c.peer < Len(PeerSeq[n])
         /\ Request(n, "main", "vote", c.peer + 1, votes, c.rpc)
         /\ UNCHANGED <<role, leaderId, peerVars, saved, elected>>
      \/ /\ call' = [call EXCEPT ![n]["main"] = Idle]
         /\ UNCHANGED <<role, leaderId, peerVars, saved, elected, net>>
      \/ /\ call' = [call EXCEPT ![n]["main"] = Idle]
         /\ role' = [role EXCEPT ![n] = "leader"]
         /\ matched' = [matched EXCEPT ![n] = [p \in Node |-> 0]]
         /\ elected' = elected \cup {<<n, c.rpc.term>>}
         /\ UNCHANGED net
  BY Zenon DEF ResumeElection
<1> HIDE DEF votes
<1>7. CASE /\ c.peer < Len(PeerSeq[n])
           /\ Request(n, "main", "vote", c.peer + 1, votes, c.rpc)
           /\ UNCHANGED <<role, leaderId, peerVars, saved, elected>>
  <2> HIDE DEF c
  <2>1. c.peer + 1 \in 1..Len(PeerSeq[n])
    BY <1>5, <1>7, PeersDiffer
  <2>2. /\ \A s, d \in Node : net'["append"][s][d] = net["append"][s][d]
        /\ \A m \in Node, t \in Task : CallKept(call'[m][t], call[m][t])
    BY <1>1, <1>5, <1>7, <2>1, VoteRequested
  <2>3. \A s, d \in Node : Thinner(net'["append"][s][d], net["append"][s][d])
    BY <2>2, LogTypes, SameThinner
  <2>4. QED
    BY <1>2, <1>7, <2>2, <2>3 DEF QuietStep, logVars, peerVars
<1> HIDE DEF c
<1>8. ASSUME call' = [call EXCEPT ![n]["main"] = Idle], UNCHANGED net
      PROVE  /\ \A m \in Node, t \in Task : CallKept(call'[m][t], call[m][t])
             /\ \A s, d \in Node : Thinner(net'["append"][s][d], net["append"][s][d])
  <2>1. ~Rounds(Idle) /\ ~Matches(Idle)
    BY <1>1 DEF Rounds, Matches
  <2>2. \A m \in Node, t \in Task : call'[m][t] = call[m][t] \/ call'[m][t] = Idle
    BY <1>1, <1>8 DEF TypeOK
  <2>3. \A m \in Node, t \in Task : CallKept(call'[m][t], call[m][t])
    BY <2>1, <2>2 DEF CallKept
  <2>4. QED
    BY <1>8, <2>3, LogTypes, SameThinner
<1>9. CASE /\ call' = [call EXCEPT ![n]["main"] = Idle]
           /\ UNCHANGED <<role, leaderId, peerVars, saved, elected, net>>
  BY <1>2, <1>8, <1>9 DEF QuietStep, logVars, peerVars
<1>10. CASE /\ call' = [call EXCEPT ![n]["main"] = Idle]
            /\ role' = [role EXCEPT ![n] = "leader"]
            /\ matched' = [matched EXCEPT ![n] = [p \in Node |-> 0]]
            /\ elected' = elected \cup {<<n, c.rpc.term>>}
            /\ UNCHANGED net
  <2>1. n \in Winners'
    <3>1. <<n, c.rpc.term>> \in elected' /\ <<n, c.rpc.term>>[1] = n
      BY <1>10
    <3>2. QED
      BY <3>1 DEF Winners
  <2>2. \A m \in Node : role'[m] = "leader" => role[m] = "leader" \/ m \in Winners'
    BY <1>1, <1>10, <2>1 DEF TypeOK
  <2>3. \A m, p \in Node : matched'[m][p] \in {matched[m][p], 0}
    BY <1>1, <1>10 DEF TypeOK
  <2>4. elected \subseteq elected'
    BY <1>10
  <2>5. QED
    BY <1>2, <1>8, <1>10, <2>2, <2>3, <2>4 DEF QuietStep, logVars
<1>11. QED
  BY <1>6, <1>7, <1>9, <1>10

-----------------------------------------------------------------------------
\* Task t of n moves on, and sends at most requests up to the end of the log lg.
Sends(n, t, lg, c) ==
    /\ \A m \in Node, u \in Task : m # n \/ u # t => call'[m][u] = call[m][u]
    /\ ~Matches(call'[n][t])
    /\ \A s, d \in Node :
         \/ net'["append"][s][d] = net["append"][s][d]
         \/ s = n /\ \E m \in Message :
              /\ m.rpc \in AppendRPC /\ Carries(m.rpc, lg, c)
              /\ End(m.rpc) = Len(lg)
              /\ net'["append"][s][d] = Append(net["append"][s][d], m)

LEMMA SendEffect ==
    ASSUME ElectionInv, NEW n \in Node, NEW t \in Task,
           NEW i \in 1..Len(PeerSeq[n]), NEW lg \in Seq(LogEntry), NEW c \in Nat,
           call[n][t].stage # "sent", SendAppend(n, t, i, lg, c)
    PROVE  Sends(n, t, lg, c)
<1> DEFINE p == PeerSeq[n][i]
           prev == next[n][p]
           rpc == [term |-> term[n], from |-> n, prev |-> prev,
                   prevTerm |-> IF prev = 0 THEN 0 ELSE lg[prev].term,
                   entries |-> SubSeq(lg, prev + 1, Len(lg)), commit |-> c]
<1>1. TypeOK /\ Queues /\ "append" \in Kind /\ term[n] \in Nat /\ IsNet(net)
  BY DEF ElectionInv, Kind, TypeOK, IsNet
<1>2. p \in Node
  BY PeersDiffer
<1>3. prev \in Nat
  <2>1. next[n] \in [Node -> Nat]
    BY <1>1 DEF TypeOK
  <2>2. QED
    BY <1>2, <2>1
<1> HIDE DEF prev
<1>4. CASE prev > Len(lg)
  <2>1. Stops(n, t, Dead)
    BY <1>4 DEF SendAppend, prev, Stops
  <2>2. /\ call'[n][t] = Dead
        /\ \A m \in Node, u \in Task : m # n \/ u # t => call'[m][u] = call[m][u]
    BY <1>1, <2>1, StopKeeps
  <2>3. ~Matches(Dead)
    BY DEF Dead, Idle, Matches
  <2>4. QED
    BY <2>1, <2>2, <2>3 DEF Stops, Sends
<1>5. CASE ~(prev > Len(lg))
  <2>0. prev <= Len(lg) /\ Len(lg) \in Nat
    BY <1>3, <1>5
  <2>1. /\ SubSeq(lg, prev + 1, Len(lg)) \in Seq(LogEntry)
        /\ Len(SubSeq(lg, prev + 1, Len(lg))) = Len(lg) - prev
        /\ \A j \in 1..(Len(lg) - prev) :
             SubSeq(lg, prev + 1, Len(lg))[j] = lg[prev + j]
        /\ prev # 0 => lg[prev] \in LogEntry
    BY <1>3, <2>0
  <2>2. rpc \in AppendRPC
    BY <1>1, <1>3, <2>1 DEF AppendRPC, LogEntry
  <2>3. End(rpc) = Len(lg)
    BY <1>3, <2>0, <2>1 DEF End
  <2>4. Carries(rpc, lg, c)
    BY <1>3, <2>0, <2>1, <2>3 DEF Carries
  <2>5. Request(n, t, "append", i, 0, rpc)
    BY <1>5 DEF SendAppend, prev
  <2> HIDE DEF rpc
  <2>6. /\ call'[n][t].stage = "sent"
        /\ \A m \in Node, u \in Task : m # n \/ u # t => call'[m][u] = call[m][u]
    <3>1. /\ call' \in [Node -> [Task -> Call]]
          /\ net' \in [Kind -> [Node -> [Node -> Seq(Message)]]] /\ Queues'
          /\ call'[n][t] = [stage |-> "sent", kind |-> "append", peer |-> i,
                            votes |-> 0, rpc |-> rpc, reply |-> Nil]
          /\ \A m \in Node, u \in Task : m # n \/ u # t => call'[m][u] = call[m][u]
      BY <1>1, <2>2, <2>5, RequestKeeps
    <3>2. QED
      BY <3>1
  <2> DEFINE m == [task |-> t, live |-> TRUE, rpc |-> rpc]
             v == Append(net["append"][n][p], m)
  <2>7. m \in Message /\ m.rpc = rpc
    BY <2>2 DEF Message
  <2>8. net' = [net EXCEPT !["append"][n][p] = v]
    BY <2>5 DEF Request
  <2> HIDE DEF m, p
  <2>9. v \in Seq(Message) /\ Replaced(net', net, "append", n, p, v)
    BY <1>1, <1>2, <2>7, <2>8, LogTypes DEF Replaced
  <2> HIDE DEF v
  <2>10. /\ net'["append"][n][p] = v
         /\ \A s, d \in Node : s # n \/ d # p =>
              net'["append"][s][d] = net["append"][s][d]
    BY <1>1, <1>2, <2>9, OneQueue
  <2>11. ~Matches(call'[n][t])
    BY <2>6 DEF Matches
  <2>12. QED
    BY <2>2, <2>3, <2>4, <2>6, <2>7, <2>10, <2>11 DEF v, Sends
<1>6. QED
  BY <1>4, <1>5
\* Prefixes of one log.
LEMMA AgreesFacts ==
    ASSUME NEW a \in Seq(LogEntry), NEW b \in Seq(LogEntry), NEW c \in Seq(LogEntry)
    PROVE  /\ Agrees(a, a)
           /\ Agrees(a, b) /\ Agrees(b, c) => Agrees(a, c)
           /\ Agrees(a, c) /\ Agrees(b, c) /\ Len(a) <= Len(b) => Agrees(a, b)
           /\ \A e \in LogEntry : Agrees(a, Append(a, e))
<1>1. Len(a) \in Nat /\ Len(b) \in Nat /\ Len(c) \in Nat
  OBVIOUS
<1>2. \A e \in LogEntry : Agrees(a, Append(a, e))
  BY <1>1 DEF Agrees
<1>3. Agrees(a, b) /\ Agrees(b, c) => Agrees(a, c)
  BY <1>1 DEF Agrees
<1>4. Agrees(a, c) /\ Agrees(b, c) /\ Len(a) <= Len(b) => Agrees(a, b)
  BY <1>1 DEF Agrees
<1>5. Agrees(a, a)
  BY <1>1 DEF Agrees
<1>6. QED
  BY <1>2, <1>3, <1>4, <1>5

\* Entry by entry, a copy holds what a follower stores; a copy of a log is a copy
\* of a longer one, and copies of one log are prefixes of each other.
LEMMA CopiedFacts ==
    ASSUME NEW a \in Seq(LogEntry), NEW b \in Seq(LogEntry), NEW c \in Seq(LogEntry)
    PROVE  /\ Copied(a, b) => /\ Len(a) <= Len(b)
                              /\ \A i \in 1..Len(a) : a[i] = Stored(b[i])
           /\ Copied(a, b) /\ Agrees(b, c) => Copied(a, c)
           /\ Copied(a, c) /\ Copied(b, c) /\ Len(a) <= Len(b) => Agrees(a, b)
<1>1. /\ Len(a) \in Nat /\ Len(b) \in Nat /\ Len(c) \in Nat
      /\ StoredAll(b) \in Seq(LogEntry) /\ StoredAll(c) \in Seq(LogEntry)
      /\ Len(StoredAll(b)) = Len(b) /\ Len(StoredAll(c)) = Len(c)
      /\ \A i \in 1..Len(b) : StoredAll(b)[i] = Stored(b[i])
      /\ \A i \in 1..Len(c) : StoredAll(c)[i] = Stored(c[i])
  BY StoredTypes
<1>2. Copied(a, b) => /\ Len(a) <= Len(b)
                      /\ \A i \in 1..Len(a) : a[i] = Stored(b[i])
  BY <1>1 DEF Copied, Agrees
<1>3. Agrees(b, c) => Agrees(StoredAll(b), StoredAll(c))
  BY <1>1 DEF Agrees
<1>4. Copied(a, b) /\ Agrees(b, c) => Copied(a, c)
  BY <1>1, <1>3, AgreesFacts DEF Copied
<1>5. Copied(a, c) /\ Copied(b, c) /\ Len(a) <= Len(b) => Agrees(a, b)
  BY <1>1, AgreesFacts DEF Copied
<1>6. QED
  BY <1>2, <1>4, <1>5

\* Logs that get longer.
Lengthens == \A m \in Node : Len(log[m]) <= Len(log'[m])

LEMMA MajorityStays ==
    ASSUME ElectionInv, ElectionInv', Lengthens, NEW i \in Nat,
           2 * Cardinality(Have(i)) > Cardinality(Node)
    PROVE  2 * Cardinality(Have(i)') > Cardinality(Node)
<1>1. Have(i) \subseteq Have(i)' /\ Have(i)' \subseteq Node
  BY LogTypes, NewLogTypes DEF Have, Lengthens
<1>2. IsFiniteSet(Have(i)')
  BY <1>1, NodeAssumption, FS_Subset
<1>3. /\ Cardinality(Have(i)) <= Cardinality(Have(i)')
      /\ Cardinality(Have(i)) \in Nat /\ Cardinality(Have(i)') \in Nat
      /\ Cardinality(Node) \in Nat
  BY <1>1, <1>2, NodeAssumption, FS_Subset, FS_CardinalityType
<1>4. QED
  BY <1>3

\* What is known of logs stays true of longer ones.
LEMMA ReportsStay ==
    ASSUME ElectionInv, ElectionInv', Lengthens, NEW l \in Node, Reports(l),
           \A p \in Node : matched'[l][p] <= Len(log'[p]),
           \A t \in Task : Matches(call'[l][t]) => call'[l][t] = call[l][t]
    PROVE  Reports(l)'
<1> SUFFICES ASSUME NEW t \in Task, Matches(call'[l][t])
             PROVE  /\ call'[l][t].peer \in 1..Len(PeerSeq[l])
                    /\ call'[l][t].reply.matched <=
                         Len(log'[PeerSeq[l][call'[l][t].peer]])
  BY DEF Reports, Matches
<1> DEFINE c == call[l][t]
           p == PeerSeq[l][c.peer]
<1>1. call'[l][t] = c /\ Matches(c) /\ c.peer \in 1..Len(PeerSeq[l])
      /\ c.reply.matched <= Len(log[p])
  BY DEF Reports
<1>2. p \in Node
  BY <1>1, PeersDiffer
<1>3. c \in AppendCall
  BY <1>1, CallTypes DEF Matches, ElectionInv
<1> HIDE DEF c, p
<1>4. c.reply.matched \in Nat
  BY <1>1, <1>3 DEF AppendCall, AppendReply, Matches
<1>5. Len(log[p]) \in Nat /\ Len(log'[p]) \in Nat /\ Len(log[p]) <= Len(log'[p])
  BY <1>2, LogTypes, NewLogTypes DEF Lengthens
<1>6. c.reply.matched <= Len(log'[p])
  BY <1>1, <1>4, <1>5
<1>7. QED
  BY <1>1, <1>6 DEF p

\* Task t of n goes on with its round, or ends it, with the log and the commit
\* index that n has then.
Round(n, t) ==
    /\ UNCHANGED <<role, elected>> /\ Sends(n, t, log'[n], commit'[n])
    /\ \A m \in Peers(n) : log'[m] = log[m]
    /\ Agrees(log[n], log'[n]) /\ commit[n] <= commit'[n]

LEMMA RoundKeeps ==
    ASSUME ElectionInv, ElectionInv', SendersWon, NEW n \in Node, n \in Winners,
           NEW t \in Task, Round(n, t)
    PROVE  /\ SendersWon' /\ Lengthens
           /\ Following(n) => Ordered(n)'
           /\ Following(n) /\ (\A p \in Node : matched'[n][p] <= Len(log'[p]))
                => Reports(n)'
<1>1. SendersWon'
  <2>1. \A m \in Node : m \in Winners \/
           \A u \in Task : Rounds(call'[m][u]) => Rounds(call[m][u])
    BY DEF Round, Sends
  <2>2. \A m \in Node : m \in Winners \/
           \A d \in Node : net'["append"][m][d] # <<>> => net["append"][m][d] # <<>>
    BY DEF Round, Sends
  <2>3. elected \subseteq elected' /\ role' = role
    BY DEF Round, Sends
  <2>4. QED
    BY <2>1, <2>2, <2>3, SendersKept
<1>2. Lengthens
  <2> SUFFICES ASSUME NEW m \in Node PROVE Len(log[m]) <= Len(log'[m])
    BY DEF Lengthens
  <2>1. Len(log[m]) \in Nat
    BY LogTypes
  <2>2. QED
    BY <2>1 DEF Round, Sends, Peers, Agrees
<1>3. ASSUME Following(n), NEW d \in Peers(n)
      PROVE  InOrder(net'["append"][n][d], log'[n], commit'[n], Len(log'[d]))
  <2> DEFINE q == net["append"][n][d]
             r == net'["append"][n][d]
             lg == log[n]
             all == log'[n]
             have == Len(log[d])
  <2>1. d \in Node /\ log'[d] = log[d]
    BY DEF Peers, Round
  <2>2. /\ q \in Seq(Message) /\ \A i \in 1..Len(q) : q[i].rpc \in AppendRPC
        /\ lg \in Seq(LogEntry) /\ all \in Seq(LogEntry) /\ have \in Nat
        /\ commit[n] \in Nat /\ commit'[n] \in Nat
    BY <2>1, LogTypes, NewLogTypes
  <2>3. InOrder(q, lg, commit[n], have) /\ Agrees(lg, all) /\ commit[n] <= commit'[n]
        /\ have <= Len(lg)
    <3>1. InOrder(q, lg, commit[n], have) /\ Agrees(lg, all) /\ commit[n] <= commit'[n]
      BY <1>3, <2>1 DEF Following, Ordered, Round
    <3>2. Copied(log[d], log[n]) /\ log[d] \in Seq(LogEntry) /\ log[n] \in Seq(LogEntry)
      BY <1>3, <2>1, LogTypes DEF Following
    <3>3. Len(log[d]) <= Len(log[n])
      BY <3>2, CopiedFacts
    <3>4. QED
      BY <3>1, <3>3
  <2>4. \/ r = q
        \/ \E m \in Message : /\ m.rpc \in AppendRPC /\ Carries(m.rpc, all, commit'[n])
                              /\ End(m.rpc) = Len(all) /\ r = Append(q, m)
    BY <2>1 DEF Round, Sends
  <2> HIDE DEF q, r, lg, all, have
  <2>5. InOrder(q, all, commit'[n], have)
    <3> DEFINE c == commit[n]
               e == commit'[n]
    <3>1. c \in Nat /\ e \in Nat /\ c <= e /\ InOrder(q, lg, c, have) /\ have <= have
      BY <2>2, <2>3
    <3> HIDE DEF c, e
    <3>2. InOrder(q, all, e, have)
      BY <2>2, <2>3, <3>1, InOrderGrows, Zenon
    <3>3. QED
      BY <3>2 DEF e
  <2>6. have <= Len(all)
    BY <2>2, <2>3 DEF Agrees
  <2>7. InOrder(r, all, commit'[n], have)
    BY <2>2, <2>4, <2>5, <2>6, InOrderAppends
  <2>8. QED
    BY <2>1, <2>7 DEF r, all, have
<1>4. Following(n) => Ordered(n)'
  BY <1>3 DEF Ordered
<1>5. ASSUME Following(n), \A p \in Node : matched'[n][p] <= Len(log'[p])
      PROVE  Reports(n)'
  <2>1. \A u \in Task : Matches(call'[n][u]) => call'[n][u] = call[n][u]
    BY DEF Round, Sends
  <2>2. QED
    BY <1>2, <1>5, <2>1, ReportsStay DEF Following
<1>6. QED
  BY <1>1, <1>2, <1>4, <1>5

LEMMA SendHeartbeatsReplicates ==
    ASSUME ElectionInv, ElectionInv', SendersWon, NEW n \in Node, SendHeartbeats(n)
    PROVE  n \in Winners /\ SendersWon' /\ (Following(n) => Following(n)')
<1>1. /\ role[n] = "leader" /\ call[n]["main"].stage = "idle"
      /\ SendAppend(n, "main", 1, log[n], commit[n])
      /\ UNCHANGED <<nodeVars, logVars, peerVars, auxVars>>
  BY Zenon DEF SendHeartbeats
<1>2. n \in Winners /\ "main" \in Task /\ 1 \in 1..Len(PeerSeq[n])
  BY <1>1, PeersDiffer DEF SendersWon, Task
<1>3. UNCHANGED <<role, elected, log, commit, applied, matched>>
  BY <1>1 DEF nodeVars, logVars, peerVars, auxVars
<1>4. log[n] \in Seq(LogEntry) /\ commit[n] \in Nat /\ call[n]["main"].stage # "sent"
  BY <1>1, LogTypes
<1>5. Sends(n, "main", log[n], commit[n])
  BY <1>1, <1>2, <1>4, SendEffect
<1>6. Round(n, "main")
  BY <1>3, <1>4, <1>5, AgreesFacts DEF Round
<1>7. ASSUME Following(n) PROVE Following(n)'
  <2>1. Ordered(n)' /\ Reports(n)'
    <3>1. \A p \in Node : matched'[n][p] <= Len(log'[p])
      BY <1>3, <1>7 DEF Following, Reports
    <3>2. QED
      BY <1>2, <1>6, <1>7, <3>1, RoundKeeps
  <2>2. Commits(n)' /\ Applies' /\ \A m \in Peers(n) : Copied(log'[m], log'[n])
    BY <1>3, <1>7 DEF Following, Commits, Applies, Have, Agrees
  <2>3. QED
    BY <2>1, <2>2 DEF Following, Copied, Agrees
<1>8. QED
  BY <1>2, <1>6, <1>7, RoundKeeps

LEMMA ProposeReplicates ==
    ASSUME ElectionInv, ElectionInv', SendersWon,
           NEW n \in Node, NEW c \in Command, Propose(n, c)
    PROVE  n \in Winners /\ SendersWon' /\ (Following(n) => Following(n)')
<1> DEFINE e == [term |-> term[n], cmd |-> c, coded |-> 0]
<1>1. /\ c \notin proposed /\ role[n] = "leader"
      /\ log' = [log EXCEPT ![n] = Append(@, e)]
      /\ SendAppend(n, c, 1, log'[n], commit[n])
      /\ UNCHANGED <<nodeVars, commit, applied, peerVars, saved, restarts, grants,
                     elected>>
  BY Zenon DEF Propose
<1>2. n \in Winners /\ c \in Task /\ 1 \in 1..Len(PeerSeq[n])
  BY <1>1, PeersDiffer DEF SendersWon, Task
<1>3. UNCHANGED <<role, elected, commit, applied, matched>>
  BY <1>1 DEF nodeVars, peerVars
<1>4. /\ log[n] \in Seq(LogEntry) /\ log'[n] \in Seq(LogEntry) /\ commit[n] \in Nat
      /\ call[n][c].stage # "sent" /\ TypeOK
  BY <1>1, LogTypes, NewLogTypes DEF ElectionInv, Tasks
<1>5. e \in LogEntry
  BY <1>4 DEF TypeOK, LogEntry
<1>6. log'[n] = Append(log[n], e) /\ \A m \in Node : m # n => log'[m] = log[m]
  BY <1>1, <1>4 DEF TypeOK
<1> HIDE DEF e
<1>7. Agrees(log[n], log'[n])
  BY <1>4, <1>5, <1>6, AgreesFacts
<1>8. Sends(n, c, log'[n], commit[n])
  BY <1>1, <1>2, <1>4, SendEffect
<1>9. Round(n, c)
  BY <1>3, <1>4, <1>6, <1>7, <1>8 DEF Round, Peers
<1>10. ASSUME Following(n) PROVE Following(n)'
  <2>1. Lengthens
    BY <1>2, <1>9, RoundKeeps
  <2>2. Ordered(n)' /\ Reports(n)'
    <3>1. ASSUME NEW p \in Node PROVE matched'[n][p] <= Len(log'[p])
      <4>1. matched[n][p] <= Len(log[p])
        BY <1>10 DEF Following, Reports
      <4>2. QED
        BY <1>3, <2>1, <4>1, LogTypes, NewLogTypes DEF Lengthens
    <3>2. QED
      BY <1>2, <1>9, <1>10, <3>1, RoundKeeps
  <2>3. \A m \in Peers(n) : Copied(log'[m], log'[n])
    <3> TAKE m \in Peers(n)
    <3>1. m \in Node /\ m # n /\ Copied(log[m], log[n]) /\ log[m] \in Seq(LogEntry)
      BY <1>10, LogTypes DEF Following, Peers
    <3>2. Copied(log[m], log'[n])
      BY <1>4, <1>7, <3>1, CopiedFacts
    <3>3. QED
      BY <1>6, <3>1, <3>2
  <2>4. Commits(n)'
    <3>1. \A m \in Node : commit'[m] <= commit'[n] /\ commit'[m] <= Len(log'[m])
      BY <1>3, <1>10, <2>1, LogTypes, NewLogTypes DEF Following, Commits, Lengthens
    <3>2. \A i \in 1..commit'[n] : 2 * Cardinality(Have(i)') > Cardinality(Node)
      BY <1>3, <1>10, <2>1, MajorityStays DEF Following, Commits
    <3>3. QED
      BY <3>1, <3>2 DEF Commits
  <2>5. Applies'
    <3> SUFFICES ASSUME NEW m \in Node
                 PROVE  Len(applied'[m]) <= commit'[m] /\ Agrees(applied'[m], log'[m])
      BY <1>3, <1>10 DEF Following, Applies, Agrees
    <3>1. Len(applied[m]) <= commit[m] /\ Agrees(applied[m], log[m])
          /\ applied[m] \in Seq(LogEntry)
      BY <1>10 DEF Following, Applies
    <3>2. Agrees(log[m], log'[m])
      BY <1>4, <1>6, <1>7, LogTypes, AgreesFacts
    <3>3. QED
      BY <1>3, <3>1, <3>2, LogTypes, NewLogTypes, AgreesFacts
  <2>6. QED
    BY <2>2, <2>3, <2>4, <2>5 DEF Following, Copied, Agrees
<1>11. QED
  BY <1>2, <1>9, <1>10, RoundKeeps
-----------------------------------------------------------------------------
\* The log of a follower after a request that matches it: a copy of a
\* prefix of the log that the request comes from.
LEMMA NewLogAgrees ==
    ASSUME NEW lg \in Seq(LogEntry), NEW all \in Seq(LogEntry), NEW c \in Nat,
           NEW rpc \in AppendRPC, Copied(lg, all), Carries(rpc, all, c),
           rpc.prev <= Len(lg)
    PROVE  /\ SubSeq(lg, 1, rpc.prev) \o StoredAll(rpc.entries) \in Seq(LogEntry)
           /\ Len(SubSeq(lg, 1, rpc.prev) \o StoredAll(rpc.entries)) = End(rpc)
           /\ Copied(SubSeq(lg, 1, rpc.prev) \o StoredAll(rpc.entries), all)
<1> DEFINE x == rpc.prev
           a == SubSeq(lg, 1, x)
           b == StoredAll(rpc.entries)
           to == StoredAll(all)
           r == a \o b
<1>1. x \in Nat /\ b \in Seq(LogEntry) /\ Len(lg) \in Nat /\ x <= Len(lg)
  BY StoredTypes DEF AppendRPC
<1>2. a \in Seq(LogEntry) /\ Len(a) = x /\ \A i \in 1..x : a[i] = lg[i]
  <2> HIDE DEF x
  <2>1. QED
    BY <1>1
<1>3. x + Len(b) <= Len(to) /\ \A i \in 1..Len(b) : b[i] = to[x + i]
  <2> DEFINE es == rpc.entries
  <2>1. /\ x \in Nat /\ es \in Seq(LogEntry) /\ Len(es) \in Nat /\ Len(all) \in Nat
        /\ x + Len(es) <= Len(all) /\ \A i \in 1..Len(es) : es[i] = all[x + i]
    BY DEF Carries, End, AppendRPC
  <2>2. /\ Len(b) = Len(es) /\ \A i \in 1..Len(es) : b[i] = Stored(es[i])
        /\ Len(to) = Len(all) /\ \A i \in 1..Len(all) : to[i] = Stored(all[i])
    BY <2>1, StoredTypes
  <2> HIDE DEF es, x, b, to
  <2>3. \A i \in 1..Len(es) : x + i \in 1..Len(all)
    BY <2>1
  <2>4. QED
    BY <2>1, <2>2, <2>3
<1>4. Len(lg) <= Len(to) /\ \A i \in 1..Len(lg) : lg[i] = to[i]
  BY DEF Copied, Agrees
<1>5. End(rpc) = x + Len(b)
  BY StoredTypes DEF End, AppendRPC
<1> HIDE DEF a, b, x, to
<1>6. /\ r \in Seq(LogEntry) /\ Len(r) = x + Len(b) /\ Len(b) \in Nat
      /\ \A i \in 1..Len(r) : r[i] = IF i <= x THEN a[i] ELSE b[i - x]
  <2>1. a \in Seq(LogEntry) /\ b \in Seq(LogEntry) /\ Len(a) = x
    BY <1>1, <1>2
  <2>2. /\ r \in Seq(LogEntry) /\ Len(r) = Len(a) + Len(b)
        /\ \A i \in 1..(Len(a) + Len(b)) :
             r[i] = IF i <= Len(a) THEN a[i] ELSE b[i - Len(a)]
    BY <2>1, ConcatProperties
  <2>3. Len(b) \in Nat
    BY <2>1
  <2> HIDE DEF r
  <2>4. QED
    BY <2>1, <2>2, <2>3
<1> HIDE DEF r
<1>7. ASSUME NEW i \in 1..Len(r) PROVE r[i] = to[i]
  <2>1. CASE i <= x
    <3>1. i \in 1..x /\ i \in 1..Len(lg)
      BY <1>1, <1>6, <2>1
    <3>2. QED
      BY <1>2, <1>4, <1>6, <2>1, <3>1
  <2>2. CASE ~(i <= x)
    <3>1. i - x \in 1..Len(b) /\ x + (i - x) = i
      BY <1>1, <1>6, <2>2
    <3>2. b[i - x] = to[x + (i - x)]
      BY <1>3, <3>1
    <3>3. QED
      BY <1>6, <2>2, <3>1, <3>2
  <2>3. QED
    BY <2>1, <2>2
<1>8. Agrees(r, to)
  BY <1>3, <1>6, <1>7 DEF Agrees
<1>9. QED
  BY <1>5, <1>6, <1>8 DEF Copied, r, a, b, x, to

\* What a follower does with the request at the head of the queue from s.
LEMMA AppendEffect ==
    ASSUME ElectionInv, NEW n \in Node, NEW s \in Peers(n), HandleAppend(n, s),
           Following(s)
    PROVE  LET rpc == Head(net["append"][s][n]).rpc IN
             /\ log'[n] \in Seq(LogEntry) /\ Copied(log'[n], log[s])
             /\ Len(log[n]) <= Len(log'[n])
             /\ Agrees(log[n], log'[n])
             /\ log'[n] = log[n] \/ Len(log'[n]) = End(rpc)
             /\ commit'[n] >= commit[n] /\ commit'[n] <= commit[s]
             /\ commit'[n] <= Len(log'[n])
             /\ \E reply \in AppendReply :
                  /\ Answer(n, s, "append", reply)
                  /\ reply.success => reply.matched = Len(log'[n])
<1> DEFINE q == net["append"][s][n]
           rpc == Head(q).rpc
           match == /\ rpc.term >= term[n]
                    /\ \/ rpc.prev = 0
                       \/ /\ rpc.prev <= Len(log[n])
                          /\ log[n][rpc.prev].term = rpc.prevTerm
           newLog == IF match THEN NewLog(n, rpc) ELSE log[n]
           newCommit == IF match /\ rpc.commit > commit[n]
                        THEN IF rpc.commit < Len(newLog) THEN rpc.commit
                             ELSE Len(newLog)
                        ELSE commit[n]
           reply == [success |-> match, matched |-> IF match THEN Len(newLog) ELSE 0]
<1>1. TypeOK /\ Queues /\ s \in Node /\ "append" \in Kind /\ n \in Peers(s)
  BY DEF ElectionInv, Peers, Kind
<1>2. q # <<>>
  BY Zenon DEF HandleAppend
<1>3. rpc \in AppendRPC
  BY <1>1, <1>2, HeadOf DEF RequestOK
<1>4. /\ log' = [log EXCEPT ![n] = newLog]
      /\ commit' = [commit EXCEPT ![n] = newCommit]
      /\ Answer(n, s, "append", reply)
  BY Zenon DEF HandleAppend
<1>5. /\ log[n] \in Seq(LogEntry) /\ Len(log[n]) \in Nat /\ commit[n] \in Nat
      /\ log[s] \in Seq(LogEntry) /\ commit[s] \in Nat /\ q \in Seq(Message)
  BY <1>1, LogTypes
<1>6. Copied(log[n], log[s]) /\ commit[n] <= commit[s] /\ commit[n] <= Len(log[n])
  BY <1>1 DEF Following, Commits
<1>7. Carries(rpc, log[s], commit[s]) /\ Len(log[n]) <= End(rpc)
  <2>1. InOrder(q, log[s], commit[s], Len(log[n]))
    BY <1>1 DEF Following, Ordered
  <2> HIDE DEF q
  <2>2. QED
    BY <1>2, <1>5, <2>1, InOrderTail
<1>8. rpc.prev \in Nat /\ rpc.commit \in Nat /\ match \in BOOLEAN
  BY <1>3 DEF AppendRPC
<1> HIDE DEF rpc, q
<1>9. ASSUME match
      PROVE  newLog \in Seq(LogEntry) /\ Len(newLog) = End(rpc) /\ Copied(newLog, log[s])
  <2>1. rpc.prev <= Len(log[n])
    BY <1>5, <1>8, <1>9
  <2>2. newLog = SubSeq(log[n], 1, rpc.prev) \o StoredAll(rpc.entries)
    BY <1>9 DEF NewLog
  <2> HIDE DEF newLog, match
  <2>3. QED
    BY <1>3, <1>5, <1>6, <1>7, <2>1, <2>2, NewLogAgrees
<1>10. /\ newLog \in Seq(LogEntry) /\ Copied(newLog, log[s])
       /\ newLog = log[n] \/ Len(newLog) = End(rpc)
       /\ Len(log[n]) <= Len(newLog) /\ Len(newLog) \in Nat
  <2> HIDE DEF match
  <2>1. CASE match
    <3> HIDE DEF newLog
    <3>1. QED
      BY <1>5, <1>7, <1>9, <2>1
  <2>2. CASE ~match
    BY <1>5, <1>6, <2>2
  <2>3. QED
    BY <2>1, <2>2
<1>11. match => newLog \in Seq(LogEntry)
  BY <1>10
<1> HIDE DEF match, newLog
<1>12. /\ newCommit \in Nat /\ newCommit >= commit[n] /\ newCommit <= commit[s]
       /\ newCommit <= Len(newLog)
  <2>1. rpc.commit <= commit[s]
    BY <1>7 DEF Carries
  <2>2. QED
    BY <1>5, <1>6, <1>8, <1>10, <2>1
<1>13. reply \in AppendReply /\ (reply.success => reply.matched = Len(newLog))
  BY <1>8, <1>10 DEF AppendReply
<1> HIDE DEF newCommit, reply
<1>14. log'[n] = newLog /\ commit'[n] = newCommit
  BY <1>1, <1>4 DEF TypeOK
<1>15. Agrees(log[n], newLog)
  BY <1>5, <1>6, <1>10, CopiedFacts
<1>16. QED
  BY <1>4, <1>10, <1>12, <1>13, <1>14, <1>15 DEF rpc, q

LEMMA HandleAppendReplicates ==
    ASSUME ElectionInv, ElectionInv', SendersWon,
           NEW n \in Node, NEW s \in Peers(n), HandleAppend(n, s)
    PROVE  s \in Winners /\ SendersWon' /\ (Following(s) => Following(s)')
<1> DEFINE q == net["append"][s][n]
           rpc == Head(q).rpc
<1>1. /\ TypeOK /\ Queues /\ Tasks /\ s \in Node /\ s # n /\ n \in Peers(s)
      /\ "append" \in Kind /\ IsNet(net)
  BY DEF ElectionInv, Peers, Kind, TypeOK, IsNet
<1>2. /\ q # <<>> /\ UNCHANGED <<applied, peerVars, auxVars>>
      /\ \E new : log' = [log EXCEPT ![n] = new]
      /\ \E new : commit' = [commit EXCEPT ![n] = new]
      /\ \E new \in {"follower", role[n]} : role' = [role EXCEPT ![n] = new]
  <2>1. q # <<>> /\ UNCHANGED <<applied, peerVars, auxVars>>
    BY Zenon DEF HandleAppend
  <2>2. \E new : log' = [log EXCEPT ![n] = new]
    BY Zenon DEF HandleAppend
  <2>3. \E new : commit' = [commit EXCEPT ![n] = new]
    BY Zenon DEF HandleAppend
  <2>4. role' = [role EXCEPT ![n] = IF rpc.term >= term[n] THEN "follower" ELSE @]
    BY Zenon DEF HandleAppend
  <2>5. QED
    BY <2>1, <2>2, <2>3, <2>4
<1>3. s \in Winners
  BY <1>1, <1>2 DEF SendersWon
<1>4. PICK reply \in AppendReply :
        /\ Answer(n, s, "append", reply)
        /\ Following(s) /\ reply.success => reply.matched = Len(log'[n])
  <2>1. CASE Following(s)
    BY <2>1, AppendEffect
  <2>2. CASE ~Following(s)
    <3> DEFINE match == /\ rpc.term >= term[n]
                        /\ \/ rpc.prev = 0
                           \/ /\ rpc.prev <= Len(log[n])
                              /\ log[n][rpc.prev].term = rpc.prevTerm
               newLog == IF match THEN NewLog(n, rpc) ELSE log[n]
               r == [success |-> match, matched |-> IF match THEN Len(newLog) ELSE 0]
    <3>1. Answer(n, s, "append", r) /\ log' = [log EXCEPT ![n] = newLog]
      BY Zenon DEF HandleAppend
    <3>2. log'[n] = newLog /\ Len(log'[n]) \in Nat
      BY <1>1, <3>1, NewLogTypes DEF TypeOK
    <3>3. match \in BOOLEAN
      OBVIOUS
    <3> HIDE DEF newLog, match
    <3>4. r \in AppendReply
      BY <3>2, <3>3 DEF AppendReply
    <3>5. QED
      BY <2>2, <3>1, <3>4
  <2>3. QED
    BY <2>1, <2>2
<1>5. \A m \in Node, u \in Task : \/ call'[m][u] = call[m][u]
                                  \/ TakesAnswer(m, u, "append", s, n, reply)
  BY <1>1, <1>2, <1>4, AnswerKeeps
<1>6. net' = [net EXCEPT !["append"][s][n] = Tail(q)]
  BY <1>4, Zenon DEF Answer
<1>7. q \in Seq(Message)
  BY <1>1, LogTypes
<1>8. /\ net'["append"][s][n] = Tail(q)
      /\ \A a, d \in Node : a # s \/ d # n => net'["append"][a][d] = net["append"][a][d]
  <2> DEFINE v == Tail(q)
  <2>1. v \in Seq(Message) /\ Replaced(net', net, "append", s, n, v)
    <3>1. Replaced(net', net, "append", s, n, v)
      BY <1>6 DEF Replaced
    <3> HIDE DEF q
    <3>2. QED
      BY <1>2, <1>7, <3>1
  <2> HIDE DEF v
  <2>2. /\ net'["append"][s][n] = v
        /\ \A a, d \in Node : a # s \/ d # n => net'["append"][a][d] = net["append"][a][d]
    BY <1>1, <2>1, OneQueue
  <2>3. QED
    BY <2>2 DEF v
<1>9. SendersWon'
  <2>1. \A m \in Node, u \in Task : Rounds(call'[m][u]) => Rounds(call[m][u])
    BY <1>5 DEF TakesAnswer, Rounds
  <2>2. \A m \in Node : m \in Winners \/
          \A d \in Node : net'["append"][m][d] # <<>> => net["append"][m][d] # <<>>
    BY <1>3, <1>8
  <2>3. \A m \in Node : role'[m] = "leader" => role[m] = "leader"
    BY <1>1, <1>2 DEF TypeOK
  <2>4. elected \subseteq elected'
    BY <1>2 DEF auxVars
  <2>5. QED
    BY <2>1, <2>2, <2>3, <2>4, SendersKept
<1>10. ASSUME Following(s) PROVE Following(s)'
  <2>1. /\ log'[n] \in Seq(LogEntry) /\ Copied(log'[n], log[s])
        /\ Len(log[n]) <= Len(log'[n]) /\ Agrees(log[n], log'[n])
        /\ log'[n] = log[n] \/ Len(log'[n]) = End(rpc)
        /\ commit'[n] >= commit[n] /\ commit'[n] <= commit[s]
        /\ commit'[n] <= Len(log'[n])
        /\ reply.success => reply.matched = Len(log'[n])
    BY <1>4, <1>10, AppendEffect
  <2>2. \A m \in Node : m # n => log'[m] = log[m] /\ commit'[m] = commit[m]
    BY <1>1, <1>2 DEF TypeOK
  <2>3. log'[s] = log[s] /\ commit'[s] = commit[s]
    BY <1>1, <2>2
  <2>4. Lengthens
    BY <2>1, <2>2, LogTypes DEF Lengthens
  <2>5. Ordered(s)'
    <3> SUFFICES ASSUME NEW d \in Peers(s)
                 PROVE  InOrder(net'["append"][s][d], log[s], commit[s], Len(log'[d]))
      BY <2>3 DEF Ordered
    <3>1. InOrder(net["append"][s][d], log[s], commit[s], Len(log[d])) /\ d \in Node
      BY <1>10 DEF Following, Ordered, Peers
    <3>2. CASE d # n
      BY <1>1, <1>8, <2>2, <3>1, <3>2
    <3>3. CASE d = n
      <4>1. InOrder(q, log[s], commit[s], Len(log[n]))
        BY <3>1, <3>3
      <4> HIDE DEF q
      <4>2. /\ InOrder(Tail(q), log[s], commit[s], Len(log[n]))
            /\ InOrder(Tail(q), log[s], commit[s], End(rpc))
        BY <1>2, <1>7, <4>1, InOrderTail
      <4>3. InOrder(Tail(q), log[s], commit[s], Len(log'[n]))
        BY <2>1, <4>2
      <4>4. QED
        BY <1>8, <3>3, <4>3
    <3>4. QED
      BY <3>2, <3>3
  <2>6. \A p \in Node : matched'[s][p] <= Len(log'[p])
    <3> TAKE p \in Node
    <3>1. matched[s][p] <= Len(log[p]) /\ matched' = matched
      BY <1>2, <1>10 DEF Following, Reports, peerVars
    <3>2. QED
      BY <1>1, <2>4, <3>1, LogTypes, NewLogTypes DEF Lengthens
  <2>7. Reports(s)'
    <3> SUFFICES ASSUME NEW u \in Task, Matches(call'[s][u])
                 PROVE  /\ call'[s][u].peer \in 1..Len(PeerSeq[s])
                        /\ call'[s][u].reply.matched <=
                             Len(log'[PeerSeq[s][call'[s][u].peer]])
      BY <2>6 DEF Reports, Matches
    <3> DEFINE c == call[s][u]
    <3>1. CASE call'[s][u] = c
      <4>1. Matches(c) /\ c.peer \in 1..Len(PeerSeq[s])
            /\ c.reply.matched <= Len(log[PeerSeq[s][c.peer]])
        BY <1>1, <1>10, <3>1 DEF Following, Reports
      <4>2. c \in AppendCall /\ PeerSeq[s][c.peer] \in Node
        BY <1>1, <4>1, CallTypes, PeersDiffer DEF Matches
      <4> HIDE DEF c
      <4>3. c.reply.matched \in Nat
        BY <4>1, <4>2 DEF AppendCall, AppendReply, Matches
      <4>4. c.reply.matched <= Len(log'[PeerSeq[s][c.peer]])
        BY <2>4, <4>1, <4>2, <4>3, LogTypes, NewLogTypes DEF Lengthens
      <4>5. QED
        BY <3>1, <4>1, <4>4
    <3>2. CASE TakesAnswer(s, u, "append", s, n, reply)
      <4>1. /\ c.stage = "sent" /\ c.kind = "append" /\ PeerSeq[s][c.peer] = n
            /\ call'[s][u] = Answered(c, reply)
        BY <3>2 DEF TakesAnswer
      <4>2. c \in Call /\ c.peer \in 1..Len(PeerSeq[s])
        BY <1>1, <4>1, CallTypes DEF Tasks
      <4> HIDE DEF c
      <4>3. Answered(c, reply).peer = c.peer /\ Answered(c, reply).reply = reply
        BY <4>1, <4>2, AnsweredType
      <4>4. reply.success
        BY <4>1, <4>3 DEF Matches
      <4>5. QED
        BY <2>1, <4>1, <4>2, <4>3, <4>4, NewLogTypes
    <3>3. QED
      BY <1>1, <1>5, <3>1, <3>2
  <2>8. Commits(s)'
    <3>1. \A m \in Node : commit'[m] <= commit'[s] /\ commit'[m] <= Len(log'[m])
      BY <1>10, <2>1, <2>2, <2>3 DEF Following, Commits
    <3>2. ASSUME NEW i \in 1..commit'[s]
          PROVE  2 * Cardinality(Have(i)') > Cardinality(Node)
      <4>1. i \in Nat /\ 2 * Cardinality(Have(i)) > Cardinality(Node)
        BY <1>10, <2>3 DEF Following, Commits
      <4>2. QED
        BY <2>4, <4>1, MajorityStays
    <3>3. QED
      BY <3>1, <3>2 DEF Commits
  <2>9. Applies'
    <3> SUFFICES ASSUME NEW m \in Node
                 PROVE  Len(applied'[m]) <= commit'[m] /\ Agrees(applied'[m], log'[m])
      BY <1>2, <1>10 DEF Following, Applies, Agrees
    <3>1. Len(applied[m]) <= commit[m] /\ Agrees(applied[m], log[m])
          /\ applied' = applied /\ applied[m] \in Seq(LogEntry)
      BY <1>2, <1>10 DEF Following, Applies
    <3>2. CASE m # n
      BY <2>2, <3>1, <3>2
    <3>3. CASE m = n
      <4>1. Agrees(applied[n], log'[n])
        BY <2>1, <3>1, <3>3, LogTypes, AgreesFacts
      <4>2. Len(applied[n]) <= commit'[n]
        <5>1. Len(applied[n]) \in Nat /\ commit[n] \in Nat /\ commit'[n] \in Nat
          BY <3>1, <3>3, LogTypes, NewLogTypes
        <5>2. QED
          BY <2>1, <3>1, <3>3, <5>1
      <4>3. QED
        BY <3>1, <3>3, <4>1, <4>2
    <3>4. QED
      BY <3>2, <3>3
  <2>10. \A m \in Peers(s) : Copied(log'[m], log'[s])
    <3> SUFFICES ASSUME NEW m \in Peers(s) PROVE Copied(log'[m], log[s])
      BY <2>3
    <3>1. m \in Node /\ Copied(log[m], log[s])
      BY <1>10 DEF Following, Peers
    <3>2. QED
      BY <2>1, <2>2, <3>1
  <2>11. QED
    BY <2>5, <2>7, <2>8, <2>9, <2>10 DEF Following, Copied, Agrees
<1>11. QED
  BY <1>3, <1>9, <1>10
-----------------------------------------------------------------------------
\* What a leader counts as matched by a majority is in the log of a majority.
LEMMA CommittableHeld ==
    ASSUME ElectionInv, NEW n \in Node, NEW mt \in [Node -> Nat],
           \A p \in Node : mt[p] <= Len(log[p]), NEW top \in Committable(n, mt)
    PROVE  /\ top \in Nat /\ commit[n] < top /\ top <= Len(log[n])
           /\ 2 * Cardinality(Have(top)) > Cardinality(Node)
<1> DEFINE S == {p \in Peers(n) : mt[p] >= top}
<1>1. /\ top \in (commit[n] + 1)..Len(log[n])
      /\ 1 + Cardinality(S) >= Quorum
  BY DEF Committable
<1>2. commit[n] \in Nat /\ Len(log[n]) \in Nat /\ \A p \in Node : Len(log[p]) \in Nat
  BY LogTypes
<1>3. top \in Nat /\ commit[n] < top /\ top <= Len(log[n])
  BY <1>1, <1>2
<1>4. S \subseteq Node /\ n \notin S
  BY DEF Peers
<1>5. S \cup {n} \subseteq Have(top) /\ Have(top) \subseteq Node
  BY <1>2, <1>3, <1>4 DEF Have, Peers
<1> HIDE DEF S
<1>6. IsFiniteSet(S) /\ IsFiniteSet(Have(top)) /\ Cardinality(Node) \in Nat
  BY <1>4, <1>5, NodeAssumption, FS_Subset, FS_CardinalityType
<1>7. Cardinality(S \cup {n}) = Cardinality(S) + 1 /\ Cardinality(S) \in Nat
  BY <1>4, <1>6, FS_AddElement, FS_CardinalityType
<1>8. Cardinality(S \cup {n}) <= Cardinality(Have(top)) /\ Cardinality(Have(top)) \in Nat
  BY <1>5, <1>6, FS_Subset, FS_CardinalityType
<1>9. 2 * Quorum > Cardinality(Node) /\ Quorum \in Nat
  BY <1>6 DEF Quorum
<1>10. Cardinality(Have(top)) >= Quorum
  BY <1>1, <1>7, <1>8, <1>9
<1>11. QED
  BY <1>3, <1>6, <1>8, <1>9, <1>10

\* A shorter log is held by no fewer nodes.
LEMMA ShorterHeld ==
    ASSUME ElectionInv, NEW i \in Nat, NEW j \in Nat, i <= j,
           2 * Cardinality(Have(j)) > Cardinality(Node)
    PROVE  2 * Cardinality(Have(i)) > Cardinality(Node)
<1>1. Have(j) \subseteq Have(i) /\ Have(i) \subseteq Node
  BY LogTypes DEF Have
<1>2. /\ Cardinality(Have(j)) <= Cardinality(Have(i))
      /\ Cardinality(Have(i)) \in Nat /\ Cardinality(Have(j)) \in Nat
      /\ Cardinality(Node) \in Nat
  BY <1>1, NodeAssumption, FS_Subset, FS_CardinalityType
<1>3. QED
  BY <1>2

\* What is applied up to top follows the log.
LEMMA AppliedGrows ==
    ASSUME NEW lg \in Seq(LogEntry), NEW a \in Seq(LogEntry), Agrees(a, lg),
           NEW top \in Nat, Len(a) <= top, top <= Len(lg)
    PROVE  /\ a \o SubSeq(lg, Len(a) + 1, top) \in Seq(LogEntry)
           /\ Len(a \o SubSeq(lg, Len(a) + 1, top)) = top
           /\ Agrees(a \o SubSeq(lg, Len(a) + 1, top), lg)
<1> DEFINE x == Len(a)
           b == SubSeq(lg, x + 1, top)
           r == a \o b
<1>1. x \in Nat /\ Len(lg) \in Nat /\ x <= top
  OBVIOUS
<1> HIDE DEF x
<1>2. /\ b \in Seq(LogEntry) /\ Len(b) = top - x
      /\ \A i \in 1..(top - x) : b[i] = lg[x + i]
  <2>1. Len(b) = IF x + 1 <= top THEN top - (x + 1) + 1 ELSE 0
    BY <1>1
  <2>2. b \in Seq(LogEntry) /\ \A i \in 1..(top - x) : b[i] = lg[x + i]
    BY <1>1
  <2>3. QED
    BY <1>1, <2>1, <2>2
<1> HIDE DEF b
<1>3. /\ r \in Seq(LogEntry) /\ Len(r) = Len(a) + Len(b)
      /\ \A i \in 1..(Len(a) + Len(b)) : r[i] = IF i <= Len(a) THEN a[i] ELSE b[i - Len(a)]
  <2>1. b \in Seq(LogEntry)
    BY <1>2
  <2>2. QED
    BY <2>1
<1> HIDE DEF r
<1>4. Len(r) = top /\ \A i \in 1..top : r[i] = IF i <= x THEN a[i] ELSE b[i - x]
  BY <1>1, <1>2, <1>3 DEF x
<1>5. ASSUME NEW i \in 1..top PROVE r[i] = lg[i]
  <2>1. CASE i <= x
    BY <1>1, <1>4, <2>1 DEF Agrees, x
  <2>2. CASE ~(i <= x)
    <3>1. i - x \in 1..(top - x) /\ x + (i - x) = i
      BY <1>1, <2>2
    <3>2. b[i - x] = lg[x + (i - x)]
      BY <1>2, <3>1
    <3>3. QED
      BY <1>4, <2>2, <3>1, <3>2
  <2>3. QED
    BY <2>1, <2>2
<1>6. QED
  BY <1>1, <1>3, <1>4, <1>5 DEF Agrees, r, b, x

LEMMA ResumeAppendReplicates ==
    ASSUME ElectionInv, ElectionInv', SendersWon,
           NEW n \in Node, NEW t \in Task, NEW reply, call[n][t].stage = "answered",
           reply \in {Nil, call[n][t].reply}, ResumeAppend(n, t, reply)
    PROVE  /\ n \in Winners /\ SendersWon'
           /\ Following(n) => Following(n)'
<1> DEFINE c == call[n][t]
           p == PeerSeq[n][c.peer]
           ok == reply # Nil /\ reply.success
           mt == IF ok THEN [matched[n] EXCEPT ![p] = reply.matched] ELSE matched[n]
           found == IF ok THEN Committable(n, mt) ELSE {}
<1>1. TypeOK /\ Idle.stage = "idle" /\ matched[n] \in [Node -> Nat]
  BY DEF ElectionInv, Idle, TypeOK
<1>2. /\ c.kind = "append" /\ matched' = [matched EXCEPT ![n] = mt]
      /\ UNCHANGED <<nodeVars, log, auxVars>>
  BY Zenon DEF ResumeAppend
<1>3. \/ UNCHANGED <<commit, applied>>
      \/ \E top \in found :
           /\ commit' = [commit EXCEPT ![n] = top]
           /\ applied' = [applied EXCEPT ![n] = applied[n] \o ToApply(n, top)]
  BY Zenon DEF ResumeAppend
<1>4. IF c.peer < Len(PeerSeq[n])
      THEN SendAppend(n, t, c.peer + 1, log[n], commit'[n])
      ELSE call' = [call EXCEPT ![n][t] = Idle] /\ UNCHANGED net
  BY Zenon DEF ResumeAppend
<1>5. n \in Winners
  BY <1>2 DEF SendersWon, Rounds
<1>6. c \in AppendCall /\ c.stage = "answered"
  BY <1>1, <1>2, CallTypes
<1>7. c.peer \in Nat /\ c.reply \in {Nil} \cup AppendReply
  <2> HIDE DEF c
  <2>1. QED
    BY <1>6 DEF AppendCall
<1>8. ok => Matches(c) /\ reply = c.reply /\ reply \in AppendReply
  <2>1. reply \in {Nil, c.reply}
    OBVIOUS
  <2> HIDE DEF c
  <2>2. QED
    BY <1>2, <1>6, <1>7, <2>1 DEF Matches
<1> HIDE DEF c, ok
<1>9. c = call[n][t]
  BY DEF c
<1>10. log' = log /\ role' = role /\ elected' = elected
  BY <1>2 DEF nodeVars, auxVars
<1>11. found \subseteq (commit[n] + 1)..Len(log[n])
  <2> HIDE DEF mt
  <2>1. QED
    BY DEF Committable
<1>12. /\ commit[n] \in Nat /\ commit'[n] \in Nat /\ log[n] \in Seq(LogEntry)
       /\ Len(log[n]) \in Nat
  BY LogTypes, NewLogTypes
<1> HIDE DEF found, mt
<1>13. /\ commit[n] <= commit'[n] /\ commit' \in [Node -> Nat]
       /\ \A m \in Node : m # n => commit'[m] = commit[m]
  <2>1. CASE UNCHANGED <<commit, applied>>
    BY <1>1, <1>12, <2>1 DEF TypeOK
  <2>2. CASE \E top \in found : commit' = [commit EXCEPT ![n] = top]
    <3>1. PICK top \in found : commit' = [commit EXCEPT ![n] = top]
      BY <2>2
    <3>2. top \in Nat /\ commit[n] < top
      BY <1>11, <1>12, <3>1
    <3>3. QED
      BY <1>1, <1>12, <3>1, <3>2 DEF TypeOK
  <2>3. QED
    BY <1>3, <2>1, <2>2
<1>14. Sends(n, t, log[n], commit'[n])
  <2>1. CASE c.peer < Len(PeerSeq[n])
    <3>1. c.peer + 1 \in 1..Len(PeerSeq[n])
      BY <1>7, <2>1, PeersDiffer
    <3>2. call[n][t].stage # "sent"
      OBVIOUS
    <3>3. QED
      BY <1>4, <1>12, <2>1, <3>1, <3>2, SendEffect
  <2>2. CASE ~(c.peer < Len(PeerSeq[n]))
    <3>1. call' = [call EXCEPT ![n][t] = Idle] /\ UNCHANGED net
      BY <1>4, <2>2
    <3>2. ~Matches(Idle)
      BY <1>1 DEF Matches
    <3>3. call'[n][t] = Idle
          /\ \A m \in Node, u \in Task : m # n \/ u # t => call'[m][u] = call[m][u]
      BY <1>1, <3>1 DEF TypeOK
    <3>4. QED
      BY <3>1, <3>2, <3>3 DEF Sends
  <2>3. QED
    BY <2>1, <2>2
<1>15. Round(n, t)
  BY <1>10, <1>12, <1>13, <1>14, AgreesFacts DEF Round
<1>16. ASSUME Following(n) PROVE Following(n)'
  <2>1. ASSUME ok
        PROVE  /\ mt = [matched[n] EXCEPT ![p] = reply.matched]
               /\ reply.matched \in Nat /\ p \in Node /\ reply.matched <= Len(log[p])
    <3>1. Matches(c) /\ reply = c.reply /\ reply \in AppendReply
      BY <1>8, <2>1
    <3>2. c.peer \in 1..Len(PeerSeq[n]) /\ c.reply.matched <= Len(log[p])
      BY <1>9, <1>16, <3>1 DEF Following, Reports
    <3>3. p \in Node
      BY <3>2, PeersDiffer
    <3>4. reply.matched \in Nat
      BY <3>1 DEF AppendReply
    <3>5. QED
      BY <2>1, <3>1, <3>2, <3>3, <3>4 DEF mt
  <2>2. mt \in [Node -> Nat] /\ \A m \in Node : mt[m] <= Len(log[m])
    <3>0. \A m \in Node : matched[n][m] <= Len(log[m])
      BY <1>16 DEF Following, Reports
    <3>1. CASE ok
      <4> HIDE DEF p
      <4>1. QED
        BY <1>1, <2>1, <3>0, <3>1
    <3>2. CASE ~ok
      BY <1>1, <3>0, <3>2 DEF mt
    <3>3. QED
      BY <3>1, <3>2
  <2>3. Ordered(n)' /\ Reports(n)'
    <3>1. \A m \in Node : matched'[n][m] <= Len(log'[m])
      BY <1>1, <1>2, <1>10, <2>2 DEF TypeOK
    <3>2. QED
      BY <1>5, <1>15, <1>16, <3>1, RoundKeeps
  <2>4. \A m \in Peers(n) : Copied(log'[m], log'[n])
    BY <1>10, <1>16 DEF Following
  <2>5. CASE UNCHANGED <<commit, applied>>
    <3>1. Commits(n)' /\ Applies'
      BY <1>10, <1>16, <2>5 DEF Following, Commits, Applies, Have, Agrees
    <3>2. QED
      BY <2>3, <2>4, <3>1 DEF Following, Copied, Agrees
  <2>6. CASE \E top \in found :
               /\ commit' = [commit EXCEPT ![n] = top]
               /\ applied' = [applied EXCEPT ![n] = applied[n] \o ToApply(n, top)]
    <3>1. PICK top \in found :
               /\ commit' = [commit EXCEPT ![n] = top]
               /\ applied' = [applied EXCEPT ![n] = applied[n] \o ToApply(n, top)]
      BY <2>6
    <3>2. top \in Committable(n, mt)
      BY <3>1 DEF found
    <3>3. /\ top \in Nat /\ commit[n] < top /\ top <= Len(log[n])
          /\ 2 * Cardinality(Have(top)) > Cardinality(Node)
      BY <2>2, <3>2, CommittableHeld
    <3>4. commit'[n] = top
      BY <1>1, <3>1 DEF TypeOK
    <3>5. Commits(n)'
      <4>1. \A m \in Node : commit'[m] <= commit'[n] /\ commit'[m] <= Len(log'[m])
        <5> TAKE m \in Node
        <5>1. commit[m] <= commit[n] /\ commit[m] <= Len(log[m]) /\ commit[m] \in Nat
          BY <1>16, LogTypes DEF Following, Commits
        <5>2. QED
          BY <1>10, <1>12, <1>13, <3>3, <3>4, <5>1
      <4>2. ASSUME NEW i \in 1..commit'[n]
            PROVE  2 * Cardinality(Have(i)') > Cardinality(Node)
        <5>1. i \in Nat /\ i <= top
          BY <3>3, <3>4
        <5>2. 2 * Cardinality(Have(i)) > Cardinality(Node)
          BY <3>3, <5>1, ShorterHeld
        <5>3. Have(i)' = Have(i)
          BY <1>10 DEF Have
        <5>4. QED
          BY <5>2, <5>3
      <4>3. QED
        BY <4>1, <4>2 DEF Commits
    <3>6. Applies'
      <4>1. /\ applied \in [Node -> Seq(LogEntry)]
            /\ \A m \in Node : Len(applied[m]) <= commit[m] /\ Agrees(applied[m], log[m])
        BY <1>16 DEF Following, Applies
      <4> DEFINE r == applied[n] \o ToApply(n, top)
      <4>2. Len(applied[n]) \in Nat /\ Len(applied[n]) <= top
        BY <1>12, <3>3, <4>1
      <4>3. r \in Seq(LogEntry) /\ Len(r) = top /\ Agrees(r, log[n])
        BY <1>12, <3>3, <4>1, <4>2, AppliedGrows DEF ToApply
      <4> HIDE DEF r
      <4>4. applied' = [applied EXCEPT ![n] = r]
        BY <3>1 DEF r
      <4>5. /\ applied' \in [Node -> Seq(LogEntry)] /\ applied'[n] = r
            /\ \A m \in Node : m # n => applied'[m] = applied[m]
        BY <4>1, <4>3, <4>4
      <4>6. ASSUME NEW m \in Node
            PROVE  Len(applied'[m]) <= commit'[m] /\ Agrees(applied'[m], log'[m])
        <5>1. CASE m = n
          BY <1>10, <3>3, <3>4, <4>3, <4>5, <5>1
        <5>2. CASE m # n
          BY <1>10, <1>13, <4>1, <4>5, <5>2
        <5>3. QED
          BY <5>1, <5>2
      <4>7. QED
        BY <4>5, <4>6 DEF Applies, Agrees
    <3>7. QED
      BY <2>3, <2>4, <3>5, <3>6 DEF Following, Copied, Agrees
  <2>7. QED
    BY <1>3, <2>5, <2>6
<1>17. QED
  BY <1>5, <1>15, <1>16, RoundKeeps

LEMMA ReplyReplicates ==
    ASSUME ElectionInv, ElectionInv', SendersWon, NEW n \in Node, NEW t \in Task,
           Reply(n, t) \/ ReplyLost(n, t)
    PROVE  QuietStep \/ (n \in Winners /\ SendersWon' /\ (Following(n) => Following(n)'))
<1>1. PICK reply \in {Nil, call[n][t].reply} :
         /\ call[n][t].stage = "answered"
         /\ \/ t = "main" /\ ResumeElection(n, reply)
            \/ ResumeAppend(n, t, reply)
  BY DEF Reply, ReplyLost
<1>2. CASE t = "main" /\ ResumeElection(n, reply)
  BY <1>1, <1>2, ResumeElectionQuiet
<1>3. CASE ResumeAppend(n, t, reply)
  BY <1>1, <1>3, ResumeAppendReplicates
<1>4. QED
  BY <1>1, <1>2, <1>3

\* Every step but a restart replicates nothing, or replicates as some winner.
LEMMA StepReplicates ==
    ASSUME ElectionInv, ElectionInv', SendersWon, Next, restarts' = 0, restarts \in Nat
    PROVE  /\ restarts = 0 /\ elected \subseteq elected'
           /\ \/ QuietStep
              \/ \E w \in Node : w \in Winners /\ SendersWon' /\ (Following(w) => Following(w)')
<1>1. PICK n \in Node :
        \/ StartElection(n)
        \/ SendHeartbeats(n)
        \/ \E c \in Command : Propose(n, c)
        \/ \E s \in Peers(n) : HandleVote(n, s) \/ HandleAppend(n, s)
        \/ \E t \in Task : Reply(n, t) \/ ReplyLost(n, t) \/ RequestLost(n, t)
        \/ \E graceful \in BOOLEAN : Restart(n, graceful)
  BY DEF Next
<1>2. CASE StartElection(n)
  <2>1. UNCHANGED <<restarts, elected>>
    BY <1>2, Zenon DEF StartElection
  <2>2. QED
    BY <1>2, <2>1, StartElectionQuiet
<1>3. CASE SendHeartbeats(n)
  <2>1. UNCHANGED auxVars
    BY <1>3, Zenon DEF SendHeartbeats
  <2>2. QED
    BY <1>3, <2>1, SendHeartbeatsReplicates DEF auxVars
<1>4. CASE \E c \in Command : Propose(n, c)
  <2>1. UNCHANGED <<restarts, elected>>
    BY <1>4, Zenon DEF Propose
  <2>2. QED
    BY <1>4, <2>1, ProposeReplicates
<1>5. CASE \E s \in Peers(n) : HandleVote(n, s)
  <2>1. UNCHANGED <<restarts, elected>>
    BY <1>5, Zenon DEF HandleVote
  <2>2. QED
    BY <1>5, <2>1, HandleVoteQuiet DEF Peers
<1>6. CASE \E s \in Peers(n) : HandleAppend(n, s)
  <2>1. UNCHANGED auxVars
    BY <1>6, Zenon DEF HandleAppend
  <2>2. QED
    BY <1>6, <2>1, HandleAppendReplicates DEF auxVars, Peers
<1>7. CASE \E t \in Task : Reply(n, t) \/ ReplyLost(n, t)
  <2>1. PICK t \in Task : Reply(n, t) \/ ReplyLost(n, t)
    BY <1>7
  <2>2. PICK reply : ResumeElection(n, reply) \/ ResumeAppend(n, t, reply)
    BY <2>1 DEF Reply, ReplyLost
  <2>3. restarts' = restarts /\ elected \subseteq elected'
    <3>1. CASE ResumeElection(n, reply)
      <4>1. UNCHANGED restarts
            /\ (UNCHANGED elected \/ \E e : elected' = elected \cup {e})
        BY <3>1, Zenon DEF ResumeElection
      <4>2. QED
        BY <4>1
    <3>2. CASE ResumeAppend(n, t, reply)
      <4>1. UNCHANGED auxVars
        BY <3>2, Zenon DEF ResumeAppend
      <4>2. QED
        BY <4>1 DEF auxVars
    <3>3. QED
      BY <2>2, <3>1, <3>2
  <2>4. QED
    BY <2>1, <2>3, ReplyReplicates
<1>8. CASE \E t \in Task : RequestLost(n, t)
  <2>1. UNCHANGED auxVars
    BY <1>8, Zenon DEF RequestLost
  <2>2. QED
    BY <1>8, <2>1, RequestLostQuiet DEF auxVars
<1>9. CASE \E graceful \in BOOLEAN : Restart(n, graceful)
  <2>1. restarts' = restarts + 1
    BY <1>9, Zenon DEF Restart
  <2>2. QED
    BY <2>1
<1>10. QED
  BY <1>1, <1>2, <1>3, <1>4, <1>5, <1>6, <1>7, <1>8, <1>9

LEMMA ReplicationInvHolds == Spec => []ReplicationInv
<1>1. Init => ReplicationInv
  <2> SUFFICES ASSUME Init PROVE ReplicationInv
    OBVIOUS
  <2>1. /\ log = [n \in Node |-> <<>>] /\ commit = [n \in Node |-> 0]
        /\ applied = [n \in Node |-> <<>>]
        /\ matched = [n \in Node |-> [p \in Node |-> 0]]
        /\ role = [n \in Node |-> "follower"]
        /\ call = [n \in Node |-> [t \in Task |-> Idle]]
        /\ net = [k \in Kind |-> [s \in Node |-> [d \in Node |-> <<>>]]]
    BY Zenon DEF Init
  <2>2. ~Rounds(Idle) /\ ~Matches(Idle)
    <3>1. Idle.stage = "idle"
      BY DEF Idle
    <3>2. QED
      BY <3>1 DEF Rounds, Matches
  <2>3. /\ \A n \in Node, t \in Task : call[n][t] = Idle
        /\ \A s, d \in Node : net["append"][s][d] = <<>>
        /\ \A n \in Node : role[n] # "leader"
    BY <2>1 DEF Kind
  <2>4. SendersWon
    BY <2>2, <2>3 DEF SendersWon
  <2>5. ASSUME NEW l \in Node PROVE Following(l)
    <3>1. Ordered(l)
      BY <2>3 DEF Ordered, InOrder, Peers
    <3>2. Reports(l)
      BY <2>1, <2>2, <2>3 DEF Reports
    <3>3. Commits(l)
      BY <2>1 DEF Commits
    <3>4. Applies
      BY <2>1 DEF Applies, Agrees
    <3>5. \A n \in Peers(l) : Copied(log[n], log[l])
      BY <2>1 DEF Peers, Copied, Agrees, StoredAll
    <3>6. QED
      BY <3>1, <3>2, <3>3, <3>4, <3>5 DEF Following
  <2>6. QED
    BY <2>4, <2>5 DEF ReplicationInv
<1>2. ElectionInv /\ ElectionInv' /\ ReplicationInv /\ [Next]_vars => ReplicationInv'
  <2> SUFFICES ASSUME ElectionInv, ElectionInv', ReplicationInv, [Next]_vars,
                      restarts' = 0
               PROVE  SendersWon' /\ \A l \in Node : Winners' \subseteq {l} => Following(l)'
    BY DEF ReplicationInv
  <2>1. CASE UNCHANGED vars
    <3>1. /\ role' = role /\ elected' = elected /\ restarts' = restarts /\ call' = call
          /\ net' = net /\ log' = log /\ commit' = commit /\ applied' = applied
          /\ matched' = matched
      BY <2>1 DEF vars, nodeVars, logVars, peerVars, auxVars
    <3>2. SendersWon /\ \A l \in Node : Winners \subseteq {l} => Following(l)
      BY <3>1 DEF ReplicationInv
    <3>3. Winners' = Winners
      BY <3>1 DEF Winners
    <3>4. QuietStep
      <4>1. \A s, d \in Node : Thinner(net'["append"][s][d], net["append"][s][d])
        BY <3>1, LogTypes, SameThinner
      <4>2. QED
        BY <3>1, <4>1 DEF QuietStep, CallKept
    <3>5. QED
      BY <3>2, <3>3, <3>4, QuietKeeps
  <2>2. CASE Next
    <3>0. restarts \in Nat
      BY DEF ElectionInv, TypeOK
    <3>1. restarts = 0
      <4>1. PICK n \in Node : VoteStep(n) \/ \E graceful \in BOOLEAN : Restart(n, graceful)
        BY <2>2, StepsVote
      <4>2. (\E graceful \in BOOLEAN : Restart(n, graceful)) => restarts' = restarts + 1
        BY Zenon DEF Restart
      <4>3. VoteStep(n) => restarts' = restarts
        BY DEF VoteStep
      <4>4. QED
        BY <3>0, <4>1, <4>2, <4>3
    <3>2. SendersWon /\ \A l \in Node : Winners \subseteq {l} => Following(l)
      BY <3>1 DEF ReplicationInv
    <3>3. /\ elected \subseteq elected'
          /\ \/ QuietStep
             \/ \E w \in Node : w \in Winners /\ SendersWon' /\ (Following(w) => Following(w)')
      BY <2>2, <3>0, <3>2, StepReplicates
    <3>4. Winners \subseteq Winners'
      BY <3>3, MoreWinners
    <3>5. CASE QuietStep
      BY <3>2, <3>4, <3>5, QuietKeeps
    <3>6. CASE \E w \in Node : w \in Winners /\ SendersWon' /\ (Following(w) => Following(w)')
      <4>1. PICK w \in Node : w \in Winners /\ SendersWon' /\ (Following(w) => Following(w)')
        BY <3>6
      <4>2. \A l \in Node : Winners' \subseteq {l} => l = w /\ Winners \subseteq {l}
        BY <3>4, <4>1
      <4>3. QED
        BY <3>2, <4>1, <4>2
    <3>7. QED
      BY <3>3, <3>5, <3>6
  <2>3. QED
    BY <2>1, <2>2
<1>3. QED
  BY <1>1, <1>2, ElectionInvHolds, PTL DEF Spec

\* At most one winner is some node, if any node.
LEMMA OneIs ==
    ASSUME TypeOK, OneLeader
    PROVE  \E l \in Node : Winners \subseteq {l}
<1>1. Winners \subseteq Node
  BY DEF Winners, TypeOK
<1>2. IsFiniteSet(Winners) /\ Cardinality(Winners) \in Nat /\ Cardinality(Winners) <= 1
  BY <1>1, NodeAssumption, FS_Subset, FS_CardinalityType DEF OneLeader
<1>3. CASE Cardinality(Winners) = 0
  <2>1. Winners = {}
    BY <1>2, <1>3, FS_EmptySet
  <2>2. Node # {}
    BY NodeAssumption, FS_EmptySet
  <2>3. QED
    BY <2>1, <2>2
<1>4. CASE Cardinality(Winners) = 1
  BY <1>1, <1>2, <1>4, FS_Singleton
<1>5. QED
  BY <1>2, <1>3, <1>4

\* What the invariant says while one node is elected.
LEMMA OneFollowed ==
    ASSUME ElectionInv, ReplicationInv, OneLeader
    PROVE  \E l \in Node : Winners \subseteq {l} /\ Following(l)
<1>1. TypeOK /\ restarts = 0
  BY DEF ElectionInv, OneLeader
<1>2. QED
  BY <1>1, OneIs DEF ReplicationInv

\* What two nodes have at one position is the same entry.
LEMMA SameEverywhere ==
    ASSUME ElectionInv, NEW l \in Node, Following(l), NEW m \in Node, NEW n \in Node,
           NEW i \in 1..Len(log[m]), i \in 1..Len(log[n])
    PROVE  SameEntry(log[m][i], log[n][i])
<1>1. ASSUME NEW k \in Node, i \in 1..Len(log[k])
      PROVE  log[k][i] = log[l][i] \/ log[k][i] = Stored(log[l][i])
  <2>1. CASE k = l
    BY <2>1
  <2>2. CASE k # l
    <3>1. Copied(log[k], log[l]) /\ log[k] \in Seq(LogEntry) /\ log[l] \in Seq(LogEntry)
      BY <2>2, LogTypes DEF Following, Peers
    <3>2. QED
      BY <1>1, <3>1, CopiedFacts
  <2>3. QED
    BY <2>1, <2>2
<1>2. i \in 1..Len(log[l])
  <2>1. CASE m = l
    BY <2>1
  <2>2. CASE m # l
    <3>1. Copied(log[m], log[l]) /\ log[m] \in Seq(LogEntry) /\ log[l] \in Seq(LogEntry)
      BY <2>2, LogTypes DEF Following, Peers
    <3>2. Len(log[m]) <= Len(log[l]) /\ Len(log[m]) \in Nat /\ Len(log[l]) \in Nat
      BY <3>1, CopiedFacts
    <3>3. QED
      BY <3>2
  <2>3. QED
    BY <2>1, <2>2
<1>3. log[l][i] \in LogEntry
  BY <1>2, LogTypes
<1> DEFINE e == log[l][i]
<1>4. /\ Stored(e).term = e.term /\ Stored(e).cmd = e.cmd
      /\ e.cmd \in Plain => Stored(e) = e
  BY <1>3 DEF Stored, LogEntry
<1>5. /\ log[m][i] = e \/ log[m][i] = Stored(e)
      /\ log[n][i] = e \/ log[n][i] = Stored(e)
  BY <1>1
<1> HIDE DEF e
<1>6. QED
  BY <1>4, <1>5 DEF SameEntry

\* Every log has the entries of the log of the only node that was ever elected, in
\* its order, through losses, late requests, a deposition and another election of
\* it; byte for byte where the encoding of the commands changes nothing.
THEOREM LogsFollowLeaderHolds == Spec => []LogsFollowLeader
<1>1. ElectionInv /\ ReplicationInv => LogsFollowLeader
  <2> SUFFICES ASSUME ElectionInv, ReplicationInv, OneLeader, NEW l \in Winners,
                      NEW n \in Node
               PROVE  /\ Len(log[n]) <= Len(log[l])
                      /\ \A i \in 1..Len(log[n]) : SameEntry(log[n][i], log[l][i])
    BY DEF LogsFollowLeader
  <2>1. l \in Node /\ Following(l)
    BY OneFollowed
  <2>2. Len(log[n]) <= Len(log[l]) /\ Len(log[n]) \in Nat /\ Len(log[l]) \in Nat
    <3>1. log[n] \in Seq(LogEntry) /\ log[l] \in Seq(LogEntry)
          /\ (n # l => Copied(log[n], log[l]))
      BY <2>1, LogTypes DEF Following, Peers
    <3>2. QED
      BY <3>1, CopiedFacts
  <2>3. \A i \in 1..Len(log[n]) : i \in 1..Len(log[l])
    BY <2>2
  <2>4. QED
    BY <2>1, <2>2, <2>3, SameEverywhere
<1>2. QED
  BY <1>1, ElectionInvHolds, ReplicationInvHolds, PTL

\* What is committed anywhere is in the log of a majority, at its position.
THEOREM CommittedOnMajorityHolds == Spec => []CommittedOnMajority
<1>1. ElectionInv /\ ReplicationInv => CommittedOnMajority
  <2> SUFFICES ASSUME ElectionInv, ReplicationInv, OneLeader, NEW n \in Node,
                      NEW i \in 1..commit[n]
               PROVE  2 * Cardinality({m \in Node : /\ Len(log[m]) >= i
                                                    /\ SameEntry(log[m][i], log[n][i])})
                        > Cardinality(Node)
    BY DEF CommittedOnMajority
  <2>1. PICK l \in Node : Following(l)
    BY OneFollowed
  <2>2. /\ commit[n] <= commit[l] /\ commit[n] <= Len(log[n]) /\ commit[n] \in Nat
        /\ commit[l] \in Nat /\ Len(log[n]) \in Nat
    BY <2>1, LogTypes DEF Following, Commits
  <2>3. i \in 1..commit[l] /\ i \in 1..Len(log[n])
    BY <2>2
  <2>4. 2 * Cardinality(Have(i)) > Cardinality(Node)
    BY <2>1, <2>3 DEF Following, Commits
  <2>5. ASSUME NEW m \in Node, Len(log[m]) >= i
        PROVE  SameEntry(log[m][i], log[n][i])
    <3>1. i \in 1..Len(log[m])
      BY <2>2, <2>5, LogTypes
    <3>2. QED
      BY <2>1, <2>3, <3>1, SameEverywhere
  <2>6. Have(i) = {m \in Node : Len(log[m]) >= i /\ SameEntry(log[m][i], log[n][i])}
    BY <2>5 DEF Have
  <2>7. QED
    BY <2>4, <2>6
<1>2. QED
  BY <1>1, ElectionInvHolds, ReplicationInvHolds, PTL

\* What is applied is committed, in the order of the log and once.
THEOREM AppliedInOrderHolds == Spec => []AppliedInOrder
<1>1. ElectionInv /\ ReplicationInv => AppliedInOrder
  <2> SUFFICES ASSUME ElectionInv, ReplicationInv, OneLeader, NEW n \in Node
               PROVE  Len(applied[n]) <= commit[n] /\ IsPrefixOf(applied[n], log[n])
    BY DEF AppliedInOrder
  <2>1. /\ applied[n] \in Seq(LogEntry) /\ Len(applied[n]) <= commit[n]
        /\ Agrees(applied[n], log[n])
    BY OneFollowed DEF Following, Applies
  <2>2. QED
    BY <2>1, LogTypes, PrefixAgrees
<1>2. QED
  BY <1>1, ElectionInvHolds, ReplicationInvHolds, PTL
=============================================================================
