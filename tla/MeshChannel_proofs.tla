------------------------- MODULE MeshChannel_proofs -------------------------
(***************************************************************************)
(* What the mesh channel guarantees for any number of senders, messages,   *)
(* connections, reconnections and faults.                                  *)
(***************************************************************************)
EXTENDS MeshChannel, TLAPS

\* All numbers of a sequence are at most n.
UpTo(q, n) == \A i \in DOMAIN q : q[i] <= n

LEMMA UpToLater ==
    ASSUME NEW q \in Seq(Nat), NEW m \in Nat, NEW n \in Nat, m <= n, UpTo(q, m)
    PROVE  UpTo(q, n)
<1>1. \A i \in DOMAIN q : q[i] \in Nat
  OBVIOUS
<1>2. QED
  BY <1>1 DEF UpTo

\* A message that is appended is newer than all before it.
LEMMA AppendInOrder ==
    ASSUME NEW q \in Seq(Nat), NEW n \in Nat, Increasing(q), UpTo(q, n)
    PROVE  /\ Append(q, n + 1) \in Seq(Nat)
           /\ Increasing(Append(q, n + 1)) /\ UpTo(Append(q, n + 1), n + 1)
BY DEF Increasing, UpTo

\* What comes before a sequence and before a new message comes before both.
LEMMA AppendBefore ==
    ASSUME NEW p \in Seq(Nat), NEW q \in Seq(Nat), NEW n \in Nat,
           Before(p, q), UpTo(p, n)
    PROVE  Before(p, Append(q, n + 1))
BY DEF Before, UpTo

\* Two sequences, one before the other, written one after the other.
LEMMA ConcatInOrder ==
    ASSUME NEW p \in Seq(Nat), NEW q \in Seq(Nat), NEW n \in Nat,
           Increasing(p), Increasing(q), Before(p, q), UpTo(p, n), UpTo(q, n)
    PROVE  /\ p \o q \in Seq(Nat) /\ Increasing(p \o q) /\ UpTo(p \o q, n)
<1>1. /\ p \o q \in Seq(Nat) /\ Len(p \o q) = Len(p) + Len(q)
      /\ \A i \in 1..(Len(p) + Len(q)) :
           (p \o q)[i] = IF i <= Len(p) THEN p[i] ELSE q[i - Len(p)]
  OBVIOUS
<1>2. DOMAIN p = 1..Len(p) /\ DOMAIN q = 1..Len(q)
      /\ DOMAIN (p \o q) = 1..(Len(p) + Len(q))
  BY <1>1
<1>3. Len(p) \in Nat /\ Len(q) \in Nat
  OBVIOUS
<1>4. \A i \in DOMAIN (p \o q) : i > Len(p) => i - Len(p) \in DOMAIN q
  BY <1>2, <1>3
<1>5. UpTo(p \o q, n)
  BY <1>1, <1>2, <1>3, <1>4 DEF UpTo
<1>6. Increasing(p \o q)
  <2> SUFFICES ASSUME NEW i \in DOMAIN (p \o q), NEW j \in DOMAIN (p \o q), i < j
               PROVE  (p \o q)[i] < (p \o q)[j]
    BY DEF Increasing
  <2>1. CASE j <= Len(p)
    BY <2>1, <1>1, <1>2, <1>3 DEF Increasing
  <2>2. CASE i <= Len(p) /\ j > Len(p)
    BY <2>2, <1>1, <1>2, <1>3, <1>4 DEF Before
  <2>3. CASE i > Len(p)
    BY <2>3, <1>1, <1>2, <1>3, <1>4 DEF Increasing
  <2>4. QED
    BY <2>1, <2>2, <2>3, <1>2, <1>3
<1>7. QED
  BY <1>1, <1>5, <1>6

LEMMA ConcatBefore ==
    ASSUME NEW r \in Seq(Nat), NEW p \in Seq(Nat), NEW q \in Seq(Nat),
           Before(r, p), Before(r, q)
    PROVE  Before(r, p \o q)
<1>1. \A i \in DOMAIN (p \o q) : \/ i \in DOMAIN p /\ (p \o q)[i] = p[i]
                                 \/ /\ i - Len(p) \in DOMAIN q
                                    /\ (p \o q)[i] = q[i - Len(p)]
  OBVIOUS
<1>2. QED
  BY <1>1 DEF Before

\* The part of a connection that was read keeps its place.
LEMMA PrefixInOrder ==
    ASSUME NEW q \in Seq(Nat), NEW n \in 0..Len(q)
    PROVE  /\ SubSeq(q, 1, n) \in Seq(Nat)
           /\ DOMAIN SubSeq(q, 1, n) \subseteq DOMAIN q
           /\ \A i \in DOMAIN SubSeq(q, 1, n) : SubSeq(q, 1, n)[i] = q[i]
OBVIOUS

-----------------------------------------------------------------------------
(* The order of the messages.                                              *)

\* The writer, if there is one, is the last connection that was made, so that
\* nothing is ever written to an older one.
OrderInv ==
    /\ conns \in 0..MaxConns /\ writer \in {None, conns} /\ sent \in Nat
    /\ wire \in [1..MaxConns -> Seq(Nat)] /\ buf \in Seq(Nat)
    /\ \A c \in 1..MaxConns : c > conns => wire[c] = <<>>
    /\ UpTo(buf, sent) /\ \A c \in 1..MaxConns : UpTo(wire[c], sent)
    /\ InOrder

\* A write keeps the order when what is written is newer than all that was.
LEMMA WriteOrder ==
    ASSUME OrderInv, writer # None, NEW b \in Seq(Nat), NEW n \in Nat, sent <= n,
           Increasing(b), UpTo(b, n), \A c \in 1..MaxConns : Before(wire[c], b),
           Write(b), conns' = conns, sent' = n
    PROVE  OrderInv'
<1>1. writer = conns /\ conns \in 1..MaxConns
  BY MeshAssumption DEF OrderInv, None
<1>2. buf' = <<>> /\ writer' = writer
  BY DEF Write, Rest
<1>3. \A c \in 1..MaxConns : UpTo(wire[c], n) /\ Increasing(wire[c]) /\ wire[c] \in Seq(Nat)
  BY UpToLater DEF OrderInv, InOrder
<1>4. CASE writer \notin alive
  <2>1. wire' = wire
    BY <1>4 DEF Write
  <2>2. QED
    BY <2>1, <1>1, <1>2, <1>3 DEF OrderInv, InOrder, Increasing, Before, UpTo
<1>5. CASE writer \in alive
  <2> DEFINE w == wire[conns] \o b
  <2>1. wire' = [wire EXCEPT ![conns] = w]
    BY <1>1, <1>5 DEF Write
  <2>2. wire'[conns] = w /\ \A c \in (1..MaxConns) \ {conns} : wire'[c] = wire[c]
    BY <2>1, <1>1 DEF OrderInv
  <2>3. w \in Seq(Nat) /\ Increasing(w) /\ UpTo(w, n)
    BY <1>1, <1>3, ConcatInOrder
  <2>4. \A c \in 1..MaxConns : c < conns => Before(wire[c], w)
    BY <1>1, <1>3, ConcatBefore DEF OrderInv, InOrder
  <2> HIDE DEF w
  <2>5. wire' \in [1..MaxConns -> Seq(Nat)]
    BY <2>1, <2>3 DEF OrderInv
  <2>6. \A c \in 1..MaxConns : c > conns => wire'[c] = <<>>
    BY <2>2, <1>1 DEF OrderInv
  <2>7. \A c \in 1..MaxConns : UpTo(wire'[c], n) /\ Increasing(wire'[c])
    BY <2>2, <2>3, <1>3
  <2>8. \A c, d \in 1..MaxConns : c < d => Before(wire'[c], wire'[d])
    <3> SUFFICES ASSUME NEW c \in 1..MaxConns, NEW d \in 1..MaxConns, c < d
                 PROVE  Before(wire'[c], wire'[d])
      OBVIOUS
    <3>1. CASE d > conns
      BY <3>1, <2>6 DEF Before
    <3>2. CASE d = conns
      BY <3>2, <2>2, <2>4, <1>1
    <3>3. CASE d < conns
      BY <3>3, <2>2, <1>1 DEF OrderInv, InOrder
    <3>4. QED
      BY <3>1, <3>2, <3>3, <1>1
  <2>9. \A c \in 1..MaxConns : Before(wire'[c], buf')
    BY <1>2 DEF Before
  <2>10. Increasing(buf') /\ UpTo(buf', n) /\ buf' \in Seq(Nat)
    BY <1>2 DEF Increasing, UpTo
  <2>11. QED
    BY <2>5, <2>6, <2>7, <2>8, <2>9, <2>10, <1>1, <1>2 DEF OrderInv, InOrder
<1>6. QED
  BY <1>4, <1>5

\* A step that leaves the messages alone, and the writer or nothing in its place.
LEMMA SameMessages ==
    ASSUME OrderInv, UNCHANGED <<conns, wire, buf, sent>>, writer' \in {None, writer}
    PROVE  OrderInv'
BY DEF OrderInv, InOrder, Increasing, Before, UpTo

\* The state in which the router starts is in order.
LEMMA OrderInit == Init => OrderInv
BY MeshAssumption DEF Init, OrderInv, InOrder, Increasing, Before, UpTo, None

LEMMA SendOrder ==
    ASSUME OrderInv, NEW s \in Senders, Send(s)
    PROVE  OrderInv'
<1> DEFINE b == Append(buf, sent + 1)
<1>1. /\ conns' = conns /\ sent' = sent + 1 /\ writer # None
      /\ sent \in Nat /\ sent + 1 \in Nat /\ sent <= sent + 1
  BY DEF Send, link, OrderInv
<1>2. b \in Seq(Nat) /\ Increasing(b) /\ UpTo(b, sent + 1)
  BY <1>1, AppendInOrder DEF OrderInv, InOrder
<1>3. \A c \in 1..MaxConns : Before(wire[c], b)
  BY <1>1, AppendBefore DEF OrderInv, InOrder
<1> HIDE DEF b
<1>4. CASE recent
  <2>1. buf' = b /\ wire' = wire /\ writer' = writer
    BY <1>4 DEF Send, Buffered, b
  <2>2. \A c \in 1..MaxConns : UpTo(wire'[c], sent')
    BY <1>1, <2>1, UpToLater DEF OrderInv
  <2>3. QED
    BY <1>1, <1>2, <1>3, <2>1, <2>2 DEF OrderInv, InOrder
<1>5. CASE ~recent
  <2>1. Write(b)
    BY <1>5 DEF Send, Buffered, b
  <2>2. QED
    BY <2>1, <1>1, <1>2, <1>3, WriteOrder
<1>6. QED
  BY <1>4, <1>5

LEMMA FlushOrder ==
    ASSUME OrderInv, LearnFlush
    PROVE  OrderInv'
<1>1. /\ conns' = conns /\ sent' = sent /\ writer # None
      /\ sent \in Nat /\ sent <= sent /\ Write(buf)
  BY DEF LearnFlush, Flush, link, OrderInv
<1>2. QED
  BY <1>1, WriteOrder DEF OrderInv, InOrder

LEMMA ReconnectOrder ==
    ASSUME OrderInv, NEW k \in 1..Attempts, Reconnect(k)
    PROVE  OrderInv'
<1>1. /\ conns' = conns + 1 /\ conns < MaxConns /\ writer' = conns'
      /\ wire' = wire /\ buf' = buf /\ sent' = sent
  BY DEF Reconnect
<1>2. QED
  BY <1>1, MeshAssumption DEF OrderInv, InOrder, Increasing, Before, UpTo

LEMMA BreakOrder ==
    ASSUME OrderInv, alive \subseteq 1..conns, NEW c \in alive, Break(c)
    PROVE  OrderInv'
<1>1. c \in 1..MaxConns
  BY MeshAssumption DEF OrderInv
<1>2. /\ conns' = conns /\ writer' = writer /\ buf' = buf /\ sent' = sent
  BY DEF Break
<1>3. PICK n \in 0..Len(wire[c]) : wire' = [wire EXCEPT ![c] = SubSeq(wire[c], 1, n)]
  BY DEF Break
<1> DEFINE q == SubSeq(wire[c], 1, n)
<1>4. /\ q \in Seq(Nat) /\ DOMAIN q \subseteq DOMAIN wire[c]
      /\ \A i \in DOMAIN q : q[i] = wire[c][i]
  BY <1>1, PrefixInOrder DEF OrderInv
<1> HIDE DEF q
<1>5. wire'[c] = q /\ \A d \in (1..MaxConns) \ {c} : wire'[d] = wire[d]
  BY <1>1, <1>3 DEF OrderInv, q
<1>6. wire' \in [1..MaxConns -> Seq(Nat)]
  BY <1>1, <1>3, <1>4 DEF OrderInv, q
<1>7. \A d \in 1..MaxConns : /\ DOMAIN wire'[d] \subseteq DOMAIN wire[d]
                            /\ \A i \in DOMAIN wire'[d] : wire'[d][i] = wire[d][i]
  BY <1>4, <1>5
<1>8. \A d \in 1..MaxConns : d > conns => wire'[d] = <<>>
  BY <1>5, MeshAssumption DEF OrderInv
<1>9. \A d \in 1..MaxConns : /\ Increasing(wire'[d]) /\ UpTo(wire'[d], sent)
                            /\ Before(wire'[d], buf)
  BY <1>7 DEF OrderInv, InOrder, Increasing, UpTo, Before
<1>10. \A d, e \in 1..MaxConns : d < e => Before(wire'[d], wire'[e])
  BY <1>7 DEF OrderInv, InOrder, Before
<1>11. QED
  BY <1>2, <1>6, <1>8, <1>9, <1>10 DEF OrderInv, InOrder

-----------------------------------------------------------------------------
(* Type correctness.                                                       *)

LEMMA TypeInit == Init => TypeOK
<1> SUFFICES ASSUME Init PROVE TypeOK
  OBVIOUS
<1>1. /\ conns \in 0..MaxConns /\ writer \in 0..conns /\ alive \subseteq 1..conns
      /\ drain \in [Senders \union {Loop} -> 0..conns]
  BY MeshAssumption DEF Init, None
<1>2. /\ tasks \in [1..(Attempts + 1) -> Nat] /\ wire \in [1..MaxConns -> Seq(Messages)]
      /\ incidents \in 0..(IncidentLimit - 1) /\ recovery \in 0..RecoveryThreshold
      /\ sent \in 0..MaxSends /\ faults \in 0..MaxFaults
  BY MeshAssumption DEF Init
<1>3. buf \in Seq(Messages) /\ lost \subseteq Messages
  BY DEF Init
<1>4. serving \in BOOLEAN
  BY DEF Init
<1>5. recent \in BOOLEAN /\ awake \in BOOLEAN /\ blocked \in BOOLEAN /\ failing \in BOOLEAN
  BY DEF Init
<1>6. QED
  BY <1>1, <1>2, <1>3, <1>4, <1>5 DEF TypeOK

\* What the breaker does with an incident.
LEMMA BreakerType ==
    ASSUME TypeOK, NEW b \in BOOLEAN, Report(b) \/ Incident(b)
    PROVE  blocked' \in BOOLEAN /\ incidents' \in 0..(IncidentLimit - 1)
<1>1. incidents \in 0..(IncidentLimit - 1) /\ IncidentLimit \in Nat \ {0}
  BY MeshAssumption DEF TypeOK
<1>2. CASE Incident(b)
  <2>1. PICK kept \in 0..incidents :
          /\ blocked' = (b \/ Enough(kept + 1))
          /\ incidents' = IF Enough(kept + 1) THEN 0 ELSE kept + 1
    BY <1>2 DEF Incident
  <2>2. incidents' \in 0..(IncidentLimit - 1)
    BY <2>1, <1>1 DEF Enough
  <2>3. blocked' \in BOOLEAN
    BY <2>1
  <2>4. QED
    BY <2>2, <2>3
<1>3. CASE ~Incident(b)
  BY <1>3, <1>1 DEF Report
<1>4. QED
  BY <1>2, <1>3

LEMMA ReconnectingType ==
    ASSUME TypeOK, Reconnecting
    PROVE  tasks' \in [1..(Attempts + 1) -> Nat]
BY MeshAssumption DEF TypeOK, Reconnecting

LEMMA WriteType ==
    ASSUME TypeOK, writer # None, NEW b \in Seq(Messages), Write(b)
    PROVE  /\ wire' \in [1..MaxConns -> Seq(Messages)] /\ writer' = writer
           /\ buf' \in Seq(Messages) /\ lost' \subseteq Messages
<1>1. writer \in 1..MaxConns /\ wire[writer] \in Seq(Messages)
  BY MeshAssumption DEF TypeOK, None
<1>2. wire[writer] \o b \in Seq(Messages)
  BY <1>1
<1>3. Range(b) \subseteq Messages
  BY DEF Range
<1>4. buf' \in Seq(Messages) /\ writer' = writer
  BY DEF Write, Rest
<1>5. CASE writer \in alive
  BY <1>1, <1>2, <1>4, <1>5 DEF Write, TypeOK
<1>6. CASE writer \notin alive
  BY <1>3, <1>4, <1>6 DEF Write, TypeOK
<1>7. QED
  BY <1>5, <1>6

LEMMA SendType ==
    ASSUME TypeOK, NEW s \in Senders, Send(s)
    PROVE  TypeOK'
<1>1. /\ sent' = sent + 1 /\ sent' \in 0..MaxSends /\ sent + 1 \in Messages
      /\ writer # None
  BY MeshAssumption DEF Send, TypeOK, Messages
<1>2. Append(buf, sent + 1) \in Seq(Messages)
  BY <1>1 DEF TypeOK
<1>3. /\ UNCHANGED <<serving, conns, alive, recovery, failing, recent, awake, tasks, faults>>
  BY DEF Send, link
<1>4. CASE recent
  <2>1. /\ buf' \in Seq(Messages) /\ UNCHANGED <<wire, writer, lost, drain>>
    BY <1>2, <1>4 DEF Send, Buffered
  <2>2. blocked' \in BOOLEAN /\ incidents' \in 0..(IncidentLimit - 1)
    BY <1>4, BreakerType DEF Send, TypeOK
  <2>3. QED
    BY <1>1, <1>3, <2>1, <2>2 DEF TypeOK
<1>5. CASE ~recent
  <2>1. Write(Append(buf, sent + 1))
    BY <1>5 DEF Send, Buffered
  <2>2. /\ wire' \in [1..MaxConns -> Seq(Messages)] /\ writer' = writer
        /\ buf' \in Seq(Messages) /\ lost' \subseteq Messages
    BY <1>1, <1>2, <2>1, WriteType
  <2>3. /\ drain' = [drain EXCEPT ![s] = writer] /\ UNCHANGED <<blocked, incidents>>
    BY <1>5 DEF Send
  <2>4. drain' \in [Senders \union {Loop} -> 0..conns]
    BY <2>3 DEF TypeOK
  <2>5. QED
    BY <1>1, <1>3, <2>2, <2>3, <2>4 DEF TypeOK
<1>6. QED
  BY <1>4, <1>5

LEMMA DrainOkType ==
    ASSUME TypeOK, NEW s \in Senders, DrainOk(s)
    PROVE  TypeOK'
<1>1. /\ UNCHANGED <<serving, conns, alive, wire, writer, buf, lost, failing, awake,
                     tasks, sent, faults>>
      /\ drain' = [drain EXCEPT ![s] = None] /\ recent' \in BOOLEAN
  BY DEF DrainOk, link, data
<1>2. drain' \in [Senders \union {Loop} -> 0..conns]
  BY <1>1 DEF TypeOK, None
<1>3. recovery' \in 0..RecoveryThreshold
  <2>1. recovery \in 0..RecoveryThreshold /\ RecoveryThreshold \in Nat
    BY MeshAssumption DEF TypeOK
  <2>2. CASE recovery + 1 >= RecoveryThreshold
    BY <2>1, <2>2 DEF DrainOk
  <2>3. CASE ~(recovery + 1 >= RecoveryThreshold)
    <3>1. recovery' = recovery + 1
      BY <2>3 DEF DrainOk
    <3>2. QED
      BY <2>1, <2>3, <3>1
  <2>4. QED
    BY <2>2, <2>3
<1>4. blocked' \in BOOLEAN /\ incidents' \in 0..(IncidentLimit - 1)
  BY BreakerType DEF DrainOk, TypeOK
<1>5. QED
  BY <1>1, <1>2, <1>3, <1>4 DEF TypeOK

LEMMA DrainFailsType ==
    ASSUME TypeOK, NEW t \in Senders \union {Loop}, DrainFails(t)
    PROVE  drain' \in [Senders \union {Loop} -> 0..conns] /\ faults' \in 0..MaxFaults
BY MeshAssumption, SMTT(30) DEF TypeOK, DrainFails, None

LEMMA SendFailsType ==
    ASSUME TypeOK, NEW s \in Senders, SendFails(s)
    PROVE  TypeOK'
<1>1. drain' \in [Senders \union {Loop} -> 0..conns] /\ faults' \in 0..MaxFaults
  BY DrainFailsType DEF SendFails
<1>2. UNCHANGED <<serving, conns, alive, wire, buf, lost, recovery, failing, recent,
                  awake, sent>>
  BY DEF SendFails, link
<1>3. writer' \in 0..conns
  BY MeshAssumption DEF SendFails, TypeOK, None
<1>4. tasks' \in [1..(Attempts + 1) -> Nat]
  BY ReconnectingType DEF SendFails, TypeOK
<1>5. blocked' \in BOOLEAN /\ incidents' \in 0..(IncidentLimit - 1)
  BY BreakerType DEF SendFails, TypeOK
<1>6. QED
  BY <1>1, <1>2, <1>3, <1>4, <1>5 DEF TypeOK

LEMMA RefuseType == TypeOK /\ Refuse => TypeOK'
<1> SUFFICES ASSUME TypeOK, Refuse PROVE TypeOK'
  OBVIOUS
<1>1. tasks' \in [1..(Attempts + 1) -> Nat]
  BY ReconnectingType DEF Refuse, Refused
<1>2. QED
  BY <1>1 DEF Refuse, TypeOK, link, data

LEMMA ReconnectType ==
    ASSUME TypeOK, NEW k \in 1..Attempts, Reconnect(k)
    PROVE  TypeOK'
<1>1. conns' \in 0..MaxConns /\ conns' = conns + 1 /\ conns \in Nat
  BY MeshAssumption DEF TypeOK, Reconnect
<1>2. alive' \subseteq 1..conns' /\ writer' \in 0..conns'
  BY <1>1 DEF TypeOK, Reconnect
<1>3. drain' \in [Senders \union {Loop} -> 0..conns']
  BY <1>1 DEF TypeOK, Reconnect
<1>4. tasks' \in [1..(Attempts + 1) -> Nat]
  BY MeshAssumption DEF TypeOK, Reconnect
<1>5. recovery' \in 0..RecoveryThreshold
  BY MeshAssumption DEF Reconnect
<1>6. blocked' \in BOOLEAN /\ failing' \in BOOLEAN
  BY DEF Reconnect
<1>7. /\ serving' \in BOOLEAN /\ recent' \in BOOLEAN /\ awake' \in BOOLEAN
      /\ wire' \in [1..MaxConns -> Seq(Messages)]
      /\ buf' \in Seq(Messages) /\ lost' \subseteq Messages
      /\ incidents' \in 0..(IncidentLimit - 1)
      /\ sent' \in 0..MaxSends /\ faults' \in 0..MaxFaults
  BY DEF Reconnect, TypeOK
<1>8. QED
  BY <1>1, <1>2, <1>3, <1>4, <1>5, <1>6, <1>7 DEF TypeOK

LEMMA AttemptFailsType ==
    ASSUME TypeOK, NEW k \in 1..Attempts, AttemptFails(k)
    PROVE  TypeOK'
<1>1. tasks' \in [1..(Attempts + 1) -> Nat]
  BY MeshAssumption, SMTT(30) DEF TypeOK, AttemptFails
<1>2. QED
  BY <1>1 DEF AttemptFails, TypeOK, link, data, breaker

LEMMA GiveUpType == TypeOK /\ GiveUp => TypeOK'
<1> SUFFICES ASSUME TypeOK, GiveUp PROVE TypeOK'
  OBVIOUS
<1>1. tasks' \in [1..(Attempts + 1) -> Nat]
  BY MeshAssumption DEF TypeOK, GiveUp
<1>2. writer' \in 0..conns
  BY MeshAssumption DEF TypeOK, GiveUp, None
<1>3. QED
  BY <1>1, <1>2 DEF GiveUp, TypeOK, link, breaker

LEMMA LearnHealthType == TypeOK /\ LearnHealth => TypeOK'
<1> SUFFICES ASSUME TypeOK, LearnHealth PROVE TypeOK'
  OBVIOUS
<1>1. blocked' \in BOOLEAN /\ incidents' \in 0..(IncidentLimit - 1)
  BY BreakerType DEF LearnHealth, TypeOK
<1>2. QED
  BY <1>1 DEF LearnHealth, TypeOK, link, data

LEMMA LearnFlushType == TypeOK /\ LearnFlush => TypeOK'
<1> SUFFICES ASSUME TypeOK, LearnFlush PROVE TypeOK'
  OBVIOUS
<1>1. /\ wire' \in [1..MaxConns -> Seq(Messages)] /\ writer' = writer
      /\ buf' \in Seq(Messages) /\ lost' \subseteq Messages
  BY WriteType DEF LearnFlush, Flush, TypeOK
<1>2. drain' \in [Senders \union {Loop} -> 0..conns]
  BY DEF LearnFlush, TypeOK
<1>3. QED
  BY <1>1, <1>2 DEF LearnFlush, TypeOK, link, breaker

LEMMA LearnDrainFailsType == TypeOK /\ LearnDrainFails => TypeOK'
<1> SUFFICES ASSUME TypeOK, LearnDrainFails PROVE TypeOK'
  OBVIOUS
<1>1. drain' \in [Senders \union {Loop} -> 0..conns] /\ faults' \in 0..MaxFaults
  BY DrainFailsType DEF LearnDrainFails
<1>2. lost' \subseteq Messages /\ buf' \in Seq(Messages) /\ writer' \in 0..conns
  BY MeshAssumption DEF LearnDrainFails, TypeOK, Range, None
<1>3. QED
  BY <1>1, <1>2 DEF LearnDrainFails, TypeOK, link, breaker

LEMMA BreakType ==
    ASSUME TypeOK, NEW c \in alive, Break(c)
    PROVE  TypeOK'
<1>1. c \in 1..MaxConns /\ wire[c] \in Seq(Messages)
  BY MeshAssumption DEF TypeOK
<1>2. PICK n \in 0..Len(wire[c]) :
        /\ wire' = [wire EXCEPT ![c] = SubSeq(@, 1, n)]
        /\ lost' = lost \union Range(SubSeq(wire[c], n + 1, Len(wire[c])))
  BY DEF Break
<1>3. /\ SubSeq(wire[c], 1, n) \in Seq(Messages)
      /\ SubSeq(wire[c], n + 1, Len(wire[c])) \in Seq(Messages)
  BY <1>1
<1>4. Range(SubSeq(wire[c], n + 1, Len(wire[c]))) \subseteq Messages
  BY <1>3 DEF Range
<1>5. wire' \in [1..MaxConns -> Seq(Messages)]
  BY <1>1, <1>2, <1>3 DEF TypeOK
<1>6. lost' \subseteq Messages
  BY <1>2, <1>4 DEF TypeOK
<1>7. faults' \in 0..MaxFaults /\ alive' \subseteq 1..conns
  BY MeshAssumption DEF Break, TypeOK
<1>8. QED
  BY <1>5, <1>6, <1>7 DEF Break, TypeOK, breaker

\* Every step leaves every variable in its type.
LEMMA TypeStep == TypeOK /\ [Next]_vars => TypeOK'
<1> SUFFICES ASSUME TypeOK, [Next]_vars PROVE TypeOK'
  OBVIOUS
<1>1. ASSUME NEW s \in Senders, Send(s) \/ DrainOk(s) \/ SendFails(s) PROVE TypeOK'
  BY <1>1, SendType, DrainOkType, SendFailsType
<1>2. ASSUME NEW k \in 1..Attempts, Reconnect(k) \/ AttemptFails(k) PROVE TypeOK'
  BY <1>2, ReconnectType, AttemptFailsType
<1>3. ASSUME Refuse \/ GiveUp \/ LearnHealth \/ LearnFlush \/ LearnDrainFails PROVE TypeOK'
  BY <1>3, RefuseType, GiveUpType, LearnHealthType, LearnFlushType, LearnDrainFailsType
<1>4. CASE Unblock
  BY <1>4 DEF Unblock, TypeOK, link, data
<1>5. CASE IntervalEnds
  BY <1>5 DEF IntervalEnds, TypeOK, link, data, breaker
<1>6. CASE LearnNothing
  BY <1>6 DEF LearnNothing, TypeOK, link, data, breaker
<1>7. CASE LearnDrainOk
  <2>1. drain' \in [Senders \union {Loop} -> 0..conns]
    BY <1>7, MeshAssumption DEF LearnDrainOk, TypeOK, None
  <2>2. QED
    BY <1>7, <2>1 DEF LearnDrainOk, TypeOK, link, data, breaker
<1>8. ASSUME NEW c \in alive, Break(c) PROVE TypeOK'
  BY <1>8, BreakType
<1>9. CASE Stop
  <2>1. faults' \in 0..MaxFaults
    BY <1>9, MeshAssumption DEF Stop, TypeOK
  <2>2. QED
    BY <1>9, <2>1 DEF Stop, TypeOK, data, breaker
<1>10. CASE Start
  BY <1>10 DEF Start, TypeOK, data, breaker
<1>11. CASE UNCHANGED vars
  BY <1>11 DEF vars, TypeOK, link, data, breaker
<1>12. QED
  BY <1>1, <1>2, <1>3, <1>4, <1>5, <1>6, <1>7, <1>8, <1>9, <1>10, <1>11 DEF Next

\* The channel of smart_router.py is type correct, whatever the number of
\* senders, attempts, faults and connections; in particular no task waits for,
\* and none is given, a connection that was never made.
THEOREM MeshTypeCorrect == Spec => []TypeOK
<1>1. Init => TypeOK
  BY TypeInit
<1>2. TypeOK /\ [Next]_vars => TypeOK'
  BY TypeStep
<1>3. QED
  BY <1>1, <1>2, PTL DEF Spec

-----------------------------------------------------------------------------
(* Every step keeps the order.                                             *)

LEMMA OrderStep == OrderInv /\ TypeOK /\ [Next]_vars => OrderInv'
<1> SUFFICES ASSUME OrderInv, TypeOK, [Next]_vars PROVE OrderInv'
  OBVIOUS
<1>1. ASSUME NEW s \in Senders, Send(s) PROVE OrderInv'
  BY <1>1, SendOrder
<1>2. ASSUME NEW s \in Senders, DrainOk(s) PROVE OrderInv'
  BY <1>2, SameMessages DEF DrainOk, link, data
<1>3. ASSUME NEW s \in Senders, SendFails(s) PROVE OrderInv'
  BY <1>3, SameMessages DEF SendFails, link
<1>4. ASSUME NEW k \in 1..Attempts, Reconnect(k) PROVE OrderInv'
  BY <1>4, ReconnectOrder
<1>5. ASSUME NEW k \in 1..Attempts, AttemptFails(k) PROVE OrderInv'
  BY <1>5, SameMessages DEF AttemptFails, link, data
<1>6. CASE Refuse
  BY <1>6, SameMessages DEF Refuse, link, data
<1>7. CASE GiveUp
  BY <1>7, SameMessages DEF GiveUp, link
<1>8. CASE Unblock \/ IntervalEnds \/ LearnHealth \/ LearnNothing \/ LearnDrainOk
  BY <1>8, SameMessages
     DEF Unblock, IntervalEnds, LearnHealth, LearnNothing, LearnDrainOk, link, data
<1>9. CASE LearnFlush
  BY <1>9, FlushOrder
<1>10. CASE LearnDrainFails
  <2>1. /\ UNCHANGED <<conns, wire, sent>> /\ writer' = None /\ buf' = <<>>
    BY <1>10 DEF LearnDrainFails, link
  <2>2. QED
    BY <2>1 DEF OrderInv, InOrder, Increasing, Before, UpTo
<1>11. ASSUME NEW c \in alive, Break(c) PROVE OrderInv'
  <2>1. alive \subseteq 1..conns
    BY DEF TypeOK
  <2>2. QED
    BY <1>11, <2>1, BreakOrder
<1>12. CASE Stop \/ Start \/ UNCHANGED vars
  BY <1>12, SameMessages DEF Stop, Start, vars, link, data
<1>13. QED
  BY <1>1, <1>2, <1>3, <1>4, <1>5, <1>6, <1>7, <1>8, <1>9, <1>10, <1>11, <1>12 DEF Next

\* Whichever of any number of senders and the loop write, however often the
\* connection breaks, is given up and made again, messages are written in the
\* order in which send_via_channel took them, and none is written twice.
THEOREM MeshInOrder == Spec => []InOrder
<1>1. Init => TypeOK /\ OrderInv
  BY TypeInit, OrderInit
<1>2. TypeOK /\ OrderInv /\ [Next]_vars => TypeOK' /\ OrderInv'
  BY TypeStep, OrderStep
<1>3. OrderInv => InOrder
  BY DEF OrderInv
<1>4. QED
  BY <1>1, <1>2, <1>3, PTL DEF Spec

-----------------------------------------------------------------------------
(* No message vanishes.                                                    *)

LEMMA RangeOfAppend ==
    ASSUME NEW q \in Seq(Nat), NEW n \in Nat
    PROVE  Range(Append(q, n)) = Range(q) \cup {n}
<1>1. /\ DOMAIN Append(q, n) = DOMAIN q \cup {Len(q) + 1}
      /\ \A i \in DOMAIN q : Append(q, n)[i] = q[i]
      /\ Append(q, n)[Len(q) + 1] = n
  OBVIOUS
<1>2. QED
  BY <1>1 DEF Range

LEMMA RangeOfConcat ==
    ASSUME NEW p \in Seq(Nat), NEW q \in Seq(Nat)
    PROVE  Range(p \o q) = Range(p) \cup Range(q)
<1>1. Len(p) \in Nat /\ Len(q) \in Nat
  OBVIOUS
<1>2. \A i \in DOMAIN (p \o q) : \/ i \in DOMAIN p /\ (p \o q)[i] = p[i]
                                 \/ /\ i - Len(p) \in DOMAIN q
                                    /\ (p \o q)[i] = q[i - Len(p)]
  OBVIOUS
<1>3. \A i \in DOMAIN p : i \in DOMAIN (p \o q) /\ (p \o q)[i] = p[i]
  OBVIOUS
<1>4. \A i \in DOMAIN q : Len(p) + i \in DOMAIN (p \o q) /\ (p \o q)[Len(p) + i] = q[i]
  OBVIOUS
<1>5. ASSUME NEW m
      PROVE  m \in Range(p \o q) <=> m \in Range(p) \/ m \in Range(q)
  <2>1. m \in Range(p \o q) <=> \E i \in DOMAIN (p \o q) : m = (p \o q)[i]
    BY DEF Range
  <2>2. m \in Range(p) <=> \E i \in DOMAIN p : m = p[i]
    BY DEF Range
  <2>3. m \in Range(q) <=> \E i \in DOMAIN q : m = q[i]
    BY DEF Range
  <2>4. QED
    BY <2>1, <2>2, <2>3, <1>2, <1>3, <1>4
<1>6. QED
  BY <1>5

\* A sequence is cut: its parts hold what it held, and if it increases, each
\* value is in one of them.
LEMMA RangeOfParts ==
    ASSUME NEW q \in Seq(Nat), NEW n \in 0..Len(q), Increasing(q)
    PROVE  LET read == SubSeq(q, 1, n)
               rest == SubSeq(q, n + 1, Len(q))
           IN /\ Range(q) = Range(read) \cup Range(rest)
              /\ Range(read) \cap Range(rest) = {}
<1> DEFINE read == SubSeq(q, 1, n)
           rest == SubSeq(q, n + 1, Len(q))
<1>1. Len(q) \in Nat /\ n \in Nat /\ DOMAIN q = 1..Len(q) /\ n <= Len(q)
      /\ \A i \in DOMAIN q : q[i] \in Nat
  OBVIOUS
<1>2. DOMAIN read = 1..n /\ \A i \in 1..n : read[i] = q[i]
  BY <1>1
<1>3. DOMAIN rest = 1..(Len(q) - n) /\ \A i \in 1..(Len(q) - n) : rest[i] = q[n + i]
  BY <1>1
<1> HIDE DEF read, rest
<1>4. \A m : m \in Range(read) <=> \E i \in 1..n : m = q[i]
  BY <1>2 DEF Range
<1>5. \A m : m \in Range(rest) <=> \E i \in (n + 1)..Len(q) : m = q[i]
  <2>1. \A i \in 1..(Len(q) - n) : n + i \in (n + 1)..Len(q)
    BY <1>1
  <2>2. \A i \in (n + 1)..Len(q) : i - n \in 1..(Len(q) - n) /\ n + (i - n) = i
    BY <1>1
  <2>3. ASSUME NEW i \in (n + 1)..Len(q)
        PROVE  \E j \in DOMAIN rest : q[i] = rest[j]
    BY <2>2, <1>3
  <2>4. \A i \in DOMAIN rest : \E j \in (n + 1)..Len(q) : rest[i] = q[j]
    BY <2>1, <1>3
  <2>5. ASSUME NEW m
        PROVE  m \in Range(rest) <=> \E i \in (n + 1)..Len(q) : m = q[i]
    <3>1. m \in Range(rest) <=> \E j \in DOMAIN rest : m = rest[j]
      BY DEF Range
    <3>2. QED
      BY <3>1, <2>3, <2>4
  <2>6. QED
    BY <2>5
<1>6. \A m : m \in Range(q) <=> \E i \in 1..Len(q) : m = q[i]
  BY <1>1 DEF Range
<1>7. Range(q) = Range(read) \cup Range(rest)
  <2>1. 1..Len(q) = (1..n) \cup ((n + 1)..Len(q))
    BY <1>1
  <2>2. QED
    BY <2>1, <1>4, <1>5, <1>6
<1>8. Range(read) \cap Range(rest) = {}
  <2>1. ASSUME NEW i \in 1..n, NEW j \in (n + 1)..Len(q)
        PROVE  q[i] # q[j]
    <3>1. i \in DOMAIN q /\ j \in DOMAIN q /\ i < j
      BY <1>1
    <3>2. q[i] < q[j] /\ q[i] \in Nat /\ q[j] \in Nat
      BY <3>1, <1>1 DEF Increasing
    <3>3. QED
      BY <3>2
  <2>2. QED
    BY <2>1, <1>4, <1>5
<1>9. QED
  BY <1>7, <1>8 DEF read, rest

LEMMA BeforeDisjoint ==
    ASSUME NEW p \in Seq(Nat), NEW q \in Seq(Nat), Before(p, q)
    PROVE  Range(p) \cap Range(q) = {}
<1>1. (\A i \in DOMAIN p : p[i] \in Nat) /\ (\A j \in DOMAIN q : q[j] \in Nat)
  OBVIOUS
<1>2. \A i \in DOMAIN p, j \in DOMAIN q : p[i] # q[j]
  BY <1>1 DEF Before
<1>3. QED
  BY <1>2 DEF Range

\* Until something breaks each connection made is alive, the writer's too.
KeptInv == NoneVanishes /\ (faults = 0 => alive = 1..conns)

\* A step that leaves the messages where they are.
LEMMA SameKept ==
    ASSUME KeptInv, TypeOK, UNCHANGED <<wire, buf, lost, sent>>, faults' = 0 => faults = 0,
           faults' = 0 => alive' = 1..conns'
    PROVE  KeptInv'
BY DEF KeptInv, NoneVanishes, Written

LEMMA WriteKept ==
    ASSUME OrderInv, TypeOK, KeptInv, writer # None, NEW b \in Seq(Nat), NEW n \in Nat,
           \/ n = sent /\ b = buf
           \/ n = sent + 1 /\ b = Append(buf, n),
           Write(b), sent' = n, UNCHANGED <<conns, alive, faults>>
    PROVE  KeptInv'
<1>1. /\ 1..sent = Range(buf) \union Written \union lost
      /\ lost \cap (Range(buf) \union Written) = {}
      /\ faults = 0 => lost = {} /\ alive = 1..conns
      /\ sent \in Nat /\ buf \in Seq(Nat)
      /\ \A c \in 1..MaxConns : wire[c] \in Seq(Nat) /\ Before(wire[c], buf)
      /\ UpTo(buf, sent) /\ \A c \in 1..MaxConns : UpTo(wire[c], sent)
  BY DEF KeptInv, NoneVanishes, OrderInv, InOrder
<1>2. /\ 1..n = Range(b) \union Written \union lost
      /\ lost \cap (Range(b) \union Written) = {}
      /\ \A c \in 1..MaxConns : Before(wire[c], b)
  <2>1. CASE n = sent /\ b = buf
    BY <2>1, <1>1
  <2>2. CASE n = sent + 1 /\ b = Append(buf, n)
    <3>1. Range(b) = Range(buf) \cup {n} /\ 1..n = (1..sent) \cup {n} /\ n \notin 1..sent
      BY <2>2, <1>1, RangeOfAppend
    <3>2. \A c \in 1..MaxConns : Before(wire[c], b)
      BY <2>2, <1>1, AppendBefore
    <3>3. QED
      BY <3>1, <3>2, <1>1
  <2>3. QED
    BY <2>1, <2>2
<1>3. Range(b) \cap Written = {}
  BY <1>1, <1>2, BeforeDisjoint DEF Written
<1>4. writer \in 1..conns /\ conns \in 1..MaxConns
  BY MeshAssumption DEF TypeOK, None
<1>5. Range(buf') = {}
  <2>1. buf' = <<>>
    BY DEF Write, Rest
  <2>2. QED
    BY <2>1 DEF Range
<1>6. CASE writer \in alive
  <2>1. wire' = [wire EXCEPT ![writer] = @ \o b] /\ lost' = lost
    BY <1>6 DEF Write
  <2>2. Range(wire'[writer]) = Range(wire[writer]) \cup Range(b)
        /\ \A c \in (1..MaxConns) \ {writer} : wire'[c] = wire[c]
    BY <2>1, <1>1, <1>4, RangeOfConcat DEF OrderInv
  <2>3. Written' = Written \cup Range(b)
    <3>1. writer \in 1..MaxConns
      BY <1>4, MeshAssumption
    <3>2. QED
      BY <2>2, <3>1 DEF Written
  <2>4. QED
    BY <2>1, <2>3, <1>1, <1>2, <1>5 DEF KeptInv, NoneVanishes
<1>7. CASE writer \notin alive
  <2>1. lost' = lost \cup Range(b) /\ wire' = wire
    BY <1>7 DEF Write
  <2>2. Written' = Written
    BY <2>1 DEF Written
  <2>3. faults # 0
    BY <1>1, <1>4, <1>7
  <2>4. QED
    BY <2>1, <2>2, <2>3, <1>2, <1>3, <1>5 DEF KeptInv, NoneVanishes
<1>8. QED
  BY <1>6, <1>7

LEMMA SendKept ==
    ASSUME OrderInv, TypeOK, KeptInv, NEW s \in Senders, Send(s)
    PROVE  KeptInv'
<1>1. /\ UNCHANGED <<conns, alive, faults>> /\ sent' = sent + 1 /\ writer # None
      /\ sent \in Nat /\ sent + 1 \in Nat /\ buf \in Seq(Nat)
      /\ Append(buf, sent + 1) \in Seq(Nat)
  BY DEF Send, link, OrderInv
<1>2. CASE recent
  <2>1. buf' = Append(buf, sent + 1) /\ UNCHANGED <<wire, lost>>
    BY <1>2 DEF Send, Buffered
  <2>2. Range(buf') = Range(buf) \cup {sent + 1} /\ 1..(sent + 1) = (1..sent) \cup {sent + 1}
        /\ sent + 1 \notin 1..sent
    BY <2>1, <1>1, RangeOfAppend
  <2>3. Written' = Written
    BY <2>1 DEF Written
  <2>4. QED
    BY <2>1, <2>2, <2>3, <1>1 DEF KeptInv, NoneVanishes
<1>3. CASE ~recent
  <2>1. Write(Append(buf, sent + 1))
    BY <1>3 DEF Send, Buffered
  <2>2. QED
    BY <2>1, <1>1, WriteKept
<1>4. QED
  BY <1>2, <1>3

LEMMA LearnDrainFailsKept ==
    ASSUME OrderInv, TypeOK, KeptInv, LearnDrainFails
    PROVE  KeptInv'
<1>1. /\ UNCHANGED <<conns, alive, wire, sent>> /\ buf' = <<>>
      /\ lost' = lost \cup Range(buf)
  BY DEF LearnDrainFails, link
<1>2. faults' # 0
  <2>1. CASE drain[Loop] \notin alive /\ drain[Loop] # None
    <3>1. drain[Loop] \in 1..conns
      BY <2>1, MeshAssumption DEF TypeOK, None
    <3>2. faults' = faults
      BY <2>1 DEF LearnDrainFails, DrainFails
    <3>3. QED
      BY <2>1, <3>1, <3>2 DEF KeptInv
  <2>2. CASE faults' = faults + 1
    BY <2>2, MeshAssumption DEF TypeOK
  <2>3. QED
    BY <2>1, <2>2 DEF LearnDrainFails, DrainFails
<1>3. Range(buf') = {} /\ Written' = Written
  BY <1>1 DEF Range, Written
<1>4. Range(buf) \cap Written = {}
  BY BeforeDisjoint DEF OrderInv, InOrder, Written
<1>5. QED
  BY <1>1, <1>2, <1>3, <1>4 DEF KeptInv, NoneVanishes

LEMMA BreakKept ==
    ASSUME OrderInv, TypeOK, KeptInv, NEW c \in alive, Break(c)
    PROVE  KeptInv'
<1>1. c \in 1..MaxConns /\ wire[c] \in Seq(Nat) /\ Increasing(wire[c])
  BY MeshAssumption DEF TypeOK, OrderInv, InOrder
<1>2. PICK n \in 0..Len(wire[c]) :
        /\ wire' = [wire EXCEPT ![c] = SubSeq(@, 1, n)]
        /\ lost' = lost \cup Range(SubSeq(wire[c], n + 1, Len(wire[c])))
  BY DEF Break
<1> DEFINE read == SubSeq(wire[c], 1, n)
           rest == SubSeq(wire[c], n + 1, Len(wire[c]))
<1>3. Range(wire[c]) = Range(read) \cup Range(rest) /\ Range(read) \cap Range(rest) = {}
  BY <1>1, RangeOfParts
<1>4. wire'[c] = read /\ \A d \in (1..MaxConns) \ {c} : wire'[d] = wire[d]
  BY <1>1, <1>2 DEF OrderInv
<1>5. lost' = lost \cup Range(rest)
  BY <1>2
<1>6. /\ buf' = buf /\ sent' = sent /\ faults' = faults + 1 /\ faults \in Nat
  BY MeshAssumption DEF Break, TypeOK
<1> HIDE DEF read, rest
<1>7. Written = Written' \cup Range(rest)
  BY <1>1, <1>3, <1>4 DEF Written
<1>8. Written' \cap Range(rest) = {}
  <2>1. ASSUME NEW d \in 1..MaxConns, d # c
        PROVE  Range(wire[d]) \cap Range(wire[c]) = {}
    <3>1. d < c \/ c < d
      BY <2>1, <1>1
    <3>2. wire[d] \in Seq(Nat) /\ (Before(wire[d], wire[c]) \/ Before(wire[c], wire[d]))
      BY <3>1, <1>1 DEF OrderInv, InOrder
    <3>3. QED
      BY <3>2, <1>1, BeforeDisjoint
  <2>2. QED
    BY <2>1, <1>3, <1>4 DEF Written
<1>9. Range(buf) \cap Range(rest) = {}
  BY <1>1, <1>3, BeforeDisjoint DEF OrderInv, InOrder
<1>10. QED
  BY <1>5, <1>6, <1>7, <1>8, <1>9 DEF KeptInv, NoneVanishes

LEMMA KeptStep == OrderInv /\ TypeOK /\ KeptInv /\ [Next]_vars => KeptInv'
<1> SUFFICES ASSUME OrderInv, TypeOK, KeptInv, [Next]_vars PROVE KeptInv'
  OBVIOUS
<1>0. faults \in Nat /\ (faults = 0 => alive = 1..conns)
  BY DEF TypeOK, KeptInv
<1>1. ASSUME UNCHANGED <<wire, buf, lost, sent, conns, alive>>,
             faults' = faults \/ faults' = faults + 1
      PROVE  KeptInv'
  BY <1>0, <1>1, SameKept
<1>2. ASSUME NEW s \in Senders, Send(s) PROVE KeptInv'
  BY <1>2, SendKept
<1>3. ASSUME NEW s \in Senders, DrainOk(s) \/ SendFails(s) PROVE KeptInv'
  BY <1>1, <1>3 DEF DrainOk, SendFails, DrainFails, link, data
<1>4. ASSUME NEW k \in 1..Attempts, Reconnect(k) PROVE KeptInv'
  <2>1. /\ UNCHANGED <<wire, buf, lost, sent, faults>>
        /\ conns' = conns + 1 /\ alive' = alive \cup {conns + 1}
    BY <1>4 DEF Reconnect
  <2>2. faults = 0 => alive' = 1..conns'
    BY <1>0, <2>1 DEF TypeOK
  <2>3. QED
    BY <2>1, <2>2, SameKept
<1>5. ASSUME NEW k \in 1..Attempts, AttemptFails(k) PROVE KeptInv'
  BY <1>1, <1>5 DEF AttemptFails, link, data
<1>6. CASE Refuse \/ GiveUp \/ Unblock \/ IntervalEnds
  BY <1>1, <1>6 DEF Refuse, GiveUp, Unblock, IntervalEnds, link, data
<1>7. CASE LearnHealth \/ LearnNothing \/ LearnDrainOk
  BY <1>1, <1>7 DEF LearnHealth, LearnNothing, LearnDrainOk, link, data
<1>8. CASE LearnFlush
  <2>1. /\ UNCHANGED <<conns, alive, sent, faults>> /\ writer # None /\ Write(buf)
        /\ buf \in Seq(Nat) /\ sent \in Nat
    BY <1>8 DEF LearnFlush, Flush, link, OrderInv
  <2>2. QED
    BY <2>1, WriteKept
<1>9. CASE LearnDrainFails
  BY <1>9, LearnDrainFailsKept
<1>10. ASSUME NEW c \in alive, Break(c) PROVE KeptInv'
  BY <1>10, BreakKept
<1>11. CASE Stop \/ Start \/ UNCHANGED vars
  BY <1>1, <1>11 DEF Stop, Start, vars, link, data
<1>12. QED
  BY <1>2, <1>3, <1>4, <1>5, <1>6, <1>7, <1>8, <1>9, <1>10, <1>11 DEF Next

\* A message that send_via_channel took is in the buffer, on a connection or
\* lost, and none is lost until a connection breaks or a drain takes too long.
THEOREM NoneVanishesHolds == Spec => []NoneVanishes
<1>1. Init => TypeOK /\ OrderInv
  BY TypeInit, OrderInit
<1>2. Init => KeptInv
  <2> SUFFICES ASSUME Init PROVE KeptInv
    OBVIOUS
  <2>1. /\ Range(buf) = {} /\ Written = {} /\ lost = {} /\ sent = 0
    BY DEF Init, Range, Written
  <2>2. alive = 1..conns
    BY DEF Init
  <2>3. QED
    BY <2>1, <2>2 DEF KeptInv, NoneVanishes
<1>3. TypeOK /\ OrderInv /\ [Next]_vars => TypeOK' /\ OrderInv'
  BY TypeStep, OrderStep
<1>4. TypeOK /\ OrderInv /\ KeptInv /\ [Next]_vars => KeptInv'
  BY KeptStep
<1>5. KeptInv => NoneVanishes
  BY DEF KeptInv
<1>6. QED
  BY <1>1, <1>2, <1>3, <1>4, <1>5, PTL DEF Spec
=============================================================================
