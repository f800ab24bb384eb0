------------------------------- MODULE IlProof -------------------------------
(***************************************************************************)
(* The IL protocol of ip/il.c, for any number of conversations and of      *)
(* messages, any window and any network: what is received is in order,     *)
(* what is established is established with the other side, and nothing is  *)
(* forgotten before the other side has it.                                 *)
(***************************************************************************)
EXTENDS Il, QueueTheorems

Open == {"Syncer", "Syncee", "Established"}
State == Open \cup {"Closed", "Closing"}

\* The packets whose ack goes to ilackto.
Data == {"data", "dataquery"}
Acking == Data \cup {"ack", "query", "state"}
Type == Acking \cup {"sync", "close"}

Message == Nat \X Nat

Conversation ==
    [state : State, start : Nat, next : Nat, recvd : Nat, acksent : Nat,
     rstart : Nat, unacked : SUBSET Nat, outo : SUBSET Message,
     rexmit : Nat, qt : Nat, rq : Seq(Message)]

Packet == [to : Side, type : Type, id : Nat, ack : Nat, from : Nat, qt : Nat]

\* Where the conversations of x start.
Starts(x) == {plan.starts[x][i] : i \in 1 .. Len(plan.starts[x])}

\* The ids of the messages of a conversation of x that starts at s.
Ids(x, s) == s + 1 .. s + plan.messages[x]

\* The ids of two conversations of one side, and a window beyond them, are
\* apart: what the code relies on when it takes a random number.
Separate ==
    \A pl \in Plans, x \in Side : \A i, j \in 1 .. Len(pl.starts[x]) : i # j =>
        \/ pl.starts[x][i] + pl.messages[x] + window < pl.starts[x][j]
        \/ pl.starts[x][j] + pl.messages[x] + window < pl.starts[x][i]

TypeOK ==
    /\ plan \in Plans
    /\ cb \in [Side -> Conversation]
    /\ count \in [Side -> Nat]
    /\ \A x \in Side : count[x] <= Len(plan.starts[x])
    /\ net \subseteq Packet

\* What has come is where the other side's conversation starts, and the
\* messages that follow, without a gap in rq.
ConvOK(x, c) ==
    /\ c.state = "Syncer" =>
         x = "call" /\ c.recvd = 0 /\ c.rq = <<>> /\ c.outo = {}
    /\ c.state = "Syncee" =>
         /\ x = "listen" /\ c.rq = <<>> /\ c.outo = {}
         /\ c.unacked = c.start + 1 .. c.next - 1
    /\ c.state \in Open =>
         /\ c.start \in Starts(x)
         /\ c.next \in c.start + 1 .. c.start + plan.messages[x] + 1
         /\ c.unacked \subseteq c.start + 1 .. c.next - 1
    /\ c.state \in {"Syncee", "Established"} =>
         /\ c.rstart \in Starts(peer(x))
         /\ c.recvd = c.rstart + Len(c.rq)
         /\ c.recvd <= c.rstart + plan.messages[peer(x)]
         /\ \A m \in c.outo : m[1] = c.rstart /\ m[2] \in Ids(peer(x), c.rstart)
    /\ \A i \in 1 .. Len(c.rq) : c.rq[i] = <<c.rstart, c.rstart + i>>

PacketOK(p) ==
    /\ p.type = "sync" => p.id \in Starts(peer(p.to))
    /\ p.type \in Data =>
         /\ p.from \in Starts(peer(p.to))
         /\ p.id \in Ids(peer(p.to), p.from)

Received ==
    /\ TypeOK
    /\ \A x \in Side : ConvOK(x, cb[x])
    /\ \A p \in net : PacketOK(p)

-----------------------------------------------------------------------------
(* What is done to a conversation.                                         *)

\* What a plan consists of.
LEMMA PlanFacts ==
    ASSUME plan \in Plans, NEW x \in Side
    PROVE  /\ plan.starts[x] \in Seq(Nat) /\ plan.messages[x] \in Nat
           /\ Len(plan.starts[x]) \in Nat
           /\ \A i \in 1 .. Len(plan.starts[x]) : plan.starts[x][i] \in Nat
           /\ Starts(x) \subseteq Nat
           /\ window \in Nat /\ MaxRexmit \in Nat /\ peer(x) \in Side
<1>1. plan.starts[x] \in Seq(Nat) /\ plan.messages[x] \in Nat
  BY IlAssumption
<1>2. /\ Len(plan.starts[x]) \in Nat
      /\ \A i \in 1 .. Len(plan.starts[x]) : plan.starts[x][i] \in Nat
  BY <1>1
<1> QED
  BY <1>1, <1>2, IlAssumption DEF Starts, peer, Side

\* Min of module Il is the least number of a set.
LEMMA MinFact ==
    ASSUME NEW S \in SUBSET Nat, S # {}
    PROVE  Min(S) \in S
<1>1. \E n \in S : \A m \in S : n <= m
  BY Least
<1> QED
  BY <1>1 DEF Min

\* Max of module Il is the greatest number of a bounded set.
LEMMA MaxFact ==
    ASSUME NEW n \in Nat, NEW S \in SUBSET (0 .. n), S # {}
    PROVE  Max(S) \in S
<1> DEFINE T == {n - k : k \in S}
<1>1. T \in SUBSET Nat /\ T # {}
  <2>1. \A k \in S : n - k \in Nat
    OBVIOUS
  <2> QED
    BY <2>1
<1>2. PICK t \in T : \A u \in T : t <= u
  BY <1>1, Least
<1>3. PICK k \in S : t = n - k
  OBVIOUS
<1>4. ASSUME NEW m \in S PROVE m <= k
  BY <1>2, <1>3
<1> QED
  BY <1>4 DEF Max

\* ilackto takes what is acknowledged off unacked, and nothing else matters.
LEMMA AcktoFields ==
    ASSUME NEW c \in Conversation, NEW ack \in Nat
    PROVE  LET d == ilackto(c, ack)
           IN  /\ d \in Conversation
               /\ d.state = c.state /\ d.start = c.start /\ d.next = c.next
               /\ d.recvd = c.recvd /\ d.rstart = c.rstart
               /\ d.outo = c.outo /\ d.rq = c.rq
               /\ d.unacked = {id \in c.unacked : id > ack}
BY DEF ilackto, Conversation

\* ilbackoff changes only the count of retransmissions.
LEMMA BackoffFields ==
    ASSUME NEW c \in Conversation
    PROVE  LET d == ilbackoff(c)
           IN  /\ d \in Conversation
               /\ d.state = c.state /\ d.start = c.start /\ d.next = c.next
               /\ d.recvd = c.recvd /\ d.rstart = c.rstart
               /\ d.outo = c.outo /\ d.rq = c.rq /\ d.unacked = c.unacked
<1>1. MaxRexmit \in Nat
  BY IlAssumption
<1>2. c.rexmit \in Nat
  BY DEF Conversation
<1>3. Min({c.rexmit, MaxRexmit}) \in {c.rexmit, MaxRexmit}
  BY <1>1, <1>2, MinFact
<1>4. PICK k \in Nat : ilbackoff(c) = [c EXCEPT !.rexmit = k]
  <2>1. Min({c.rexmit, MaxRexmit}) + 1 \in Nat
    BY <1>1, <1>2, <1>3
  <2> QED
    BY <2>1 DEF ilbackoff
<1> QED
  BY <1>4 DEF Conversation

\* ilhangup closes a conversation and leaves what can be read.
LEMMA HangupFields ==
    ASSUME NEW c \in Conversation
    PROVE  LET d == ilhangup(c)
           IN  /\ d \in Conversation
               /\ d.state = "Closed" /\ d.rstart = c.rstart /\ d.rq = c.rq
BY DEF ilhangup, Closed, Conversation, State, Message

\* A message that is kept is one of the conversation, though packets of
\* every other may come.
LEMMA OutoforderFields ==
    ASSUME plan \in Plans, Separate,
           NEW x \in Side, NEW c \in Conversation, ConvOK(x, c),
           c.state = "Established",
           NEW p \in Packet, PacketOK(p), p.to = x, p.type \in Data
    PROVE  LET d == iloutoforder(c, p)
           IN  /\ d \in Conversation
               /\ d.state = c.state /\ d.start = c.start /\ d.next = c.next
               /\ d.recvd = c.recvd /\ d.rstart = c.rstart
               /\ d.rq = c.rq /\ d.unacked = c.unacked
               /\ \A m \in d.outo : m[1] = c.rstart
                                    /\ m[2] \in Ids(peer(x), c.rstart)
<1> DEFINE d == iloutoforder(c, p)
           y == peer(x)
<1>1. /\ c.rstart \in Starts(y) /\ c.recvd \in Nat /\ c.rstart \in Nat
      /\ c.recvd >= c.rstart
      /\ c.recvd <= c.rstart + plan.messages[y]
      /\ \A m \in c.outo : m[1] = c.rstart /\ m[2] \in Ids(y, c.rstart)
  BY LenProperties DEF ConvOK, Conversation
<1>2. p.from \in Starts(y) /\ p.id \in Ids(y, p.from) /\ p.id \in Nat
      /\ p.from \in Nat
  BY DEF PacketOK, Packet
<1>3. ASSUME p.id > c.recvd, p.id <= c.recvd + window
      PROVE  p.from = c.rstart
  <2>1. SUFFICES ASSUME p.from # c.rstart PROVE FALSE
    OBVIOUS
  <2>2. y \in Side /\ plan.messages[y] \in Nat /\ window \in Nat
    BY PlanFacts
  <2>3. \/ p.from + plan.messages[y] + window < c.rstart
        \/ c.rstart + plan.messages[y] + window < p.from
    BY <2>1, <2>2, <1>1, <1>2 DEF Separate, Starts
  <2> QED
    BY <2>2, <2>3, <1>1, <1>2, <1>3 DEF Ids
<1>4. CASE p.id <= c.recvd \/ p.id > c.recvd + window \/ p.id \in ids(c.outo)
  <2>1. d = c
    BY <1>4 DEF iloutoforder
  <2> QED
    BY <2>1, <1>1
<1>5. CASE ~(p.id <= c.recvd \/ p.id > c.recvd + window \/ p.id \in ids(c.outo))
  <2>1. d = [c EXCEPT !.outo = @ \cup {<<p.from, p.id>>}]
    BY <1>5 DEF iloutoforder
  <2>2. p.from = c.rstart
    BY <1>1, <1>2, <1>3, <1>5, PlanFacts
  <2>3. <<p.from, p.id>> \in Message
    BY <1>2 DEF Message
  <2>4. /\ d \in Conversation
        /\ d.state = c.state /\ d.start = c.start /\ d.next = c.next
        /\ d.recvd = c.recvd /\ d.rstart = c.rstart
        /\ d.rq = c.rq /\ d.unacked = c.unacked
        /\ d.outo = c.outo \cup {<<p.from, p.id>>}
    BY <2>1, <2>3 DEF Conversation
  <2> QED
    BY <2>2, <2>4, <1>1, <1>2
<1> QED
  BY <1>4, <1>5

\* The messages that ilpullup takes are the next ones, in order.
LEMMA PullupFields ==
    ASSUME plan \in Plans, NEW x \in Side, NEW c \in Conversation,
           ConvOK(x, c), c.state = "Established"
    PROVE  LET d == ilpullup(c)
           IN  /\ d \in Conversation /\ ConvOK(x, d)
               /\ d.state = c.state /\ d.start = c.start /\ d.next = c.next
               /\ d.rstart = c.rstart /\ d.unacked = c.unacked
               /\ d.recvd >= c.recvd
               /\ c.outo = {} => d.recvd = c.recvd
<1> DEFINE d == ilpullup(c)
           y == peer(x)
           K == {k \in 0 .. Cardinality(c.outo) :
                    c.recvd + 1 .. c.recvd + k \subseteq ids(c.outo)}
           n == Max(K)
           new == [i \in 1 .. n |-> CHOOSE m \in c.outo : m[2] = c.recvd + i]
           left == {m \in c.outo : m[2] > c.recvd + n}
<1>1. /\ y \in Side /\ plan.messages[y] \in Nat
      /\ c.rstart \in Nat /\ c.rstart \in Starts(y)
      /\ c.rq \in Seq(Message) /\ Len(c.rq) \in Nat
      /\ c.recvd \in Nat /\ c.recvd = c.rstart + Len(c.rq)
      /\ c.recvd <= c.rstart + plan.messages[y]
      /\ c.outo \subseteq Message
      /\ \A m \in c.outo : m[1] = c.rstart /\ m[2] \in Ids(y, c.rstart)
      /\ \A i \in 1 .. Len(c.rq) : c.rq[i] = <<c.rstart, c.rstart + i>>
  BY PlanFacts, LenProperties DEF ConvOK, Conversation
<1>2. IsFiniteSet(c.outo) /\ Cardinality(c.outo) \in Nat
  <2> DEFINE I == Ids(y, c.rstart)
             f == [i \in I |-> <<c.rstart, i>>]
             T == {f[i] : i \in I}
  <2>1. IsFiniteSet(I)
    <3>1. c.rstart + 1 \in Int /\ c.rstart + plan.messages[y] \in Int
      BY <1>1
    <3> QED
      BY <3>1, FS_Interval DEF Ids
  <2>2. f \in Surjection(I, T)
    BY DEF Surjection
  <2>3. IsFiniteSet(T)
    <3> HIDE DEF f, T, I
    <3> QED
      BY <2>1, <2>2, FS_Surjection
  <2>4. c.outo \subseteq T
    <3>1. ASSUME NEW m \in c.outo PROVE m = f[m[2]] /\ m[2] \in I
      BY <1>1 DEF Message
    <3> QED
      BY <3>1
  <2> QED
    BY <2>3, <2>4, FS_Subset, FS_CardinalityType
<1>3. n \in K
  <2>1. 0 \in K
    <3>1. c.recvd + 1 .. c.recvd + 0 = {}
      BY <1>1
    <3> QED
      BY <3>1, <1>2
  <2>2. K \in SUBSET (0 .. Cardinality(c.outo))
    OBVIOUS
  <2> HIDE DEF K
  <2> QED
    BY <2>1, <2>2, <1>2, MaxFact
<1> HIDE DEF n
<1>4. n \in Nat /\ c.recvd + 1 .. c.recvd + n \subseteq ids(c.outo)
  BY <1>2, <1>3
<1>5. ASSUME NEW i \in 1 .. n
      PROVE  new[i] = <<c.rstart, c.recvd + i>> /\ new[i] \in c.outo
  <2>1. c.recvd + i \in c.recvd + 1 .. c.recvd + n
    BY <1>1, <1>4
  <2>2. PICK m \in c.outo : m[2] = c.recvd + i
    BY <2>1, <1>4 DEF ids
  <2>3. new[i] = CHOOSE e \in c.outo : e[2] = c.recvd + i
    OBVIOUS
  <2> HIDE DEF new
  <2>4. new[i] \in c.outo /\ new[i][2] = c.recvd + i
    BY <2>2, <2>3
  <2>5. new[i] \in Nat \X Nat /\ new[i][1] = c.rstart
    BY <2>4, <1>1 DEF Message
  <2> QED
    BY <2>4, <2>5
<1>6. new \in Seq(Message) /\ Len(new) = n
  <2>1. \A i \in 1 .. n : new[i] \in Message
    BY <1>5, <1>1
  <2>2. new \in [1 .. n -> Message]
    BY <2>1
  <2> QED
    BY <2>2, <1>4
<1>7. d = [c EXCEPT !.recvd = @ + n, !.rq = @ \o new, !.outo = left]
  BY DEF ilpullup, n
<1>left. left \subseteq c.outo
  OBVIOUS
<1> HIDE DEF d, new, left, K
<1>8. /\ d \in Conversation
      /\ d.state = c.state /\ d.start = c.start /\ d.next = c.next
      /\ d.rstart = c.rstart /\ d.unacked = c.unacked
      /\ d.recvd = c.recvd + n /\ d.rq = c.rq \o new /\ d.outo = left
  <2>1. c.rq \o new \in Seq(Message)
    BY <1>1, <1>6, ConcatProperties
  <2>2. left \subseteq Message /\ c.recvd + n \in Nat
    BY <1>1, <1>left, <1>4
  <2> QED
    BY <1>7, <2>1, <2>2 DEF Conversation
<1>9. /\ Len(d.rq) = Len(c.rq) + n
      /\ \A i \in 1 .. Len(d.rq) : d.rq[i] = <<c.rstart, c.rstart + i>>
  <2>1. /\ Len(d.rq) = Len(c.rq) + n
        /\ \A i \in 1 .. Len(d.rq) :
             d.rq[i] = IF i <= Len(c.rq) THEN c.rq[i] ELSE new[i - Len(c.rq)]
    <3>1. /\ Len(c.rq \o new) = Len(c.rq) + Len(new)
          /\ \A i \in 1 .. Len(c.rq) + Len(new) : (c.rq \o new)[i] =
               IF i <= Len(c.rq) THEN c.rq[i] ELSE new[i - Len(c.rq)]
      <4>1. c.rq \in Seq(Message) /\ new \in Seq(Message)
        BY <1>1, <1>6
      <4> QED
        BY <4>1, ConcatProperties, Zenon
    <3> QED
      BY <3>1, <1>6, <1>8, Zenon
  <2>2. ASSUME NEW i \in 1 .. Len(d.rq)
        PROVE  d.rq[i] = <<c.rstart, c.rstart + i>>
    <3>1. CASE i <= Len(c.rq)
      <4>1. i \in 1 .. Len(c.rq)
        <5>1. c.rq \in Seq(Message) /\ n \in Nat
          BY <1>1, <1>4
        <5>2. Len(c.rq) \in Nat
          BY <5>1
        <5> QED
          BY <5>1, <5>2, <3>1, <2>1
      <4>2. d.rq[i] = c.rq[i]
        BY <2>1, <3>1, Zenon
      <4> QED
        BY <4>1, <4>2, <1>1, Zenon
    <3>2. CASE ~(i <= Len(c.rq))
      <4>1. i - Len(c.rq) \in 1 .. n
        BY <3>2, <2>1, <1>1, <1>4
      <4>2. c.recvd + (i - Len(c.rq)) = c.rstart + i
        BY <1>1, <2>1, <1>4
      <4> QED
        BY <3>2, <4>1, <4>2, <2>1, <1>5
    <3> QED
      BY <3>1, <3>2
  <2> QED
    BY <2>1, <2>2
<1>10. c.recvd + n <= c.rstart + plan.messages[y]
  <2>1. CASE n = 0
    BY <2>1, <1>1
  <2>2. CASE n # 0
    BY <2>2, <1>1, <1>4, <1>5 DEF Ids
  <2> QED
    BY <2>1, <2>2
<1>11. c.outo = {} => n = 0
  <2>1. SUFFICES ASSUME c.outo = {}, n # 0 PROVE FALSE
    OBVIOUS
  <2> QED
    BY <2>1, <1>4, <1>5
<1>12. ConvOK(x, d)
  <2>1. /\ d.recvd = d.rstart + Len(d.rq)
        /\ d.recvd <= d.rstart + plan.messages[y]
    BY <1>1, <1>4, <1>8, <1>9, <1>10
  <2>2. \A m \in d.outo : m[1] = d.rstart /\ m[2] \in Ids(y, d.rstart)
    BY <1>1, <1>8, <1>left
  <2> QED
    BY <1>1, <1>8, <1>9, <2>1, <2>2 DEF ConvOK, Open
<1> QED
  BY <1>1, <1>4, <1>8, <1>11, <1>12 DEF d

\* Of the messages that are received in state Established.
LEMMA MessageFields ==
    ASSUME plan \in Plans, Separate,
           NEW x \in Side, NEW c \in Conversation, ConvOK(x, c),
           c.state = "Established",
           NEW p \in Packet, PacketOK(p), p.to = x, p.type \in Data
    PROVE  LET d == message(x, c, p)
           IN  /\ d \in Conversation /\ ConvOK(x, d)
               /\ d.state = c.state /\ d.start = c.start /\ d.next = c.next
               /\ d.rstart = c.rstart
               /\ d.unacked = {id \in c.unacked : id > p.ack}
               /\ d.recvd >= c.recvd
<1> DEFINE a == ilackto(c, p.ack)
           b == iloutoforder(a, p)
<1>1. p.ack \in Nat
  BY DEF Packet
<1>2. /\ a \in Conversation
      /\ a.state = c.state /\ a.start = c.start /\ a.next = c.next
      /\ a.recvd = c.recvd /\ a.rstart = c.rstart
      /\ a.outo = c.outo /\ a.rq = c.rq
      /\ a.unacked = {id \in c.unacked : id > p.ack}
  BY <1>1, AcktoFields
<1> HIDE DEF a
<1>3. ConvOK(x, a)
  BY <1>2 DEF ConvOK, Open
<1>4. /\ b \in Conversation
      /\ b.state = a.state /\ b.start = a.start /\ b.next = a.next
      /\ b.recvd = a.recvd /\ b.rstart = a.rstart
      /\ b.rq = a.rq /\ b.unacked = a.unacked
      /\ \A m \in b.outo : m[1] = a.rstart /\ m[2] \in Ids(peer(x), a.rstart)
  BY <1>2, <1>3, OutoforderFields
<1> HIDE DEF b
<1>5. ConvOK(x, b)
  BY <1>2, <1>3, <1>4 DEF ConvOK, Open
<1>6. /\ ilpullup(b) \in Conversation /\ ConvOK(x, ilpullup(b))
      /\ ilpullup(b).state = b.state /\ ilpullup(b).start = b.start
      /\ ilpullup(b).next = b.next
      /\ ilpullup(b).rstart = b.rstart /\ ilpullup(b).unacked = b.unacked
      /\ ilpullup(b).recvd >= b.recvd
  BY <1>2, <1>4, <1>5, PullupFields
<1>7. message(x, c, p) = ilpullup(b)
  BY DEF message, a, b
<1> QED
  BY <1>2, <1>4, <1>6, <1>7

-----------------------------------------------------------------------------
(* What a step does to the conversation it is about, whatever the handler. *)

\* The messages of c that it no longer has.
Missing(c) == (c.start + 1 .. c.next - 1) \ c.unacked

Tells(p, x) == p.to = x /\ p.type \in Acking

Stays(x, c, d) ==
    /\ d.state = c.state /\ d.start = c.start /\ d.rstart = c.rstart
    /\ c.state \in Open =>
         /\ c.recvd <= d.recvd
         /\ \A k \in Missing(d) :
              k \in Missing(c) \/ \E p \in net : Tells(p, x) /\ k <= p.ack

Leaves(c, d) ==
    /\ d.rstart = c.rstart
    /\ \/ d.state = "Closed"
       \/ d.state = "Closing" /\ c.state # "Closed" /\ d.start = c.start

Called(x, c, d) ==
    /\ c.state = "Syncer" /\ d.state = "Established"
    /\ d.start = c.start /\ d.next = c.next /\ d.unacked = c.unacked
    /\ d.recvd = d.rstart
    /\ \E p \in net : /\ p.to = x /\ p.type = "sync"
                      /\ p.ack = c.start /\ p.id = d.rstart

Taken(x, c, d) ==
    /\ c.state = "Syncee" /\ d.state = "Established"
    /\ d.start = c.start /\ d.rstart = c.rstart
    /\ d.next = c.next /\ d.unacked = c.unacked
    /\ \E p \in net : Tells(p, x) /\ p.ack = c.start

Goes(x, c, d) == \/ Stays(x, c, d) \/ Leaves(c, d)
                 \/ Called(x, c, d) \/ Taken(x, c, d)

\* A packet that conversation d of x may send.
MaySend(x, d, p) ==
    /\ p \in Packet /\ PacketOK(p) /\ p.to = peer(x)
    /\ \/ p.type = "close"
       \/ /\ p.type = "sync" /\ d.state \in {"Syncer", "Syncee"}
          /\ p.id = d.start /\ p.ack = d.recvd
       \/ /\ p.type \in Acking /\ d.state \in Open
          /\ \/ p.ack = d.recvd
             \/ d.state = "Established" /\ p.ack = d.rstart

Moves(x, d, out) ==
    /\ cb' = [cb EXCEPT ![x] = d]
    /\ UNCHANGED <<plan, count>>
    /\ net' \subseteq net \cup out
    /\ d \in Conversation /\ ConvOK(x, d)
    /\ Goes(x, cb[x], d)
    /\ \A p \in out : MaySend(x, d, p)

Move == \E x \in Side : \E d, out : Moves(x, d, out)

\* Each side is the peer of the other.
LEMMA PeerFacts ==
    ASSUME NEW x \in Side
    PROVE  peer(x) \in Side /\ peer(x) # x /\ peer(peer(x)) = x
BY DEF peer, Side

\* What a packet of ilsendctl says, and that nothing is asked of its type.
LEMMA PacketFields ==
    ASSUME NEW x \in Side, NEW t \in Type, NEW id \in Nat, NEW ack \in Nat
    PROVE  LET p == packet(x, t, id, ack)
           IN  /\ p \in Packet /\ p.to = peer(x) /\ p.type = t
               /\ p.id = id /\ p.ack = ack
               /\ t \notin Data \cup {"sync"} => PacketOK(p)
<1>1. peer(x) \in Side
  BY PeerFacts
<1> QED
  BY <1>1 DEF packet, Packet, PacketOK

\* What a packet of ilkick or ilrexmit says: a message of the conversation.
LEMMA DataFields ==
    ASSUME NEW x \in Side, NEW t \in Data, NEW c \in Conversation,
           NEW id \in Ids(x, c.start), c.start \in Starts(x), plan \in Plans
    PROVE  LET p == data(x, c, t, id)
           IN  /\ p \in Packet /\ p.to = peer(x) /\ p.type = t
               /\ p.id = id /\ p.ack = c.recvd /\ PacketOK(p)
<1> DEFINE q == packet(x, t, id, c.recvd)
           p == data(x, c, t, id)
<1>1. id \in Nat /\ c.recvd \in Nat /\ c.start \in Nat /\ t \in Type
  BY PlanFacts DEF Conversation, Ids, Type, Acking
<1>2. q \in Packet /\ q.to = peer(x) /\ q.type = t /\ q.id = id
      /\ q.ack = c.recvd
  BY <1>1, PacketFields
<1>3. p = [q EXCEPT !.from = c.start]
  BY DEF data
<1> HIDE DEF p, q
<1>4. /\ p \in Packet /\ p.to = peer(x) /\ p.type = t /\ p.id = id
      /\ p.ack = c.recvd /\ p.from = c.start
  BY <1>1, <1>2, <1>3 DEF Packet
<1> QED
  BY <1>4, PeerFacts DEF PacketOK, p, Data

\* The qt of a packet does not matter.
LEMMA QtFields ==
    ASSUME NEW p \in Packet, NEW k \in Nat
    PROVE  LET q == [p EXCEPT !.qt = k]
           IN  /\ q \in Packet /\ q.to = p.to /\ q.type = p.type
               /\ q.id = p.id /\ q.ack = p.ack
               /\ PacketOK(p) => PacketOK(q)
BY DEF Packet, PacketOK

\* carry keeps what there is or adds what is sent.
LEMMA StepMoves ==
    ASSUME NEW x \in Side, NEW d \in Conversation, NEW out,
           Step(x, d, out), ConvOK(x, d), Goes(x, cb[x], d),
           \A p \in out : MaySend(x, d, p)
    PROVE  Move
BY DEF Step, carry, Move, Moves

\* A close is the answer to anything.
LEMMA CloseMay ==
    ASSUME NEW x \in Side, NEW d, NEW id \in Nat, NEW ack \in Nat
    PROVE  MaySend(x, d, packet(x, "close", id, ack))
<1>1. "close" \in Type /\ "close" \notin Data \cup {"sync"}
  BY DEF Type, Data
<1> QED
  BY <1>1, PacketFields DEF MaySend

\* A side that opens may send its sync.
LEMMA SyncMay ==
    ASSUME NEW x \in Side, NEW d \in Conversation, ConvOK(x, d),
           d.state \in {"Syncer", "Syncee"}
    PROVE  MaySend(x, d, packet(x, "sync", d.start, d.recvd))
<1> DEFINE p == packet(x, "sync", d.start, d.recvd)
<1>1. "sync" \in Type /\ d.start \in Nat /\ d.recvd \in Nat
  BY DEF Type, Conversation
<1>2. /\ p \in Packet /\ p.to = peer(x) /\ p.type = "sync"
      /\ p.id = d.start /\ p.ack = d.recvd
  BY <1>1, PacketFields
<1> HIDE DEF p
<1>3. PacketOK(p)
  BY <1>2, PeerFacts DEF PacketOK, ConvOK, Open, Data
<1> QED
  BY <1>2, <1>3 DEF MaySend, p

\* An established side may send an ack, a query or a state.
LEMMA TellMay ==
    ASSUME NEW x \in Side, NEW d \in Conversation, d.state = "Established",
           NEW t \in Acking \ Data, NEW id \in Nat,
           NEW ack \in {d.recvd, d.rstart}, NEW k \in Nat
    PROVE  /\ MaySend(x, d, packet(x, t, id, ack))
           /\ MaySend(x, d, [packet(x, t, id, ack) EXCEPT !.qt = k])
<1> DEFINE p == packet(x, t, id, ack)
           q == [p EXCEPT !.qt = k]
<1>1. t \in Type /\ t \notin Data \cup {"sync"} /\ ack \in Nat
      /\ t \in Acking
  BY DEF Type, Acking, Data, Conversation
<1>2. /\ p \in Packet /\ p.to = peer(x) /\ p.type = t
      /\ p.id = id /\ p.ack = ack /\ PacketOK(p)
  BY <1>1, PacketFields
<1> HIDE DEF p
<1>3. /\ q \in Packet /\ q.to = peer(x) /\ q.type = t
      /\ q.id = id /\ q.ack = ack /\ PacketOK(q)
  BY <1>2, QtFields
<1> HIDE DEF q
<1>4. d.state \in Open /\ ack \in {d.recvd, d.rstart}
  BY DEF Open
<1>5. MaySend(x, d, p)
  BY <1>1, <1>2, <1>4 DEF MaySend
<1>6. MaySend(x, d, q)
  BY <1>1, <1>3, <1>4 DEF MaySend
<1> QED
  BY <1>5, <1>6 DEF p, q

\* A hangup is always possible, and leaves what can be read.
LEMMA HangupMoves ==
    ASSUME NEW x \in Side, NEW c \in Conversation, NEW out,
           \A i \in 1 .. Len(c.rq) : c.rq[i] = <<c.rstart, c.rstart + i>>,
           c.rstart = cb[x].rstart,
           Step(x, ilhangup(c), out),
           \A p \in out : MaySend(x, ilhangup(c), p)
    PROVE  Move
<1> DEFINE d == ilhangup(c)
<1>1. /\ d \in Conversation
      /\ d.state = "Closed" /\ d.rstart = c.rstart /\ d.rq = c.rq
  BY HangupFields
<1> HIDE DEF d
<1>2. ConvOK(x, d)
  BY <1>1 DEF ConvOK, Open
<1>3. Goes(x, cb[x], d)
  BY <1>1 DEF Goes, Leaves
<1> QED
  BY <1>1, <1>2, <1>3, StepMoves DEF d

-----------------------------------------------------------------------------
(* The handlers, one by one.                                               *)

\* d and e differ in what no property is about.
Alike(d, e) ==
    /\ e \in Conversation
    /\ e.state = d.state /\ e.start = d.start /\ e.next = d.next
    /\ e.recvd = d.recvd /\ e.rstart = d.rstart /\ e.unacked = d.unacked
    /\ e.outo = d.outo /\ e.rq = d.rq

\* What holds of a conversation holds of one that is alike.
LEMMA AlikeFacts ==
    ASSUME NEW x, NEW c, NEW d, NEW e, Alike(d, e), ConvOK(x, d), Stays(x, c, d)
    PROVE  ConvOK(x, e) /\ Stays(x, c, e)
BY DEF Alike, ConvOK, Stays, Missing

\* acksent does not matter.
LEMMA AckedFields ==
    ASSUME NEW d \in Conversation, NEW k \in Nat
    PROVE  Alike(d, [d EXCEPT !.acksent = k])
BY DEF Alike, Conversation

\* What the invariant says of a conversation.
LEMMA Known ==
    ASSUME Received, NEW x \in Side
    PROVE  /\ plan \in Plans
           /\ cb[x] \in Conversation /\ ConvOK(x, cb[x])
           /\ cb[x].start \in Nat /\ cb[x].next \in Nat /\ cb[x].recvd \in Nat
           /\ cb[x].rstart \in Nat
           /\ Stays(x, cb[x], cb[x])
           /\ \A i \in 1 .. Len(cb[x].rq) :
                cb[x].rq[i] = <<cb[x].rstart, cb[x].rstart + i>>
<1>1. cb[x] \in Conversation /\ ConvOK(x, cb[x])
  BY DEF Received, TypeOK
<1>2. plan \in Plans
  BY DEF Received, TypeOK
<1>3. cb[x].recvd \in Nat /\ cb[x].recvd <= cb[x].recvd
  BY <1>1 DEF Conversation
<1> QED
  BY <1>1, <1>2, <1>3 DEF Conversation, ConvOK, Stays

\* What the invariant says of a packet.
LEMMA KnownPacket ==
    ASSUME Received, NEW p \in net
    PROVE  /\ p \in Packet /\ PacketOK(p) /\ p.to \in Side
           /\ p.id \in Nat /\ p.ack \in Nat /\ p.qt \in Nat
BY DEF Received, TypeOK, Packet

\* An ack (ilackto) leaves a conversation where it is.
LEMMA AckStays ==
    ASSUME Received, NEW p \in net, Tells(p, p.to),
           cb[p.to].state = "Established"
    PROVE  LET c == cb[p.to]
               a == ilackto(c, p.ack)
           IN  /\ a \in Conversation /\ ConvOK(p.to, a)
               /\ a.state = "Established" /\ Stays(p.to, c, a)
               /\ a.start = c.start /\ a.next = c.next
<1> DEFINE x == p.to
           c == cb[x]
           a == ilackto(c, p.ack)
<1>1. x \in Side /\ p.ack \in Nat
  BY KnownPacket
<1>2. c \in Conversation /\ ConvOK(x, c) /\ c.recvd \in Nat
  BY <1>1, Known
<1>3. /\ a \in Conversation
      /\ a.state = c.state /\ a.start = c.start /\ a.next = c.next
      /\ a.recvd = c.recvd /\ a.rstart = c.rstart
      /\ a.outo = c.outo /\ a.rq = c.rq
      /\ a.unacked = {id \in c.unacked : id > p.ack}
  BY <1>1, <1>2, AcktoFields
<1> HIDE DEF a
<1>4. ConvOK(x, a)
  BY <1>2, <1>3 DEF ConvOK, Open
<1>5. ASSUME NEW k \in Missing(a), k \notin Missing(c) PROVE k <= p.ack
  <2>1. k \in c.start + 1 .. c.next - 1 /\ k \in c.unacked /\ k \notin a.unacked
    BY <1>3, <1>5 DEF Missing
  <2>2. c.unacked \subseteq Nat
    BY <1>2 DEF Conversation
  <2> QED
    BY <2>1, <2>2, <1>1, <1>3
<1>6. Stays(x, c, a)
  BY <1>2, <1>3, <1>5 DEF Stays
<1> QED
  BY <1>3, <1>4, <1>6 DEF a

\* A message that comes adds to what was received, or is one more that came
\* too early.
LEMMA MessageStays ==
    ASSUME Received, Separate, NEW p \in net, p.type \in Data,
           cb[p.to].state = "Established"
    PROVE  LET c == cb[p.to]
               m == message(p.to, c, p)
           IN  /\ m \in Conversation /\ ConvOK(p.to, m)
               /\ m.state = "Established" /\ Stays(p.to, c, m)
<1> DEFINE x == p.to
           c == cb[x]
           m == message(x, c, p)
<1>1. x \in Side /\ p.ack \in Nat /\ p \in Packet /\ PacketOK(p)
  BY KnownPacket
<1>2. c \in Conversation /\ ConvOK(x, c) /\ plan \in Plans
  BY <1>1, Known
<1>3. /\ m \in Conversation /\ ConvOK(x, m)
      /\ m.state = c.state /\ m.start = c.start /\ m.next = c.next
      /\ m.rstart = c.rstart
      /\ m.unacked = {id \in c.unacked : id > p.ack}
      /\ m.recvd >= c.recvd
  BY <1>1, <1>2, MessageFields
<1> HIDE DEF m
<1>4. c.recvd <= m.recvd
  BY <1>2, <1>3 DEF Conversation
<1>5. ASSUME NEW k \in Missing(m), k \notin Missing(c)
      PROVE  Tells(p, x) /\ k <= p.ack
  <2>1. k \in c.start + 1 .. c.next - 1 /\ k \in c.unacked /\ k \notin m.unacked
    BY <1>3, <1>5 DEF Missing
  <2>2. c.unacked \subseteq Nat
    BY <1>2 DEF Conversation
  <2> QED
    BY <2>1, <2>2, <1>1, <1>3 DEF Tells, Acking
<1>6. Stays(x, c, m)
  BY <1>3, <1>4, <1>5 DEF Stays
<1> QED
  BY <1>3, <1>6 DEF m

\* A step that leaves the conversation alike.
LEMMA StayMoves ==
    ASSUME NEW x \in Side, NEW d, ConvOK(x, d), Stays(x, cb[x], d),
           NEW e, Alike(d, e), NEW out, Step(x, e, out),
           \A p \in out : MaySend(x, e, p)
    PROVE  Move
<1>1. ConvOK(x, e) /\ Stays(x, cb[x], e) /\ e \in Conversation
  BY AlikeFacts DEF Alike
<1>2. Goes(x, cb[x], e)
  BY <1>1 DEF Goes
<1> QED
  BY <1>1, <1>2, StepMoves

\* What a listener does when it makes a conversation for a sync.
taken(p) == [ilcbinit("listen") EXCEPT !.state = "Syncee", !.rstart = p.id,
                                       !.recvd = p.id]

Accept(p) ==
    /\ p.to = "listen" /\ p.type = "sync"
    /\ cb["listen"].state = "Closed"
    /\ count["listen"] < Len(plan.starts["listen"])
    /\ cb' = [cb EXCEPT !["listen"] = taken(p)]
    /\ count' = [count EXCEPT !["listen"] = @ + 1]
    /\ net' \subseteq net \cup
         {packet("listen", "sync", taken(p).start, taken(p).recvd)}
    /\ plan' = plan

\* iliput in state Illistening.
LEMMA Listening ==
    ASSUME Received, NEW p \in net, listening(p)
    PROVE  Move \/ Accept(p)
<1> DEFINE x == p.to
           accepts == x = "listen" /\ p.type = "sync"
           c == [ilcbinit(x) EXCEPT !.state = "Syncee", !.rstart = p.id,
                                    !.recvd = p.id]
<1>1. x \in Side /\ p.id \in Nat /\ p.ack \in Nat
  BY KnownPacket
<1>2. CASE /\ accepts /\ count[x] < Len(plan.starts[x])
           /\ cb' = [cb EXCEPT ![x] = c]
           /\ count' = [count EXCEPT ![x] = @ + 1]
           /\ carry(net, {packet(x, "sync", c.start, c.recvd)})
           /\ UNCHANGED plan
  <2>1. x = "listen" /\ c = taken(p) /\ cb[x].state = "Closed"
    BY <1>2 DEF taken, listening
  <2> HIDE DEF c
  <2> QED
    BY <1>2, <2>1 DEF Accept, carry
<1>3. CASE Step(x, cb[x], {packet(x, "close", p.ack, p.id)})
  <2>1. cb[x] \in Conversation /\ ConvOK(x, cb[x]) /\ Stays(x, cb[x], cb[x])
    BY <1>1, Known
  <2>2. Goes(x, cb[x], cb[x])
    BY <2>1 DEF Goes
  <2>3. MaySend(x, cb[x], packet(x, "close", p.ack, p.id))
    BY <1>1, CloseMay
  <2> QED
    BY <1>1, <1>3, <2>1, <2>2, <2>3, StepMoves
<1> QED
  BY <1>2, <1>3 DEF listening

\* iliput in state Ilsyncer.
LEMMA Syncer ==
    ASSUME Received, NEW p \in net, syncer(p)
    PROVE  Move
<1> DEFINE x == p.to
           c == cb[x]
           d == [established(c) EXCEPT !.recvd = p.id, !.rstart = p.id]
           e == [d EXCEPT !.acksent = p.id]
           f == ilpullup(e)
<1>1. x \in Side /\ p.id \in Nat /\ p.ack \in Nat /\ PacketOK(p)
  BY KnownPacket
<1>2. /\ c \in Conversation /\ ConvOK(x, c) /\ plan \in Plans
      /\ \A i \in 1 .. Len(c.rq) : c.rq[i] = <<c.rstart, c.rstart + i>>
  BY <1>1, Known
<1>3. c.state = "Syncer"
  BY DEF syncer
<1>4. CASE Step(x, ilhangup(c), {})
  BY <1>1, <1>2, <1>4, HangupMoves
<1>5. CASE /\ p.type = "sync" /\ p.ack = c.start
           /\ Step(x, f, {ctl(x, d, "ack")})
  <2>1. /\ d \in Conversation /\ e \in Conversation
        /\ e.state = "Established" /\ e.start = c.start /\ e.next = c.next
        /\ e.unacked = c.unacked /\ e.outo = c.outo /\ e.rq = c.rq
        /\ e.recvd = p.id /\ e.rstart = p.id
        /\ d.recvd = p.id /\ d.next = c.next
    BY <1>1, <1>2 DEF established, Conversation, State, Open
  <2> HIDE DEF d, e
  <2>2. x = "call" /\ c.rq = <<>> /\ c.outo = {} /\ p.id \in Starts(peer(x))
    BY <1>1, <1>2, <1>3, <1>5 DEF ConvOK, PacketOK
  <2>3. ConvOK(x, e)
    <3>1. p.id + 0 = p.id /\ plan.messages[peer(x)] \in Nat
      BY <1>1, <1>2, PlanFacts
    <3>2. Len(e.rq) = 0 /\ p.id <= p.id + plan.messages[peer(x)]
      BY <2>1, <2>2, <3>1, <1>1
    <3> QED
      BY <1>2, <1>3, <2>1, <2>2, <3>1, <3>2 DEF ConvOK, Open
  <2>4. /\ f \in Conversation /\ ConvOK(x, f)
        /\ f.state = e.state /\ f.start = e.start /\ f.next = e.next
        /\ f.rstart = e.rstart /\ f.unacked = e.unacked /\ f.recvd = e.recvd
    BY <1>1, <1>2, <2>1, <2>2, <2>3, PullupFields
  <2> HIDE DEF f
  <2>5. Called(x, c, f)
    BY <1>3, <1>5, <2>1, <2>4 DEF Called
  <2>6. MaySend(x, f, ctl(x, d, "ack"))
    <3>1. "ack" \in Acking \ Data /\ c.next \in Nat /\ 0 \in Nat
      BY <1>2 DEF Acking, Data, Conversation
    <3> QED
      BY <1>1, <2>1, <2>4, <3>1, TellMay DEF ctl
  <2> QED
    BY <1>1, <1>5, <2>4, <2>5, <2>6, StepMoves DEF Goes
<1> QED
  BY <1>4, <1>5 DEF syncer

\* iliput in state Ilsyncee.
LEMMA Syncee ==
    ASSUME Received, Separate, NEW p \in net, syncee(p)
    PROVE  Move
<1> DEFINE x == p.to
           c == cb[x]
           d == established(c)
           e == ilpullup(d)
           f == message(x, d, p)
<1>1. x \in Side /\ p \in Packet /\ p.id \in Nat /\ p.ack \in Nat /\ PacketOK(p)
  BY KnownPacket
<1>2. /\ c \in Conversation /\ ConvOK(x, c) /\ plan \in Plans
      /\ Stays(x, c, c)
      /\ \A i \in 1 .. Len(c.rq) : c.rq[i] = <<c.rstart, c.rstart + i>>
  BY <1>1, Known
<1>3. c.state = "Syncee"
  BY DEF syncee
<1>4. CASE Step(x, ilhangup(c), {})
  BY <1>1, <1>2, <1>4, HangupMoves
<1>5. CASE Step(x, c, {packet(x, "sync", c.start, c.recvd)})
  <2>1. MaySend(x, c, packet(x, "sync", c.start, c.recvd))
    BY <1>1, <1>2, <1>3, SyncMay
  <2> QED
    BY <1>1, <1>2, <1>5, <2>1, StepMoves DEF Goes
<1>6. /\ d \in Conversation
      /\ d.state = "Established" /\ d.start = c.start /\ d.next = c.next
      /\ d.unacked = c.unacked /\ d.outo = c.outo /\ d.rq = c.rq
      /\ d.recvd = c.recvd /\ d.rstart = c.rstart
  BY <1>2 DEF established, Conversation, State, Open
<1> HIDE DEF d
<1>7. ConvOK(x, d)
  BY <1>2, <1>3, <1>6 DEF ConvOK, Open
<1>8. CASE p.type = "ack" /\ p.ack = c.start /\ Step(x, e, {})
  <2>1. /\ e \in Conversation /\ ConvOK(x, e)
        /\ e.state = d.state /\ e.start = d.start /\ e.next = d.next
        /\ e.rstart = d.rstart /\ e.unacked = d.unacked
    BY <1>1, <1>2, <1>6, <1>7, PullupFields
  <2> HIDE DEF e
  <2>2. Taken(x, c, e)
    BY <1>3, <1>6, <1>8, <2>1 DEF Taken, Tells, Acking
  <2> QED
    BY <1>1, <1>8, <2>1, <2>2, StepMoves DEF Goes
<1>9. CASE p.type = "data" /\ p.ack = c.start /\ Step(x, f, {})
  <2>1. p.type \in Data /\ p.type \in Acking
    BY <1>9 DEF Data, Acking
  <2>2. /\ f \in Conversation /\ ConvOK(x, f)
        /\ f.state = d.state /\ f.start = d.start /\ f.next = d.next
        /\ f.rstart = d.rstart
        /\ f.unacked = {id \in d.unacked : id > p.ack}
    BY <1>1, <1>2, <1>6, <1>7, <2>1, MessageFields
  <2> HIDE DEF f
  <2>3. \A id \in d.unacked : id > p.ack
    <3>1. c.start \in Nat /\ c.next \in Nat
      BY <1>2 DEF Conversation
    <3>2. c.unacked = c.start + 1 .. c.next - 1
      BY <1>2, <1>3 DEF ConvOK
    <3> HIDE DEF c
    <3>3. \A id \in c.start + 1 .. c.next - 1 : id > c.start
      BY <3>1
    <3> QED
      BY <3>2, <3>3, <1>6, <1>9
  <2>4. f.unacked = c.unacked
    BY <2>2, <2>3, <1>6
  <2>5. Taken(x, c, f)
    BY <1>3, <1>6, <1>9, <2>1, <2>2, <2>4 DEF Taken, Tells
  <2> QED
    BY <1>1, <1>9, <2>2, <2>5, StepMoves DEF Goes
<1> QED
  BY <1>4, <1>5, <1>8, <1>9 DEF syncee, d

\* An established side may send its oldest message again.
LEMMA RexmitMay ==
    ASSUME NEW x \in Side, NEW d \in Conversation, ConvOK(x, d),
           d.state = "Established", plan \in Plans
    PROVE  \A p \in ilrexmit(x, d) : MaySend(x, d, p)
<1>1. CASE d.unacked = {}
  BY <1>1 DEF ilrexmit
<1>2. CASE d.unacked # {}
  <2> DEFINE id == Min(d.unacked)
             q == data(x, d, "dataquery", id)
             p == [q EXCEPT !.qt = d.next - 1]
  <2>1. /\ d.unacked \in SUBSET Nat /\ d.start \in Starts(x)
        /\ d.next \in d.start + 1 .. d.start + plan.messages[x] + 1
        /\ d.unacked \subseteq d.start + 1 .. d.next - 1
        /\ d.start \in Nat /\ plan.messages[x] \in Nat
    BY PlanFacts DEF ConvOK, Open, Conversation
  <2>2. id \in d.unacked
    BY <1>2, <2>1, MinFact
  <2> HIDE DEF id
  <2>3. id \in Ids(x, d.start) /\ d.next - 1 \in Nat /\ "dataquery" \in Data
    BY <2>1, <2>2 DEF Ids, Data
  <2>4. /\ q \in Packet /\ q.to = peer(x) /\ q.type = "dataquery"
        /\ q.id = id /\ q.ack = d.recvd /\ PacketOK(q)
    BY <2>1, <2>3, DataFields
  <2> HIDE DEF q
  <2>5. /\ p \in Packet /\ p.to = peer(x) /\ p.type = "dataquery"
        /\ p.ack = d.recvd /\ PacketOK(p)
    BY <2>3, <2>4, QtFields
  <2>6. ilrexmit(x, d) = {p}
    BY <1>2 DEF ilrexmit, p, q, id
  <2> HIDE DEF p
  <2> QED
    BY <2>5, <2>6 DEF MaySend, Acking, Data, Open
<1> QED
  BY <1>1, <1>2

\* ilbackoff leaves a conversation alike.
LEMMA BackoffAlike ==
    ASSUME NEW d \in Conversation
    PROVE  Alike(d, ilbackoff(d))
BY BackoffFields DEF Alike

\* estab, when a conversation begins to close.
LEMMA ClosingFields ==
    ASSUME NEW c \in Conversation, NEW id \in Nat
    PROVE  LET e == [ilfreeq(c) EXCEPT !.recvd = id, !.state = "Closing"]
               f == [e EXCEPT !.acksent = e.recvd]
           IN  /\ e.next \in Nat /\ e.recvd \in Nat
               /\ f \in Conversation /\ f.state = "Closing"
               /\ f.start = c.start /\ f.rstart = c.rstart /\ f.rq = c.rq
BY DEF ilfreeq, Conversation, State

\* A conversation may begin to close, with a close to the other side.
LEMMA ClosingMoves ==
    ASSUME NEW x \in Side, NEW c \in Conversation, cb[x] = c,
           c.state # "Closed",
           \A i \in 1 .. Len(c.rq) : c.rq[i] = <<c.rstart, c.rstart + i>>,
           NEW d \in Conversation, d.state = "Closing", d.start = c.start,
           d.rstart = c.rstart, d.rq = c.rq,
           NEW id \in Nat, NEW ack \in Nat,
           Step(x, d, {packet(x, "close", id, ack)})
    PROVE  Move
<1>1. ConvOK(x, d)
  BY DEF ConvOK, Open
<1>2. Goes(x, cb[x], d)
  BY DEF Goes, Leaves
<1>3. MaySend(x, d, packet(x, "close", id, ack))
  BY CloseMay
<1> QED
  BY <1>1, <1>2, <1>3, StepMoves

\* iliput in state Ilestablished.
LEMMA Estab ==
    ASSUME Received, Separate, NEW p \in net, estab(p)
    PROVE  Move
<1> DEFINE x == p.to
           c == cb[x]
           a == ilackto(c, p.ack)
           m == message(x, c, p)
           acked(d) == [d EXCEPT !.acksent = d.recvd]
           state(d) == [ctl(x, d, "state") EXCEPT !.qt = p.qt]
<1>1. x \in Side /\ p \in Packet /\ p.id \in Nat /\ p.ack \in Nat
      /\ p.qt \in Nat
  BY KnownPacket
<1>2. /\ c \in Conversation /\ ConvOK(x, c) /\ plan \in Plans
      /\ Stays(x, c, c) /\ c.next \in Nat /\ c.rstart \in Nat
      /\ c.recvd \in Nat
      /\ \A i \in 1 .. Len(c.rq) : c.rq[i] = <<c.rstart, c.rstart + i>>
  BY <1>1, Known
<1>3. c.state = "Established"
  BY DEF estab
<1>4. ASSUME p.type \in Acking
      PROVE  /\ a \in Conversation /\ ConvOK(x, a)
             /\ a.state = "Established" /\ Stays(x, c, a)
  BY <1>3, <1>4, AckStays DEF Tells
<1>5. ASSUME p.type \in Data
      PROVE  /\ m \in Conversation /\ ConvOK(x, m)
             /\ m.state = "Established" /\ Stays(x, c, m)
  BY <1>3, <1>5, MessageStays
<1>6. ASSUME NEW d \in Conversation, ConvOK(x, d), Stays(x, c, d)
      PROVE  /\ Step(x, d, {}) => Move
             /\ d.state = "Established" => MaySend(x, acked(d), state(d))
             /\ Alike(d, acked(d))
             /\ d.state = "Established" /\ Step(x, acked(d), {state(d)}) => Move
  <2>1. d.recvd \in Nat /\ d.next \in Nat
    BY <1>6 DEF Conversation
  <2>2. Alike(d, acked(d))
    BY <1>6, <2>1, AckedFields
  <2>3. ASSUME d.state = "Established" PROVE MaySend(x, acked(d), state(d))
    <3>1. "state" \in Acking \ Data
      BY DEF Acking, Data
    <3>2. /\ acked(d) \in Conversation /\ acked(d).state = "Established"
          /\ acked(d).recvd = d.recvd
      BY <2>2, <2>3 DEF Alike
    <3> HIDE DEF acked
    <3>3. MaySend(x, acked(d), [packet(x, "state", d.next, d.recvd) EXCEPT !.qt = p.qt])
      BY <1>1, <2>1, <3>1, <3>2, TellMay
    <3> QED
      BY <3>3 DEF ctl
  <2>4. Step(x, d, {}) => Move
    BY <1>1, <1>6, StepMoves DEF Goes
  <2>5. d.state = "Established" /\ Step(x, acked(d), {state(d)}) => Move
    <3> HIDE DEF acked, state
    <3> QED
      BY <1>1, <1>6, <2>2, <2>3, StayMoves
  <2> QED
    BY <2>2, <2>3, <2>4, <2>5
<1> HIDE DEF a, m, acked, state
<1>7. CASE Step(x, ilhangup(c), {})
  <2>1. /\ c \in Conversation /\ c.rstart = cb[x].rstart /\ x \in Side
        /\ \A i \in 1 .. Len(c.rq) : c.rq[i] = <<c.rstart, c.rstart + i>>
        /\ \A q \in {} : MaySend(x, ilhangup(c), q)
    BY <1>1, <1>2
  <2> HIDE DEF c, x
  <2> QED
    BY <1>7, <2>1, HangupMoves
<1>8. CASE Step(x, [c EXCEPT !.acksent = c.rstart],
                {packet(x, "ack", c.next, c.rstart)})
  <2> DEFINE e == [c EXCEPT !.acksent = c.rstart]
  <2>1. Alike(c, e)
    BY <1>2, AckedFields
  <2>2. "ack" \in Acking \ Data /\ 0 \in Nat
    BY DEF Acking, Data
  <2> HIDE DEF e
  <2>3. MaySend(x, e, packet(x, "ack", c.next, c.rstart))
    BY <1>1, <1>2, <1>3, <2>1, <2>2, TellMay DEF Alike
  <2> QED
    BY <1>1, <1>2, <1>8, <2>1, <2>3, StayMoves DEF e
<1>9. CASE p.type = "data" /\ Step(x, m, {})
  BY <1>5, <1>6, <1>9 DEF Data
<1>10. CASE p.type = "dataquery" /\ Step(x, acked(m), {state(m)})
  BY <1>5, <1>6, <1>10 DEF Data
<1>11. CASE p.type \in {"ack", "state"} /\ Step(x, a, {})
  BY <1>4, <1>6, <1>11 DEF Acking
<1>12. CASE p.type = "query" /\ Step(x, acked(a), {state(a)})
  BY <1>4, <1>6, <1>12 DEF Acking
<1>13. CASE p.type = "state" /\ Step(x, ilbackoff(a), ilrexmit(x, a))
  <2>1. /\ a \in Conversation /\ ConvOK(x, a)
        /\ a.state = "Established" /\ Stays(x, c, a)
    BY <1>4, <1>13 DEF Acking
  <2>2. Alike(a, ilbackoff(a))
    BY <2>1, BackoffAlike
  <2>3. \A q \in ilrexmit(x, a) : MaySend(x, a, q)
    BY <1>1, <1>2, <2>1, RexmitMay
  <2>4. \A q \in ilrexmit(x, a) : MaySend(x, ilbackoff(a), q)
    BY <2>2, <2>3 DEF Alike, MaySend
  <2> QED
    BY <1>1, <1>13, <2>1, <2>2, <2>4, StayMoves
<1>14. CASE LET d == [ilfreeq(c) EXCEPT !.recvd = p.id, !.state = "Closing"]
            IN  Step(x, [d EXCEPT !.acksent = d.recvd], {ctl(x, d, "close")})
  <2> DEFINE d == [ilfreeq(c) EXCEPT !.recvd = p.id, !.state = "Closing"]
             f == [d EXCEPT !.acksent = d.recvd]
  <2>1. Step(x, f, {packet(x, "close", d.next, d.recvd)})
    BY <1>14 DEF ctl
  <2>2. /\ d.next \in Nat /\ d.recvd \in Nat
        /\ f \in Conversation /\ f.state = "Closing"
        /\ f.start = c.start /\ f.rstart = c.rstart /\ f.rq = c.rq
    BY <1>1, <1>2, ClosingFields
  <2> HIDE DEF d, f
  <2> QED
    BY <1>1, <1>2, <1>3, <2>1, <2>2, ClosingMoves
<1> QED
  BY <1>7, <1>8, <1>9, <1>10, <1>11, <1>12, <1>13, <1>14
  DEF estab, a, m, acked, state

\* iliput in state Ilclosing.
LEMMA Closing ==
    ASSUME Received, NEW p \in net, closing(p)
    PROVE  Move
<1> DEFINE x == p.to
           b == cb[x]
           c == [b EXCEPT !.recvd = p.id, !.acksent = p.id]
<1>1. x \in Side /\ p.id \in Nat
  BY KnownPacket
<1>2. /\ b \in Conversation /\ ConvOK(x, b)
      /\ \A i \in 1 .. Len(b.rq) : b.rq[i] = <<b.rstart, b.rstart + i>>
  BY <1>1, Known
<1>3. b.state = "Closing"
  BY DEF closing
<1>4. /\ c \in Conversation /\ c.state = "Closing" /\ c.start = b.start
      /\ c.rstart = b.rstart /\ c.rq = b.rq
      /\ c.next \in Nat /\ c.recvd \in Nat
  BY <1>1, <1>2, <1>3 DEF Conversation
<1>5. \/ Step(x, ilhangup(c), {packet(x, "close", c.next, c.recvd)})
      \/ Step(x, c, {packet(x, "close", c.next, c.recvd)})
  BY DEF closing, ctl
<1> HIDE DEF c
<1>6. CASE Step(x, ilhangup(c), {packet(x, "close", c.next, c.recvd)})
  <2>1. MaySend(x, ilhangup(c), packet(x, "close", c.next, c.recvd))
    BY <1>1, <1>4, CloseMay
  <2> QED
    BY <1>1, <1>2, <1>4, <1>6, <2>1, HangupMoves
<1>7. CASE Step(x, c, {packet(x, "close", c.next, c.recvd)})
  BY <1>1, <1>2, <1>3, <1>4, <1>7, ClosingMoves
<1> QED
  BY <1>5, <1>6, <1>7

\* ilkick sends the next message.
LEMMA Kick ==
    ASSUME Received, NEW x \in Side, ilkick(x)
    PROVE  Move
<1> DEFINE c == cb[x]
           d == [c EXCEPT !.next = @ + 1, !.unacked = @ \cup {c.next},
                          !.acksent = c.recvd]
<1>1. /\ c \in Conversation /\ ConvOK(x, c) /\ plan \in Plans
      /\ Stays(x, c, c) /\ c.next \in Nat /\ c.start \in Nat
      /\ c.recvd \in Nat
      /\ plan.messages[x] \in Nat
  BY Known, PlanFacts
<1>2. /\ c.state \in Open /\ c.next <= c.start + plan.messages[x]
      /\ Step(x, d, {data(x, c, "data", c.next)})
  BY DEF ilkick, Open
<1>3. /\ d \in Conversation
      /\ d.state = c.state /\ d.start = c.start /\ d.next = c.next + 1
      /\ d.recvd = c.recvd /\ d.rstart = c.rstart
      /\ d.unacked = c.unacked \cup {c.next}
      /\ d.outo = c.outo /\ d.rq = c.rq
  <2>1. c.next + 1 \in Nat /\ c.unacked \cup {c.next} \in SUBSET Nat
    BY <1>1 DEF Conversation
  <2> QED
    BY <1>1, <2>1 DEF Conversation
<1> HIDE DEF d
<1>4. /\ c.start \in Starts(x)
      /\ c.next \in c.start + 1 .. c.start + plan.messages[x] + 1
      /\ c.unacked \subseteq c.start + 1 .. c.next - 1
  BY <1>1, <1>2 DEF ConvOK
<1>5. /\ d.next \in d.start + 1 .. d.start + plan.messages[x] + 1
      /\ d.unacked \subseteq d.start + 1 .. d.next - 1
      /\ c.unacked = c.start + 1 .. c.next - 1 =>
           d.unacked = d.start + 1 .. d.next - 1
      /\ Missing(d) \subseteq Missing(c)
  <2>1. c.start + 1 .. d.next - 1 = (c.start + 1 .. c.next - 1) \cup {c.next}
    BY <1>1, <1>3, <1>4
  <2>2. /\ d.next \in d.start + 1 .. d.start + plan.messages[x] + 1
        /\ d.start + 1 .. d.next - 1 = (c.start + 1 .. c.next - 1) \cup {c.next}
    BY <1>1, <1>2, <1>3, <1>4, <2>1
  <2> QED
    BY <1>3, <1>4, <2>2 DEF Missing
<1>6. ConvOK(x, d)
  BY <1>1, <1>3, <1>4, <1>5 DEF ConvOK, Open
<1>7. Stays(x, c, d)
  BY <1>1, <1>3, <1>5 DEF Stays
<1>8. MaySend(x, d, data(x, c, "data", c.next))
  <2>1. c.next \in Ids(x, c.start) /\ "data" \in Data
    BY <1>1, <1>2, <1>4 DEF Ids, Data
  <2> DEFINE p == data(x, c, "data", c.next)
  <2>2. /\ p \in Packet /\ p.to = peer(x) /\ p.type = "data"
        /\ p.ack = c.recvd /\ PacketOK(p)
    BY <1>1, <1>4, <2>1, DataFields
  <2> HIDE DEF p
  <2>3. MaySend(x, d, p)
    BY <1>2, <1>3, <2>2 DEF MaySend, Acking, Data
  <2> QED
    BY <2>3 DEF p
<1> QED
  BY <1>2, <1>3, <1>6, <1>7, <1>8, StepMoves DEF Goes

\* ilclose.
LEMMA Close ==
    ASSUME Received, NEW x \in Side, ilclose(x)
    PROVE  Move
<1> DEFINE c == cb[x]
           d == [ilfreeq(c) EXCEPT !.state = "Closing", !.acksent = c.recvd]
<1>1. /\ c \in Conversation /\ c.recvd \in Nat
      /\ \A i \in 1 .. Len(c.rq) : c.rq[i] = <<c.rstart, c.rstart + i>>
  BY Known
<1>2. c.state # "Closed" /\ Step(x, d, {packet(x, "close", c.next, c.recvd)})
  BY DEF ilclose, ctl
<1>3. /\ d \in Conversation /\ d.state = "Closing"
      /\ d.start = c.start /\ d.rstart = c.rstart /\ d.rq = c.rq
      /\ c.next \in Nat
  BY <1>1 DEF ilfreeq, Conversation, State
<1> HIDE DEF d
<1> QED
  BY <1>1, <1>2, <1>3, ClosingMoves

\* The timers of ilackproc.
LEMMA Timers ==
    ASSUME Received, NEW x \in Side,
           ackTimer(x) \/ queryTimer(x) \/ deathTimer(x) \/ rexmitTimer(x)
    PROVE  Move
<1> DEFINE c == cb[x]
           d == [c EXCEPT !.acksent = c.recvd]
<1>1. /\ c \in Conversation /\ ConvOK(x, c) /\ plan \in Plans
      /\ Stays(x, c, c) /\ c.next \in Nat /\ c.start \in Nat
      /\ c.recvd \in Nat
      /\ \A i \in 1 .. Len(c.rq) : c.rq[i] = <<c.rstart, c.rstart + i>>
  BY Known
<1>2. Alike(c, d)
  BY <1>1, AckedFields
<1>3. "ack" \in Acking \ Data /\ "query" \in Acking \ Data
  BY DEF Acking, Data
<1>4. ASSUME NEW e, Alike(c, e), c.state = "Established"
      PROVE  /\ MaySend(x, e, ctl(x, c, "ack"))
             /\ MaySend(x, e, query(x, c, "query"))
  <2>1. e \in Conversation /\ e.state = "Established" /\ e.recvd = c.recvd
    BY <1>4 DEF Alike
  <2>2. c.next - 1 \in Nat
    BY <1>1, <1>4 DEF ConvOK, Open
  <2>3. MaySend(x, e, packet(x, "ack", c.next, c.recvd))
    BY <1>1, <1>3, <2>1, <2>2, TellMay
  <2>4. MaySend(x, e, [packet(x, "query", c.next, c.recvd) EXCEPT !.qt = c.next - 1])
    BY <1>1, <1>3, <2>1, <2>2, TellMay
  <2> QED
    BY <2>3, <2>4 DEF ctl, query
<1>5. CASE ackTimer(x)
  <2>1. c.state = "Established" /\ Step(x, d, {ctl(x, c, "ack")})
    BY <1>5 DEF ackTimer
  <2> HIDE DEF d
  <2> QED
    BY <1>1, <1>2, <1>4, <2>1, StayMoves
<1>6. CASE queryTimer(x)
  <2>1. c.state = "Established" /\ Step(x, d, {query(x, c, "query")})
    BY <1>6 DEF queryTimer
  <2> HIDE DEF d
  <2> QED
    BY <1>1, <1>2, <1>4, <2>1, StayMoves
<1>7. CASE Step(x, ilhangup(c), {})
  BY <1>1, <1>7, HangupMoves
<1>8. CASE c.state # "Closed" /\ Step(x, ilbackoff(d), again(x, c))
  <2> DEFINE e == ilbackoff(d)
  <2>1. Alike(c, e)
    BY <1>1, <1>2, BackoffAlike DEF Alike
  <2> HIDE DEF e, d
  <2>2. \A p \in again(x, c) : MaySend(x, e, p)
    <3>1. CASE c.state = "Closing"
      BY <3>1, <1>1, CloseMay DEF again, ctl
    <3>2. CASE c.state \in {"Syncer", "Syncee"}
      <4>1. MaySend(x, c, packet(x, "sync", c.start, c.recvd))
        BY <1>1, <3>2, SyncMay
      <4>2. MaySend(x, e, packet(x, "sync", c.start, c.recvd))
        BY <2>1, <4>1 DEF MaySend, Alike
      <4> QED
        BY <3>2, <4>2 DEF again
    <3>3. CASE c.state = "Established"
      BY <3>3, <1>4, <2>1 DEF again
    <3> QED
      BY <1>1, <1>8, <3>1, <3>2, <3>3 DEF Conversation, State, Open
  <2> QED
    BY <1>1, <1>8, <2>1, <2>2, StayMoves DEF e
<1> QED
  BY <1>5, <1>6, <1>7, <1>8 DEF deathTimer, rexmitTimer

\* What a step is.
LEMMA Steps ==
    ASSUME Received, Separate, Next
    PROVE  lose \/ connect \/ (\E p \in net : Accept(p)) \/ Move
BY Listening, Syncer, Syncee, Estab, Closing, Kick, Close, Timers
DEF Next, iliput

-----------------------------------------------------------------------------
(* What is received is in order.                                           *)

\* A conversation that begins has the next number to start with.
LEMMA NewFields ==
    ASSUME Received, NEW x \in Side, count[x] < Len(plan.starts[x]),
           NEW s \in State
    PROVE  LET c == [ilcbinit(x) EXCEPT !.state = s]
           IN  /\ c \in Conversation /\ c.state = s
               /\ c.start = plan.starts[x][count[x] + 1]
               /\ c.start \in Starts(x) /\ c.next = c.start + 1
               /\ c.recvd = 0 /\ c.rstart = 0
               /\ c.unacked = {} /\ c.outo = {} /\ c.rq = <<>>
               /\ count[x] + 1 \in 1 .. Len(plan.starts[x])
<1>1. plan \in Plans /\ count[x] \in Nat
  BY DEF Received, TypeOK
<1>2. count[x] + 1 \in 1 .. Len(plan.starts[x])
  BY <1>1, PlanFacts
<1>3. plan.starts[x][count[x] + 1] \in Nat /\ plan.starts[x][count[x] + 1] \in Starts(x)
  BY <1>1, <1>2, PlanFacts DEF Starts
<1>4. <<>> \in Seq(Message) /\ plan.starts[x][count[x] + 1] + 1 \in Nat
  BY <1>3
<1> QED
  BY <1>2, <1>3, <1>4 DEF ilcbinit, Closed, Conversation

\* The numbers of a conversation that begins.
LEMMA NewNumbers ==
    ASSUME NEW s \in Nat, NEW m \in Nat
    PROVE  /\ s + 1 \in s + 1 .. s + m + 1
           /\ s + 1 .. (s + 1) - 1 = {}
           /\ s = s + 0 /\ s <= s + m
OBVIOUS

\* A conversation that begins satisfies the invariant.
LEMMA NewOK ==
    ASSUME Received, NEW x \in Side, NEW c \in Conversation,
           c.state = "Syncer" => x = "call" /\ c.recvd = 0,
           c.state = "Syncee" => /\ x = "listen" /\ c.recvd = c.rstart
                                 /\ c.rstart \in Starts(peer(x)),
           c.state \in {"Syncer", "Syncee"},
           c.start \in Starts(x), c.next = c.start + 1,
           c.unacked = {}, c.outo = {}, c.rq = <<>>
    PROVE  ConvOK(x, c)
<1>1. /\ plan \in Plans /\ c.start \in Nat /\ c.rstart \in Nat
      /\ plan.messages[x] \in Nat /\ plan.messages[peer(x)] \in Nat
  BY PlanFacts, PeerFacts DEF Received, TypeOK, Conversation
<1>2. /\ c.next \in c.start + 1 .. c.start + plan.messages[x] + 1
      /\ c.start + 1 .. c.next - 1 = {}
      /\ c.rstart = c.rstart + 0
      /\ c.rstart <= c.rstart + plan.messages[peer(x)]
  BY <1>1, NewNumbers, Zenon
<1>3. Len(c.rq) = 0
  OBVIOUS
<1>4. \A i \in 1 .. Len(c.rq) : c.rq[i] = <<c.rstart, c.rstart + i>>
  BY <1>3
<1>5. c.recvd = c.rstart => c.recvd = c.rstart + Len(c.rq)
  BY <1>2, <1>3, Zenon
<1>6. c.unacked \subseteq c.start + 1 .. c.next - 1
  OBVIOUS
<1>7. c.state = "Syncee" => /\ c.unacked = c.start + 1 .. c.next - 1
                            /\ c.recvd = c.rstart + Len(c.rq)
                            /\ c.recvd <= c.rstart + plan.messages[peer(x)]
  BY <1>2, <1>5
<1>8. c.state # "Established"
  OBVIOUS
<1>9. \A m \in c.outo : m[1] = c.rstart /\ m[2] \in Ids(peer(x), c.rstart)
  OBVIOUS
<1> QED
  BY <1>2, <1>4, <1>6, <1>7, <1>8, <1>9, Zenon DEF ConvOK, Open

\* The initial state satisfies Received.
LEMMA ReceivedInit ==
    ASSUME Init
    PROVE  Received
<1>1. Closed \in Conversation
  <2>1. <<>> \in Seq(Message)
    OBVIOUS
  <2> QED
    BY <2>1 DEF Closed, Conversation, State, Message
<1>2. ASSUME NEW x \in Side PROVE ConvOK(x, Closed)
  BY DEF ConvOK, Closed, Open
<1>3. ASSUME NEW x \in Side PROVE 0 <= Len(plan.starts[x])
  BY PlanFacts DEF Init
<1> QED
  BY <1>1, <1>2, <1>3 DEF Init, Received, TypeOK

\* One conversation changed, and something was sent.
LEMMA ReceivedKept ==
    ASSUME Received, plan' = plan, NEW x \in Side,
           NEW d \in Conversation, ConvOK(x, d), cb' = [cb EXCEPT ![x] = d],
           count' \in [Side -> Nat],
           \A y \in Side : count'[y] <= Len(plan.starts[y]),
           NEW out, net' \subseteq net \cup out,
           \A p \in out : p \in Packet /\ PacketOK(p)
    PROVE  Received'
<1>1. TypeOK'
  BY DEF Received, TypeOK
<1>2. ASSUME NEW y \in Side PROVE ConvOK(y, cb[y])'
  <2>1. ConvOK(y, cb'[y])
    BY DEF Received, TypeOK
  <2> QED
    BY <2>1 DEF ConvOK, Starts, Ids
<1>3. ASSUME NEW p \in net' PROVE PacketOK(p)'
  <2>1. PacketOK(p)
    BY DEF Received
  <2> QED
    BY <2>1 DEF PacketOK, Starts, Ids
<1> QED
  BY <1>1, <1>2, <1>3 DEF Received

\* A conversation more of one side is one of the plan.
LEMMA CountKept ==
    ASSUME Received, NEW x \in Side,
           count[x] + 1 \in 1 .. Len(plan.starts[x]),
           count' = [count EXCEPT ![x] = @ + 1]
    PROVE  /\ count' \in [Side -> Nat]
           /\ \A y \in Side : count'[y] <= Len(plan.starts[y])
<1>1. /\ count \in [Side -> Nat]
      /\ \A y \in Side : count[y] <= Len(plan.starts[y])
  BY DEF Received, TypeOK
<1>2. count[x] + 1 \in Nat /\ count[x] + 1 <= Len(plan.starts[x])
  BY <1>1, PlanFacts DEF Received, TypeOK
<1> QED
  BY <1>1, <1>2

\* Every step keeps Received.
LEMMA ReceivedStep ==
    ASSUME Received, Separate, [Next]_vars
    PROVE  Received'
<1>1. CASE UNCHANGED vars
  BY <1>1 DEF vars, Received, TypeOK, ConvOK, PacketOK, Starts, Ids
<1>2. CASE lose
  <2>1. plan' = plan /\ cb' = cb /\ count' = count /\ net' \subseteq net
    BY <1>2 DEF lose
  <2> QED
    BY <2>1 DEF Received, TypeOK, ConvOK, PacketOK, Starts, Ids
<1>3. CASE connect
  <2> DEFINE c == [ilcbinit("call") EXCEPT !.state = "Syncer"]
             p == packet("call", "sync", c.start, 0)
  <2>1. /\ count["call"] < Len(plan.starts["call"])
        /\ cb' = [cb EXCEPT !["call"] = c]
        /\ count' = [count EXCEPT !["call"] = @ + 1]
        /\ net' \subseteq net \cup {p} /\ plan' = plan
    BY <1>3 DEF connect, carry
  <2>2. "call" \in Side /\ "Syncer" \in State
    BY DEF Side, State, Open
  <2>3. /\ c \in Conversation /\ c.state = "Syncer"
        /\ c.start \in Starts("call") /\ c.next = c.start + 1
        /\ c.recvd = 0 /\ c.unacked = {} /\ c.outo = {} /\ c.rq = <<>>
        /\ count["call"] + 1 \in 1 .. Len(plan.starts["call"])
    BY <2>1, <2>2, NewFields
  <2> HIDE DEF c
  <2>4. ConvOK("call", c)
    BY <2>2, <2>3, NewOK
  <2>5. MaySend("call", c, packet("call", "sync", c.start, c.recvd))
    BY <2>2, <2>3, <2>4, SyncMay
  <2>6. p \in Packet /\ PacketOK(p)
    BY <2>3, <2>5 DEF MaySend
  <2> HIDE DEF p
  <2>7. count' \in [Side -> Nat] /\ \A y \in Side : count'[y] <= Len(plan.starts[y])
    BY <2>1, <2>2, <2>3, CountKept
  <2>8. \A q \in {p} : q \in Packet /\ PacketOK(q)
    BY <2>6
  <2> QED
    BY <2>1, <2>2, <2>3, <2>4, <2>7, <2>8, ReceivedKept
<1>4. CASE \E p \in net : Accept(p)
  <2>1. PICK p \in net : Accept(p)
    BY <1>4
  <2> DEFINE c == taken(p)
             q == packet("listen", "sync", c.start, c.recvd)
             b == [ilcbinit("listen") EXCEPT !.state = "Syncee"]
  <2>2. "listen" \in Side /\ "Syncee" \in State /\ p.id \in Nat /\ PacketOK(p)
    BY KnownPacket DEF Side, State, Open
  <2>3. /\ b \in Conversation /\ b.state = "Syncee"
        /\ b.start \in Starts("listen") /\ b.next = b.start + 1
        /\ b.unacked = {} /\ b.outo = {} /\ b.rq = <<>>
        /\ count["listen"] + 1 \in 1 .. Len(plan.starts["listen"])
    BY <2>1, <2>2, NewFields DEF Accept
  <2>4. c = [b EXCEPT !.rstart = p.id, !.recvd = p.id]
    <3>1. ilcbinit("listen") = [Closed EXCEPT
                !.start = plan.starts["listen"][count["listen"] + 1],
                !.next  = plan.starts["listen"][count["listen"] + 1] + 1]
      BY DEF ilcbinit
    <3> QED
      BY <3>1 DEF taken, Closed
  <2> HIDE DEF b, c
  <2>5. /\ c \in Conversation /\ c.state = "Syncee"
        /\ c.start \in Starts("listen") /\ c.next = c.start + 1
        /\ c.unacked = {} /\ c.outo = {} /\ c.rq = <<>>
        /\ c.recvd = p.id /\ c.rstart = p.id
    BY <2>2, <2>3, <2>4 DEF Conversation
  <2>6. p.id \in Starts(peer("listen"))
    BY <2>1, <2>2 DEF Accept, PacketOK
  <2>7. ConvOK("listen", c)
    BY <2>2, <2>5, <2>6, NewOK
  <2>8. q \in Packet /\ PacketOK(q)
    BY <2>2, <2>5, <2>7, SyncMay DEF MaySend
  <2>9. /\ cb' = [cb EXCEPT !["listen"] = c] /\ plan' = plan
        /\ count' = [count EXCEPT !["listen"] = @ + 1]
        /\ net' \subseteq net \cup {q}
    BY <2>1 DEF Accept, c, q
  <2> HIDE DEF q
  <2>10. count' \in [Side -> Nat] /\ \A y \in Side : count'[y] <= Len(plan.starts[y])
    BY <2>2, <2>3, <2>9, CountKept
  <2>11. \A m \in {q} : m \in Packet /\ PacketOK(m)
    BY <2>8
  <2> QED
    BY <2>2, <2>5, <2>7, <2>9, <2>10, <2>11, ReceivedKept
<1>5. CASE Move
  <2>1. PICK x \in Side : \E d, out : Moves(x, d, out)
    BY <1>5 DEF Move
  <2>2. PICK d, out : Moves(x, d, out)
    BY <2>1
  <2>3. /\ cb' = [cb EXCEPT ![x] = d] /\ plan' = plan /\ count' = count
        /\ net' \subseteq net \cup out
        /\ d \in Conversation /\ ConvOK(x, d)
        /\ \A p \in out : p \in Packet /\ PacketOK(p)
    BY <2>2 DEF Moves, MaySend
  <2>4. count' \in [Side -> Nat] /\ \A y \in Side : count'[y] <= Len(plan.starts[y])
    BY <2>3 DEF Received, TypeOK
  <2> QED
    BY <2>3, <2>4, ReceivedKept
<1> QED
  BY <1>1, <1>2, <1>3, <1>4, <1>5, Steps

\* Received holds in every reachable state.
LEMMA AllReceived ==
    ASSUME Separate
    PROVE  Spec => []Received
<1>1. Init => Received
  BY ReceivedInit
<1>2. Received /\ [Next]_vars => Received'
  BY ReceivedStep
<1> QED
  BY <1>1, <1>2, PTL DEF Spec

\* What a reader is given (qpass to rq, in ilpullup) is what the conversation
\* it called has sent, in order, each message once, whatever the network
\* loses, repeats, delays or brings from conversations that are over.
THEOREM ReadInOrder ==
    ASSUME Separate
    PROVE  Spec => []InOrder
<1>1. Received => InOrder
  <2> SUFFICES ASSUME Received, NEW x \in Side
               PROVE  cb[x].rq = [i \in 1 .. Len(cb[x].rq) |->
                                     <<cb[x].rstart, cb[x].rstart + i>>]
    BY DEF InOrder
  <2>1. /\ cb[x].rq \in Seq(Message)
        /\ \A i \in 1 .. Len(cb[x].rq) :
             cb[x].rq[i] = <<cb[x].rstart, cb[x].rstart + i>>
    BY Known DEF Conversation
  <2> DEFINE q == cb[x].rq
             r == cb[x].rstart
  <2>2. q = [i \in DOMAIN q |-> q[i]] /\ DOMAIN q = 1 .. Len(q)
    BY <2>1
  <2> HIDE DEF q, r
  <2>3. [i \in 1 .. Len(q) |-> q[i]] = [i \in 1 .. Len(q) |-> <<r, r + i>>]
    BY <2>1 DEF q, r
  <2>4. q = [i \in 1 .. Len(q) |-> <<r, r + i>>]
    BY <2>2, <2>3
  <2> QED
    BY <2>4 DEF q, r
<1> QED
  BY <1>1, AllReceived, PTL

-----------------------------------------------------------------------------
(* Who is established with whom.                                           *)

\* No conversation starts at 0, the ack of a caller that knows nothing yet.
Numbered ==
    /\ Separate
    /\ \A pl \in Plans, x \in Side : \A i \in 1 .. Len(pl.starts[x]) :
         pl.starts[x][i] > 0

start(x, i) == plan.starts[x][i]

last(x) == start(x, count[x])

\* k acknowledges something of the i-th conversation of x.
Within(k, x, i) == k \in start(x, i) .. start(x, i) + plan.messages[x]

Calls == \A x \in Side : cb[x].state # "Closed" =>
             count[x] > 0 /\ cb[x].start = last(x)

\* A sync of a listener is about its conversation and the call it was for.
Syncs ==
    /\ \A p \in net : p.type = "sync" /\ p.to = "listen" =>
         \E j \in 1 .. count["call"] : p.id = start("call", j)
    /\ \A p \in net : p.type = "sync" /\ p.to = "call" =>
         \E i \in 1 .. count["listen"] : \E j \in 1 .. count["call"] :
            /\ p.id = start("listen", i) /\ p.ack = start("call", j)
            /\ i = count["listen"] => p.ack = cb["listen"].rstart

Acknowledged ==
    \A p \in net : p.type \in Acking =>
        p.ack = 0 \/ \E i \in 1 .. count[p.to] : Within(p.ack, p.to, i)

Partners ==
    /\ live("call") => \E i \in 1 .. count["listen"] :
         /\ cb["call"].rstart = start("listen", i)
         /\ i = count["listen"] => cb["listen"].rstart = cb["call"].start
    /\ count["listen"] > 0 =>
         \E j \in 1 .. count["call"] : cb["listen"].rstart = start("call", j)

\* The call has heard of the last conversation of the listener, or a packet
\* under way says so.
Met == \/ live("listen")
       \/ live("call") /\ cb["call"].rstart = last("listen")
       \/ \E p \in net : Tells(p, "listen") /\ Within(p.ack, "listen", count["listen"])

\* Then no later call has been answered, and the call of that conversation
\* is over if it is not established with it.
Meeting ==
    count["listen"] > 0 /\ Met =>
      /\ \E m \in 1 .. count["call"] :
           /\ cb["listen"].rstart = start("call", m)
           /\ \A p \in net : p.type = "sync" /\ p.to = "call"
                             /\ p.id # last("listen") =>
                \E j \in 1 .. m : p.ack = start("call", j)
      /\ live("call") => cb["call"].rstart = last("listen")
      /\ cb["call"].state = "Syncer" => cb["call"].start # cb["listen"].rstart

Agreement == Calls /\ Syncs /\ Acknowledged /\ Partners /\ Meeting

\* What is known of the conversations that a side has had.
LEMMA CountFacts ==
    ASSUME Received, Numbered, NEW x \in Side
    PROVE  /\ plan \in Plans /\ count[x] \in Nat
           /\ plan.messages[x] \in Nat
           /\ 1 .. count[x] \subseteq 1 .. Len(plan.starts[x])
           /\ count[x] > 0 => count[x] \in 1 .. count[x]
           /\ \A i \in 1 .. Len(plan.starts[x]) :
                /\ start(x, i) \in Nat /\ start(x, i) > 0
                /\ Within(start(x, i), x, i) /\ ~Within(0, x, i)
           /\ \A i, j \in 1 .. Len(plan.starts[x]) : \A k :
                Within(k, x, i) /\ Within(k, x, j) => i = j
           /\ \A i, j \in 1 .. Len(plan.starts[x]) :
                start(x, i) = start(x, j) => i = j
<1>1. /\ plan \in Plans /\ count[x] \in Nat
      /\ count[x] <= Len(plan.starts[x])
  BY DEF Received, TypeOK
<1>2. /\ plan.messages[x] \in Nat /\ Len(plan.starts[x]) \in Nat
      /\ window \in Nat
      /\ \A i \in 1 .. Len(plan.starts[x]) : plan.starts[x][i] \in Nat
  BY <1>1, PlanFacts
<1>3. 1 .. count[x] \subseteq 1 .. Len(plan.starts[x])
      /\ (count[x] > 0 => count[x] \in 1 .. count[x])
  BY <1>1, <1>2
<1>4. ASSUME NEW i \in 1 .. Len(plan.starts[x])
      PROVE  /\ start(x, i) \in Nat /\ start(x, i) > 0
             /\ Within(start(x, i), x, i) /\ ~Within(0, x, i)
  <2>1. start(x, i) \in Nat /\ start(x, i) > 0
    BY <1>1, <1>2 DEF start, Numbered
  <2> QED
    BY <2>1, <1>2 DEF Within
<1>5. ASSUME NEW i \in 1 .. Len(plan.starts[x]),
             NEW j \in 1 .. Len(plan.starts[x]), NEW k,
             Within(k, x, i), Within(k, x, j)
      PROVE  i = j
  <2>1. i # j => \/ start(x, i) + plan.messages[x] + window < start(x, j)
                 \/ start(x, j) + plan.messages[x] + window < start(x, i)
    BY <1>1 DEF start, Numbered, Separate
  <2>2. start(x, i) \in Nat /\ start(x, j) \in Nat
    BY <1>4
  <2> QED
    BY <2>1, <2>2, <1>2, <1>5 DEF Within
<1>6. ASSUME NEW i \in 1 .. Len(plan.starts[x]),
             NEW j \in 1 .. Len(plan.starts[x]), start(x, i) = start(x, j)
      PROVE  i = j
  BY <1>4, <1>5, <1>6
<1> QED
  BY <1>1, <1>2, <1>3, <1>4, <1>5, <1>6

\* There are two sides.
LEMMA Sides == "call" \in Side /\ "listen" \in Side
               /\ peer("call") = "listen" /\ peer("listen") = "call"
               /\ \A x \in Side : x = "call" \/ x = "listen"
BY DEF Side, peer

\* What a move keeps, and what it sends.
LEMMA MoveFacts ==
    ASSUME Received, Agreement, NEW x \in Side, NEW d, NEW out, Moves(x, d, out)
    PROVE  /\ d.state # "Closed" =>
                /\ cb[x].state # "Closed" /\ d.start = cb[x].start
                /\ d.start = last(x) /\ count[x] > 0
           /\ x = "listen" => d.rstart = cb[x].rstart
           /\ \A p \in out :
                /\ p.to = peer(x)
                /\ p.type = "sync" =>
                     /\ p.id = last(x) /\ count[x] > 0
                     /\ x = "listen" => p.ack = cb[x].rstart
                /\ p.type \in Acking =>
                     \/ p.ack = 0
                     \/ /\ d.state \in {"Syncee", "Established"}
                        /\ x = "call" => d.state = "Established"
                        /\ count[x] > 0 /\ d.rstart \in Nat
                        /\ p.ack \in d.rstart .. d.rstart + plan.messages[peer(x)]
                        /\ p.ack <= d.recvd
                        /\ d.state = "Syncee" => p.ack = d.rstart
<1> DEFINE c == cb[x]
<1>1. /\ d \in Conversation /\ ConvOK(x, d) /\ Goes(x, c, d)
      /\ \A p \in out : MaySend(x, d, p)
  BY DEF Moves
<1>2. c \in Conversation /\ ConvOK(x, c) /\ plan \in Plans
  BY Known
<1>3. d.state # "Closed" =>
        c.state # "Closed" /\ d.start = c.start /\ d.start = last(x) /\ count[x] > 0
  <2>1. d.state # "Closed" => c.state # "Closed" /\ d.start = c.start
    BY <1>1 DEF Goes, Stays, Leaves, Called, Taken
  <2> QED
    BY <2>1 DEF Agreement, Calls
<1>4. x = "listen" => d.rstart = c.rstart
  BY <1>1, <1>2 DEF Goes, Stays, Leaves, Called, Taken, ConvOK
<1>5. d.recvd \in Nat /\ d.rstart \in Nat /\ plan.messages[peer(x)] \in Nat
      /\ Len(d.rq) \in Nat
  BY <1>1, <1>2, PlanFacts, PeerFacts, LenProperties DEF Conversation
<1>6. d.state \in {"Syncee", "Established"} =>
        /\ d.recvd \in d.rstart .. d.rstart + plan.messages[peer(x)]
        /\ d.rstart \in d.rstart .. d.rstart + plan.messages[peer(x)]
  BY <1>1, <1>5 DEF ConvOK
<1>7. d.state = "Syncee" => x = "listen" /\ d.recvd = d.rstart
  <2>1. d.state = "Syncee" => x = "listen" /\ d.rq = <<>>
                              /\ d.recvd = d.rstart + Len(d.rq)
    BY <1>1 DEF ConvOK
  <2>2. d.rq = <<>> => Len(d.rq) = 0
    OBVIOUS
  <2> QED
    BY <2>1, <2>2, <1>5
<1>8. d.state = "Syncer" => x = "call" /\ d.recvd = 0
  BY <1>1 DEF ConvOK
<1>9. ASSUME NEW p \in out
      PROVE  /\ p.to = peer(x)
             /\ p.type = "sync" =>
                  /\ p.id = last(x) /\ count[x] > 0
                  /\ x = "listen" => p.ack = c.rstart
             /\ p.type \in Acking =>
                  \/ p.ack = 0
                  \/ /\ d.state \in {"Syncee", "Established"}
                     /\ x = "call" => d.state = "Established"
                     /\ count[x] > 0 /\ d.rstart \in Nat
                     /\ p.ack \in d.rstart .. d.rstart + plan.messages[peer(x)]
                     /\ p.ack <= d.recvd
                     /\ d.state = "Syncee" => p.ack = d.rstart
  <2>1. MaySend(x, d, p)
    BY <1>1
  <2>2. CASE p.type = "close"
    BY <2>1, <2>2 DEF MaySend, Acking, Data
  <2>3. CASE /\ p.type = "sync" /\ d.state \in {"Syncer", "Syncee"}
             /\ p.id = d.start /\ p.ack = d.recvd
    BY <2>1, <2>3, <1>3, <1>4, <1>7, <1>8 DEF MaySend, Acking, Data
  <2>4. CASE /\ p.type \in Acking /\ d.state \in Open
             /\ \/ p.ack = d.recvd
                \/ d.state = "Established" /\ p.ack = d.rstart
    <3>1. p.to = peer(x) /\ p.type # "sync"
      BY <2>1, <2>4 DEF MaySend, Acking, Data
    <3>2. CASE d.state = "Syncer"
      BY <3>1, <3>2, <2>4, <1>8
    <3>3. CASE d.state \in {"Syncee", "Established"}
      BY <3>1, <3>3, <2>4, <1>3, <1>5, <1>6, <1>7, Sides
    <3> QED
      BY <2>4, <3>2, <3>3 DEF Open
  <2> QED
    BY <2>1, <2>2, <2>3, <2>4 DEF MaySend
<1> QED
  BY <1>3, <1>4, <1>9

\* A move of the listener keeps Agreement.
LEMMA AgreementListen ==
    ASSUME Received, Numbered, Agreement, NEW d, NEW out,
           Moves("listen", d, out)
    PROVE  Agreement'
<1> DEFINE c == cb["listen"]
<1>1. /\ plan' = plan /\ count' = count /\ net' \subseteq net \cup out
      /\ cb'["call"] = cb["call"] /\ cb'["listen"] = d
      /\ Goes("listen", c, d)
  BY Sides DEF Moves, Received, TypeOK
<1>2. /\ d.rstart = c.rstart
      /\ d.state # "Closed" => count["listen"] > 0 /\ d.start = last("listen")
      /\ \A p \in out :
           /\ p.to = "call"
           /\ p.type = "sync" =>
                p.id = last("listen") /\ count["listen"] > 0 /\ p.ack = c.rstart
           /\ p.type \in Acking =>
                \/ p.ack = 0
                \/ /\ count["listen"] > 0
                   /\ p.ack \in d.rstart .. d.rstart + plan.messages["call"]
  BY Sides, MoveFacts
<1>3. count["listen"] > 0 =>
        /\ count["listen"] \in 1 .. count["listen"]
        /\ \E j \in 1 .. count["call"] : c.rstart = start("call", j)
  BY Sides, CountFacts DEF Agreement, Partners
<1>4. Calls'
  <2>1. \A x \in Side : cb'[x].state # "Closed" => count[x] > 0 /\ cb'[x].start = last(x)
    BY <1>1, <1>2, Sides DEF Agreement, Calls
  <2> QED
    BY <2>1, <1>1 DEF Calls, last, start
<1>5. Syncs'
  <2>1. ASSUME NEW p \in net', p.type = "sync", p.to = "listen"
        PROVE  \E j \in 1 .. count["call"] : p.id = start("call", j)
    <3>1. p \in net
      BY <1>1, <1>2, <2>1
    <3> QED
      BY <3>1, <2>1 DEF Agreement, Syncs
  <2>2. ASSUME NEW p \in net', p.type = "sync", p.to = "call"
        PROVE  \E i \in 1 .. count["listen"] : \E j \in 1 .. count["call"] :
                 /\ p.id = start("listen", i) /\ p.ack = start("call", j)
                 /\ i = count["listen"] => p.ack = d.rstart
    <3>1. CASE p \in net
      BY <3>1, <2>2, <1>2 DEF Agreement, Syncs
    <3>2. CASE p \in out
      BY <3>2, <2>2, <1>2, <1>3 DEF last
    <3> QED
      BY <3>1, <3>2, <1>1
  <2> QED
    BY <2>1, <2>2, <1>1 DEF Syncs, start
<1>6. Acknowledged'
  <2>1. ASSUME NEW p \in net', p.type \in Acking
        PROVE  p.ack = 0 \/ \E i \in 1 .. count[p.to] : Within(p.ack, p.to, i)
    <3>1. CASE p \in net
      BY <3>1, <2>1 DEF Agreement, Acknowledged
    <3>2. CASE p \in out
      BY <3>2, <2>1, <1>2, <1>3 DEF Within
    <3> QED
      BY <3>1, <3>2, <1>1
  <2> QED
    BY <2>1, <1>1 DEF Acknowledged, Within, start
<1>7. Partners'
  <2>1. /\ cb'["call"].state = "Established" => \E i \in 1 .. count["listen"] :
             /\ cb'["call"].rstart = start("listen", i)
             /\ i = count["listen"] => d.rstart = cb'["call"].start
        /\ count["listen"] > 0 =>
             \E j \in 1 .. count["call"] : d.rstart = start("call", j)
    BY <1>1, <1>2 DEF Agreement, Partners, live
  <2> QED
    BY <2>1, <1>1 DEF Partners, live, start
<1>8. ASSUME Met', count["listen"] > 0 PROVE Met
  <2>1. CASE d.state = "Established"
    <3>1. CASE c.state = "Established"
      BY <3>1 DEF Met, live
    <3>2. CASE c.state # "Established"
      <4>1. Taken("listen", c, d)
        BY <2>1, <3>2, <1>1, Known, Sides
        DEF Goes, Stays, Leaves, Called, ConvOK
      <4>2. PICK p \in net : Tells(p, "listen") /\ p.ack = c.start
        BY <4>1 DEF Taken
      <4>3. c.start = last("listen")
        BY <4>1, Sides DEF Taken, Agreement, Calls
      <4>4. Within(last("listen"), "listen", count["listen"])
        BY <1>8, CountFacts, Sides DEF last
      <4> QED
        BY <4>2, <4>3, <4>4 DEF Met
    <3> QED
      BY <3>1, <3>2
  <2>2. CASE live("call") /\ cb["call"].rstart = last("listen")
    BY <2>2 DEF Met
  <2>3. CASE \E p \in net' : Tells(p, "listen") /\ Within(p.ack, "listen", count["listen"])
    <3>1. PICK p \in net' : Tells(p, "listen") /\ Within(p.ack, "listen", count["listen"])
      BY <2>3
    <3>2. p \in net
      BY <3>1, <1>1, <1>2 DEF Tells
    <3> QED
      BY <3>1, <3>2 DEF Met
  <2> QED
    BY <1>1, <1>8, <2>1, <2>2, <2>3 DEF Met, live, last, start, Within
<1>9. Meeting'
  <2>1. ASSUME count["listen"] > 0, Met'
        PROVE  /\ \E m \in 1 .. count["call"] :
                    /\ d.rstart = start("call", m)
                    /\ \A p \in net' : p.type = "sync" /\ p.to = "call"
                                       /\ p.id # last("listen") =>
                         \E j \in 1 .. m : p.ack = start("call", j)
               /\ live("call") => cb["call"].rstart = last("listen")
               /\ cb["call"].state = "Syncer" => cb["call"].start # d.rstart
    <3>1. Met
      BY <1>8, <2>1
    <3>2. PICK m \in 1 .. count["call"] :
            /\ c.rstart = start("call", m)
            /\ \A p \in net : p.type = "sync" /\ p.to = "call"
                              /\ p.id # last("listen") =>
                 \E j \in 1 .. m : p.ack = start("call", j)
      BY <3>1, <2>1 DEF Agreement, Meeting
    <3>3. \A p \in net' : p.type = "sync" /\ p.to = "call"
                          /\ p.id # last("listen") =>
            \E j \in 1 .. m : p.ack = start("call", j)
      BY <3>2, <1>1, <1>2
    <3> QED
      BY <3>1, <3>2, <3>3, <2>1, <1>2 DEF Agreement, Meeting
  <2> QED
    BY <2>1, <1>1 DEF Meeting, live, last, start
<1> QED
  BY <1>4, <1>5, <1>6, <1>7, <1>9 DEF Agreement

\* A call is answered by the last conversation of the listener, or before
\* it is known that there is a later one.
LEMMA CalledUnmet ==
    ASSUME Received, Numbered, Agreement, NEW d,
           Called("call", cb["call"], d), cb["call"].start = last("call"),
           count["call"] > 0, count["listen"] > 0
    PROVE  ~Met
<1> SUFFICES ASSUME Met PROVE FALSE
  OBVIOUS
<1> DEFINE c == cb["call"]
           b == cb["listen"]
<1>1. PICK p \in net : /\ p.to = "call" /\ p.type = "sync"
                       /\ p.ack = c.start /\ p.id = d.rstart
  BY DEF Called
<1>2. PICK i \in 1 .. count["listen"], j \in 1 .. count["call"] :
         /\ p.id = start("listen", i) /\ p.ack = start("call", j)
         /\ i = count["listen"] => p.ack = b.rstart
  BY <1>1 DEF Agreement, Syncs
<1>3. c.start # b.rstart
  BY DEF Agreement, Meeting, Called
<1>4. i # count["listen"]
  BY <1>1, <1>2, <1>3
<1>5. p.id # last("listen")
  BY <1>2, <1>4, CountFacts, Sides DEF last
<1>6. PICK m \in 1 .. count["call"] :
        /\ b.rstart = start("call", m)
        /\ \A q \in net : q.type = "sync" /\ q.to = "call"
                          /\ q.id # last("listen") =>
             \E k \in 1 .. m : q.ack = start("call", k)
  BY DEF Agreement, Meeting
<1>7. PICK k \in 1 .. m : p.ack = start("call", k)
  BY <1>1, <1>5, <1>6
<1>8. count["call"] \in 1 .. count["call"]
  BY CountFacts, Sides
<1>9. start("call", k) = start("call", count["call"])
  BY <1>1, <1>7 DEF last
<1>10. k \in 1 .. count["call"]
  BY <1>6, <1>7, <1>8, CountFacts, Sides
<1>11. k = count["call"]
  BY <1>8, <1>9, <1>10, CountFacts, Sides
<1>12. m = count["call"]
  BY <1>6, <1>7, <1>11, CountFacts, Sides
<1> QED
  BY <1>3, <1>6, <1>12 DEF last

\* A move of the caller keeps Agreement.
LEMMA AgreementCall ==
    ASSUME Received, Numbered, Agreement, NEW d, NEW out,
           Moves("call", d, out)
    PROVE  Agreement'
<1> DEFINE c == cb["call"]
           b == cb["listen"]
<1>1. /\ plan' = plan /\ count' = count /\ net' \subseteq net \cup out
      /\ cb'["call"] = d /\ cb'["listen"] = b
      /\ Goes("call", c, d) /\ ConvOK("call", d)
  BY Sides DEF Moves, Received, TypeOK
<1>2. /\ d.state # "Closed" => /\ count["call"] > 0 /\ d.start = last("call")
                               /\ d.start = c.start
      /\ \A p \in out :
           /\ p.to = "listen"
           /\ p.type = "sync" => p.id = last("call") /\ count["call"] > 0
           /\ p.type \in Acking =>
                \/ p.ack = 0
                \/ /\ d.state = "Established"
                   /\ p.ack \in d.rstart .. d.rstart + plan.messages["listen"]
  BY Sides, MoveFacts
<1>3. count["call"] > 0 => count["call"] \in 1 .. count["call"]
  BY Sides, CountFacts
<1>4. d.state = "Established" =>
        \/ c.state = "Established" /\ d.rstart = c.rstart
        \/ Called("call", c, d)
  BY <1>1, Known, Sides DEF Goes, Stays, Leaves, Taken, ConvOK
\* The conversation of the listener that this one is established with.
<1>5. ASSUME d.state = "Established"
      PROVE  \E i \in 1 .. count["listen"] :
               /\ d.rstart = start("listen", i)
               /\ i = count["listen"] => b.rstart = d.start
  <2>1. CASE c.state = "Established" /\ d.rstart = c.rstart
    BY <2>1, <1>2, <1>5 DEF Agreement, Partners, live
  <2>2. CASE Called("call", c, d)
    <3>1. PICK p \in net : /\ p.to = "call" /\ p.type = "sync"
                           /\ p.ack = c.start /\ p.id = d.rstart
      BY <2>2 DEF Called
    <3>2. PICK i \in 1 .. count["listen"], j \in 1 .. count["call"] :
             /\ p.id = start("listen", i) /\ p.ack = start("call", j)
             /\ i = count["listen"] => p.ack = b.rstart
      BY <3>1 DEF Agreement, Syncs
    <3> QED
      BY <3>1, <3>2, <1>2, <1>5
  <2> QED
    BY <1>4, <1>5, <2>1, <2>2
<1>6. Calls'
  <2>1. \A x \in Side : cb'[x].state # "Closed" => count[x] > 0 /\ cb'[x].start = last(x)
    BY <1>1, <1>2, Sides DEF Agreement, Calls
  <2> QED
    BY <2>1, <1>1 DEF Calls, last, start
<1>7. Syncs'
  <2>1. ASSUME NEW p \in net', p.type = "sync", p.to = "listen"
        PROVE  \E j \in 1 .. count["call"] : p.id = start("call", j)
    <3>1. CASE p \in net
      BY <3>1, <2>1 DEF Agreement, Syncs
    <3>2. CASE p \in out
      BY <3>2, <2>1, <1>2, <1>3 DEF last
    <3> QED
      BY <3>1, <3>2, <1>1
  <2>2. ASSUME NEW p \in net', p.type = "sync", p.to = "call"
        PROVE  p \in net
    BY <1>1, <1>2, <2>2
  <2> QED
    BY <2>1, <2>2, <1>1 DEF Agreement, Syncs, start
<1>8. Acknowledged'
  <2>1. ASSUME NEW p \in net', p.type \in Acking
        PROVE  p.ack = 0 \/ \E i \in 1 .. count[p.to] : Within(p.ack, p.to, i)
    <3>1. CASE p \in net
      BY <3>1, <2>1 DEF Agreement, Acknowledged
    <3>2. CASE p \in out
      BY <3>2, <2>1, <1>2, <1>5 DEF Within
    <3> QED
      BY <3>1, <3>2, <1>1
  <2> QED
    BY <2>1, <1>1 DEF Acknowledged, Within, start
<1>9. Partners'
  BY <1>1, <1>5 DEF Agreement, Partners, live, start
\* A packet that is new tells of the conversation d is established with.
<1>10. ASSUME NEW p \in net', p \notin net, Tells(p, "listen"),
              count["listen"] > 0,
              Within(p.ack, "listen", count["listen"])
       PROVE  d.state = "Established" /\ d.rstart = last("listen")
  <2>1. p \in out /\ p.type \in Acking
    BY <1>1, <1>10 DEF Tells
  <2>2. count["listen"] \in 1 .. Len(plan.starts["listen"])
    BY <1>10, CountFacts, Sides
  <2>3. p.ack # 0
    BY <1>10, <2>2, CountFacts, Sides
  <2>4. /\ d.state = "Established"
        /\ p.ack \in d.rstart .. d.rstart + plan.messages["listen"]
    BY <1>2, <2>1, <2>3
  <2>5. PICK i \in 1 .. count["listen"] : d.rstart = start("listen", i)
    BY <1>5, <2>4
  <2>6. Within(p.ack, "listen", i) /\ i \in 1 .. Len(plan.starts["listen"])
    BY <2>4, <2>5, CountFacts, Sides DEF Within
  <2>7. i = count["listen"]
    BY <1>10, <2>2, <2>6, CountFacts, Sides
  <2> QED
    BY <2>4, <2>5, <2>7 DEF last
<1>11. Met' => \/ live("listen")
               \/ d.state = "Established" /\ d.rstart = last("listen")
               \/ \E p \in net' : Tells(p, "listen")
                                  /\ Within(p.ack, "listen", count["listen"])
  BY <1>1 DEF Met, live, last, start, Within
<1>12. ASSUME Met', count["listen"] > 0
       PROVE  Met \/ (d.state = "Established" /\ d.rstart = last("listen"))
  <2>1. CASE live("listen")
    BY <2>1 DEF Met
  <2>2. CASE \E p \in net' : Tells(p, "listen")
                             /\ Within(p.ack, "listen", count["listen"])
    BY <2>2, <1>10, <1>12 DEF Met
  <2> QED
    BY <1>11, <1>12, <2>1, <2>2
<1>13. Meeting'
  <2>1. ASSUME count["listen"] > 0, Met'
        PROVE  /\ \E m \in 1 .. count["call"] :
                    /\ b.rstart = start("call", m)
                    /\ \A p \in net' : p.type = "sync" /\ p.to = "call"
                                       /\ p.id # last("listen") =>
                         \E j \in 1 .. m : p.ack = start("call", j)
               /\ d.state = "Established" => d.rstart = last("listen")
               /\ d.state = "Syncer" => d.start # b.rstart
    <3>1. \A p \in net' : p.type = "sync" /\ p.to = "call" => p \in net
      BY <1>1, <1>2
    <3>2. CASE ~Called("call", c, d)
      <4>1. Met
        BY <1>12, <2>1, <1>4, <3>2 DEF Met, live
      <4>2. d.state = "Syncer" => c.state = "Syncer" /\ d.start = c.start
        BY <1>1, <3>2 DEF Goes, Stays, Leaves, Taken
      <4> QED
        BY <4>1, <4>2, <3>1, <3>2, <2>1, <1>4 DEF Agreement, Meeting, live
    <3>3. CASE Called("call", c, d)
      <4>1. /\ c.state = "Syncer" /\ d.state = "Established"
            /\ d.start = c.start /\ d.start = last("call")
        BY <3>3, <1>2 DEF Called
      <4>2. PICK p \in net : /\ p.to = "call" /\ p.type = "sync"
                             /\ p.ack = c.start /\ p.id = d.rstart
        BY <3>3 DEF Called
      <4>3. PICK i \in 1 .. count["listen"], j \in 1 .. count["call"] :
               /\ p.id = start("listen", i) /\ p.ack = start("call", j)
               /\ i = count["listen"] => p.ack = b.rstart
        BY <4>2 DEF Agreement, Syncs
      <4>4. count["call"] \in 1 .. count["call"]
        BY <1>2, <1>3, <4>1
      <4>5. ~Met
        BY <3>3, <4>1, <2>1, <1>2, CalledUnmet
      <4>6. d.rstart = last("listen")
        BY <1>12, <2>1, <4>5
      <4>7. i = count["listen"]
        BY <4>2, <4>3, <4>6, <2>1, CountFacts, Sides DEF last
      <4>8. b.rstart = start("call", count["call"])
        BY <4>1, <4>2, <4>3, <4>7 DEF last
      <4>9. \A q \in net : q.type = "sync" /\ q.to = "call" =>
              \E k \in 1 .. count["call"] : q.ack = start("call", k)
        BY DEF Agreement, Syncs
      <4> QED
        BY <4>1, <4>4, <4>6, <4>8, <4>9, <3>1
    <3> QED
      BY <3>2, <3>3
  <2> QED
    BY <2>1, <1>1 DEF Meeting, live, last, start
<1> QED
  BY <1>6, <1>7, <1>8, <1>9, <1>13 DEF Agreement

\* What connect does.
LEMMA ConnectFields ==
    ASSUME Received, Numbered, connect
    PROVE  /\ plan' = plan /\ cb'["listen"] = cb["listen"]
           /\ cb["call"].state = "Closed" /\ cb'["call"].state = "Syncer"
           /\ count'["listen"] = count["listen"]
           /\ count'["call"] = count["call"] + 1
           /\ count["call"] + 1 \in 1 .. Len(plan.starts["call"])
           /\ count["call"] + 1 \in 1 .. count["call"] + 1
           /\ cb'["call"].start = start("call", count["call"] + 1)
           /\ cb'["call"].next = cb'["call"].start + 1
           /\ \A p \in net' : p \in net \/ /\ p.type = "sync" /\ p.to = "listen"
                                           /\ p.id = cb'["call"].start
<1> DEFINE c == [ilcbinit("call") EXCEPT !.state = "Syncer"]
           p == packet("call", "sync", c.start, 0)
<1>1. /\ count["call"] < Len(plan.starts["call"])
      /\ cb' = [cb EXCEPT !["call"] = c]
      /\ count' = [count EXCEPT !["call"] = @ + 1]
      /\ net' \subseteq net \cup {p} /\ plan' = plan
      /\ cb["call"].state = "Closed"
  BY DEF connect, carry
<1>2. "Syncer" \in State /\ "sync" \in Type /\ 0 \in Nat
  BY DEF State, Open, Type
<1>3. /\ c \in Conversation /\ c.state = "Syncer"
      /\ c.start = plan.starts["call"][count["call"] + 1]
      /\ c.next = c.start + 1
      /\ count["call"] + 1 \in 1 .. Len(plan.starts["call"])
  BY <1>1, <1>2, Sides, NewFields
<1> HIDE DEF c
<1>4. c.start \in Nat
  BY <1>3 DEF Conversation
<1>5. p.to = "listen" /\ p.type = "sync" /\ p.id = c.start
  BY <1>2, <1>4, Sides, PacketFields
<1> HIDE DEF p
<1>6. cb'["call"] = c /\ cb'["listen"] = cb["listen"]
      /\ count'["call"] = count["call"] + 1 /\ count'["listen"] = count["listen"]
  BY <1>1, Sides DEF Received, TypeOK
<1>7. count["call"] \in Nat
  BY Sides DEF Received, TypeOK
<1> QED
  BY <1>1, <1>3, <1>5, <1>6, <1>7 DEF start

\* A call keeps Agreement: it is one that nobody has answered.
LEMMA AgreementConnect ==
    ASSUME Received, Numbered, Agreement, connect
    PROVE  Agreement'
<1> DEFINE n == count["call"] + 1
           b == cb["listen"]
<1>1. /\ plan' = plan /\ cb'["listen"] = b
      /\ cb["call"].state = "Closed" /\ cb'["call"].state = "Syncer"
      /\ count'["listen"] = count["listen"] /\ count'["call"] = n
      /\ n \in 1 .. Len(plan.starts["call"]) /\ n \in 1 .. n
      /\ cb'["call"].start = start("call", n)
      /\ \A p \in net' : p \in net \/ /\ p.type = "sync" /\ p.to = "listen"
                                      /\ p.id = cb'["call"].start
  BY ConnectFields
<1>2. /\ count["call"] \in Nat /\ n > 0 /\ n \notin 1 .. count["call"]
      /\ 1 .. count["call"] \subseteq 1 .. n
      /\ 1 .. count["call"] \subseteq 1 .. Len(plan.starts["call"])
  BY Sides, CountFacts
<1> HIDE DEF n
<1>3. Calls'
  <2>1. ASSUME NEW x \in Side, cb'[x].state # "Closed"
        PROVE  count'[x] > 0 /\ cb'[x].start = start(x, count'[x])
    <3>1. CASE x = "call"
      BY <3>1, <1>1, <1>2
    <3>2. CASE x = "listen"
      BY <3>2, <2>1, <1>1 DEF Agreement, Calls, last
    <3> QED
      BY <3>1, <3>2, Sides
  <2> QED
    BY <2>1, <1>1 DEF Calls, last, start
<1>4. Syncs'
  <2>1. ASSUME NEW p \in net', p.type = "sync", p.to = "listen"
        PROVE  \E j \in 1 .. n : p.id = start("call", j)
    BY <2>1, <1>1, <1>2 DEF Agreement, Syncs
  <2>2. ASSUME NEW p \in net', p.type = "sync", p.to = "call"
        PROVE  \E i \in 1 .. count["listen"] : \E j \in 1 .. n :
                 /\ p.id = start("listen", i) /\ p.ack = start("call", j)
                 /\ i = count["listen"] => p.ack = b.rstart
    BY <2>2, <1>1, <1>2 DEF Agreement, Syncs
  <2> QED
    BY <2>1, <2>2, <1>1 DEF Syncs, start
<1>5. Acknowledged'
  <2>1. ASSUME NEW p \in net', p.type \in Acking
        PROVE  p.ack = 0 \/ \E i \in 1 .. count'[p.to] : Within(p.ack, p.to, i)
    <3>1. p \in net
      BY <1>1, <2>1 DEF Acking, Data
    <3>2. p.to \in Side
      BY <3>1, KnownPacket
    <3>3. 1 .. count[p.to] \subseteq 1 .. count'[p.to]
      BY <1>1, <1>2, <3>2, Sides
    <3> QED
      BY <3>1, <3>3, <2>1 DEF Agreement, Acknowledged
  <2> QED
    BY <2>1, <1>1 DEF Acknowledged, Within, start
<1>6. Partners'
  <2>1. count["listen"] > 0 => \E j \in 1 .. n : b.rstart = start("call", j)
    BY <1>2 DEF Agreement, Partners
  <2> QED
    BY <2>1, <1>1 DEF Partners, live, start
<1>7. Meeting'
  <2>1. ASSUME count["listen"] > 0, Met'
        PROVE  /\ \E m \in 1 .. n :
                    /\ b.rstart = start("call", m)
                    /\ \A p \in net' : p.type = "sync" /\ p.to = "call"
                                       /\ p.id # last("listen") =>
                         \E j \in 1 .. m : p.ack = start("call", j)
               /\ start("call", n) # b.rstart
    <3>1. \/ live("listen")
          \/ \E p \in net' : Tells(p, "listen")
                             /\ Within(p.ack, "listen", count["listen"])
      BY <2>1, <1>1 DEF Met, live, last, start, Within
    <3>2. \A p \in net' : Tells(p, "listen") => p \in net
      BY <1>1 DEF Tells, Acking, Data
    <3>3. Met
      BY <3>1, <3>2 DEF Met
    <3>4. PICK m \in 1 .. count["call"] :
            /\ b.rstart = start("call", m)
            /\ \A p \in net : p.type = "sync" /\ p.to = "call"
                              /\ p.id # last("listen") =>
                 \E j \in 1 .. m : p.ack = start("call", j)
      BY <2>1, <3>3 DEF Agreement, Meeting
    <3>5. start("call", n) # start("call", m)
      BY <1>1, <1>2, Sides, CountFacts
    <3>6. \A p \in net' : p.type = "sync" /\ p.to = "call" => p \in net
      BY <1>1
    <3> QED
      BY <3>4, <3>5, <3>6, <1>2
  <2> QED
    BY <2>1, <1>1 DEF Meeting, live, last, start
<1> QED
  BY <1>3, <1>4, <1>5, <1>6, <1>7 DEF Agreement

\* What accepting a call does.
LEMMA AcceptFields ==
    ASSUME Received, Numbered, NEW p \in net, Accept(p)
    PROVE  /\ plan' = plan /\ cb'["call"] = cb["call"]
           /\ p.type = "sync" /\ p.to = "listen"
           /\ cb["listen"].state = "Closed" /\ cb'["listen"].state = "Syncee"
           /\ count'["call"] = count["call"]
           /\ count'["listen"] = count["listen"] + 1
           /\ count["listen"] + 1 \in 1 .. Len(plan.starts["listen"])
           /\ count["listen"] + 1 \in 1 .. count["listen"] + 1
           /\ cb'["listen"].start = start("listen", count["listen"] + 1)
           /\ cb'["listen"].next = cb'["listen"].start + 1
           /\ cb'["listen"].rstart = p.id
           /\ \A q \in net' : q \in net \/ /\ q.type = "sync" /\ q.to = "call"
                                           /\ q.id = cb'["listen"].start
                                           /\ q.ack = p.id
<1> DEFINE b == [ilcbinit("listen") EXCEPT !.state = "Syncee"]
           c == taken(p)
           q == packet("listen", "sync", c.start, c.recvd)
<1>1. /\ count["listen"] < Len(plan.starts["listen"])
      /\ cb' = [cb EXCEPT !["listen"] = c]
      /\ count' = [count EXCEPT !["listen"] = @ + 1]
      /\ net' \subseteq net \cup {q} /\ plan' = plan
      /\ cb["listen"].state = "Closed" /\ p.type = "sync" /\ p.to = "listen"
  BY DEF Accept
<1>2. "Syncee" \in State /\ "sync" \in Type /\ p.id \in Nat
  BY KnownPacket DEF State, Open, Type
<1>3. /\ b \in Conversation /\ b.state = "Syncee"
      /\ b.start = plan.starts["listen"][count["listen"] + 1]
      /\ b.next = b.start + 1
      /\ count["listen"] + 1 \in 1 .. Len(plan.starts["listen"])
  BY <1>1, <1>2, Sides, NewFields
<1>4. c = [b EXCEPT !.rstart = p.id, !.recvd = p.id]
  <2>1. ilcbinit("listen") = [Closed EXCEPT
              !.start = plan.starts["listen"][count["listen"] + 1],
              !.next  = plan.starts["listen"][count["listen"] + 1] + 1]
    BY DEF ilcbinit
  <2> QED
    BY <2>1 DEF taken, Closed
<1> HIDE DEF b, c
<1>5. /\ c.state = "Syncee" /\ c.start = b.start /\ c.next = b.next
      /\ c.start \in Nat /\ c.recvd = p.id /\ c.rstart = p.id
  BY <1>2, <1>3, <1>4 DEF Conversation
<1>6. q.to = "call" /\ q.type = "sync" /\ q.id = c.start /\ q.ack = p.id
  BY <1>2, <1>5, Sides, PacketFields
<1> HIDE DEF q
<1>7. cb'["listen"] = c /\ cb'["call"] = cb["call"]
      /\ count'["listen"] = count["listen"] + 1 /\ count'["call"] = count["call"]
  BY <1>1, Sides DEF Received, TypeOK
<1>8. count["listen"] \in Nat
  BY Sides DEF Received, TypeOK
<1> QED
  BY <1>1, <1>3, <1>5, <1>6, <1>7, <1>8 DEF start

\* Accepting a call, however old, keeps Agreement.
LEMMA AgreementAccept ==
    ASSUME Received, Numbered, Agreement, NEW p \in net, Accept(p)
    PROVE  Agreement' /\ ~Met'
<1> DEFINE n == count["listen"] + 1
           a == cb["call"]
           d == cb'["listen"]
<1>1. /\ plan' = plan /\ cb'["call"] = a /\ p.type = "sync" /\ p.to = "listen"
      /\ d.state = "Syncee"
      /\ count'["call"] = count["call"] /\ count'["listen"] = n
      /\ n \in 1 .. Len(plan.starts["listen"]) /\ n \in 1 .. n
      /\ d.start = start("listen", n) /\ d.rstart = p.id
      /\ \A q \in net' : q \in net \/ /\ q.type = "sync" /\ q.to = "call"
                                      /\ q.id = d.start /\ q.ack = p.id
  BY AcceptFields
<1>2. /\ count["listen"] \in Nat /\ n > 0 /\ n \notin 1 .. count["listen"]
      /\ 1 .. count["listen"] \subseteq 1 .. n
      /\ 1 .. count["listen"] \subseteq 1 .. Len(plan.starts["listen"])
  BY Sides, CountFacts
<1>3. PICK j \in 1 .. count["call"] : p.id = start("call", j)
  BY <1>1 DEF Agreement, Syncs
<1> HIDE DEF n
<1>4. Calls'
  <2>1. ASSUME NEW x \in Side, cb'[x].state # "Closed"
        PROVE  count'[x] > 0 /\ cb'[x].start = start(x, count'[x])
    <3>1. CASE x = "listen"
      BY <3>1, <1>1, <1>2
    <3>2. CASE x = "call"
      BY <3>2, <2>1, <1>1 DEF Agreement, Calls, last
    <3> QED
      BY <3>1, <3>2, Sides
  <2> QED
    BY <2>1, <1>1 DEF Calls, last, start
<1>5. Syncs'
  <2>1. ASSUME NEW q \in net', q.type = "sync", q.to = "listen"
        PROVE  \E k \in 1 .. count["call"] : q.id = start("call", k)
    BY <2>1, <1>1 DEF Agreement, Syncs
  <2>2. ASSUME NEW q \in net', q.type = "sync", q.to = "call"
        PROVE  \E i \in 1 .. n : \E k \in 1 .. count["call"] :
                 /\ q.id = start("listen", i) /\ q.ack = start("call", k)
                 /\ i = n => q.ack = d.rstart
    <3>1. CASE q \in net
      BY <3>1, <2>2, <1>2 DEF Agreement, Syncs
    <3>2. CASE q \notin net
      BY <3>2, <2>2, <1>1, <1>3
    <3> QED
      BY <3>1, <3>2
  <2> QED
    BY <2>1, <2>2, <1>1 DEF Syncs, start
<1>6. Acknowledged'
  <2>1. ASSUME NEW q \in net', q.type \in Acking
        PROVE  q.ack = 0 \/ \E i \in 1 .. count'[q.to] : Within(q.ack, q.to, i)
    <3>1. q \in net
      BY <1>1, <2>1 DEF Acking, Data
    <3>2. q.to \in Side
      BY <3>1, KnownPacket
    <3>3. 1 .. count[q.to] \subseteq 1 .. count'[q.to]
      BY <1>1, <1>2, <3>2, Sides
    <3> QED
      BY <3>1, <3>3, <2>1 DEF Agreement, Acknowledged
  <2> QED
    BY <2>1, <1>1 DEF Acknowledged, Within, start
<1>7. Partners'
  <2>1. /\ a.state = "Established" => \E i \in 1 .. n :
             /\ a.rstart = start("listen", i)
             /\ i = n => d.rstart = a.start
        /\ \E k \in 1 .. count["call"] : d.rstart = start("call", k)
    BY <1>1, <1>2, <1>3 DEF Agreement, Partners, live
  <2> QED
    BY <2>1, <1>1 DEF Partners, live, start
<1>8. ~Met'
  <2>1. a.state = "Established" => a.rstart # start("listen", n)
    <3>1. SUFFICES ASSUME a.state = "Established" PROVE a.rstart # start("listen", n)
      OBVIOUS
    <3>2. PICK i \in 1 .. count["listen"] : a.rstart = start("listen", i)
      BY <3>1 DEF Agreement, Partners, live
    <3> QED
      BY <3>2, <1>1, <1>2, Sides, CountFacts
  <2>2. ASSUME NEW q \in net', Tells(q, "listen"), Within(q.ack, "listen", n)
        PROVE  FALSE
    <3>1. q \in net /\ q.type \in Acking /\ q.to = "listen"
      BY <1>1, <2>2 DEF Tells, Acking, Data
    <3>2. q.ack # 0
      BY <1>1, <2>2, Sides, CountFacts
    <3>3. PICK i \in 1 .. count["listen"] : Within(q.ack, "listen", i)
      BY <3>1, <3>2 DEF Agreement, Acknowledged
    <3> QED
      BY <2>2, <3>3, <1>1, <1>2, Sides, CountFacts
  <2> QED
    BY <2>1, <2>2, <1>1 DEF Met, live, last, start, Within
<1>9. Meeting'
  BY <1>8 DEF Meeting
<1> QED
  BY <1>4, <1>5, <1>6, <1>7, <1>8, <1>9 DEF Agreement

\* Losing a packet keeps Agreement.
LEMMA AgreementLose ==
    ASSUME Agreement, plan' = plan, cb' = cb, count' = count, net' \subseteq net
    PROVE  Agreement'
<1>1. Met' => Met
  BY DEF Met, live, last, start, Within
<1>2. Calls' /\ Syncs' /\ Acknowledged' /\ Partners'
  BY DEF Agreement, Calls, Syncs, Acknowledged, Partners, live, last, start, Within
<1>3. Meeting'
  <2>1. ASSUME count["listen"] > 0, Met'
        PROVE  /\ \E m \in 1 .. count["call"] :
                    /\ cb["listen"].rstart = start("call", m)
                    /\ \A p \in net' : p.type = "sync" /\ p.to = "call"
                                       /\ p.id # last("listen") =>
                         \E j \in 1 .. m : p.ack = start("call", j)
               /\ live("call") => cb["call"].rstart = last("listen")
               /\ cb["call"].state = "Syncer" =>
                    cb["call"].start # cb["listen"].rstart
    BY <2>1, <1>1 DEF Agreement, Meeting
  <2> QED
    BY <2>1 DEF Meeting, live, last, start
<1> QED
  BY <1>2, <1>3 DEF Agreement

\* The initial state satisfies Agreement.
LEMMA AgreementInit ==
    ASSUME Init
    PROVE  Agreement
<1>1. /\ \A x \in Side : cb[x].state = "Closed" /\ count[x] = 0
      /\ net = {}
  BY DEF Init, Closed
<1> QED
  BY <1>1, Sides DEF Agreement, Calls, Syncs, Acknowledged, Partners, Meeting, live

\* Every step keeps Agreement.
LEMMA AgreementStep ==
    ASSUME Received, Numbered, Agreement, [Next]_vars
    PROVE  Agreement'
<1>1. CASE UNCHANGED vars \/ lose
  <2>1. plan' = plan /\ cb' = cb /\ count' = count /\ net' \subseteq net
    BY <1>1 DEF lose, vars
  <2> QED
    BY <2>1, AgreementLose
<1>2. CASE connect
  BY <1>2, AgreementConnect
<1>3. CASE \E p \in net : Accept(p)
  BY <1>3, AgreementAccept
<1>4. CASE Move
  <2>1. PICK x \in Side : \E d, out : Moves(x, d, out)
    BY <1>4 DEF Move
  <2>2. PICK d, out : Moves(x, d, out)
    BY <2>1
  <2> QED
    BY <2>2, AgreementListen, AgreementCall, Sides
<1> QED
  BY <1>1, <1>2, <1>3, <1>4, Steps DEF Numbered

\* Agreement holds in every reachable state.
LEMMA AllAgree ==
    ASSUME Numbered
    PROVE  Spec => [](Received /\ Agreement)
<1>1. Init => Received /\ Agreement
  BY ReceivedInit, AgreementInit
<1>2. Received /\ Agreement /\ [Next]_vars => Received' /\ Agreement'
  BY ReceivedStep, AgreementStep DEF Numbered
<1> QED
  BY <1>1, <1>2, PTL DEF Spec

\* Two conversations that are established are established with each other:
\* old syncs, which make a listener answer calls that are long over, and old
\* acks, do not make one of them take the other for somebody else.
THEOREM BothAgree ==
    ASSUME Numbered
    PROVE  Spec => []Agreed
<1>1. Received /\ Agreement => Agreed
  <2> SUFFICES ASSUME Received, Agreement, live("call"), live("listen")
               PROVE  partner("call")
    BY DEF Agreed
  <2>1. /\ count["listen"] > 0 /\ cb["listen"].start = last("listen")
    BY Sides DEF Agreement, Calls, live
  <2>2. cb["call"].rstart = last("listen")
    BY <2>1 DEF Agreement, Meeting, Met
  <2>3. PICK i \in 1 .. count["listen"] :
          /\ cb["call"].rstart = start("listen", i)
          /\ i = count["listen"] => cb["listen"].rstart = cb["call"].start
    BY DEF Agreement, Partners
  <2>4. i = count["listen"]
    BY <2>1, <2>2, <2>3, Sides, CountFacts DEF last
  <2> QED
    BY <2>1, <2>2, <2>3, <2>4, Sides DEF partner
<1> QED
  BY <1>1, AllAgree, PTL

-----------------------------------------------------------------------------
(* What is acknowledged has come.                                          *)

\* Later conversations of a side start beyond the ids of earlier ones, so
\* that an old ack acknowledges nothing.
Rising ==
    /\ Numbered
    /\ \A pl \in Plans, x \in Side : \A i, j \in 1 .. Len(pl.starts[x]) :
         i < j => pl.starts[x][i] + pl.messages[x] < pl.starts[x][j]

\* The conversation of x no longer has message k, or a packet is under way
\* that will make it forget it.
Heard(x, k) ==
    /\ cb[x].state \in Open
    /\ k \in Nat /\ k > cb[x].start
    /\ k \in Missing(cb[x]) \/ \E p \in net : Tells(p, x) /\ k <= p.ack

ToldCall ==
    \A k : Heard("call", k) =>
        /\ live("call")
        /\ (cb["call"].rstart = last("listen")) =>
             /\ cb["listen"].state # "Syncee"
             /\ live("listen") => k <= cb["listen"].recvd

ToldListen ==
    \A k : Heard("listen", k) =>
        (live("call") /\ cb["call"].rstart = last("listen") =>
           k <= cb["call"].recvd)

Told == ToldCall /\ ToldListen

\* An ack beyond the start of the last conversation is of that one.
LEMMA AckRises ==
    ASSUME Received, Rising, NEW x \in Side,
           NEW n \in 1 .. Len(plan.starts[x]), NEW i \in 1 .. n,
           NEW k \in Nat, k > start(x, n),
           NEW a \in Nat, k <= a, Within(a, x, i)
    PROVE  i = n
<1>1. /\ plan \in Plans /\ plan.messages[x] \in Nat
      /\ Len(plan.starts[x]) \in Nat
  BY PlanFacts DEF Received, TypeOK
<1>2. i \in 1 .. Len(plan.starts[x]) /\ i <= n
  BY <1>1
<1>3. start(x, i) \in Nat /\ start(x, n) \in Nat
  BY <1>1, <1>2, PlanFacts DEF start
<1>4. i < n => start(x, i) + plan.messages[x] < start(x, n)
  BY <1>1, <1>2 DEF Rising, start
<1> QED
  BY <1>1, <1>2, <1>3, <1>4 DEF Within

\* What moves x does not make it hear of more.
LEMMA HeardKept ==
    ASSUME Received, Agreement, NEW x \in Side, NEW d, NEW out,
           Moves(x, d, out), NEW k, Heard(x, k)'
    PROVE  /\ Heard(x, k)
           /\ ~Leaves(cb[x], d)
<1> DEFINE c == cb[x]
<1>1. /\ net' \subseteq net \cup out /\ cb'[x] = d /\ Goes(x, c, d)
      /\ \A p \in out : p.to # x
  <2>1. /\ net' \subseteq net \cup out /\ cb'[x] = d /\ Goes(x, c, d)
        /\ \A p \in out : p.to = peer(x)
    BY DEF Moves, MaySend, Received, TypeOK
  <2> QED
    BY <2>1, PeerFacts
<1>2. d.state \in Open /\ k \in Nat /\ k > d.start
      /\ (k \in Missing(d) \/ \E p \in net' : Tells(p, x) /\ k <= p.ack)
  BY <1>1 DEF Heard
<1>3. ~Leaves(c, d)
  BY <1>2 DEF Leaves, Open
<1>4. c.state \in Open /\ d.start = c.start
  BY <1>1, <1>2, <1>3 DEF Goes, Stays, Called, Taken, Open
<1>5. CASE k \in Missing(d)
  <2>1. k \in Missing(c) \/ \E p \in net : Tells(p, x) /\ k <= p.ack
    <3>1. CASE Stays(x, c, d)
      BY <3>1, <1>4, <1>5 DEF Stays
    <3>2. CASE Called(x, c, d) \/ Taken(x, c, d)
      BY <3>2, <1>5 DEF Called, Taken, Missing
    <3> QED
      BY <1>1, <1>3, <3>1, <3>2 DEF Goes
  <2> QED
    BY <1>2, <1>3, <1>4, <2>1 DEF Heard
<1>6. CASE \E p \in net' : Tells(p, x) /\ k <= p.ack
  <2>1. \E p \in net : Tells(p, x) /\ k <= p.ack
    BY <1>1, <1>6 DEF Tells
  <2> QED
    BY <1>2, <1>3, <1>4, <2>1 DEF Heard
<1> QED
  BY <1>2, <1>5, <1>6

\* What the listener has heard of, it has heard from its call.
LEMMA HeardMet ==
    ASSUME Received, Rising, Agreement, NEW k, Heard("listen", k)
    PROVE  Met /\ count["listen"] > 0
<1> DEFINE b == cb["listen"]
           n == count["listen"]
<1>1. n > 0 /\ b.start = last("listen") /\ k \in Nat /\ k > last("listen")
  BY Sides DEF Heard, Agreement, Calls, Open
<1>2. n \in 1 .. Len(plan.starts["listen"]) /\ Numbered
  BY <1>1, Sides, CountFacts DEF Rising
<1>3. CASE k \in Missing(b)
  <2>1. b.state # "Syncee"
    BY <1>3, Known, Sides DEF ConvOK, Missing
  <2>2. b.state # "Syncer"
    BY Known, Sides DEF ConvOK
  <2>3. live("listen")
    BY <2>1, <2>2 DEF Heard, Open, live
  <2> QED
    BY <1>1, <2>3 DEF Met
<1>4. CASE \E p \in net : Tells(p, "listen") /\ k <= p.ack
  <2>1. PICK p \in net : Tells(p, "listen") /\ k <= p.ack
    BY <1>4
  <2>2. p.ack \in Nat /\ p.ack # 0
    <3>1. p.ack \in Nat /\ start("listen", n) \in Nat
      BY <1>2, KnownPacket, CountFacts, Sides
    <3> QED
      BY <3>1, <1>1, <2>1 DEF last
  <2>3. PICK i \in 1 .. n : Within(p.ack, "listen", i)
    BY <2>1, <2>2 DEF Agreement, Acknowledged, Tells
  <2>4. i = n
    BY <1>1, <1>2, <2>1, <2>2, <2>3, AckRises, Sides DEF last
  <2> QED
    BY <1>1, <2>1, <2>3, <2>4 DEF Met
<1> QED
  BY <1>3, <1>4 DEF Heard

\* A move of the listener keeps Told.
LEMMA ToldListenMoves ==
    ASSUME Received, Rising, Agreement, Told, NEW d, NEW out,
           Moves("listen", d, out)
    PROVE  Told'
<1> DEFINE a == cb["call"]
           c == cb["listen"]
<1>1. /\ plan' = plan /\ count' = count /\ net' \subseteq net \cup out
      /\ cb'["call"] = a /\ cb'["listen"] = d
      /\ Goes("listen", c, d) /\ ConvOK("listen", d)
  BY Sides DEF Moves, Received, TypeOK
<1>2. Numbered /\ Agreement'
  BY AgreementListen DEF Rising
<1>3. /\ d.rstart = c.rstart
      /\ \A p \in out : p.type \in Acking =>
           \/ p.ack = 0
           \/ /\ d.state \in {"Syncee", "Established"}
              /\ count["listen"] > 0
              /\ p.ack \in d.rstart .. d.rstart + plan.messages["call"]
              /\ p.ack <= d.recvd
              /\ d.state = "Syncee" => p.ack = d.rstart
  BY Sides, MoveFacts
<1>4. \A p \in out : p \in Packet
  BY DEF Moves, MaySend
<1>5. ASSUME NEW k, Heard("call", k)'
      PROVE  /\ a.state = "Established"
             /\ a.rstart = last("listen") =>
                  /\ d.state # "Syncee"
                  /\ d.state = "Established" => k <= d.recvd
  <2>1. /\ a.state \in Open /\ k \in Nat /\ k > a.start /\ a.start \in Nat
        /\ (k \in Missing(a) \/ \E p \in net' : Tells(p, "call") /\ k <= p.ack)
    BY <1>1, <1>5, Known, Sides DEF Heard
  <2>2. CASE Heard("call", k)
    <3>1. /\ a.state = "Established"
          /\ a.rstart = last("listen") =>
               /\ c.state # "Syncee"
               /\ c.state = "Established" => k <= c.recvd
      BY <2>2 DEF Told, ToldCall, live
    <3>2. /\ d.state = "Syncee" => c.state = "Syncee"
          /\ d.state = "Established" =>
               \/ c.state = "Syncee"
               \/ c.state = "Established" /\ c.recvd <= d.recvd
      BY <1>1, Known, Sides DEF Goes, Stays, Leaves, Called, Taken, ConvOK, Open
    <3>3. c.recvd \in Nat /\ d.recvd \in Nat
      BY Known, Sides DEF Moves, Conversation
    <3> QED
      BY <2>1, <3>1, <3>2, <3>3
  <2>3. CASE \E p \in out : Tells(p, "call") /\ k <= p.ack
    <3>1. PICK p \in out : Tells(p, "call") /\ k <= p.ack
      BY <2>3
    <3>2. p.ack \in Nat /\ p.ack # 0
      BY <1>4, <2>1, <3>1 DEF Packet
    <3>3. /\ d.state \in {"Syncee", "Established"}
          /\ count["listen"] > 0
          /\ p.ack \in d.rstart .. d.rstart + plan.messages["call"]
          /\ p.ack <= d.recvd
          /\ d.state = "Syncee" => p.ack = d.rstart
      BY <1>3, <3>1, <3>2 DEF Tells
    <3>4. PICK m \in 1 .. count["call"] : d.rstart = start("call", m)
      BY <1>3, <3>3 DEF Agreement, Partners
    <3>5. /\ count["call"] \in 1 .. Len(plan.starts["call"])
          /\ a.start = start("call", count["call"])
      BY <1>2, <2>1, CountFacts, Sides DEF Agreement, Calls, last, Open
    <3>6. m = count["call"]
      BY <2>1, <3>1, <3>2, <3>3, <3>4, <3>5, AckRises, Sides DEF Within
    <3>7. d.rstart = a.start
      BY <3>4, <3>5, <3>6
    <3>8. d.state # "Syncee"
      BY <2>1, <3>1, <3>2, <3>3, <3>7
    <3>9. Met' /\ count'["listen"] > 0
      BY <1>1, <3>3, <3>8 DEF Met, live
    <3>10. cb'["call"].state = "Syncer" => cb'["call"].start # cb'["listen"].rstart
      BY <1>2, <3>9 DEF Agreement, Meeting
    <3>11. a.state = "Established"
      BY <1>1, <2>1, <3>7, <3>10, Known, Sides DEF Open, ConvOK
    <3>12. d.recvd \in Nat
      BY DEF Moves, Conversation
    <3> QED
      BY <2>1, <3>1, <3>2, <3>3, <3>8, <3>11, <3>12
  <2> QED
    BY <1>1, <2>1, <2>2, <2>3 DEF Heard
<1>6. ASSUME NEW k, Heard("listen", k)'
      PROVE  live("call") /\ a.rstart = last("listen") => k <= a.recvd
  BY <1>6, HeardKept, Sides DEF Told, ToldListen
<1> QED
  BY <1>1, <1>5, <1>6 DEF Told, ToldCall, ToldListen, live, last, start

\* A move of the caller keeps Told.
LEMMA ToldCallMoves ==
    ASSUME Received, Rising, Agreement, Told, NEW d, NEW out,
           Moves("call", d, out)
    PROVE  Told'
<1> DEFINE c == cb["call"]
           b == cb["listen"]
<1>1. /\ plan' = plan /\ count' = count /\ net' \subseteq net \cup out
      /\ cb'["call"] = d /\ cb'["listen"] = b
      /\ Goes("call", c, d) /\ ConvOK("call", d)
  BY Sides DEF Moves, Received, TypeOK
<1>2. Numbered
  BY DEF Rising
<1>3. ASSUME NEW k, Heard("call", k)'
      PROVE  /\ d.state = "Established"
             /\ d.rstart = last("listen") =>
                  /\ b.state # "Syncee"
                  /\ b.state = "Established" => k <= b.recvd
  <2>1. Heard("call", k) /\ ~Leaves(c, d)
    BY <1>3, HeardKept, Sides
  <2>2. /\ c.state = "Established"
        /\ c.rstart = last("listen") =>
             /\ b.state # "Syncee"
             /\ b.state = "Established" => k <= b.recvd
    BY <2>1 DEF Told, ToldCall, live
  <2>3. d.state = c.state /\ d.rstart = c.rstart
    BY <1>1, <2>1, <2>2 DEF Goes, Stays, Called, Taken
  <2> QED
    BY <2>2, <2>3
<1>4. ASSUME NEW k, Heard("listen", k)', d.state = "Established",
             d.rstart = last("listen")
      PROVE  k <= d.recvd
  <2>1. /\ b.state \in Open /\ k \in Nat /\ k > b.start /\ b.start \in Nat
        /\ (k \in Missing(b) \/ \E p \in net' : Tells(p, "listen") /\ k <= p.ack)
    BY <1>1, <1>4, Known, Sides DEF Heard
  <2>2. d.recvd \in Nat /\ c.recvd \in Nat
    BY Known, Sides DEF Moves, Conversation
  <2>3. CASE Heard("listen", k)
    <3>1. CASE Stays("call", c, d)
      <4>1. c.state = "Established" /\ c.rstart = d.rstart /\ c.recvd <= d.recvd
        BY <3>1, <1>4 DEF Stays, Open
      <4>2. k <= c.recvd
        BY <2>3, <4>1, <1>4 DEF Told, ToldListen, live
      <4> QED
        BY <2>1, <2>2, <4>1, <4>2
    <3>2. CASE Called("call", c, d)
      <4>1. Met /\ count["listen"] > 0
        BY <2>3, HeardMet
      <4>2. c.start = last("call") /\ count["call"] > 0
        BY <3>2, Sides DEF Called, Agreement, Calls
      <4> QED
        BY <1>2, <3>2, <4>1, <4>2, CalledUnmet
    <3> QED
      BY <1>1, <1>4, <3>1, <3>2, Known, Sides DEF Goes, Leaves, Taken, ConvOK
  <2>4. CASE \E p \in out : Tells(p, "listen") /\ k <= p.ack
    <3>1. PICK p \in out : Tells(p, "listen") /\ k <= p.ack
      BY <2>4
    <3>2. p.ack \in Nat /\ p.ack # 0
      BY <2>1, <3>1 DEF Moves, MaySend, Packet
    <3>3. p.ack <= d.recvd
      BY <3>1, <3>2, MoveFacts, Sides DEF Tells
    <3> QED
      BY <2>1, <2>2, <3>1, <3>2, <3>3
  <2> QED
    BY <1>1, <2>1, <2>3, <2>4 DEF Heard
<1> QED
  BY <1>1, <1>3, <1>4 DEF Told, ToldCall, ToldListen, live, last, start

\* A call keeps Told.
LEMMA ToldConnect ==
    ASSUME Received, Rising, Agreement, Told, connect
    PROVE  Told'
<1> DEFINE n == count["call"] + 1
           d == cb'["call"]
<1>1. /\ plan' = plan /\ cb'["listen"] = cb["listen"]
      /\ d.state = "Syncer"
      /\ n \in 1 .. Len(plan.starts["call"])
      /\ d.start = start("call", n) /\ d.next = d.start + 1
      /\ \A p \in net' : p \in net \/ p.type = "sync"
  BY ConnectFields DEF Rising
<1>2. /\ start("call", n) \in Nat
      /\ count["call"] \in Nat /\ n \notin 1 .. count["call"]
      /\ 1 .. count["call"] \subseteq 1 .. n
  BY <1>1, Sides, CountFacts DEF Rising
<1> HIDE DEF n
<1>3. ASSUME NEW k, Heard("call", k)' PROVE FALSE
  <2>1. k \in Nat /\ k > start("call", n)
        /\ (k \in Missing(d) \/ \E p \in net' : Tells(p, "call") /\ k <= p.ack)
    BY <1>1, <1>3 DEF Heard
  <2>2. k \notin Missing(d)
    BY <1>1, <1>2 DEF Missing
  <2>3. PICK p \in net' : Tells(p, "call") /\ k <= p.ack
    BY <2>1, <2>2
  <2>4. p \in net /\ p.type \in Acking /\ p.to = "call"
    BY <1>1, <2>3 DEF Tells, Acking, Data
  <2>5. p.ack \in Nat /\ p.ack # 0
    BY <1>2, <2>1, <2>3, <2>4, KnownPacket
  <2>6. PICK i \in 1 .. count["call"] : Within(p.ack, "call", i)
    BY <2>4, <2>5 DEF Agreement, Acknowledged
  <2>7. i \in 1 .. n /\ i # n
    BY <1>2, <2>6
  <2> QED
    BY <1>1, <2>1, <2>3, <2>5, <2>6, <2>7, AckRises, Sides
<1> QED
  BY <1>1, <1>3 DEF Told, ToldCall, ToldListen, live

\* Accepting a call keeps Told.
LEMMA ToldAccept ==
    ASSUME Received, Rising, Agreement, Told, NEW p \in net, Accept(p)
    PROVE  Told'
<1>1. /\ plan' = plan /\ cb'["call"] = cb["call"]
      /\ \A q \in net' : q \in net \/ q.type = "sync"
  BY AcceptFields DEF Rising
<1>2. ~Met'
  BY AgreementAccept DEF Rising
<1>3. live("call")' => ~(cb["call"].rstart = last("listen"))'
  BY <1>2 DEF Met
<1>4. ASSUME NEW k, Heard("call", k)' PROVE live("call")'
  <2>1. Heard("call", k)
    BY <1>1, <1>4 DEF Heard, Tells, Acking, Data
  <2> QED
    BY <1>1, <2>1 DEF Told, ToldCall, live
<1> QED
  BY <1>3, <1>4 DEF Told, ToldCall, ToldListen

\* Every step keeps Told.
LEMMA ToldStep ==
    ASSUME Received, Rising, Agreement, Told, [Next]_vars
    PROVE  Told'
<1>1. CASE UNCHANGED vars \/ lose
  <2>1. plan' = plan /\ cb' = cb /\ count' = count /\ net' \subseteq net
    BY <1>1 DEF lose, vars
  <2>2. \A x, k : Heard(x, k)' => Heard(x, k)
    BY <2>1 DEF Heard
  <2> QED
    BY <2>1, <2>2 DEF Told, ToldCall, ToldListen, live, last, start
<1>2. CASE connect
  BY <1>2, ToldConnect
<1>3. CASE \E p \in net : Accept(p)
  BY <1>3, ToldAccept
<1>4. CASE Move
  <2>1. PICK x \in Side : \E d, out : Moves(x, d, out)
    BY <1>4 DEF Move
  <2>2. PICK d, out : Moves(x, d, out)
    BY <2>1
  <2> QED
    BY <2>2, ToldListenMoves, ToldCallMoves, Sides
<1> QED
  BY <1>1, <1>2, <1>3, <1>4, Steps DEF Rising, Numbered

\* A sender (ilkick) frees no message before the other side has it, whatever
\* acks come late (ilackto): a message that is gone from unacked is one that
\* the conversation it is established with has received.
THEOREM KeptUntilReceived ==
    ASSUME Rising
    PROVE  Spec => []NothingForgotten
<1>1. Init => Received /\ Agreement /\ Told
  <2>1. Init => Told
    BY Sides DEF Init, Told, ToldCall, ToldListen, Heard, Open, Closed
  <2> QED
    BY <2>1, ReceivedInit, AgreementInit
<1>2. Received /\ Agreement /\ Told /\ [Next]_vars =>
        Received' /\ Agreement' /\ Told'
  BY ReceivedStep, AgreementStep, ToldStep DEF Rising, Numbered
<1>3. Received /\ Agreement /\ Told => NothingForgotten
  <2> SUFFICES ASSUME Received, Agreement, Told, NEW x \in Side,
                      live(x), live(peer(x)),
                      NEW id \in cb[x].start + 1 .. cb[x].next - 1,
                      id > cb[peer(x)].recvd, id \notin cb[x].unacked
               PROVE  FALSE
    BY DEF NothingForgotten
  <2>1. /\ cb[x].start \in Nat /\ cb[x].next \in Nat
        /\ cb[peer(x)].recvd \in Nat
    BY Known, PeerFacts
  <2>2. Heard(x, id)
    BY <2>1 DEF Heard, Missing, live, Open
  <2>3. live("call") /\ live("listen")
    BY Sides
  <2>4. cb["call"].rstart = last("listen")
    <3>1. count["listen"] > 0
      BY <2>3, Sides DEF Agreement, Calls, live
    <3> QED
      BY <2>3, <3>1 DEF Agreement, Meeting, Met
  <2>5. id <= cb[peer(x)].recvd
    BY <2>2, <2>3, <2>4, Sides DEF Told, ToldCall, ToldListen
  <2> QED
    BY <2>1, <2>5
<1> QED
  BY <1>1, <1>2, <1>3, PTL DEF Spec

\* All of it together: what is read is what was sent (iliput, ilpullup), what
\* is not yet read is still there to be sent again (ilackto), and two
\* established sides are established with each other (syncs in iliput).
THEOREM ConversationsSound ==
    ASSUME Rising
    PROVE  Spec => []ConversationsOK
<1>1. Numbered /\ Separate
  BY DEF Rising, Numbered
<1>2. Spec => []InOrder
  BY <1>1, ReadInOrder
<1>3. Spec => []Agreed
  BY <1>1, BothAgree
<1>4. Spec => []NothingForgotten
  BY KeptUntilReceived
<1>5. InOrder /\ Agreed /\ NothingForgotten => ConversationsOK
  BY DEF ConversationsOK
<1> QED
  BY <1>2, <1>3, <1>4, <1>5, PTL
=============================================================================
