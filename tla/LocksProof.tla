----------------------------- MODULE LocksProof -----------------------------
(***************************************************************************)
(* The locks, for any numbers of processes, processors and locks.          *)
(*                                                                         *)
(* The queueing locks of port/qlock.c hand the lock over, so that the      *)
(* counts in the lock, the queue and the states of the processes have to   *)
(* agree at all times: q->writer and q->readers count those who own the    *)
(* lock, those who were chosen and do not run yet included.                *)
(*                                                                         *)
(* The spin locks of port/taslock.c: who holds a lock stays on its         *)
(* processor, and the interrupt level of a processor is what those who use *)
(* it, the handler before the process, have made of it.                    *)
(***************************************************************************)
EXTENDS MCLocks, QueueTheorems

\* The state of a writer that waits.
writerWaits == IF kind = "QLock" THEN "Queueing" ELSE "QueueingW"

\* Where a process is says which state it is in and whether it is queued; a
\* writer that was taken off the queue waits to be readied by somebody.
Shape(p) ==
    \/ /\ pc[p] \in {"out", "reading", "writing", "readying"}
       /\ state[p] = "Running" /\ ~queued(p)
    \/ pc[p] = "rwait" /\ state[p] = "QueueingR" /\ queued(p)
    \/ pc[p] = "rwait" /\ state[p] = "Ready" /\ ~queued(p)
    \/ pc[p] = "wwait" /\ state[p] = writerWaits /\ queued(p)
    \/ /\ pc[p] = "wwait" /\ state[p] = writerWaits /\ ~queued(p)
       /\ \E q \in Proc : hand[q] = p
    \/ pc[p] = "wwait" /\ state[p] = "Ready" /\ ~queued(p)

\* Who readies somebody readies a writer that was chosen, and nobody else
\* does.
HandOK(q) ==
    /\ hand[q] # nil <=> pc[q] = "readying"
    /\ hand[q] # nil =>
         /\ pc[hand[q]] = "wwait" /\ ~queued(hand[q])
         /\ state[hand[q]] # "Ready"
    /\ \A r \in Proc : hand[q] # nil /\ hand[r] = hand[q] => r = q

\* A QLock has no readers.
KindOK == \A p \in Proc : pc[p] \in {"rwait", "reading"} => kind = "RWlock"

\* Readers share the lock at once: they wait only behind a writer.
LeadOK == writer = 0 /\ queue # <<>> => state[Head(queue)] # "QueueingR"

\* Whoever waits waits for an owner.
Owned == queue # <<>> => writer = 1 \/ readers > 0

IInv ==
    /\ TypeOK
    /\ Once(queue)
    /\ \A p \in Proc : Shape(p) /\ HandOK(p)
    /\ KindOK /\ LeadOK /\ Owned
    /\ Exclusion

-----------------------------------------------------------------------------
(***************************************************************************)
(* What a step does to those who own the lock.                             *)
(***************************************************************************)
USE RWlockAssumption

LEMMA OwnersFinite ==
    /\ IsFiniteSet(Readers) /\ IsFiniteSet(Writers)
    /\ Cardinality(Readers) \in Nat /\ Cardinality(Writers) \in Nat
  BY FS_Subset, FS_CardinalityType DEF Readers, Writers

LEMMA QueuedOn ==
    \A q : (queued(q) <=> On(q, queue)) /\ (queued(q)' <=> On(q, queue'))
  BY DEF queued, On

\* A reader that is awake is counted, and excludes the writers.
LEMMA ReaderCounted ==
    ASSUME IInv, NEW p \in Proc, pc[p] = "reading"
    PROVE  readers > 0 /\ writer = 0 /\ Writers = {} /\ kind = "RWlock"
<1>1. p \in Readers
  BY DEF Readers
<1>2. Cardinality(Readers) # 0
  BY <1>1, OwnersFinite, FS_EmptySet
<1>3. readers > 0 /\ writer = 0
  BY <1>2, OwnersFinite DEF IInv, TypeOK, Exclusion
<1>4. Writers = {}
  BY <1>3, OwnersFinite, FS_EmptySet DEF IInv, Exclusion
<1> QED
  BY <1>3, <1>4 DEF IInv, KindOK

\* A writer that is awake is the only owner.
LEMMA WriterCounted ==
    ASSUME IInv, NEW p \in Proc, pc[p] = "writing"
    PROVE  readers = 0 /\ writer = 1 /\ Writers = {p} /\ Readers = {}
<1>1. p \in Writers
  BY DEF Writers
<1>2. Cardinality(Writers) # 0
  BY <1>1, OwnersFinite, FS_EmptySet
<1>3. readers = 0 /\ writer = 1
  BY <1>2, OwnersFinite DEF IInv, TypeOK, Exclusion
<1>4. Readers = {}
  BY <1>3, OwnersFinite, FS_EmptySet DEF IInv, Exclusion
<1>5. PICK q : Writers = {q}
  BY <1>3, OwnersFinite, FS_Singleton DEF IInv, Exclusion
<1> QED
  BY <1>1, <1>3, <1>4, <1>5

-----------------------------------------------------------------------------
(***************************************************************************)
(* The invariant is inductive, an action at a time.                        *)
(***************************************************************************)
LEMMA EnqueueStep ==
    ASSUME IInv, NEW p \in Proc, NEW how, NEW wait, UNCHANGED kind,
           enqueue(p, how, wait), queue = <<>> => writer = 1 \/ readers > 0,
           \/ /\ wait = "rwait" /\ how = "QueueingR" /\ kind = "RWlock"
              /\ writer # 0 \/ queue # <<>>
           \/ wait = "wwait" /\ how = writerWaits
    PROVE  IInv'
<1>1. /\ queue' \in Seq(Proc) /\ queue' # <<>>
      /\ \A q : queued(q)' <=> queued(q) \/ q = p
      /\ Head(queue') = IF queue = <<>> THEN p ELSE Head(queue)
  BY AppendQueue, QueuedOn DEF IInv, TypeOK, enqueue
<1>2. pc[p] = "out" /\ ~queued(p) /\ state[p] = "Running"
  BY DEF enqueue, Goto, IInv, Shape
<1>3. Once(queue')
  BY <1>2, AppendQueue, QueuedOn DEF IInv, TypeOK, enqueue
<1>4. TypeOK'
  BY <1>1 DEF IInv, TypeOK, enqueue, Goto, writerWaits
<1>5. ASSUME NEW q \in Proc PROVE Shape(q)' /\ HandOK(q)'
  <2>1. /\ pc' = [pc EXCEPT ![p] = wait] /\ state' = [state EXCEPT ![p] = how]
        /\ hand' = hand /\ kind' = kind
    BY DEF enqueue, Goto
  <2>2. Shape(q)'
    BY <1>1, <1>2, <2>1 DEF IInv, TypeOK, Shape, writerWaits
  <2>3. HandOK(q)'
    <3>1. hand[q] # nil => hand[q] # p
      BY <1>2 DEF IInv, HandOK
    <3>2. wait # "readying"
      OBVIOUS
    <3> QED
      BY <1>1, <1>2, <2>1, <3>1, <3>2 DEF IInv, TypeOK, HandOK
  <2> QED
    BY <2>2, <2>3
<1>6. KindOK'
  BY DEF IInv, TypeOK, KindOK, enqueue, Goto
<1>7. LeadOK' /\ Owned'
  <2>1. queue # <<>> => Head(queue) # p
    BY <1>2, TailQueue, QueuedOn DEF IInv, TypeOK
  <2>2. queue # <<>> => Head(queue) \in Proc
    BY TailQueue DEF IInv, TypeOK
  <2> QED
    BY <1>1, <2>1, <2>2 DEF IInv, TypeOK, LeadOK, Owned, enqueue, writerWaits
<1>8. Readers' = Readers /\ Writers' = Writers
  BY <1>1, <1>2 DEF IInv, TypeOK, Readers, Writers, enqueue, Goto
<1>9. Exclusion'
  BY <1>8 DEF IInv, Exclusion, enqueue
<1> QED
  BY <1>3, <1>4, <1>5, <1>6, <1>7, <1>9 DEF IInv

\* A lock that is free, or shared by readers, is taken at once.
LEMMA TakeStep ==
    ASSUME IInv, NEW p \in Proc, UNCHANGED <<kind, queue, state, hand>>,
           \/ /\ Goto(p, "out", "reading") /\ kind = "RWlock"
              /\ writer = 0 /\ queue = <<>>
              /\ readers' = readers + 1 /\ writer' = writer
           \/ /\ Goto(p, "out", "writing")
              /\ writer = 0 /\ readers = 0
              /\ writer' = 1 /\ readers' = readers
    PROVE  IInv'
<1>1. pc[p] = "out" /\ ~queued(p) /\ state[p] = "Running"
  BY DEF Goto, IInv, Shape
<1>2. \A q : queued(q)' <=> queued(q)
  BY DEF queued
<1>3. TypeOK'
  BY DEF IInv, TypeOK, Goto
<1>4. Once(queue')
  BY DEF IInv, Once
<1>5. ASSUME NEW q \in Proc PROVE Shape(q)' /\ HandOK(q)'
  <2>1. \E to \in {"reading", "writing"} : pc' = [pc EXCEPT ![p] = to]
    BY DEF Goto
  <2>2. Shape(q)'
    BY <1>1, <1>2, <2>1 DEF IInv, TypeOK, Shape, writerWaits
  <2>3. HandOK(q)'
    BY <1>1, <1>2, <2>1 DEF IInv, TypeOK, HandOK
  <2> QED
    BY <2>2, <2>3
<1>6. KindOK'
  BY DEF IInv, TypeOK, KindOK, Goto
<1>7. LeadOK' /\ Owned'
  BY DEF IInv, TypeOK, LeadOK, Owned
<1>8. Exclusion'
  <2>1. CASE Goto(p, "out", "reading")
    <3>1. readers' = readers + 1 /\ writer' = 0 /\ writer = 0
      BY <2>1 DEF Goto, IInv, TypeOK
    <3>2. Readers' = Readers \cup {p} /\ Writers' = Writers /\ p \notin Readers
      BY <1>1, <1>2, <2>1 DEF IInv, TypeOK, Readers, Writers, Goto
    <3>3. Cardinality(Readers)' = Cardinality(Readers) + 1
      BY <3>2, OwnersFinite, FS_AddElement
    <3>4. Cardinality(Writers)' = Cardinality(Writers)
      BY <3>2
    <3>5. writer' = Cardinality(Writers)' /\ readers' = Cardinality(Readers)'
      BY <3>1, <3>3, <3>4 DEF IInv, Exclusion
    <3> QED
      BY <3>1, <3>5 DEF Exclusion
  <2>2. CASE Goto(p, "out", "writing")
    <3>1. readers' = 0 /\ readers = 0 /\ writer' = 1 /\ writer = 0
      BY <2>2 DEF Goto, IInv, TypeOK
    <3>2. Readers' = Readers /\ Writers' = Writers \cup {p} /\ p \notin Writers
      BY <1>1, <1>2, <2>2 DEF IInv, TypeOK, Readers, Writers, Goto
    <3>3. Cardinality(Writers)' = Cardinality(Writers) + 1
      BY <3>2, OwnersFinite, FS_AddElement
    <3>4. Cardinality(Readers)' = Cardinality(Readers)
      BY <3>2
    <3>5. writer' = Cardinality(Writers)' /\ readers' = Cardinality(Readers)'
      <4>1. Cardinality(Writers) = 0
        BY <3>1 DEF IInv, Exclusion
      <4>2. Cardinality(Writers)' = 1
        BY <4>1, <3>3
      <4>3. Cardinality(Readers)' = 0
        BY <3>1, <3>4 DEF IInv, Exclusion
      <4> QED
        BY <4>2, <4>3, <3>1
    <3> QED
      BY <3>1, <3>5 DEF Exclusion
  <2> QED
    BY <2>1, <2>2
<1> QED
  BY <1>3, <1>4, <1>5, <1>6, <1>7, <1>8 DEF IInv

\* The lock is given up, by a reader while there are others, or by somebody
\* whom nobody waits for.
LEMMA LeaveStep ==
    ASSUME IInv, NEW p \in Proc, UNCHANGED <<kind, queue, state, hand>>,
           \/ /\ Goto(p, "reading", "out")
              /\ readers - 1 > 0 \/ queue = <<>>
              /\ readers' = readers - 1 /\ writer' = writer
           \/ /\ Goto(p, "writing", "out") /\ queue = <<>>
              /\ writer' = 0 /\ readers' = readers
    PROVE  IInv'
<1>1. pc[p] \in {"reading", "writing"} /\ ~queued(p) /\ state[p] = "Running"
  BY DEF Goto, IInv, Shape
<1>2. \A q : queued(q)' <=> queued(q)
  BY DEF queued
<1>3. TypeOK'
  BY ReaderCounted DEF IInv, TypeOK, Goto
<1>4. Once(queue')
  BY DEF IInv, Once
<1>5. ASSUME NEW q \in Proc PROVE Shape(q)' /\ HandOK(q)'
  <2>1. pc' = [pc EXCEPT ![p] = "out"]
    BY DEF Goto
  <2>2. Shape(q)'
    BY <1>1, <1>2, <2>1 DEF IInv, TypeOK, Shape, writerWaits
  <2>3. HandOK(q)'
    BY <1>1, <1>2, <2>1 DEF IInv, TypeOK, HandOK
  <2> QED
    BY <2>2, <2>3
<1>6. KindOK'
  BY DEF IInv, TypeOK, KindOK, Goto
<1>7. LeadOK' /\ Owned'
  BY ReaderCounted, WriterCounted DEF IInv, TypeOK, LeadOK, Owned, Goto
<1>8. Exclusion'
  <2>1. CASE Goto(p, "reading", "out")
    <3>1. readers' = readers - 1 /\ writer' = 0 /\ writer = 0
      BY <2>1, ReaderCounted DEF Goto, IInv, TypeOK
    <3>2. Readers' = Readers \ {p} /\ Writers' = Writers /\ p \in Readers
      BY <1>1, <1>2, <2>1 DEF IInv, TypeOK, Readers, Writers, Goto
    <3>3. Cardinality(Readers)' = Cardinality(Readers) - 1
      BY <3>2, OwnersFinite, FS_RemoveElement
    <3>4. Cardinality(Writers)' = Cardinality(Writers)
      BY <3>2
    <3>5. writer' = Cardinality(Writers)' /\ readers' = Cardinality(Readers)'
      BY <3>1, <3>3, <3>4 DEF IInv, Exclusion
    <3> QED
      BY <3>1, <3>5 DEF Exclusion
  <2>2. CASE Goto(p, "writing", "out")
    <3>1. readers' = 0 /\ writer' = 0 /\ Writers = {p} /\ Readers = {}
      BY <2>2, WriterCounted DEF Goto, IInv, TypeOK
    <3>2. Readers' = Readers /\ Writers' = Writers \ {p}
      BY <1>1, <1>2, <2>2 DEF IInv, TypeOK, Readers, Writers, Goto
    <3> QED
      BY <3>1, <3>2, FS_EmptySet DEF Exclusion
  <2> QED
    BY <2>1, <2>2
<1> QED
  BY <1>3, <1>4, <1>5, <1>6, <1>7, <1>8 DEF IInv

\* The last reader, or the writer, hands the lock to the writer that is first
\* in the queue.
LEMMA HandStep ==
    ASSUME IInv, NEW p \in Proc, UNCHANGED <<kind, state>>, queue # <<>>,
           hand' = [hand EXCEPT ![p] = Head(queue)], queue' = Tail(queue),
           writer' = 1,
           \/ /\ Goto(p, "reading", "readying") /\ ~(readers - 1 > 0)
              /\ readers' = readers - 1
           \/ /\ Goto(p, "writing", "readying")
              /\ state[Head(queue)] # "QueueingR"
              /\ readers' = readers
    PROVE  IInv'
<1>0. PICK h \in Proc : h = Head(queue)
  BY TailQueue DEF IInv, TypeOK
<1>1. /\ queue' \in Seq(Proc) /\ queued(h)
      /\ \A q : queued(q)' => queued(q)
      /\ \A q : queued(q) => queued(q)' \/ q = h
  BY <1>0, TailQueue, QueuedOn DEF IInv, TypeOK
<1>2. Once(queue') /\ ~queued(h)'
  <2>1. Once(Tail(queue)) /\ ~On(h, Tail(queue))
    BY <1>0, TailQueue DEF IInv, TypeOK
  <2> QED
    BY <2>1, QueuedOn
<1>3. /\ pc[p] \in {"reading", "writing"} /\ ~queued(p)
      /\ state[p] = "Running" /\ hand[p] = nil
      /\ pc' = [pc EXCEPT ![p] = "readying"]
  BY DEF Goto, IInv, Shape, HandOK
<1>4. /\ readers' = 0
      /\ Readers \cup Writers = {p}
      /\ state[h] # "QueueingR"
  <2>1. CASE Goto(p, "reading", "readying")
    <3>1. readers > 0 /\ writer = 0 /\ Writers = {} /\ p \in Readers
      BY <2>1, ReaderCounted DEF Goto, Readers
    <3>2. readers = 1
      BY <2>1, <3>1 DEF Goto, IInv, TypeOK
    <3>3. \E q : Readers = {q}
      BY <3>2, OwnersFinite, FS_Singleton DEF IInv, Exclusion
    <3>4. readers' = 0
      BY <2>1, <3>2 DEF Goto
    <3> QED
      BY <3>1, <3>3, <3>4, <1>0 DEF IInv, LeadOK
  <2>2. CASE Goto(p, "writing", "readying")
    BY <2>2, <1>0, WriterCounted DEF Goto
  <2> QED
    BY <2>1, <2>2
<1>5. pc[h] = "wwait" /\ state[h] = writerWaits /\ h # p /\ h # nil
  BY <1>1, <1>3, <1>4 DEF IInv, Shape
<1>6. hand' = [hand EXCEPT ![p] = h]
  BY <1>0
<1>w. writerWaits' = writerWaits /\ state' = state
  BY DEF writerWaits
<1>7. TypeOK'
  BY <1>1, <1>3, <1>4, <1>6 DEF IInv, TypeOK
<1>8. ASSUME NEW q \in Proc PROVE Shape(q)'
  <2>1. CASE q = p
    BY <2>1, <1>1, <1>3 DEF IInv, TypeOK, Shape
  <2>2. CASE q = h
    <3>1. pc'[q] = "wwait" /\ state'[q] = writerWaits' /\ ~queued(q)'
      BY <2>2, <1>2, <1>3, <1>5, <1>w DEF IInv, TypeOK
    <3>2. hand'[p] = q
      BY <2>2, <1>6 DEF IInv, TypeOK
    <3> QED
      BY <3>1, <3>2 DEF Shape
  <2>3. CASE q # p /\ q # h
    <3>1. /\ pc'[q] = pc[q] /\ state'[q] = state[q]
          /\ queued(q)' <=> queued(q)
      BY <2>3, <1>1, <1>3, <1>w DEF IInv, TypeOK
    <3>2. (\E r \in Proc : hand[r] = q) => \E r \in Proc : hand'[r] = q
      <4> SUFFICES ASSUME NEW r \in Proc, hand[r] = q PROVE hand'[r] = q
        OBVIOUS
      <4>1. q # nil
        OBVIOUS
      <4> QED
        BY <4>1, <1>3, <1>6 DEF IInv, TypeOK
    <3> QED
      BY <3>1, <3>2, <1>w DEF IInv, Shape
  <2> QED
    BY <2>1, <2>2, <2>3
<1>9. ASSUME NEW q \in Proc PROVE HandOK(q)'
  <2>1. \A r \in Proc : hand[r] # nil => hand[r] # h /\ hand[r] # p
    BY <1>1, <1>3 DEF IInv, HandOK
  <2>2. CASE q = p
    <3>1. /\ hand'[q] = h /\ pc'[q] = "readying" /\ pc'[h] = "wwait"
          /\ state'[h] # "Ready"
      BY <2>2, <1>3, <1>5, <1>6, <1>1 DEF IInv, TypeOK, writerWaits
    <3>2. \A r \in Proc : hand'[r] = h => r = p
      BY <2>1, <1>5, <1>6 DEF IInv, TypeOK
    <3>3. hand'[q] # nil /\ ~queued(hand[q])'
      BY <3>1, <1>2, <1>5
    <3> QED
      BY <3>1, <3>2, <3>3, <2>2 DEF HandOK
  <2>3. CASE q # p
    <3>1. hand'[q] = hand[q] /\ pc'[q] = pc[q]
      BY <2>3, <1>3, <1>6 DEF IInv, TypeOK
    <3>2. hand[q] # nil =>
            /\ hand[q] \in Proc /\ pc'[hand[q]] = pc[hand[q]]
            /\ ~queued(hand[q])'
      BY <2>1, <1>1, <1>3 DEF IInv, TypeOK, HandOK
    <3>3. \A r \in Proc : hand[q] # nil /\ hand'[r] = hand[q] => r = q
      BY <2>1, <1>6 DEF IInv, TypeOK, HandOK
    <3> QED
      BY <3>1, <3>2, <3>3 DEF IInv, HandOK
  <2> QED
    BY <2>2, <2>3
<1>10. KindOK' /\ LeadOK' /\ Owned'
  BY <1>3 DEF IInv, TypeOK, KindOK, LeadOK, Owned
<1>11. Exclusion'
  <2>1. Readers' = {} /\ Writers' = {h}
    <3>1. \A q \in Proc : q # p /\ q # h =>
            pc'[q] = pc[q] /\ (queued(q)' <=> queued(q))
      BY <1>1, <1>3 DEF IInv, TypeOK
    <3>2. pc'[p] = "readying" /\ pc'[h] = "wwait"
      BY <1>1, <1>3, <1>5 DEF IInv, TypeOK
    <3>3. \A q \in Proc : q # p => q \notin Readers /\ q \notin Writers
      BY <1>4
    <3> QED
      BY <3>1, <3>2, <3>3, <1>1, <1>2 DEF Readers, Writers
  <2>2. Cardinality(Readers)' = 0 /\ Cardinality(Writers)' = 1
    BY <2>1, FS_EmptySet, FS_Singleton
  <2> QED
    BY <2>2, <1>4 DEF Exclusion
<1> QED
  BY <1>2, <1>7, <1>8, <1>9, <1>10, <1>11 DEF IInv

\* How many readers wait at the head of the queue.
LEMMA Leading ==
    ASSUME IInv, queue # <<>>, state[Head(queue)] = "QueueingR"
    PROVE  \E k \in 0 .. Len(queue) :
             /\ k = leading /\ k > 0
             /\ \A i \in 1 .. k : state[queue[i]] = "QueueingR"
             /\ k < Len(queue) => state[queue[k + 1]] # "QueueingR"
<1> DEFINE S == {k \in 0 .. Len(queue) :
                   k < Len(queue) => state[queue[k + 1]] # "QueueingR"}
           P(k) == /\ \A i \in 1 .. k : state[queue[i]] = "QueueingR"
                   /\ k < Len(queue) => state[queue[k + 1]] # "QueueingR"
<1>1. Len(queue) \in Nat /\ Head(queue) = queue[1] /\ Len(queue) > 0
  BY TailQueue, LenProperties, EmptySeq DEF IInv, TypeOK
<1>2. S \in SUBSET Nat /\ S # {}
  BY <1>1
<1>3. PICK k \in S : \A m \in S : k <= m
  <2> HIDE DEF S
  <2> QED
    BY <1>2, Least
<1>4. ASSUME NEW i \in 1 .. k PROVE state[queue[i]] = "QueueingR"
  <2>1. i - 1 \in 0 .. Len(queue) /\ i - 1 < Len(queue) /\ i - 1 < k
        /\ (i - 1) + 1 = i
    BY <1>1
  <2> QED
    BY <1>3, <2>1
<1>5. k \in 0 .. Len(queue) /\ P(k)
  BY <1>4
<1>6. leading \in 0 .. Len(queue) /\ P(leading)
  <2>1. leading = CHOOSE n \in 0 .. Len(queue) : P(n)
    BY DEF leading
  <2> HIDE DEF P
  <2> QED
    BY <2>1, <1>5
<1>7. leading > 0
  <2> SUFFICES ASSUME leading = 0 PROVE FALSE
    BY <1>6, <1>1
  <2> QED
    BY <1>1, <1>6
<1> QED
  BY <1>6, <1>7

\* The writer that leaves lets in the readers that are first in the queue.
LEMMA ReleaseStep ==
    ASSUME IInv, NEW p \in Proc, UNCHANGED kind, wunlock(p), queue # <<>>,
           state[Head(queue)] = "QueueingR"
    PROVE  IInv'
<1>0. PICK k \in 0 .. Len(queue) :
        /\ k = leading /\ k > 0
        /\ \A i \in 1 .. k : state[queue[i]] = "QueueingR"
        /\ k < Len(queue) => state[queue[k + 1]] # "QueueingR"
  BY Leading
<1>a. /\ Goto(p, "writing", "out") /\ readers' = readers + k /\ writer' = 0
      /\ state' = [q \in Proc |-> IF released(q) THEN "Ready" ELSE state[q]]
      /\ hand' = hand /\ kind' = kind
  BY <1>0 DEF wunlock
<1>b. PICK r : r = queue' /\ r = SubSeq(queue, k + 1, Len(queue))
  BY <1>0 DEF wunlock
<1>c. queue \in Seq(Proc) /\ Once(queue)
  BY DEF IInv, TypeOK
<1>d. /\ r \in Seq(Proc) /\ Len(r) = Len(queue) - k /\ Once(r)
      /\ \A i \in 1 .. Len(r) : r[i] = queue[k + i]
      /\ \A q : On(q, r) => On(q, queue)
      /\ \A q : On(q, queue) => On(q, r) \/ \E i \in 1 .. k : queue[i] = q
      /\ \A q : On(q, r) => ~\E i \in 1 .. k : queue[i] = q
  <2>1. r = SubSeq(queue, k + 1, Len(queue))
    BY <1>b
  <2>2. k \in 0 .. Len(queue)
    OBVIOUS
  <2>3. r \in Seq(Proc) /\ Len(r) = Len(queue) - k
    BY <2>1, <2>2, <1>c
  <2>4. \A i \in 1 .. Len(r) : r[i] = queue[k + i]
    BY <2>1, <2>2, <1>c
  <2>5. Rest(r, queue, k)
    BY <2>3, <2>4 DEF Rest
  <2> QED
    BY <2>2, <2>3, <2>4, <2>5, <1>c, RestQueue
<1>1. /\ \A q : released(q) <=> \E i \in 1 .. k : queue[i] = q
      /\ \A q : queued(q)' <=> queued(q) /\ ~released(q)
      /\ \A q : released(q) => queued(q) /\ state[q] = "QueueingR"
  <2>1. \A q : released(q) <=> \E i \in 1 .. k : queue[i] = q
    BY <1>0 DEF released
  <2>2. \A q : released(q) => On(q, queue) /\ state[q] = "QueueingR"
    <3>1. 1 .. k \subseteq DOMAIN queue
      BY <1>c, LenProperties
    <3> QED
      BY <2>1, <3>1, <1>0 DEF On
  <2> QED
    BY <2>1, <2>2, <1>b, <1>d, QueuedOn
<1>2. Once(queue')
  BY <1>b, <1>d
<1>3. /\ readers = 0 /\ writer = 1 /\ Writers = {p} /\ Readers = {}
      /\ pc[p] = "writing" /\ pc' = [pc EXCEPT ![p] = "out"]
      /\ ~queued(p) /\ state[p] = "Running" /\ hand[p] = nil
  BY <1>a, WriterCounted DEF Goto, IInv, Shape, HandOK
<1>4. readers' = k
  BY <1>a, <1>3
<1>5. \A q \in Proc : state'[q] = IF released(q) THEN "Ready" ELSE state[q]
  BY <1>a
<1>6. TypeOK'
  BY <1>a, <1>b, <1>d, <1>3, <1>4 DEF IInv, TypeOK
<1>7. ASSUME NEW q \in Proc PROVE Shape(q)' /\ HandOK(q)'
  <2>1. writerWaits' = writerWaits /\ writerWaits # "QueueingR" /\ hand' = hand
    BY <1>a DEF writerWaits
  <2>2. Shape(q)'
    <3>1. CASE released(q)
      BY <3>1, <1>1, <1>3, <1>5, <2>1 DEF IInv, TypeOK, Shape
    <3>2. CASE ~released(q)
      BY <3>2, <1>1, <1>3, <1>5, <2>1 DEF IInv, TypeOK, Shape
    <3> QED
      BY <3>1, <3>2
  <2>3. HandOK(q)'
    <3>1. hand[q] # nil => ~released(hand[q]) /\ hand[q] # p
      BY <1>1, <1>3 DEF IInv, HandOK
    <3> QED
      BY <3>1, <1>1, <1>3, <1>5, <2>1 DEF IInv, TypeOK, HandOK
  <2> QED
    BY <2>2, <2>3
<1>8. KindOK' /\ Owned'
  BY <1>0, <1>a, <1>3, <1>4 DEF IInv, TypeOK, KindOK, Owned
<1>9. LeadOK'
  <2> SUFFICES ASSUME queue' # <<>>
               PROVE  state'[Head(queue')] # "QueueingR"
    BY DEF LeadOK
  <2>1. /\ Len(r) \in Nat \ {0} /\ Head(r) = r[1]
        /\ Head(r) \in Proc /\ On(Head(r), r)
    BY <1>b, <1>d, TailQueue
  <2>2. k < Len(queue) /\ Head(r) = queue[k + 1]
    <3>1. Len(queue) \in Nat /\ k \in 0 .. Len(queue)
      BY <1>c, LenProperties
    <3>2. k < Len(queue) /\ 1 \in 1 .. Len(r)
      BY <3>1, <2>1, <1>d
    <3> QED
      BY <3>2, <2>1, <1>d
  <2>3. ~released(Head(r))
    BY <2>1, <1>b, <1>1, QueuedOn
  <2> QED
    BY <2>1, <2>2, <2>3, <1>0, <1>b, <1>5
<1>10. Exclusion'
  <2> DEFINE R == {q \in Proc : \E i \in 1 .. k : queue[i] = q}
  <2>1. Cardinality(R) = k
    BY <1>c, FirstsCounted
  <2>2. \A q \in Proc : q # p => q \notin Readers /\ q \notin Writers
                                 /\ pc'[q] = pc[q]
    BY <1>3 DEF IInv, TypeOK
  <2>3. pc'[p] = "out"
    BY <1>3 DEF IInv, TypeOK
  <2>4. \A q \in Proc : released(q) => pc[q] = "rwait" /\ q # p
    BY <1>1, <1>3 DEF IInv, Shape, writerWaits
  <2>5. Readers' = R /\ Writers' = {}
    BY <2>2, <2>3, <2>4, <1>1 DEF Readers, Writers
  <2>6. Cardinality(Readers)' = k /\ Cardinality(Writers)' = 0
    BY <2>1, <2>5, FS_EmptySet
  <2> QED
    BY <2>6, <1>4, <1>a DEF Exclusion
<1> QED
  BY <1>2, <1>6, <1>7, <1>8, <1>9, <1>10 DEF IInv

\* The writer that was chosen is readied.
LEMMA ReadyStep ==
    ASSUME IInv, NEW p \in Proc, UNCHANGED kind, unlockReady(p)
    PROVE  IInv'
<1>0. PICK h : h = hand[p]
  OBVIOUS
<1>1. /\ pc[p] = "readying" /\ state[p] = "Running" /\ ~queued(p)
      /\ h \in Proc /\ pc[h] = "wwait" /\ ~queued(h) /\ h # p /\ h # nil
      /\ \A r \in Proc : hand[r] = h => r = p
  BY <1>0 DEF unlockReady, Goto, IInv, TypeOK, Shape, HandOK
<1>2. /\ pc' = [pc EXCEPT ![p] = "out"] /\ state' = [state EXCEPT ![h] = "Ready"]
      /\ hand' = [hand EXCEPT ![p] = nil]
      /\ UNCHANGED <<kind, writer, readers, queue>>
  BY <1>0 DEF unlockReady, Goto
<1>3. \A q : queued(q)' <=> queued(q)
  BY <1>2 DEF queued
<1>4. TypeOK'
  BY <1>2 DEF IInv, TypeOK
<1>5. Once(queue')
  BY <1>2 DEF IInv, Once
<1>6. ASSUME NEW q \in Proc PROVE Shape(q)' /\ HandOK(q)'
  <2>1. writerWaits' = writerWaits
    BY <1>2 DEF writerWaits
  <2>2. Shape(q)'
    <3>1. CASE q = p \/ q = h
      BY <3>1, <1>1, <1>2, <1>3, <2>1 DEF IInv, TypeOK, Shape
    <3>2. CASE q # p /\ q # h
      <4>1. pc'[q] = pc[q] /\ state'[q] = state[q]
        BY <3>2, <1>2 DEF IInv, TypeOK
      <4>2. (\E r \in Proc : hand[r] = q) => \E r \in Proc : hand'[r] = q
        BY <3>2, <1>0, <1>2 DEF IInv, TypeOK
      <4> QED
        BY <4>1, <4>2, <1>3, <2>1 DEF IInv, Shape
    <3> QED
      BY <3>1, <3>2
  <2>3. HandOK(q)'
    <3>1. CASE q = p
      BY <3>1, <1>1, <1>2 DEF IInv, TypeOK, HandOK
    <3>2. CASE q # p
      <4>1. hand'[q] = hand[q] /\ pc'[q] = pc[q] /\ hand[q] # h
        BY <3>2, <1>1, <1>2 DEF IInv, TypeOK
      <4>2. hand[q] # nil =>
              /\ hand[q] \in Proc /\ hand[q] # p
              /\ pc'[hand[q]] = pc[hand[q]] /\ state'[hand[q]] = state[hand[q]]
        BY <4>1, <1>1, <1>2 DEF IInv, TypeOK, HandOK
      <4>3. \A r \in Proc : hand[q] # nil /\ hand'[r] = hand[q] => r = q
        BY <1>2 DEF IInv, TypeOK, HandOK
      <4> QED
        BY <4>1, <4>2, <4>3, <1>3 DEF IInv, HandOK
    <3> QED
      BY <3>1, <3>2
  <2> QED
    BY <2>2, <2>3
<1>7. KindOK' /\ Owned'
  BY <1>2 DEF IInv, TypeOK, KindOK, Owned
<1>8. LeadOK'
  <2>1. queue # <<>> => Head(queue) # h
    BY <1>1, TailQueue, QueuedOn DEF IInv, TypeOK
  <2> QED
    BY <2>1, <1>2, TailQueue DEF IInv, TypeOK, LeadOK
<1>9. Readers' = Readers /\ Writers' = Writers
  BY <1>1, <1>2, <1>3 DEF IInv, TypeOK, Readers, Writers
<1>10. Exclusion'
  BY <1>2, <1>9 DEF IInv, Exclusion
<1> QED
  BY <1>4, <1>5, <1>6, <1>7, <1>8, <1>10 DEF IInv

\* A process that was readied returns from its rlock, wlock or qlock.
LEMMA ResumeStep ==
    ASSUME IInv, NEW p \in Proc, UNCHANGED kind, resume(p)
    PROVE  IInv'
<1>1. PICK to \in {"reading", "writing"} :
        /\ pc' = [pc EXCEPT ![p] = to]
        /\ to = "reading" => pc[p] = "rwait"
        /\ to = "writing" => pc[p] = "wwait"
  BY DEF resume, Goto
<1>2. /\ state' = [state EXCEPT ![p] = "Running"]
      /\ UNCHANGED <<kind, writer, readers, queue, hand>>
  BY DEF resume
<1>3. /\ state[p] = "Ready" /\ ~queued(p)
      /\ \A r \in Proc : hand[r] # p
  BY DEF resume, IInv, Shape, HandOK, writerWaits, RWlockAssumption
<1>4. \A q : queued(q)' <=> queued(q)
  BY <1>2 DEF queued
<1>5. TypeOK'
  BY <1>1, <1>2 DEF IInv, TypeOK
<1>6. Once(queue')
  BY <1>2 DEF IInv, Once
<1>7. ASSUME NEW q \in Proc PROVE Shape(q)' /\ HandOK(q)'
  <2>1. writerWaits' = writerWaits
    BY <1>2 DEF writerWaits
  <2>2. Shape(q)'
    BY <1>1, <1>2, <1>3, <1>4, <2>1 DEF IInv, TypeOK, Shape
  <2>3. HandOK(q)'
    BY <1>1, <1>2, <1>3, <1>4 DEF IInv, TypeOK, HandOK
  <2> QED
    BY <2>2, <2>3
<1>8. KindOK' /\ Owned'
  BY <1>1, <1>2 DEF IInv, TypeOK, KindOK, Owned
<1>9. LeadOK'
  <2>1. queue # <<>> => Head(queue) # p
    BY <1>3, TailQueue, QueuedOn DEF IInv, TypeOK
  <2> QED
    BY <2>1, <1>2, TailQueue DEF IInv, TypeOK, LeadOK
<1>10. Readers' = Readers /\ Writers' = Writers
  BY <1>1, <1>2, <1>3, <1>4 DEF IInv, TypeOK, Readers, Writers
<1>11. Exclusion'
  BY <1>2, <1>10 DEF IInv, Exclusion
<1> QED
  BY <1>5, <1>6, <1>7, <1>8, <1>9, <1>11 DEF IInv

-----------------------------------------------------------------------------
LEMMA Initially == Init => IInv
<1> SUFFICES ASSUME Init PROVE IInv
  OBVIOUS
<1>1. queue = <<>> /\ \A p : ~queued(p)
  BY DEF Init, queued
<1>2. TypeOK /\ Once(queue)
  BY DEF Init, TypeOK, Once
<1>3. \A p \in Proc : Shape(p) /\ HandOK(p)
  BY <1>1 DEF Init, Shape, HandOK
<1>4. KindOK /\ LeadOK /\ Owned
  BY DEF Init, KindOK, LeadOK, Owned
<1>5. Readers = {} /\ Writers = {}
  BY DEF Init, Readers, Writers
<1>6. Exclusion
  BY <1>5, FS_EmptySet DEF Init, Exclusion
<1> QED
  BY <1>2, <1>3, <1>4, <1>6 DEF IInv

LEMMA Inductive == IInv /\ [Next]_vars => IInv'
<1> SUFFICES ASSUME IInv, [Next]_vars PROVE IInv'
  OBVIOUS
<1>0. writer \in {0, 1} /\ readers \in Nat /\ (queue # <<>> => writer = 1 \/ readers > 0)
  BY DEF IInv, TypeOK, Owned
<1>1. ASSUME NEW p \in Proc, rlock(p), UNCHANGED kind PROVE IInv'
  <2>1. CASE writer = 0 /\ queue = <<>>
    <3>1. /\ UNCHANGED <<kind, queue, state, hand>> /\ kind = "RWlock"
          /\ Goto(p, "out", "reading")
          /\ readers' = readers + 1 /\ writer' = writer
      BY <1>1, <2>1 DEF rlock
    <3> QED
      BY <3>1, <2>1, TakeStep
  <2>2. CASE writer # 0 \/ queue # <<>>
    <3>1. enqueue(p, "QueueingR", "rwait") /\ kind = "RWlock"
      BY <1>1, <2>2 DEF rlock
    <3>2. queue = <<>> => writer = 1 \/ readers > 0
      BY <2>2, <1>0
    <3> QED
      BY <3>1, <3>2, <2>2, <1>1, EnqueueStep
  <2> QED
    BY <2>1, <2>2
<1>2. ASSUME NEW p \in Proc, wlock(p), UNCHANGED kind PROVE IInv'
  <2>1. CASE readers = 0 /\ writer = 0
    <3>1. /\ UNCHANGED <<kind, queue, state, hand>>
          /\ Goto(p, "out", "writing")
          /\ writer' = 1 /\ readers' = readers
      BY <1>2, <2>1 DEF wlock
    <3> QED
      BY <3>1, <2>1, TakeStep
  <2>2. CASE readers # 0 \/ writer # 0
    <3>1. enqueue(p, writerWaits, "wwait")
      BY <1>2, <2>2 DEF wlock, writerWaits
    <3>2. queue = <<>> => writer = 1 \/ readers > 0
      BY <2>2, <1>0
    <3> QED
      BY <3>1, <3>2, <1>2, EnqueueStep
  <2> QED
    BY <2>1, <2>2
<1>3. ASSUME NEW p \in Proc, runlock(p), UNCHANGED kind PROVE IInv'
  <2>1. CASE readers - 1 > 0 \/ queue = <<>>
    <3>1. /\ UNCHANGED <<kind, queue, state, hand>>
          /\ Goto(p, "reading", "out")
          /\ readers' = readers - 1 /\ writer' = writer
      BY <1>3, <2>1 DEF runlock
    <3> QED
      BY <3>1, <2>1, LeaveStep
  <2>2. CASE ~(readers - 1 > 0 \/ queue = <<>>)
    <3>1. /\ UNCHANGED <<kind, state>> /\ queue # <<>>
          /\ hand' = [hand EXCEPT ![p] = Head(queue)]
          /\ queue' = Tail(queue) /\ writer' = 1
          /\ Goto(p, "reading", "readying") /\ ~(readers - 1 > 0)
          /\ readers' = readers - 1
      BY <1>3, <2>2 DEF runlock
    <3> QED
      BY <3>1, HandStep
  <2> QED
    BY <2>1, <2>2
<1>4. ASSUME NEW p \in Proc, wunlock(p), UNCHANGED kind PROVE IInv'
  <2>1. CASE queue = <<>>
    <3>1. /\ UNCHANGED <<kind, queue, state, hand>>
          /\ Goto(p, "writing", "out")
          /\ writer' = 0 /\ readers' = readers
      BY <1>4, <2>1 DEF wunlock
    <3> QED
      BY <3>1, <2>1, LeaveStep
  <2>2. CASE queue # <<>> /\ state[Head(queue)] # "QueueingR"
    <3>1. /\ UNCHANGED <<kind, state>>
          /\ hand' = [hand EXCEPT ![p] = Head(queue)]
          /\ queue' = Tail(queue) /\ writer' = writer
          /\ Goto(p, "writing", "readying") /\ readers' = readers
      BY <1>4, <2>2 DEF wunlock
    <3>2. writer' = 1
      BY <3>1, WriterCounted DEF Goto
    <3> QED
      BY <3>1, <3>2, <2>2, HandStep
  <2>3. CASE queue # <<>> /\ state[Head(queue)] = "QueueingR"
    BY <1>4, <2>3, ReleaseStep
  <2> QED
    BY <2>1, <2>2, <2>3
<1>5. ASSUME NEW p \in Proc, unlockReady(p), UNCHANGED kind PROVE IInv'
  BY <1>5, ReadyStep
<1>6. ASSUME NEW p \in Proc, resume(p), UNCHANGED kind PROVE IInv'
  BY <1>6, ResumeStep
<1>7. CASE UNCHANGED vars
  <2>1. \A q : queued(q)' <=> queued(q)
    BY <1>7 DEF vars, queued
  <2>2. TypeOK' /\ Once(queue')
    BY <1>7 DEF vars, IInv, TypeOK, Once
  <2>3. \A p \in Proc : Shape(p)' /\ HandOK(p)'
    BY <1>7, <2>1 DEF vars, IInv, Shape, HandOK, writerWaits
  <2>4. KindOK' /\ LeadOK' /\ Owned'
    BY <1>7 DEF vars, IInv, KindOK, LeadOK, Owned
  <2>5. Readers' = Readers /\ Writers' = Writers
    BY <1>7, <2>1 DEF vars, Readers, Writers
  <2>6. Exclusion'
    BY <1>7, <2>5 DEF vars, IInv, Exclusion
  <2> QED
    BY <2>2, <2>3, <2>4, <2>6 DEF IInv
<1> QED
  BY <1>1, <1>2, <1>3, <1>4, <1>5, <1>6, <1>7 DEF Next, Locking, Running

LEMMA Invariant == Spec => []IInv
<1>1. Init => IInv
  BY Initially
<1>2. IInv /\ [Next]_vars => IInv'
  BY Inductive
<1> QED
  BY <1>1, <1>2, PTL DEF Spec

-----------------------------------------------------------------------------
(***************************************************************************)
(* What it gives.                                                          *)
(***************************************************************************)
\* q->writer and q->readers count the owners of the lock across every
\* hand-over, and a writer owns it alone, whatever the processes do between
\* their rlock, wlock, runlock and wunlock.
THEOREM ExclusiveWriter == Spec => []Exclusion
<1>1. IInv => Exclusion
  BY DEF IInv
<1> QED
  BY <1>1, Invariant, PTL

\* runlock and wunlock never panic, whoever is queued is in the state they
\* expect, and whoever waits is queued, readied, or about to be, while the
\* lock has an owner who will pass it on.
THEOREM QueueSound == Spec => []QueueOK
<1>1. IInv => QueueOK
  <2> SUFFICES ASSUME IInv PROVE QueueOK
    OBVIOUS
  <2>1. TypeOK
    BY DEF IInv
  <2>2. ASSUME NEW p \in Proc, pc[p] = "reading", queue # <<>>
        PROVE  state[Head(queue)] = "QueueingW"
    <3>1. writer = 0 /\ kind = "RWlock"
      BY <2>2, ReaderCounted
    <3>2. Head(queue) \in Proc /\ queued(Head(queue))
      BY <2>2, TailQueue, QueuedOn DEF IInv, TypeOK
    <3> QED
      BY <3>1, <3>2, <2>2 DEF IInv, LeadOK, Shape, writerWaits
  <2>3. \A p \in Proc : queued(p) =>
          state[p] \in {"Queueing", "QueueingR", "QueueingW"}
    BY DEF IInv, Shape, writerWaits
  <2>4. queue # <<>> => Writers # {} \/ Readers # {}
    <3> SUFFICES ASSUME Writers = {}, Readers = {} PROVE queue = <<>>
      OBVIOUS
    <3>1. writer = 0 /\ readers = 0
      BY FS_EmptySet DEF IInv, Exclusion
    <3> QED
      BY <3>1 DEF IInv, Owned
  <2>5. \A p \in Proc : pc[p] \in {"rwait", "wwait"} =>
          queued(p) \/ state[p] = "Ready" \/ \E q \in Proc : hand[q] = p
    BY DEF IInv, Shape
  <2> QED
    BY <2>1, <2>2, <2>3, <2>4, <2>5 DEF QueueOK, NoPanic, NobodyForgotten
<1> QED
  BY <1>1, Invariant, PTL

\* Whoever gets the lock without waiting overtakes nobody who waits: rlock
\* looks at the queue, and wlock need not, since a queue has an owner.
THEOREM NoOvertaking == Spec => NoBarging
<1>1. IInv /\ [Next]_vars =>
        [\A p \in Proc : pc[p] = "out" /\ pc'[p] \in {"reading", "writing"} =>
            queue = <<>>]_vars
  <2> SUFFICES ASSUME IInv, [Next]_vars, NEW p \in Proc, pc[p] = "out",
                      pc'[p] \in {"reading", "writing"}, queue # <<>>,
                      ~UNCHANGED vars
               PROVE  FALSE
    OBVIOUS
  <2>1. pc \in [Proc -> {"out", "rwait", "wwait", "reading", "writing", "readying"}]
        /\ readers \in Nat /\ (writer = 1 \/ readers > 0)
    BY DEF IInv, TypeOK, Owned
  <2>2. PICK q \in Proc : Locking(q) \/ Running(q)
    BY DEF Next
  <2>3. CASE Locking(q)
    BY <2>1, <2>3 DEF Locking, rlock, wlock, enqueue, Goto
  <2>4. CASE Running(q)
    BY <2>1, <2>4 DEF Running, runlock, wunlock, unlockReady, resume, Goto
  <2> QED
    BY <2>2, <2>3, <2>4
<1> QED
  BY <1>1, Invariant, PTL DEF Spec, NoBarging

-----------------------------------------------------------------------------
\* Where a process counts as a holder of a lock.
counted == {"tas", "glare", "cantas", "locked", "uncount"}
spinning == counted \cup {"spin"}

\* Where ilock and iunlock have interrupts off, and where they are at all.
guarded == {"itas", "ilocked", "splx"}
iwaiting == guarded \cup {"ispin"}

holding == {"locked", "ilocked"}

\* A process counts its lock, keeps its processor while it counts one and
\* while interrupts are off, and found interrupts on.
ProcOK(p) ==
    /\ tpc[p] \in {"idle"} \cup spinning \cup iwaiting
    /\ nlocks[p] = IF tpc[p] \in counted THEN 1 ELSE 0
    /\ tpc[p] \in spinning => lv[p] \in Lk
    /\ tpc[p] \in iwaiting => lv[p] \in ILk /\ x[p] = "lo"
    /\ tpc[p] \in counted \cup guarded => \E m \in Mach : up[m] = p

\* Interrupts are off on m while its handler runs and while the process on m
\* is inside an ilock, never both, and m->ilockdepth counts the locks.
Guards(m) == up[m] \in Spinner /\ tpc[up[m]] \in guarded

MachOK(m) ==
    /\ tpc[m] \in {"idle", "iret"} \cup iwaiting
    /\ tpc[m] # "idle" => up[m] # off /\ ~Guards(m)
    /\ tpc[m] \in iwaiting => lv[m] \in ILk /\ x[m] = "hi"
    /\ spl[m] = IF tpc[m] # "idle" \/ Guards(m) THEN "hi" ELSE "lo"
    /\ ilockdepth[m] =
         IF tpc[m] = "ilocked" \/ (Guards(m) /\ tpc[up[m]] = "ilocked")
         THEN 1 ELSE 0
    /\ \A n \in Mach : up[m] \in Spinner /\ up[n] = up[m] => n = m

\* The key says who is between its tas and the end of its hold, and l->sr
\* what the holder found.
KeyOK(a) ==
    /\ \A l \in Lk \cup ILk :
         key[l] = a <=> lv[a] = l /\ tpc[a] \in holding
    /\ tpc[a] = "ilocked" => sr[lv[a]] = x[a]

TasInv ==
    /\ T!TypeOK
    /\ \A p \in Spinner : ProcOK(p)
    /\ \A m \in Mach : MachOK(m)
    /\ \A a \in Spinner \cup Mach : KeyOK(a)

-----------------------------------------------------------------------------
\* A step of lock, canlock or unlock by p: the key and the count follow the
\* place where p is.
LEMMA LockStep ==
    ASSUME T!TasLockAssumption, TasInv, NEW p \in Spinner, NEW m \in Mach,
           up[m] = p,
           UNCHANGED <<T!machs, x>>,
           NEW to \in {"idle"} \cup spinning, tpc' = [tpc EXCEPT ![p] = to],
           tpc[p] \in {"idle"} \cup spinning,
           nlocks' = [nlocks EXCEPT ![p] = IF to \in counted THEN 1 ELSE 0],
           NEW l \in Lk \cup {nil}, to = "idle" <=> l = nil,
           lv' = [lv EXCEPT ![p] = l],
           tpc[p] # "idle" /\ to # "idle" => l = lv[p],
           \/ key' = key /\ tpc[p] # "locked" /\ to # "locked"
           \/ /\ to = "locked" /\ key[l] = nil
              /\ key' = [key EXCEPT ![l] = p]
           \/ /\ tpc[p] = "locked" /\ to = "uncount"
              /\ key' = [key EXCEPT ![l] = nil]
    PROVE  TasInv'
<1>1. /\ p \notin Mach /\ p # nil /\ nil \notin Lk \cup ILk
      /\ \A q \in Spinner : q \notin Mach
      /\ Lk \cap ILk = {}
  BY DEF T!TasLockAssumption
<1>2. UNCHANGED <<sr, spl, up, ilockdepth, x>>
  BY DEF T!machs
<1>3. T!TypeOK'
  BY <1>1, <1>2 DEF TasInv, T!TypeOK, counted, spinning
<1>4. ASSUME NEW q \in Spinner PROVE ProcOK(q)'
  <2>1. CASE q = p
    BY <2>1, <1>1, <1>2
       DEF TasInv, T!TypeOK, ProcOK, counted, spinning, guarded, iwaiting
  <2>2. CASE q # p
    BY <2>2, <1>1, <1>2 DEF TasInv, T!TypeOK, ProcOK
  <2> QED
    BY <2>1, <2>2
<1>5. ASSUME NEW n \in Mach PROVE MachOK(n)'
  <2>1. tpc'[n] = tpc[n] /\ lv'[n] = lv[n]
    BY <1>1 DEF TasInv, T!TypeOK
  <2>2. Guards(n)' <=> Guards(n)
    BY <1>1, <1>2 DEF TasInv, T!TypeOK, Guards, spinning, counted, guarded
  <2>3. Guards(n) => tpc'[up[n]] = tpc[up[n]]
    BY <1>1, <1>2 DEF TasInv, T!TypeOK, Guards, spinning, counted, guarded
  <2> QED
    BY <2>1, <2>2, <2>3, <1>2 DEF TasInv, MachOK
<1>6. ASSUME NEW a \in Spinner \cup Mach PROVE KeyOK(a)'
  <2>1. tpc'[a] = "ilocked" => sr'[lv'[a]] = x'[a]
    BY <1>1, <1>2 DEF TasInv, T!TypeOK, KeyOK, spinning, counted
  <2>2. ASSUME NEW k \in Lk \cup ILk
        PROVE  key'[k] = a <=> lv'[a] = k /\ tpc'[a] \in holding
    <3>1. key[k] = a <=> lv[a] = k /\ tpc[a] \in holding
      BY DEF TasInv, KeyOK
    <3>2. a # nil /\ (to # "idle" => l \in Lk)
          /\ (tpc[p] \in holding <=> tpc[p] = "locked")
          /\ (to \in holding <=> to = "locked")
      BY <1>1 DEF T!TasLockAssumption, spinning, counted, holding
    <3>3. \A j \in Lk \cup ILk : key[j] = p <=> lv[p] = j /\ tpc[p] = "locked"
      BY <3>2 DEF TasInv, KeyOK
    <3>4. key \in [Lk \cup ILk -> Spinner \cup Mach \cup {nil}]
      BY DEF TasInv, T!TypeOK
    <3>5. /\ a = p => lv'[a] = l /\ tpc'[a] = to
          /\ a # p => lv'[a] = lv[a] /\ tpc'[a] = tpc[a]
      BY DEF TasInv, T!TypeOK
    <3>6. CASE key' = key /\ tpc[p] # "locked" /\ to # "locked"
      BY <3>1, <3>2, <3>3, <3>5, <3>6
    <3>7. CASE /\ to = "locked" /\ key[l] = nil
               /\ key' = [key EXCEPT ![l] = p]
      <4>1. tpc[p] # "locked"
        BY <3>2, <3>3, <3>7, <1>1
      <4> QED
        BY <3>1, <3>2, <3>3, <3>4, <3>5, <3>7, <4>1
    <3>8. CASE /\ tpc[p] = "locked" /\ to = "uncount"
               /\ key' = [key EXCEPT ![l] = nil]
      <4>1. l = lv[p]
        BY <3>8
      <4> QED
        BY <3>1, <3>2, <3>3, <3>4, <3>5, <3>8, <4>1
    <3> QED
      BY <3>6, <3>7, <3>8
  <2> QED
    BY <2>1, <2>2 DEF KeyOK
<1> QED
  BY <1>3, <1>4, <1>5, <1>6 DEF TasInv

\* A step of ilock, iunlock or an interrupt by a on m: a handler keeps
\* interrupts off until it returns, a process while it is inside the lock.
Thread(a, m) == a = m \/ (a \in Spinner /\ up[m] = a /\ tpc[m] = "idle")

LEMMA IlockStep ==
    ASSUME T!TasLockAssumption, TasInv, NEW a \in Spinner \cup Mach,
           NEW m \in Mach,
           Thread(a, m), a = m => up[m] # off /\ ~Guards(m),
           UNCHANGED <<up, nlocks>>,
           NEW to \in {"idle", "iret"} \cup iwaiting, a # m => to # "iret",
           tpc' = [tpc EXCEPT ![a] = to], tpc[a] \in {"idle", "iret"} \cup iwaiting,
           NEW l \in Lk \cup ILk \cup {nil}, lv' = [lv EXCEPT ![a] = l],
           to \in iwaiting => l \in ILk,
           NEW v \in {"lo", "hi"}, x' = [x EXCEPT ![a] = v],
           to \in iwaiting => v = IF a = m THEN "hi" ELSE "lo",
           spl' = [spl EXCEPT ![m] =
                     IF to \in guarded \/ (a = m /\ to # "idle") THEN "hi"
                     ELSE "lo"],
           ilockdepth' = [ilockdepth EXCEPT ![m] =
                            IF to = "ilocked" THEN 1 ELSE 0],
           \/ key' = key /\ sr' = sr /\ tpc[a] # "ilocked" /\ to # "ilocked"
           \/ /\ to = "ilocked" /\ key[l] = nil /\ tpc[a] # "ilocked"
              /\ key' = [key EXCEPT ![l] = a] /\ sr' = [sr EXCEPT ![l] = v]
           \/ /\ tpc[a] = "ilocked" /\ to # "ilocked" /\ l = lv[a]
              /\ key' = [key EXCEPT ![l] = nil] /\ sr' = sr
    PROVE  TasInv'
<1>1. /\ nil \notin Lk \cup ILk /\ nil \notin Spinner \cup Mach
      /\ \A q \in Spinner : q \notin Mach
      /\ Lk \cap ILk = {}
      /\ a # m => a \in Spinner /\ up[m] = a /\ tpc[m] = "idle"
  BY DEF T!TasLockAssumption, Thread
<1>2. T!TypeOK'
  BY <1>1 DEF TasInv, T!TypeOK, guarded, iwaiting
<1>3. ASSUME NEW q \in Spinner PROVE ProcOK(q)'
  <2>1. CASE q = a
    BY <2>1, <1>1
       DEF TasInv, T!TypeOK, ProcOK, counted, spinning, guarded, iwaiting
  <2>2. CASE q # a
    BY <2>2, <1>1 DEF TasInv, T!TypeOK, ProcOK
  <2> QED
    BY <2>1, <2>2
<1>4. ASSUME NEW n \in Mach PROVE MachOK(n)'
  <2>1. CASE n # m
    <3>1. tpc'[n] = tpc[n] /\ lv'[n] = lv[n] /\ x'[n] = x[n] /\ spl'[n] = spl[n]
          /\ ilockdepth'[n] = ilockdepth[n]
      BY <2>1, <1>1 DEF TasInv, T!TypeOK
    <3>2. up[n] \in Spinner => up[n] # a
      BY <2>1, <1>1 DEF TasInv, MachOK
    <3>3. up[n] \in Spinner => tpc'[up[n]] = tpc[up[n]]
      BY <3>2 DEF TasInv, T!TypeOK
    <3>4. Guards(n)' <=> Guards(n)
      BY <3>3 DEF Guards
    <3> QED
      BY <3>1, <3>3, <3>4 DEF TasInv, MachOK, Guards
  <2>2. CASE n = m /\ a = m
    <3>1. up[m] \in Spinner => tpc'[up[m]] = tpc[up[m]]
      BY <1>1, <2>2 DEF TasInv, T!TypeOK
    <3>2. ~Guards(m)'
      BY <3>1, <2>2 DEF Guards
    <3>3. /\ tpc'[m] = to /\ lv'[m] = l /\ x'[m] = v
          /\ spl'[m] = IF to # "idle" THEN "hi" ELSE "lo"
          /\ ilockdepth'[m] = IF to = "ilocked" THEN 1 ELSE 0
      BY <2>2 DEF TasInv, T!TypeOK, guarded
    <3>4. /\ tpc'[m] \in {"idle", "iret"} \cup iwaiting
          /\ tpc'[m] \in iwaiting => lv'[m] \in ILk /\ x'[m] = "hi"
          /\ up'[m] # off
      BY <3>3, <2>2
    <3>5. \A k \in Mach : up'[m] \in Spinner /\ up'[k] = up'[m] => k = m
      BY DEF TasInv, MachOK
    <3> QED
      BY <2>2, <3>2, <3>3, <3>4, <3>5 DEF MachOK
  <2>3. CASE n = m /\ a # m
    <3>1. tpc'[m] = "idle" /\ lv'[m] = lv[m] /\ x'[m] = x[m]
      BY <1>1, <2>3 DEF TasInv, T!TypeOK
    <3>2. /\ up'[m] = a /\ a \in Spinner /\ tpc'[a] = to
          /\ spl'[m] = IF to \in guarded THEN "hi" ELSE "lo"
          /\ ilockdepth'[m] = IF to = "ilocked" THEN 1 ELSE 0
      BY <1>1, <2>3 DEF TasInv, T!TypeOK
    <3>3. Guards(m)' <=> to \in guarded
      BY <3>2 DEF Guards
    <3>4. \A k \in Mach : up'[m] \in Spinner /\ up'[k] = up'[m] => k = m
      BY DEF TasInv, MachOK
    <3>5. "ilocked" \in guarded /\ "idle" \notin iwaiting
      BY DEF guarded, iwaiting
    <3> QED
      BY <2>3, <3>1, <3>2, <3>3, <3>4, <3>5 DEF MachOK
  <2> QED
    BY <2>1, <2>2, <2>3
<1>5. ASSUME NEW b \in Spinner \cup Mach PROVE KeyOK(b)'
  <2>1. /\ key \in [Lk \cup ILk -> Spinner \cup Mach \cup {nil}]
        /\ sr \in [ILk -> {"lo", "hi"}]
    BY DEF TasInv, T!TypeOK
  <2>2. /\ b = a => lv'[b] = l /\ tpc'[b] = to /\ x'[b] = v
        /\ b # a => lv'[b] = lv[b] /\ tpc'[b] = tpc[b] /\ x'[b] = x[b]
    BY DEF TasInv, T!TypeOK
  <2>3. /\ tpc[a] \in holding <=> tpc[a] = "ilocked"
        /\ to \in holding <=> to = "ilocked"
        /\ to = "ilocked" => l \in ILk
    BY DEF holding, iwaiting, guarded
  <2>4. \A j \in Lk \cup ILk : key[j] = a <=> lv[a] = j /\ tpc[a] = "ilocked"
    BY <2>3 DEF TasInv, KeyOK
  <2>5. /\ \A j \in Lk \cup ILk : key[j] = b <=> lv[b] = j /\ tpc[b] \in holding
        /\ tpc[b] = "ilocked" => sr[lv[b]] = x[b] /\ lv[b] \in ILk
    BY DEF TasInv, KeyOK, ProcOK, MachOK, iwaiting, guarded
  <2>6. b # nil /\ a # nil /\ "ilocked" \in holding
    BY <1>1 DEF holding
  <2>7. CASE key' = key /\ sr' = sr /\ tpc[a] # "ilocked" /\ to # "ilocked"
    BY <2>2, <2>3, <2>4, <2>5, <2>7 DEF KeyOK
  <2>8. CASE /\ to = "ilocked" /\ key[l] = nil /\ tpc[a] # "ilocked"
             /\ key' = [key EXCEPT ![l] = a] /\ sr' = [sr EXCEPT ![l] = v]
    <3>1. \A j \in Lk \cup ILk : key'[j] = b <=> lv'[b] = j /\ tpc'[b] \in holding
      BY <2>1, <2>2, <2>3, <2>4, <2>5, <2>6, <2>8
    <3>2. tpc'[b] = "ilocked" => sr'[lv'[b]] = x'[b]
      BY <2>1, <2>2, <2>3, <2>5, <2>6, <2>8
    <3> QED
      BY <3>1, <3>2 DEF KeyOK
  <2>9. CASE /\ tpc[a] = "ilocked" /\ to # "ilocked" /\ l = lv[a]
             /\ key' = [key EXCEPT ![l] = nil] /\ sr' = sr
    <3>1. \A j \in Lk \cup ILk : key'[j] = b <=> lv'[b] = j /\ tpc'[b] \in holding
      BY <2>1, <2>2, <2>3, <2>4, <2>5, <2>6, <2>9
    <3>2. tpc'[b] = "ilocked" => sr'[lv'[b]] = x'[b]
      BY <2>2, <2>5, <2>9
    <3> QED
      BY <3>1, <3>2 DEF KeyOK
  <2> QED
    BY <2>7, <2>8, <2>9
<1> QED
  BY <1>2, <1>3, <1>4, <1>5 DEF TasInv

-----------------------------------------------------------------------------
\* What a thread inside ilock or iunlock finds.
LEMMA Inside ==
    ASSUME T!TasLockAssumption, TasInv, NEW a \in Spinner \cup Mach,
           NEW m \in Mach,
           Thread(a, m), tpc[a] \in iwaiting
    PROVE  /\ x[a] = IF a = m THEN "hi" ELSE "lo"
           /\ lv[a] \in ILk
           /\ spl[m] = IF tpc[a] \in guarded \/ a = m THEN "hi" ELSE "lo"
           /\ ilockdepth[m] = IF tpc[a] = "ilocked" THEN 1 ELSE 0
           /\ a = m => up[m] # off /\ ~Guards(m)
           /\ "idle" \notin iwaiting /\ "ilocked" \in guarded
<1>1. "idle" \notin iwaiting /\ "ilocked" \in guarded
  BY DEF iwaiting, guarded
<1>2. CASE a = m
  BY <1>1, <1>2 DEF TasInv, MachOK
<1>3. CASE a # m
  <2>1. a \in Spinner /\ up[m] = a /\ tpc[m] = "idle"
    BY <1>3 DEF Thread
  <2>2. Guards(m) <=> tpc[a] \in guarded
    BY <2>1 DEF Guards
  <2> QED
    BY <1>1, <1>3, <2>1, <2>2 DEF TasInv, MachOK, ProcOK
<1> QED
  BY <1>2, <1>3

\* Who finds an ilock taken is not alone: "ilock: no way out" is not reached,
\* for the holder is on another processor.
LEMMA WayOut ==
    ASSUME T!TasLockAssumption, TasInv, NEW a \in Spinner \cup Mach,
           NEW m \in Mach,
           Thread(a, m), tpc[a] = "itas", key[lv[a]] # nil
    PROVE  ~(T!nmach < 2)
<1>1. lv[a] \in ILk /\ (a = m => up[m] # off /\ ~Guards(m))
  BY Inside DEF iwaiting, guarded
<1>2. PICK b \in Spinner \cup Mach : b = key[lv[a]] /\ lv[b] = lv[a] /\ tpc[b] \in holding
  BY <1>1 DEF TasInv, T!TypeOK, KeyOK
<1>3. tpc[b] = "ilocked" /\ b # a
  BY <1>1, <1>2
     DEF TasInv, ProcOK, MachOK, holding, spinning, counted, iwaiting, guarded,
         T!TasLockAssumption
<1>4. \A p \in Spinner : p # off
  BY DEF T!TasLockAssumption
<1>5. up[m] # off
  BY <1>1, <1>4 DEF Thread
<1>6. PICK n \in Mach : up[n] # off /\ n # m
  <2>1. CASE b \in Mach
    <3>1. b # m /\ up[b] # off
      BY <2>1, <1>3 DEF Thread, TasInv, MachOK
    <3> QED
      BY <2>1, <3>1
  <2>2. CASE b \in Spinner
    <3>1. PICK n \in Mach : up[n] = b
      BY <2>2, <1>3 DEF TasInv, ProcOK, counted, guarded
    <3>2. n # m
      BY <3>1, <2>2, <1>1, <1>3 DEF Thread, Guards, guarded
    <3> QED
      BY <3>1, <3>2, <2>2, <1>4
  <2> QED
    BY <2>1, <2>2
<1> DEFINE there == {k \in Mach : up[k] # off}
<1>0. IsFiniteSet(Mach)
  BY DEF T!TasLockAssumption, T!IsFiniteSet, IsFiniteSet
<1>7. {n} \cup {m} \in SUBSET there /\ IsFiniteSet(there)
  BY <1>0, <1>5, <1>6, FS_Subset
<1>8. Cardinality({n} \cup {m}) = 2
  <2>1. IsFiniteSet({n}) /\ Cardinality({n}) = 1 /\ m \notin {n}
    BY <1>6, FS_Singleton
  <2>2. Cardinality({n} \cup {m}) = Cardinality({n}) + 1
    BY <2>1, FS_AddElement
  <2> QED
    BY <2>1, <2>2
<1>9. 2 <= Cardinality(there) /\ Cardinality(there) \in Nat
  BY <1>7, <1>8, FS_Subset, FS_CardinalityType
<1> QED
  BY <1>9 DEF T!nmach, T!Cardinality, Cardinality

LEMMA LockSteps ==
    ASSUME T!TasLockAssumption, TasInv, NEW p \in Spinner, NEW m \in Mach,
           T!runs(p, m),
           \/ T!Locking(p)
           \/ \E l \in Lk : T!lock(p, l) \/ T!canlock(p, l)
    PROVE  TasInv'
<1>1. up[m] = p
  BY DEF T!runs
<1>0. PICK k : k = lv[p]
  OBVIOUS
<1>2. /\ nlocks[p] = IF tpc[p] \in counted THEN 1 ELSE 0
      /\ tpc[p] \in spinning => k \in Lk
      /\ lv = [lv EXCEPT ![p] = k]
      /\ nlocks = [nlocks EXCEPT ![p] = nlocks[p]]
  BY <1>0 DEF TasInv, T!TypeOK, ProcOK
<1>3. ASSUME NEW l \in Lk, T!lock(p, l) \/ T!canlock(p, l) PROVE TasInv'
  <2>1. PICK to \in {"tas", "cantas"} :
          tpc[p] = "idle" /\ tpc' = [tpc EXCEPT ![p] = to]
    BY <1>3 DEF T!lock, T!canlock, T!Goto
  <2>2. /\ UNCHANGED <<T!machs, x, key>> /\ lv' = [lv EXCEPT ![p] = l]
        /\ nlocks' = [nlocks EXCEPT ![p] = 1]
    BY <1>3, <1>2, <2>1 DEF T!lock, T!canlock, T!count, T!Goto, counted
  <2>3. l # nil
    BY DEF T!TasLockAssumption
  <2> QED
    BY <1>1, <2>1, <2>2, <2>3, LockStep DEF counted, spinning
<1>4. ASSUME T!lockTas(p) \/ T!canlockTas(p) PROVE TasInv'
  <2>1. /\ tpc[p] \in {"tas", "cantas"} /\ UNCHANGED <<T!machs, x>>
        /\ lv' = [lv EXCEPT ![p] = k]
        /\ nlocks' = [nlocks EXCEPT ![p] = 1] /\ k \in Lk /\ k # nil
    BY <1>4, <1>2
       DEF T!lockTas, T!canlockTas, counted, spinning, T!TasLockAssumption
  <2>2. CASE key[k] = nil
    <3>1. PICK to \in {"locked"} :
            tpc' = [tpc EXCEPT ![p] = to] /\ key' = [key EXCEPT ![k] = p]
      BY <1>0, <1>4, <2>2 DEF T!lockTas, T!canlockTas, T!Goto, T!tas
    <3> QED
      BY <1>0, <1>1, <2>1, <2>2, <3>1, LockStep DEF counted, spinning
  <2>3. CASE key[k] # nil
    <3>1. PICK to \in {"glare", "uncount"} :
            tpc' = [tpc EXCEPT ![p] = to] /\ key' = key
      BY <1>0, <1>4, <2>3 DEF T!lockTas, T!canlockTas, T!Goto
    <3> QED
      BY <1>0, <1>1, <2>1, <3>1, LockStep DEF counted, spinning
  <2> QED
    BY <2>2, <2>3
<1>5. ASSUME T!lockGlare(p) PROVE TasInv'
  <2>1. PICK to \in {"spin"} :
        /\ tpc[p] = "glare" /\ tpc' = [tpc EXCEPT ![p] = to]
        /\ UNCHANGED <<T!machs, x, key>> /\ lv' = [lv EXCEPT ![p] = k]
        /\ nlocks' = [nlocks EXCEPT ![p] = 0] /\ k \in Lk /\ k # nil
    BY <1>5, <1>2
       DEF T!lockGlare, T!Goto, T!count, counted, spinning, T!TasLockAssumption
  <2> QED
    BY <1>0, <1>1, <2>1, LockStep DEF counted, spinning
<1>6. ASSUME T!lockSpin(p) PROVE TasInv'
  <2>1. PICK to \in {"tas"} :
        /\ tpc[p] = "spin" /\ tpc' = [tpc EXCEPT ![p] = to]
        /\ UNCHANGED <<T!machs, x, key>> /\ lv' = [lv EXCEPT ![p] = k]
        /\ nlocks' = [nlocks EXCEPT ![p] = 1] /\ k \in Lk /\ k # nil
    BY <1>6, <1>2
       DEF T!lockSpin, T!Goto, T!count, counted, spinning, T!TasLockAssumption
  <2> QED
    BY <1>0, <1>1, <2>1, LockStep DEF counted, spinning
<1>7. ASSUME T!unlock(p) PROVE TasInv'
  <2>1. PICK to \in {"uncount"} :
        /\ tpc[p] = "locked" /\ tpc' = [tpc EXCEPT ![p] = to]
        /\ UNCHANGED <<T!machs, x>> /\ lv' = [lv EXCEPT ![p] = k]
        /\ key' = [key EXCEPT ![k] = nil]
        /\ nlocks' = [nlocks EXCEPT ![p] = 1] /\ k \in Lk /\ k # nil
    BY <1>0, <1>7, <1>2
       DEF T!unlock, T!Goto, T!release, counted, spinning, T!TasLockAssumption
  <2> QED
    BY <1>0, <1>1, <2>1, LockStep DEF counted, spinning
<1>8. ASSUME T!uncount(p) PROVE TasInv'
  <2>1. /\ tpc[p] = "uncount" /\ tpc' = [tpc EXCEPT ![p] = "idle"]
        /\ UNCHANGED <<T!machs, x, key>> /\ lv' = [lv EXCEPT ![p] = nil]
        /\ nlocks' = [nlocks EXCEPT ![p] = 0]
    BY <1>8, <1>2 DEF T!uncount, T!Goto, T!count, counted, spinning
  <2> QED
    BY <1>0, <1>1, <2>1, LockStep DEF counted, spinning
<1> QED
  BY <1>3, <1>4, <1>5, <1>6, <1>7, <1>8 DEF T!Locking

LEMMA ILockSteps ==
    ASSUME T!TasLockAssumption, TasInv, NEW a \in Spinner \cup Mach,
           NEW m \in Mach,
           Thread(a, m), T!ILocking(a, m)
    PROVE  TasInv'
<1>0. PICK k, v : k = lv[a] /\ v = x[a]
  OBVIOUS
<1>1. /\ lv = [lv EXCEPT ![a] = k] /\ x = [x EXCEPT ![a] = v]
      /\ spl = [spl EXCEPT ![m] = spl[m]]
      /\ ilockdepth = [ilockdepth EXCEPT ![m] = ilockdepth[m]]
  BY <1>0 DEF TasInv, T!TypeOK
<1>2. tpc[a] \in iwaiting => (a = m => up[m] # off /\ ~Guards(m))
  BY Inside
<1>3. tpc[a] \in iwaiting => k \in ILk /\ v = IF a = m THEN "hi" ELSE "lo"
  BY <1>0, Inside
<1>4. ASSUME T!ilockTas(a, m) PROVE TasInv'
  <2>1. tpc[a] = "itas" /\ tpc[a] \in iwaiting
    BY <1>4 DEF T!ilockTas, iwaiting, guarded
  <2>2. spl[m] = "hi" /\ ilockdepth[m] = 0
    BY <2>1, Inside DEF guarded
  <2>3. PICK to \in {"ilocked"} :
          /\ tpc' = [tpc EXCEPT ![a] = to] /\ key[k] = nil
          /\ key' = [key EXCEPT ![k] = a] /\ sr' = [sr EXCEPT ![k] = v]
          /\ lv' = [lv EXCEPT ![a] = k] /\ x' = [x EXCEPT ![a] = v]
          /\ spl' = [spl EXCEPT ![m] = "hi"]
          /\ ilockdepth' = [ilockdepth EXCEPT ![m] = 1]
          /\ UNCHANGED <<up, nlocks>>
    BY <1>0, <1>1, <1>4, <2>2 DEF T!ilockTas, T!Goto, T!tas
  <2> QED
    BY <1>2, <1>3, <2>1, <2>3, IlockStep DEF iwaiting, guarded
<1>5. ASSUME T!ilockGlare(a, m) PROVE TasInv'
  <2>1. tpc[a] = "itas" /\ tpc[a] \in iwaiting
    BY <1>5 DEF T!ilockGlare, iwaiting, guarded
  <2>2. ~(T!nmach < 2) /\ ilockdepth[m] = 0
    BY <1>5, <2>1, Inside, WayOut DEF T!ilockGlare
  <2>3. PICK to \in {"ispin"} :
          /\ tpc' = [tpc EXCEPT ![a] = to] /\ key' = key /\ sr' = sr
          /\ lv' = [lv EXCEPT ![a] = k] /\ x' = [x EXCEPT ![a] = v]
          /\ spl' = [spl EXCEPT ![m] = v]
          /\ ilockdepth' = [ilockdepth EXCEPT ![m] = 0]
          /\ UNCHANGED <<up, nlocks>>
    BY <1>0, <1>1, <1>5, <2>2 DEF T!ilockGlare, T!Goto
  <2> QED
    BY <1>2, <1>3, <2>1, <2>3, IlockStep DEF iwaiting, guarded
<1>6. ASSUME T!ilockSpin(a, m) PROVE TasInv'
  <2>1. tpc[a] = "ispin" /\ tpc[a] \in iwaiting
    BY <1>6 DEF T!ilockSpin, iwaiting, guarded
  <2>2. ilockdepth[m] = 0 /\ spl[m] = v
    BY <1>3, <2>1, Inside DEF guarded
  <2>3. PICK to \in {"itas"} :
          /\ tpc' = [tpc EXCEPT ![a] = to] /\ key' = key /\ sr' = sr
          /\ lv' = [lv EXCEPT ![a] = k] /\ x' = [x EXCEPT ![a] = v]
          /\ spl' = [spl EXCEPT ![m] = "hi"]
          /\ ilockdepth' = [ilockdepth EXCEPT ![m] = 0]
          /\ UNCHANGED <<up, nlocks>>
    BY <1>0, <1>1, <1>6, <2>2 DEF T!ilockSpin, T!splhi, T!Goto
  <2> QED
    BY <1>2, <1>3, <2>1, <2>3, IlockStep DEF iwaiting, guarded
<1>7. ASSUME T!iunlock(a, m) PROVE TasInv'
  <2>1. tpc[a] = "ilocked" /\ tpc[a] \in iwaiting
    BY <1>7 DEF T!iunlock, T!Goto, iwaiting, guarded
  <2>2. spl[m] = "hi" /\ ilockdepth[m] = 1 /\ sr[k] = v
    BY <1>0, <2>1, Inside DEF guarded, TasInv, KeyOK
  <2>3. PICK to \in {"splx"} :
          /\ tpc' = [tpc EXCEPT ![a] = to]
          /\ key' = [key EXCEPT ![k] = nil] /\ sr' = sr
          /\ lv' = [lv EXCEPT ![a] = k] /\ x' = [x EXCEPT ![a] = v]
          /\ spl' = [spl EXCEPT ![m] = "hi"]
          /\ ilockdepth' = [ilockdepth EXCEPT ![m] = 0]
          /\ UNCHANGED <<up, nlocks>>
    BY <1>0, <1>1, <1>7, <2>2 DEF T!iunlock, T!Goto, T!release
  <2> QED
    BY <1>0, <1>2, <1>3, <2>1, <2>3, IlockStep DEF iwaiting, guarded
<1>8. ASSUME T!iunlockSplx(a, m) PROVE TasInv'
  <2>1. tpc[a] = "splx" /\ tpc[a] \in iwaiting
    BY <1>8 DEF T!iunlockSplx, T!Goto, iwaiting, guarded
  <2>2. ilockdepth[m] = 0
    BY <2>1, Inside
  <2>3. PICK to \in {"idle", "iret"} : to = IF a = m THEN "iret" ELSE "idle"
    OBVIOUS
  <2>4. /\ tpc' = [tpc EXCEPT ![a] = to] /\ key' = key /\ sr' = sr
        /\ lv' = [lv EXCEPT ![a] = nil] /\ x' = [x EXCEPT ![a] = v]
        /\ spl' = [spl EXCEPT ![m] = v]
        /\ ilockdepth' = [ilockdepth EXCEPT ![m] = 0]
        /\ UNCHANGED <<up, nlocks>>
    BY <1>0, <1>1, <1>8, <2>2, <2>3 DEF T!iunlockSplx, T!Goto
  <2> QED
    BY <1>2, <1>3, <2>1, <2>3, <2>4, IlockStep DEF iwaiting, guarded
<1> QED
  BY <1>4, <1>5, <1>6, <1>7, <1>8 DEF T!ILocking

LEMMA IntrSteps ==
    ASSUME T!TasLockAssumption, TasInv, NEW m \in Mach,
           \/ \E p \in Spinner, l \in ILk : T!runs(p, m) /\ T!ilock(p, m, l)
           \/ \E l \in ILk : T!intr(m, l)
           \/ T!iret(m)
    PROVE  TasInv'
<1>0. "idle" \notin guarded /\ "idle" \notin iwaiting
  BY DEF guarded, iwaiting
<1>1. /\ spl = [spl EXCEPT ![m] = spl[m]]
      /\ ilockdepth = [ilockdepth EXCEPT ![m] = ilockdepth[m]]
  BY DEF TasInv, T!TypeOK
<1>2. ASSUME NEW p \in Spinner, NEW l \in ILk, T!runs(p, m), T!ilock(p, m, l)
      PROVE  TasInv'
  <2>1. /\ tpc[p] = "idle" /\ tpc[m] = "idle" /\ up[m] = p /\ p # m
    BY <1>2 DEF T!runs, T!ilock, T!Goto, T!TasLockAssumption
  <2>2. spl[m] = "lo" /\ ilockdepth[m] = 0
    BY <1>0, <2>1 DEF TasInv, MachOK, Guards
  <2>3. PICK to \in {"itas"}, v \in {"lo"} :
          /\ tpc' = [tpc EXCEPT ![p] = to] /\ key' = key /\ sr' = sr
          /\ lv' = [lv EXCEPT ![p] = l] /\ x' = [x EXCEPT ![p] = v]
          /\ spl' = [spl EXCEPT ![m] = "hi"]
          /\ ilockdepth' = [ilockdepth EXCEPT ![m] = 0]
          /\ UNCHANGED <<up, nlocks>>
    BY <1>1, <1>2, <2>2 DEF T!ilock, T!splhi, T!Goto
  <2> QED
    BY <2>1, <2>3, IlockStep DEF iwaiting, guarded, Thread
<1>3. ASSUME NEW l \in ILk, T!intr(m, l) PROVE TasInv'
  <2>1. tpc[m] = "idle" /\ spl[m] = "lo" /\ up[m] # off
    BY <1>3 DEF T!intr, T!Goto
  <2>2. ~Guards(m) /\ ilockdepth[m] = 0
    BY <1>0, <2>1 DEF TasInv, MachOK
  <2>3. PICK to \in {"itas"}, v \in {"hi"} :
          /\ tpc' = [tpc EXCEPT ![m] = to] /\ key' = key /\ sr' = sr
          /\ lv' = [lv EXCEPT ![m] = l] /\ x' = [x EXCEPT ![m] = v]
          /\ spl' = [spl EXCEPT ![m] = "hi"]
          /\ ilockdepth' = [ilockdepth EXCEPT ![m] = 0]
          /\ UNCHANGED <<up, nlocks>>
    BY <1>1, <1>3, <2>2 DEF T!intr, T!Goto
  <2> QED
    BY <2>1, <2>2, <2>3, IlockStep DEF iwaiting, guarded, Thread
<1>4. ASSUME T!iret(m) PROVE TasInv'
  <2>1. tpc[m] = "iret"
    BY <1>4 DEF T!iret, T!Goto
  <2>2. ~Guards(m) /\ ilockdepth[m] = 0 /\ up[m] # off
    BY <1>0, <2>1 DEF TasInv, MachOK
  <2>3. PICK v \in {"lo", "hi"}, l \in Lk \cup ILk \cup {nil} :
          v = x[m] /\ l = lv[m]
    BY DEF TasInv, T!TypeOK
  <2>4. x = [x EXCEPT ![m] = v] /\ lv = [lv EXCEPT ![m] = l]
    BY <2>3 DEF TasInv, T!TypeOK
  <2>5. PICK to \in {"idle"} :
          /\ tpc' = [tpc EXCEPT ![m] = to] /\ key' = key /\ sr' = sr
          /\ lv' = [lv EXCEPT ![m] = l] /\ x' = [x EXCEPT ![m] = v]
          /\ spl' = [spl EXCEPT ![m] = "lo"]
          /\ ilockdepth' = [ilockdepth EXCEPT ![m] = 0]
          /\ UNCHANGED <<up, nlocks>>
    BY <1>1, <1>4, <2>2, <2>4 DEF T!iret, T!Goto
  <2> QED
    BY <2>1, <2>2, <2>5, IlockStep DEF iwaiting, guarded, Thread
<1> QED
  BY <1>2, <1>3, <1>4

LEMMA SchedStep ==
    ASSUME T!TasLockAssumption, TasInv, NEW m \in Mach, NEW q \in Spinner,
           T!sched(m, q)
    PROVE  TasInv'
<1>1. /\ up' = [up EXCEPT ![m] = q] /\ tpc[m] = "idle" /\ spl[m] = "lo"
      /\ \A n \in Mach : up[n] # q
      /\ UNCHANGED <<key, sr, spl, ilockdepth, nlocks, tpc, lv, x>>
      /\ up[m] # nil => nlocks[up[m]] = 0
  BY DEF T!sched
<1>2. T!TypeOK'
  BY <1>1 DEF TasInv, T!TypeOK
<1>3. /\ ~Guards(m) /\ tpc[q] \notin guarded
      /\ q # off /\ nil \notin Spinner
  BY <1>1 DEF TasInv, MachOK, ProcOK, T!TasLockAssumption
<1>4. ASSUME NEW p \in Spinner PROVE ProcOK(p)'
  <2>1. p = up[m] => tpc[p] \notin counted \cup guarded
    BY <1>1, <1>3 DEF TasInv, ProcOK, Guards
  <2>2. (\E n \in Mach : up[n] = p) /\ p # up[m] => \E n \in Mach : up'[n] = p
    BY <1>1 DEF TasInv, T!TypeOK
  <2> QED
    BY <1>1, <2>1, <2>2 DEF TasInv, ProcOK
<1>5. ASSUME NEW n \in Mach PROVE MachOK(n)'
  <2>1. Guards(n)' <=> Guards(n)
    BY <1>1, <1>3 DEF TasInv, T!TypeOK, Guards
  <2>2. n # m => up'[n] = up[n]
    BY <1>1 DEF TasInv, T!TypeOK
  <2>3. up'[m] = q
    BY <1>1 DEF TasInv, T!TypeOK
  <2>4. \A k \in Mach : up'[n] \in Spinner /\ up'[k] = up'[n] => k = n
    BY <1>1 DEF TasInv, T!TypeOK, MachOK
  <2> QED
    BY <1>1, <1>3, <2>1, <2>2, <2>3, <2>4 DEF TasInv, MachOK
<1>6. \A a \in Spinner \cup Mach : KeyOK(a)'
  BY <1>1 DEF TasInv, KeyOK
<1> QED
  BY <1>2, <1>4, <1>5, <1>6 DEF TasInv

-----------------------------------------------------------------------------
LEMMA TasInitially == ASSUME T!TasLockAssumption, T!Init PROVE TasInv
<1>1. T!TypeOK
  BY DEF T!Init, T!TypeOK
<1>2. \A p \in Spinner : ProcOK(p)
  BY DEF T!Init, ProcOK, spinning, counted, iwaiting, guarded
<1>3. \A m \in Mach : up[m] \notin Spinner
  BY DEF T!Init, T!TasLockAssumption
<1>4. \A m \in Mach : MachOK(m)
  BY <1>3 DEF T!Init, MachOK, Guards, iwaiting, guarded
<1>5. \A a \in Spinner \cup Mach : KeyOK(a)
  BY DEF T!Init, KeyOK, holding, T!TasLockAssumption
<1> QED
  BY <1>1, <1>2, <1>4, <1>5 DEF TasInv

LEMMA TasInductive ==
    ASSUME T!TasLockAssumption, TasInv, [T!Next]_T!vars
    PROVE  TasInv'
<1>1. ASSUME NEW p \in Spinner, NEW m \in Mach, T!runs(p, m),
             (\E l \in Lk : T!lock(p, l) \/ T!canlock(p, l)) \/ T!Locking(p)
      PROVE  TasInv'
  BY <1>1, LockSteps
<1>2. ASSUME NEW p \in Spinner, NEW m \in Mach, T!runs(p, m), T!ILocking(p, m)
      PROVE  TasInv'
  BY <1>2, ILockSteps DEF Thread, T!runs
<1>3. ASSUME NEW m \in Mach, T!ILocking(m, m)
      PROVE  TasInv'
  BY <1>3, ILockSteps DEF Thread
<1>4. ASSUME NEW m \in Mach,
             \/ \E p \in Spinner, l \in ILk : T!runs(p, m) /\ T!ilock(p, m, l)
             \/ \E l \in ILk : T!intr(m, l)
             \/ T!iret(m)
      PROVE  TasInv'
  BY <1>4, IntrSteps
<1>5. ASSUME NEW m \in Mach, NEW q \in Spinner, T!sched(m, q) PROVE TasInv'
  BY <1>5, SchedStep
<1>6. CASE UNCHANGED T!vars
  BY <1>6 DEF T!vars, TasInv, T!TypeOK, ProcOK, MachOK, KeyOK, Guards
<1> QED
  BY <1>1, <1>2, <1>3, <1>4, <1>5, <1>6 DEF T!Next, T!Process, T!Handler

\* On any number of processors, whatever locks are taken and interrupts come:
\* the level that iunlock restores is the one ilock found, who holds a lock
\* keeps its processor, sched is not called inside an ilock, and no handler
\* waits for the process it interrupted, so that ilock never finds itself on
\* the only processor without a way out.
THEOREM SpinLocksSafe ==
    ASSUME T!TasLockAssumption PROVE T!Spec => []SpinLocksOK
<1>1. T!Init => TasInv
  BY TasInitially
<1>2. TasInv /\ [T!Next]_T!vars => TasInv'
  BY TasInductive
<1>3. TasInv => SpinLocksOK
  <2> SUFFICES ASSUME TasInv PROVE T!SpinLocksOK
    BY DEF SpinLocksOK
  <2>1. \A a \in Spinner \cup Mach : tpc[a] # "panic"
    BY DEF TasInv, ProcOK, MachOK, spinning, counted, iwaiting, guarded
  <2>2. ASSUME NEW m \in Mach, spl[m] = "lo" PROVE ilockdepth[m] = 0
    BY <2>2 DEF TasInv, MachOK
  <2>3. ASSUME NEW m \in Mach, tpc[m] = "idle",
               up[m] \in Spinner => tpc[up[m]] \notin {"itas", "ilocked", "splx"}
        PROVE  spl[m] = "lo"
    BY <2>3 DEF TasInv, MachOK, Guards, guarded
  <2>4. ASSUME NEW l \in Lk \cup ILk, key[l] \in Spinner
        PROVE  \E m \in Mach : up[m] = key[l]
    BY <2>4 DEF TasInv, KeyOK, ProcOK, holding, counted, guarded
  <2>5. ASSUME NEW m \in Mach, tpc[m] \in {"itas", "ispin"},
               key[lv[m]] = up[m], up[m] # nil
        PROVE  FALSE
    <3>1. lv[m] \in ILk /\ up[m] # off /\ ~Guards(m)
      BY <2>5 DEF TasInv, MachOK, iwaiting, guarded
    <3>2. up[m] \in Spinner
      BY <2>5, <3>1 DEF TasInv, T!TypeOK
    <3>3. tpc[up[m]] = "ilocked"
      BY <2>5, <3>1, <3>2
         DEF TasInv, KeyOK, ProcOK, holding, spinning, counted,
             T!TasLockAssumption
    <3> QED
      BY <3>1, <3>2, <3>3 DEF Guards, guarded
  <2> QED
    BY <2>1, <2>2, <2>3, <2>4, <2>5
       DEF TasInv, T!SpinLocksOK, T!LevelOK, T!SplRestored, T!HolderRuns,
           T!NeverStuck, T!NoPanic, T!HandlerFree
<1> QED
  BY <1>1, <1>2, <1>3, PTL DEF T!Spec
=============================================================================
