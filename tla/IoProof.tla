------------------------------ MODULE IoProof -------------------------------
(***************************************************************************)
(* What is behind a read or a write, for any number of processes, tags,    *)
(* faults, readers and writers, and for blocks of every size.              *)
(*                                                                         *)
(* The mount driver: every call gets its own answer because the answers to *)
(* a tag are over before the tag is used again: the requests of one        *)
(* process are answered in the order flush after call, later flush after   *)
(* earlier one, and whoever has the answer to his last flush has nothing   *)
(* else outstanding.                                                       *)
(*                                                                         *)
(* The queues: every routine moves bytes from one end of a list of blocks, *)
(* whatever their sizes, so that a queue is one of module ByteQueue; and   *)
(* whoever sleeps on a queue has left a flag that the other side looks at  *)
(* when it changes what the sleeper waits for.                             *)
(***************************************************************************)
EXTENDS MCIo, QueueTheorems

-----------------------------------------------------------------------------
\* The mount driver.
Ask == {"call", "flush"} \X Nat
CallPlaces == {"out", "gate", "read", "sleep", "asleep", "awake", "wake", "done",
           "noted", "failed"}

TypeInv ==
    /\ faults \in Worlds
    /\ rpc \in [Tag -> [ask : Ask, done : BOOLEAN, reply : Ask]]
    /\ free \in Seq(Tag) /\ queue \in Seq(Tag)
    /\ rip \in Proc \cup {nil}
    /\ chain \in [Proc -> Seq(Tag)]
    /\ pc \in [Proc -> CallPlaces]
    /\ towake \in [Proc -> Tag \cup {nil}]
    /\ pend \in Seq([tag : Tag, ask : Ask])
    /\ hung \in BOOLEAN /\ ncall \in Nat /\ nfault \in Nat

\* A tag is free or in one place of the chain of one process, and what has
\* not been answered is on the queue.
TagInv ==
    /\ Once(free) /\ Len(free) <= MaxFree /\ Once(queue)
    /\ \A p \in Proc : Once(chain[p])
    /\ \A p \in Proc, t \in Tag : On(t, chain[p]) =>
         /\ ~On(t, free)
         /\ On(t, queue) <=> ~rpc[t].done
         /\ \A u \in Proc : On(t, chain[u]) => p = u
    /\ \A t \in Tag : On(t, queue) => \E p \in Proc : On(t, chain[p])

\* A process has a chain while it is inside mountio; who reads is m->rip.
StepInv ==
    \A p \in Proc :
        /\ pc[p] = "out" <=> chain[p] = <<>>
        /\ pc[p] \in {"read", "wake"} => rip = p
        /\ rip = p => pc[p] \in {"read", "wake", "noted", "failed"}
        /\ pc[p] = "done" => rpc[chain[p][1]].done

\* At the end of a chain is the call, and before it are its flushes.
AskInv ==
    \A p \in Proc : \A i \in 1 .. Len(chain[p]) :
        IF i = Len(chain[p]) THEN rpc[chain[p][i]].ask[1] = "call"
        ELSE rpc[chain[p][i]].ask = Flush(chain[p][Len(chain[p])])

\* What may still be answered to p is what p asked.
AskedFor(p) ==
    \A i \in DOMAIN pend :
        On(pend[i].tag, chain[p]) => pend[i].ask = rpc[pend[i].tag].ask

\* Everything outstanding belongs to somebody, once; of the requests in the
\* chain of p the newer are outstanding after the older, and none of them is
\* any more when the newest has been answered.
NoStale == \A i \in DOMAIN pend : \E p \in Proc : On(pend[i].tag, chain[p])
OnceSent == \A i, j \in DOMAIN pend : pend[i].tag = pend[j].tag => i = j
Newer(p) ==
    \A a, b \in 1 .. Len(chain[p]) : \A i, j \in DOMAIN pend :
        a < b /\ pend[i].tag = chain[p][a] /\ pend[j].tag = chain[p][b] => j < i
Settled(p) ==
    chain[p] # <<>> /\ rpc[chain[p][1]].done =>
        \A i \in DOMAIN pend : ~On(pend[i].tag, chain[p])

PendInv ==
    "garbage" \notin faults =>
        /\ \A p \in Proc : pc[p] = "failed" => hung
        /\ \A p \in Proc : pc[p] # "failed" => AskedFor(p)
        /\ ~hung => /\ NoStale /\ OnceSent
                    /\ \A p \in Proc : Newer(p) /\ Settled(p)

IInv == TypeInv /\ TagInv /\ StepInv /\ AskInv /\ PendInv /\ OwnReply

\* Whoever sleeps has no answer but one he is about to be woken for, and as
\* long as nobody reads somebody without an answer is about to.
Waits(p) == pc[p] \in {"sleep", "awake"} /\ ~rpc[chain[p][1]].done
BatonInv ==
    /\ \A p \in Proc : pc[p] = "noted" => "note" \in faults
    /\ hung => "hangup" \in faults
    /\ \A p \in Proc : pc[p] = "asleep" /\ rpc[chain[p][1]].done =>
         rip # nil /\ pc[rip] = "wake" /\ towake[rip] = chain[p][1]
    /\ rip = nil /\ (\E p \in Proc : pc[p] = "asleep") =>
         \E p \in Proc : pc[p] \in {"gate", "noted"} \/ Waits(p)

-----------------------------------------------------------------------------
\* The free list when the first k of a chain are put on it, the last of them
\* in front.
Give(c, k, s) == Reverse(SubSeq(c, 1, k)) \o s

LEMMA Freed ==
    ASSUME NEW S, NEW s \in Seq(S), NEW c \in Seq(S), NEW k \in 0 .. Len(c)
    PROVE  /\ Give(c, k, s) \in Seq(S) /\ Len(Give(c, k, s)) = Len(s) + k
           /\ \A e : On(e, Give(c, k, s)) => On(e, s) \/ On(e, c)
           /\ (Once(s) /\ Once(c) /\ \A e : ~(On(e, s) /\ On(e, c)))
                => Once(Give(c, k, s))
<1>00. PICK r : r = Give(c, k, s)
  OBVIOUS
<1>1. Len(s) \in Nat /\ Len(c) \in Nat /\ k \in Nat /\ k <= Len(c)
      /\ DOMAIN s = 1 .. Len(s) /\ DOMAIN c = 1 .. Len(c)
  BY LenProperties
<1>2. PICK b : b = SubSeq(c, 1, k)
  OBVIOUS
<1>3. b \in Seq(S) /\ Len(b) = k /\ \A i \in 1 .. k : b[i] = c[i]
  <2>1. \A i \in 1 .. k : i \in 1 .. Len(c) /\ c[i] \in S
    BY <1>1, ElementOfSeq
  <2>2. b = [i \in 1 .. k |-> c[i]]
    BY <1>1, <1>2
  <2> QED
    BY <2>1, <2>2, <1>1
<1>4. PICK a : a = Reverse(b)
  OBVIOUS
<1>5. /\ a \in Seq(S) /\ Len(a) = k
      /\ \A i \in 1 .. k : a[i] = c[k - i + 1] /\ k - i + 1 \in 1 .. k
  <2>1. \A i \in 1 .. k : k - i + 1 \in 1 .. k
    BY <1>1
  <2>2. a = [i \in 1 .. k |-> b[k - i + 1]]
    BY <1>3, <1>4 DEF Reverse
  <2>3. \A i \in 1 .. k : b[i] \in S
    BY <1>3, ElementOfSeq
  <2>4. \A i \in 1 .. k : a[i] = c[k - i + 1] /\ a[i] \in S
    BY <1>3, <2>1, <2>2, <2>3
  <2>5. a = [i \in 1 .. k |-> a[i]]
    BY <2>2
  <2>6. a \in Seq(S) /\ Len(a) = k
    BY <1>1, <2>4, <2>5
  <2> QED
    BY <2>1, <2>4, <2>6
<1>6. /\ r \in Seq(S) /\ Len(r) = k + Len(s) /\ DOMAIN r = 1 .. k + Len(s)
      /\ \A i \in 1 .. k + Len(s) : r[i] = IF i <= k THEN a[i] ELSE s[i - k]
  <2>1. r = a \o s
    BY <1>00, <1>2, <1>4 DEF Give
  <2>0. a \in Seq(S)
    BY <1>5
  <2>4. /\ a \o s \in Seq(S) /\ Len(a \o s) = Len(a) + Len(s)
        /\ \A i \in 1 .. Len(a) + Len(s) :
             (a \o s)[i] = IF i <= Len(a) THEN a[i] ELSE s[i - Len(a)]
    BY <2>0, ConcatProperties
  <2>2. /\ r \in Seq(S) /\ Len(r) = Len(a) + Len(s)
        /\ \A i \in 1 .. Len(a) + Len(s) :
             r[i] = IF i <= Len(a) THEN a[i] ELSE s[i - Len(a)]
    BY <2>1, <2>4, Zenon
  <2>3. DOMAIN r = 1 .. Len(r)
    BY <2>2, LenProperties
  <2> QED
    BY <2>2, <2>3, <1>5
<1>7. ASSUME NEW i \in 1 .. k
      PROVE  k - i + 1 \in DOMAIN c /\ r[i] = c[k - i + 1]
  <2>1. i \in 1 .. k + Len(s) /\ i <= k
    BY <1>1
  <2>2. k - i + 1 \in 1 .. Len(c)
    BY <1>1
  <2> QED
    BY <2>1, <2>2, <1>1, <1>5, <1>6
<1>8. ASSUME NEW i \in k + 1 .. k + Len(s)
      PROVE  i - k \in DOMAIN s /\ r[i] = s[i - k]
  <2>1. i \in 1 .. k + Len(s) /\ ~(i <= k) /\ i - k \in 1 .. Len(s)
    BY <1>1
  <2> QED
    BY <2>1, <1>1, <1>6
<1>0. \A i \in DOMAIN r : i \in 1 .. k \/ i \in k + 1 .. k + Len(s)
  BY <1>1, <1>6
<1>9. ASSUME NEW e, On(e, r) PROVE On(e, s) \/ On(e, c)
  <2>1. PICK i \in DOMAIN r : r[i] = e
    BY <1>9 DEF On
  <2>2. CASE i \in 1 .. k
    BY <2>1, <2>2, <1>7 DEF On
  <2>3. CASE i \in k + 1 .. k + Len(s)
    BY <2>1, <2>3, <1>8 DEF On
  <2> QED
    BY <2>2, <2>3, <1>0
<1>10. ASSUME Once(s), Once(c), \A e : ~(On(e, s) /\ On(e, c)) PROVE Once(r)
  <2> SUFFICES ASSUME NEW i \in DOMAIN r, NEW j \in DOMAIN r, r[i] = r[j]
               PROVE  i = j
    BY DEF Once
  <2>1. CASE i \in 1 .. k /\ j \in 1 .. k
    <3>1. k - i + 1 = k - j + 1
      BY <2>1, <1>7, <1>10 DEF Once
    <3> QED
      BY <3>1, <2>1, <1>1
  <2>2. CASE i \in k + 1 .. k + Len(s) /\ j \in k + 1 .. k + Len(s)
    <3>1. i - k = j - k
      BY <2>2, <1>8, <1>10 DEF Once
    <3> QED
      BY <3>1, <2>2, <1>1
  <2>3. ASSUME NEW x \in 1 .. k, NEW y \in k + 1 .. k + Len(s) PROVE r[x] # r[y]
    BY <1>7, <1>8, <1>10 DEF On
  <2> QED
    BY <2>1, <2>2, <2>3, <1>0
<1> QED
  BY <1>00, <1>1, <1>6, <1>9, <1>10

-----------------------------------------------------------------------------
\* Membership in a queue, and the tags that are used.
LEMMA Members ==
    /\ \A s, e : e \in ToSet(s) <=> On(e, s)
    /\ \A t : t \in used <=> \E p \in Proc : On(t, chain[p])
  BY OnToSet DEF used

\* The tag of a new Mntrpc is nobody's.
LEMMA NewTag ==
    ASSUME IInv, free # <<>> \/ Tag \ used # {},
           free' = IF free # <<>> THEN Tail(free) ELSE free
    PROVE  /\ new \in Tag
           /\ \A p \in Proc : ~On(new, chain[p])
           /\ free' \in Seq(Tag) /\ Once(free') /\ Len(free') <= MaxFree
           /\ \A t : On(t, free') => On(t, free) /\ t # new
<1>1. /\ free \in Seq(Tag) /\ Once(free) /\ Len(free) <= MaxFree
      /\ \A p \in Proc, t \in Tag : On(t, chain[p]) => ~On(t, free)
  BY DEF IInv, TypeInv, TagInv
<1>2. MaxFree \in Nat /\ MaxTag \in Nat
  BY MountMuxAssumption
<1>3. CASE free # <<>>
  <2>1. new = Head(free) /\ free' = Tail(free)
    BY <1>3 DEF new
  <2>2. /\ new \in Tag /\ On(new, free) /\ free' \in Seq(Tag)
        /\ Len(free) \in Nat \ {0} /\ Len(free') = Len(free) - 1
        /\ \A t : On(t, free) <=> On(t, free') \/ t = new
        /\ Once(free') /\ ~On(new, free')
    BY <2>1, <1>1, <1>3, TailQueue
  <2>3. Len(free') <= MaxFree
    BY <2>2, <1>1, <1>2
  <2> QED
    BY <2>2, <2>3, <1>1
<1>4. CASE free = <<>>
  <2>1. new = Min(Tag \ used) /\ free' = free
    BY <1>4 DEF new
  <2>2. Tag \ used \in SUBSET Nat /\ Tag \ used # {}
    BY <1>2, <1>4 DEF Tag
  <2>3. \E n \in Tag \ used : \A m \in Tag \ used : n <= m
    BY <2>2, Least
  <2>4. new \in Tag \ used
    BY <2>1, <2>3 DEF Min
  <2>5. \A t : ~On(t, free)
    BY <1>4 DEF On
  <2> QED
    BY <2>1, <2>4, <2>5, <1>1, Members
<1> QED
  BY <1>3, <1>4

-----------------------------------------------------------------------------
\* A step that only moves processes.
LEMMA MoveStep ==
    ASSUME IInv, TypeInv', StepInv',
           UNCHANGED <<faults, rpc, free, queue, chain, pend, hung>>,
           \A p \in Proc : pc'[p] = "failed" =>
              pc[p] = "failed" \/ hung \/ "garbage" \in faults,
           \A p \in Proc : pc[p] = "failed" => pc'[p] = "failed"
    PROVE  IInv'
<1>1. TagInv' /\ AskInv'
  BY DEF IInv, TagInv, AskInv
<1>2. ASSUME "garbage" \notin faults PROVE PendInv'
  <2>1. /\ \A p \in Proc : pc[p] = "failed" => hung
        /\ \A p \in Proc : pc[p] # "failed" => AskedFor(p)
        /\ ~hung => /\ NoStale /\ OnceSent
                    /\ \A p \in Proc : Newer(p) /\ Settled(p)
    BY <1>2 DEF IInv, PendInv
  <2>2. /\ \A p \in Proc : AskedFor(p)' <=> AskedFor(p)
        /\ \A p \in Proc : Newer(p)' <=> Newer(p)
        /\ \A p \in Proc : Settled(p)' <=> Settled(p)
        /\ NoStale' <=> NoStale
        /\ OnceSent' <=> OnceSent
    BY DEF AskedFor, NoStale, OnceSent, Newer, Settled
  <2> QED
    BY <2>1, <2>2, <1>2 DEF PendInv
<1>3. "garbage" \in faults => PendInv'
  BY DEF PendInv
<1>4. OwnReply'
  BY DEF IInv, OwnReply
<1> QED
  BY <1>1, <1>2, <1>3, <1>4 DEF IInv

\* mntgate wakes at most one process that sleeps, and one without an answer
\* if there is any.
LEMMA GateStep ==
    ASSUME IInv, NEW p \in Proc, NEW to \in CallPlaces, mntgate(p, to),
           pc[p] # "asleep"
    PROVE  /\ rip' = nil /\ pc' \in [Proc -> CallPlaces] /\ pc'[p] = to
           /\ \A u \in Proc \ {p} :
                pc'[u] = pc[u] \/ (pc[u] = "asleep" /\ pc'[u] = "awake")
           /\ \A u \in Proc : pc[u] = "asleep" /\ ~rpc[chain[u][1]].done =>
                \E v \in Proc \ {p} : /\ pc[v] = "asleep" /\ pc'[v] = "awake"
                                      /\ ~rpc[chain[v][1]].done
<1> DEFINE asleep == {i \in DOMAIN queue :
                        ~rpc[queue[i]].done /\ sleeping(queue[i])}
<1>1. /\ rip' = nil
      /\ pc' = [u \in Proc |->
                  IF u = p THEN to
                  ELSE IF asleep # {} /\ u = owner(queue[Min(asleep)])
                       THEN "awake" ELSE pc[u]]
  BY DEF mntgate
<1>2. /\ queue \in Seq(Tag) /\ pc \in [Proc -> CallPlaces]
      /\ chain \in [Proc -> Seq(Tag)]
      /\ \A u \in Proc : pc[u] # "out" => chain[u] # <<>>
  BY DEF IInv, TypeInv, StepInv
<1>3. \A u, v \in Proc, t \in Tag : On(t, chain[u]) /\ On(t, chain[v]) => u = v
  BY DEF IInv, TagInv
<1>4. \A u \in Proc : pc[u] = "asleep" =>
        /\ Head(chain[u]) = chain[u][1] /\ chain[u][1] \in Tag
        /\ On(chain[u][1], chain[u])
  BY <1>2, Ends
<1>5. ASSUME asleep # {}
      PROVE  \E v \in Proc \ {p} : /\ owner(queue[Min(asleep)]) = v
                                   /\ pc[v] = "asleep"
                                   /\ ~rpc[chain[v][1]].done
  <2>1. asleep \in SUBSET Nat
    BY <1>2, LenProperties
  <2>2. \E i \in asleep : \A j \in asleep : i <= j
    BY <2>1, <1>5, Least
  <2>3. Min(asleep) \in asleep
    BY <2>2 DEF Min
  <2>4. PICK t : t = queue[Min(asleep)] /\ ~rpc[t].done /\ sleeping(t)
    BY <2>3
  <2>5. PICK v \in Proc : pc[v] = "asleep" /\ Head(chain[v]) = t
    BY <2>4 DEF sleeping
  <2>6. t = chain[v][1] /\ t \in Tag /\ On(t, chain[v])
    BY <2>5, <1>4
  <2>7. \A u \in Proc : t \in ToSet(chain[u]) <=> u = v
    BY <2>6, <1>3, Members
  <2>8. owner(t) = v
    BY <2>7 DEF owner
  <2> QED
    BY <2>4, <2>5, <2>6, <2>8
<1>6. ASSUME NEW u \in Proc, pc[u] = "asleep", ~rpc[chain[u][1]].done
      PROVE  asleep # {}
  <2>1. On(chain[u][1], queue)
    BY <1>4, <1>6 DEF IInv, TagInv
  <2>2. PICK i \in DOMAIN queue : queue[i] = chain[u][1]
    BY <2>1 DEF On
  <2>3. sleeping(queue[i])
    BY <2>2, <1>4, <1>6 DEF sleeping
  <2> QED
    BY <2>2, <2>3, <1>6
<1>7. pc' \in [Proc -> CallPlaces] /\ pc'[p] = to
  BY <1>1, <1>2 DEF CallPlaces
<1> HIDE DEF asleep
<1>8. \A u \in Proc \ {p} :
        pc'[u] = pc[u] \/ (pc[u] = "asleep" /\ pc'[u] = "awake")
  BY <1>1, <1>5
<1>9. ASSUME asleep # {}
      PROVE  \E v \in Proc \ {p} : /\ pc[v] = "asleep" /\ pc'[v] = "awake"
                                   /\ ~rpc[chain[v][1]].done
  BY <1>1, <1>5, <1>9
<1> QED
  BY <1>1, <1>6, <1>7, <1>8, <1>9

\* The reading is passed on.
LEMMA PassSteps ==
    ASSUME IInv, NEW p \in Proc, readDone(p) \/ pass(p) PROVE IInv'
<1>1. PICK to \in {"done", "noted", "failed"} :
        /\ mntgate(p, to)
        /\ UNCHANGED <<faults, rpc, free, queue, chain, towake, server, counts>>
        /\ pc[p] \in {"read", "noted", "failed"}
        /\ to = "done" => pc[p] = "read" /\ rpc[Head(chain[p])].done
        /\ to # "done" => pc[p] = to
        /\ rip = p
  <2>1. readDone(p) => rip = p
    BY DEF IInv, StepInv, readDone
  <2> QED
    BY <2>1 DEF readDone, pass
<1>2. /\ rip' = nil /\ pc' \in [Proc -> CallPlaces] /\ pc'[p] = to
      /\ \A u \in Proc \ {p} :
           pc'[u] = pc[u] \/ (pc[u] = "asleep" /\ pc'[u] = "awake")
  <2>1. to \in CallPlaces /\ pc[p] # "asleep"
    BY <1>1 DEF CallPlaces
  <2> QED
    BY <1>1, <2>1, GateStep
<1>3. UNCHANGED <<faults, rpc, free, queue, chain, towake, pend, hung, ncall,
                  nfault>>
  BY <1>1 DEF server, counts
<1>4. TypeInv'
  BY <1>2, <1>3 DEF IInv, TypeInv
<1>5. Head(chain[p]) = chain[p][1]
  BY <1>1, Ends DEF IInv, TypeInv, StepInv
<1>6. StepInv'
  <2>1. nil \notin Proc
    BY MountMuxAssumption
  <2>2. ASSUME NEW u \in Proc
        PROVE  /\ pc[u] = "out" <=> chain[u] = <<>>
               /\ pc[u] \in {"read", "wake"} => u = p
               /\ pc[u] = "done" => rpc[chain[u][1]].done
    BY <1>1 DEF IInv, StepInv
  <2>3. pc[p] # "out"
    BY <1>1
  <2> QED
    BY <1>1, <1>2, <1>3, <1>5, <2>1, <2>2, <2>3 DEF StepInv
<1>7. \A u \in Proc : pc'[u] = "failed" <=> pc[u] = "failed"
  BY <1>1, <1>2
<1> QED
  BY <1>3, <1>4, <1>6, <1>7, MoveStep

\* The steps that only move processes.
LEMMA MoveSteps ==
    ASSUME IInv, NEW p \in Proc,
           gate(p) \/ sleep(p) \/ awake(p) \/ wake(p) \/ note(p)
    PROVE  IInv'
<1>1. UNCHANGED <<faults, rpc, free, queue, chain, pend, hung, ncall>>
  BY DEF gate, sleep, awake, wake, note, server, counts
<1>2. /\ TypeInv /\ StepInv /\ nil \notin Proc
      /\ pc \in [Proc -> CallPlaces] /\ towake \in [Proc -> Tag \cup {nil}]
      /\ rip \in Proc \cup {nil} /\ nfault \in Nat
  BY MountMuxAssumption DEF IInv, TypeInv
<1>3. pc[p] # "out" => Head(chain[p]) = chain[p][1]
  BY <1>2, Ends DEF TypeInv, StepInv
<1>4. nfault' \in Nat
  BY <1>2 DEF gate, sleep, awake, wake, note, counts
<1>5. /\ pc' \in [Proc -> CallPlaces] /\ rip' \in Proc \cup {nil}
      /\ towake' \in [Proc -> Tag \cup {nil}]
  BY <1>2 DEF gate, sleep, awake, wake, note, Goto, CallPlaces
<1>6. TypeInv'
  BY <1>1, <1>4, <1>5 DEF IInv, TypeInv
<1>7. StepInv'
  <2>1. CASE gate(p)
    BY <2>1, <1>1, <1>2 DEF gate, Goto, StepInv
  <2>2. CASE sleep(p)
    BY <2>2, <1>1, <1>2 DEF sleep, Goto, StepInv
  <2>3. CASE awake(p)
    BY <2>3, <1>1, <1>2, <1>3 DEF awake, Goto, StepInv
  <2>4. CASE wake(p)
    BY <2>4, <1>1, <1>2 DEF wake, StepInv
  <2>5. CASE note(p)
    BY <2>5, <1>1, <1>2 DEF note, StepInv
  <2> QED
    BY <2>1, <2>2, <2>3, <2>4, <2>5
<1>8. \A u \in Proc : pc'[u] = "failed" <=> pc[u] = "failed"
  BY <1>2 DEF gate, sleep, awake, wake, note, Goto
<1> QED
  BY <1>1, <1>6, <1>7, <1>8, MoveStep

-----------------------------------------------------------------------------
\* A Mntrpc in front of a chain.
LEMMA Pushed ==
    ASSUME NEW S, NEW s \in Seq(S), NEW e \in S, NEW c, c = <<e>> \o s
    PROVE  /\ c \in Seq(S) /\ c # <<>> /\ Len(s) \in Nat
           /\ Len(c) = Len(s) + 1 /\ DOMAIN c = 1 .. Len(s) + 1
           /\ c[1] = e /\ \A i \in 1 .. Len(s) : c[i + 1] = s[i]
<1>1. <<e>> \in Seq(S) /\ Len(<<e>>) = 1 /\ <<e>>[1] = e
  OBVIOUS
<1>2. Len(s) \in Nat
  BY LenProperties
<1>3. /\ <<e>> \o s \in Seq(S) /\ Len(<<e>> \o s) = 1 + Len(s)
      /\ \A i \in 1 .. 1 + Len(s) :
           (<<e>> \o s)[i] = IF i <= 1 THEN <<e>>[i] ELSE s[i - 1]
  BY <1>1, ConcatProperties
<1>4. \A i \in 1 .. Len(s) : /\ i + 1 \in 1 .. 1 + Len(s)
                             /\ ~(i + 1 <= 1) /\ (i + 1) - 1 = i
  BY <1>2
<1>5. \A i \in 1 .. Len(s) : (<<e>> \o s)[i + 1] = s[i]
  BY <1>3, <1>4
<1>6. (<<e>> \o s)[1] = e
  BY <1>1, <1>2, <1>3
<1>7. c # <<>>
  BY <1>2, <1>3, EmptySeq
<1>8. DOMAIN c = 1 .. Len(c)
  BY <1>3, LenProperties
<1> QED
  BY <1>2, <1>3, <1>5, <1>6, <1>7, <1>8

\* A new request is queued and, unless the connection is hung up, sent.
LEMMA SendStep ==
    ASSUME IInv, NEW p \in Proc, NEW from \in {"out", "noted"},
           NEW ask \in Ask, send(p, from, ask), ncall' \in Nat, rip # p,
           \/ chain[p] = <<>> /\ ask[1] = "call"
           \/ chain[p] # <<>> /\ ask = Flush(Last(chain[p]))
    PROVE  IInv'
<1>1. PICK n : n = new
  OBVIOUS
<1>2. PICK c : c = <<n>> \o chain[p]
  OBVIOUS
<1>3. PICK to \in {"failed", "gate", "noted"} :
        /\ pc[p] = from /\ pc' = [pc EXCEPT ![p] = to]
        /\ hung <=> to = "failed"
  BY DEF send, Goto
<1>4. /\ rpc' = [rpc EXCEPT ![n] = fresh(ask)]
      /\ chain' = [chain EXCEPT ![p] = c]
      /\ queue' = <<n>> \o queue
      /\ free' = IF free # <<>> THEN Tail(free) ELSE free
      /\ free # <<>> \/ Tag \ used # {}
      /\ faults' = faults /\ rip' = rip /\ towake' = towake /\ hung' = hung
      /\ hung => pend' = pend
      /\ ~hung => pend' = Append(pend, [tag |-> n, ask |-> ask])
  BY <1>1, <1>2 DEF send
<1>5. nfault' \in Nat
  BY DEF send, IInv, TypeInv
<1>6. /\ n \in Tag /\ \A u \in Proc : ~On(n, chain[u])
      /\ free' \in Seq(Tag) /\ Once(free') /\ Len(free') <= MaxFree
      /\ \A t : On(t, free') => On(t, free) /\ t # n
  BY <1>1, <1>4, NewTag
<1>7. /\ c \in Seq(Tag) /\ c # <<>> /\ Len(chain[p]) \in Nat
      /\ Len(c) = Len(chain[p]) + 1 /\ DOMAIN c = 1 .. Len(chain[p]) + 1
      /\ c[1] = n /\ \A i \in 1 .. Len(chain[p]) : c[i + 1] = chain[p][i]
  BY <1>2, <1>6, Pushed DEF IInv, TypeInv
<1>8. \A t : On(t, c) <=> On(t, chain[p]) \/ t = n
  BY <1>2, <1>6, PushQueue DEF IInv, TypeInv
<1>9. Once(c)
  BY <1>2, <1>6, PushQueue DEF IInv, TypeInv, TagInv
<1>10. ~On(n, queue)
  BY <1>6 DEF IInv, TagInv
<1>11. /\ queue' \in Seq(Tag) /\ Once(queue')
       /\ \A t : On(t, queue') <=> On(t, queue) \/ t = n
  BY <1>4, <1>6, <1>10, PushQueue DEF IInv, TypeInv, TagInv
<1>12. /\ chain'[p] = c /\ \A u \in Proc \ {p} : chain'[u] = chain[u]
       /\ rpc'[n] = fresh(ask) /\ \A t \in Tag \ {n} : rpc'[t] = rpc[t]
       /\ pc'[p] = to /\ \A u \in Proc \ {p} : pc'[u] = pc[u]
  BY <1>3, <1>4, <1>6 DEF IInv, TypeInv
<1>13. fresh(ask) \in [ask : Ask, done : BOOLEAN, reply : Ask]
       /\ fresh(ask).ask = ask /\ fresh(ask).done = FALSE
  BY DEF fresh, Call, Ask
<1> DEFINE Sent == [tag : Tag, ask : Ask]
<1>0. PICK m : m = [tag |-> n, ask |-> ask]
  OBVIOUS
<1>01. m \in Sent /\ m.tag = n /\ m.ask = ask
  BY <1>0, <1>6
<1>02. pend \in Seq(Sent)
  BY DEF IInv, TypeInv
<1>14. pend' \in Seq(Sent)
  <2> HIDE DEF Sent
  <2>1. Append(pend, m) \in Seq(Sent)
    BY <1>01, <1>02, AppendProperties
  <2>2. pend' = pend \/ pend' = Append(pend, m)
    BY <1>0, <1>4
  <2> QED
    BY <2>1, <2>2, <1>02
<1>15. TypeInv'
  <2>1. rpc' \in [Tag -> [ask : Ask, done : BOOLEAN, reply : Ask]]
    BY <1>4, <1>6, <1>13 DEF IInv, TypeInv
  <2>2. chain' \in [Proc -> Seq(Tag)]
    BY <1>4, <1>7 DEF IInv, TypeInv
  <2>3. pc' \in [Proc -> CallPlaces]
    BY <1>3 DEF IInv, TypeInv, CallPlaces
  <2> QED
    BY <2>1, <2>2, <2>3, <1>4, <1>5, <1>6, <1>11, <1>14 DEF IInv, TypeInv
<1>16. TagInv'
  <2>1. ASSUME NEW u \in Proc PROVE Once(chain'[u])
    BY <1>9, <1>12 DEF IInv, TagInv
  <2>2. ASSUME NEW u \in Proc, NEW t \in Tag, On(t, chain'[u])
        PROVE  /\ ~On(t, free')
               /\ On(t, queue') <=> ~rpc'[t].done
               /\ \A v \in Proc : On(t, chain'[v]) => u = v
    <3>1. CASE t = n
      <4>1. \A v \in Proc : On(t, chain'[v]) => v = p
        BY <3>1, <1>6, <1>12
      <4> QED
        BY <4>1, <2>2, <3>1, <1>6, <1>11, <1>12, <1>13
    <3>2. CASE t # n
      <4>1. \A v \in Proc : On(t, chain'[v]) <=> On(t, chain[v])
        BY <3>2, <1>8, <1>12
      <4>2. rpc'[t] = rpc[t] /\ (On(t, queue') <=> On(t, queue))
        BY <3>2, <1>11, <1>12
      <4> QED
        BY <4>1, <4>2, <2>2, <1>6 DEF IInv, TagInv
    <3> QED
      BY <3>1, <3>2
  <2>3. ASSUME NEW t \in Tag, On(t, queue')
        PROVE  \E u \in Proc : On(t, chain'[u])
    <3>1. CASE t = n
      BY <3>1, <1>8, <1>12
    <3>2. CASE t # n
      <4>1. PICK u \in Proc : On(t, chain[u])
        BY <2>3, <3>2, <1>11 DEF IInv, TagInv
      <4> QED
        BY <4>1, <1>8, <1>12
    <3> QED
      BY <3>1, <3>2
  <2> QED
    BY <2>1, <2>2, <2>3, <1>6, <1>11 DEF TagInv
<1>17. ASSUME NEW u \in Proc, NEW i \in 1 .. Len(chain[u])
       PROVE  /\ chain[u][i] \in Tag \ {n} /\ On(chain[u][i], chain[u])
              /\ rpc'[chain[u][i]] = rpc[chain[u][i]]
  <2>1. chain[u] \in Seq(Tag)
    BY DEF IInv, TypeInv
  <2>2. i \in DOMAIN chain[u] /\ chain[u][i] \in Tag
    BY <2>1, ElementOfSeq, LenProperties
  <2>3. On(chain[u][i], chain[u])
    BY <2>2 DEF On
  <2> QED
    BY <2>2, <2>3, <1>6, <1>12
<1>18. ASSUME NEW u \in Proc, chain[u] # <<>>
       PROVE  chain[u][1] # n /\ rpc'[chain[u][1]] = rpc[chain[u][1]]
  <2>1. 1 \in 1 .. Len(chain[u])
    BY <1>18, Ends DEF IInv, TypeInv
  <2> QED
    BY <2>1, <1>17
<1>19. StepInv'
  <2>1. nil \notin Proc /\ rip # p
    BY MountMuxAssumption
  <2>2. ASSUME NEW u \in Proc \ {p}
        PROVE  /\ pc[u] = "out" <=> chain[u] = <<>>
               /\ pc[u] \in {"read", "wake"} => rip = u
               /\ rip = u => pc[u] \in {"read", "wake", "noted", "failed"}
               /\ pc[u] = "done" => rpc'[chain[u][1]].done
    BY <1>18 DEF IInv, StepInv
  <2> QED
    BY <2>1, <2>2, <1>3, <1>4, <1>7, <1>12 DEF StepInv
<1>20. AskInv'
  <2>1. ASSUME NEW u \in Proc \ {p}, NEW i \in 1 .. Len(chain[u])
        PROVE  IF i = Len(chain[u]) THEN rpc'[chain[u][i]].ask[1] = "call"
               ELSE rpc'[chain[u][i]].ask = Flush(chain[u][Len(chain[u])])
    BY <1>17 DEF IInv, AskInv
  <2>2. ASSUME NEW i \in 1 .. Len(c)
        PROVE  IF i = Len(c) THEN rpc'[c[i]].ask[1] = "call"
               ELSE rpc'[c[i]].ask = Flush(c[Len(c)])
    <3>1. CASE chain[p] = <<>>
      <4>1. Len(c) = 1 /\ i = 1
        BY <3>1, <1>7
      <4> QED
        BY <4>1, <3>1, <1>7, <1>12, <1>13
    <3>2. CASE chain[p] # <<>>
      <4>1. /\ Len(chain[p]) \in 1 .. Len(chain[p])
            /\ Last(chain[p]) = chain[p][Len(chain[p])]
        BY <3>2, Ends DEF IInv, TypeInv
      <4>2. c[Len(c)] = chain[p][Len(chain[p])]
        BY <4>1, <1>7
      <4>3. CASE i = 1
        <5>1. i # Len(c)
          BY <4>1, <4>3, <1>7
        <5> QED
          BY <5>1, <4>1, <4>2, <4>3, <3>2, <1>7, <1>12, <1>13
      <4>4. CASE i # 1
        <5>1. i - 1 \in 1 .. Len(chain[p]) /\ (i - 1) + 1 = i
              /\ (i = Len(c) <=> i - 1 = Len(chain[p]))
          <6>1. PICK l \in Nat : l = Len(chain[p]) /\ Len(c) = l + 1
            BY <1>7
          <6>2. i \in 1 .. l + 1
            BY <6>1
          <6> QED
            BY <6>1, <6>2, <4>4
        <5>2. c[i] = chain[p][i - 1]
          BY <5>1, <1>7
        <5>3. rpc'[c[i]] = rpc[chain[p][i - 1]]
          BY <5>1, <5>2, <1>17
        <5> QED
          BY <5>1, <5>2, <5>3, <4>2 DEF IInv, AskInv
      <4> QED
        BY <4>3, <4>4
    <3> QED
      BY <3>1, <3>2
  <2> QED
    BY <2>1, <2>2, <1>12 DEF AskInv
<1>21. ASSUME NEW u \in Proc, NEW t, On(t, chain[u])
       PROVE  t \in Tag \ {n} /\ rpc'[t] = rpc[t]
  <2>1. PICK i \in 1 .. Len(chain[u]) : chain[u][i] = t
    BY <1>21, LenProperties DEF On, IInv, TypeInv
  <2> QED
    BY <2>1, <1>17
<1>22. OwnReply'
  <2> SUFFICES ASSUME "garbage" \notin faults, NEW u \in Proc, pc'[u] # "failed",
                      NEW t \in ToSet(chain'[u]), rpc'[t].done
               PROVE  rpc'[t].reply = rpc'[t].ask
    BY <1>4 DEF OwnReply
  <2>1. t # n
    BY <1>12, <1>13
  <2>2. On(t, chain[u])
    BY <2>1, <1>8, <1>12, Members
  <2>3. pc[u] # "failed"
    BY <1>3, <1>12
  <2> QED
    BY <2>2, <2>3, <1>21, Members DEF IInv, OwnReply
<1>23. ASSUME "garbage" \notin faults, hung PROVE PendInv'
  <2>1. ASSUME NEW u \in Proc, pc'[u] # "failed" PROVE AskedFor(u)'
    <3>1. u # p /\ pc[u] # "failed"
      BY <2>1, <1>3, <1>12, <1>23
    <3>2. AskedFor(u)
      BY <3>1, <1>23 DEF IInv, PendInv
    <3> QED
      BY <3>1, <3>2, <1>4, <1>12, <1>21, <1>23 DEF AskedFor
  <2> QED
    BY <2>1, <1>4, <1>23 DEF PendInv
<1>24. ASSUME "garbage" \notin faults, ~hung PROVE PendInv'
  <2> DEFINE L == Len(pend)
  <2>1. /\ L \in Nat /\ DOMAIN pend = 1 .. L
        /\ DOMAIN pend' = 1 .. L + 1
        /\ \A i \in 1 .. L : pend'[i] = pend[i]
        /\ pend'[L + 1] = [tag |-> n, ask |-> ask]
    <3> HIDE DEF Sent
    <3>1. pend' = Append(pend, m)
      BY <1>0, <1>4, <1>24
    <3>2. /\ Len(Append(pend, m)) = L + 1
          /\ \A i \in 1 .. L : Append(pend, m)[i] = pend[i]
          /\ Append(pend, m)[L + 1] = m
      BY <1>01, <1>02, AppendProperties
    <3>3. Len(pend') = L + 1
      BY <3>1, <3>2
    <3>4. L \in Nat /\ DOMAIN pend = 1 .. L /\ DOMAIN pend' = 1 .. L + 1
      BY <3>3, <1>02, <1>14, LenProperties
    <3> QED
      BY <3>1, <3>2, <3>4, <1>0
  <2>2. pend'[L + 1].tag = n /\ pend'[L + 1].ask = ask
    BY <2>1
  <2>3. /\ \A u \in Proc : pc[u] # "failed" /\ AskedFor(u) /\ Newer(u) /\ Settled(u)
        /\ NoStale /\ OnceSent
    BY <1>24 DEF IInv, PendInv
  <2>4. ASSUME NEW i \in 1 .. L PROVE pend[i].tag # n
    BY <2>1, <2>3, <1>6 DEF NoStale
  <2> HIDE DEF L
  <2>5. \A i \in 1 .. L + 1 : i = L + 1 \/ i \in 1 .. L
    BY <2>1
  <2>6. NoStale'
    <3> SUFFICES ASSUME NEW i \in 1 .. L + 1
                 PROVE  \E u \in Proc : On(pend'[i].tag, chain'[u])
      BY <2>1 DEF NoStale
    <3>1. CASE i = L + 1
      BY <3>1, <2>2, <1>8, <1>12
    <3>2. CASE i \in 1 .. L
      <4>1. PICK u \in Proc : On(pend[i].tag, chain[u])
        BY <3>2, <2>1, <2>3 DEF NoStale
      <4> QED
        BY <4>1, <3>2, <2>1, <1>8, <1>12
    <3> QED
      BY <3>1, <3>2, <2>5
  <2>7. OnceSent'
    BY <2>1, <2>2, <2>3, <2>4, <2>5 DEF OnceSent
  <2>8. ASSUME NEW u \in Proc PROVE AskedFor(u)'
    <3> SUFFICES ASSUME NEW i \in 1 .. L + 1, On(pend'[i].tag, chain'[u])
                 PROVE  pend'[i].ask = rpc'[pend'[i].tag].ask
      BY <2>1 DEF AskedFor
    <3>1. CASE i = L + 1
      BY <3>1, <2>2, <1>12, <1>13
    <3>2. CASE i \in 1 .. L
      <4>1. pend'[i] = pend[i] /\ pend[i].tag # n
        BY <3>2, <2>1, <2>4
      <4>2. On(pend[i].tag, chain[u])
        BY <4>1, <1>8, <1>12
      <4> QED
        BY <4>1, <4>2, <3>2, <2>1, <2>3, <1>21 DEF AskedFor
    <3> QED
      BY <3>1, <3>2, <2>5
  <2>9. ASSUME NEW u \in Proc PROVE Newer(u)'
    <3>1. CASE u # p
      <4> SUFFICES ASSUME NEW a \in 1 .. Len(chain[u]), NEW b \in 1 .. Len(chain[u]),
                          NEW i \in 1 .. L + 1, NEW j \in 1 .. L + 1,
                          a < b, pend'[i].tag = chain[u][a], pend'[j].tag = chain[u][b]
                   PROVE  j < i
        <5>1. chain'[u] = chain[u] /\ DOMAIN pend' = 1 .. L + 1
          BY <3>1, <2>1, <1>12
        <5> QED
          BY <5>1 DEF Newer
      <4>1. i \in 1 .. L /\ j \in 1 .. L
        BY <2>2, <2>5, <1>17
      <4>2. pend[i].tag = chain[u][a] /\ pend[j].tag = chain[u][b]
        BY <4>1, <2>1
      <4>3. Newer(u)
        BY <2>3
      <4>4. i \in DOMAIN pend /\ j \in DOMAIN pend
        BY <4>1, <2>1
      <4> QED
        BY <4>2, <4>3, <4>4 DEF Newer
    <3>2. CASE u = p
      <4> SUFFICES ASSUME NEW a \in 1 .. Len(c), NEW b \in 1 .. Len(c),
                          NEW i \in 1 .. L + 1, NEW j \in 1 .. L + 1,
                          a < b, pend'[i].tag = c[a], pend'[j].tag = c[b]
                   PROVE  j < i
        BY <3>2, <2>1, <1>12 DEF Newer
      <4>1. /\ b - 1 \in 1 .. Len(chain[p]) /\ (b - 1) + 1 = b
            /\ a = 1 \/ (a - 1 \in 1 .. Len(chain[p]) /\ (a - 1) + 1 = a)
            /\ a - 1 < b - 1
        BY <1>7
      <4>2. c[b] = chain[p][b - 1] /\ c[b] # n
        BY <4>1, <1>7, <1>17
      <4>3. j \in 1 .. L
        BY <4>2, <2>2, <2>5
      <4>4. CASE i = L + 1
        BY <4>3, <4>4, <2>1
      <4>5. CASE i \in 1 .. L
        <5>1. a # 1
          BY <4>5, <2>1, <2>4, <1>7
        <5>2. c[a] = chain[p][a - 1]
          BY <5>1, <4>1, <1>7
        <5>3. /\ pend[i].tag = chain[p][a - 1] /\ pend[j].tag = chain[p][b - 1]
              /\ i \in DOMAIN pend /\ j \in DOMAIN pend
          BY <5>2, <4>2, <4>3, <4>5, <2>1
        <5>4. Newer(p)
          BY <2>3
        <5>5. a - 1 \in 1 .. Len(chain[p])
          BY <5>1, <4>1
        <5> QED
          BY <5>3, <5>4, <5>5, <4>1 DEF Newer
      <4> QED
        BY <4>4, <4>5, <2>5
    <3> QED
      BY <3>1, <3>2
  <2>10. ASSUME NEW u \in Proc PROVE Settled(u)'
    <3>1. CASE u = p
      BY <3>1, <1>7, <1>12, <1>13 DEF Settled
    <3>2. CASE u # p
      <4> SUFFICES ASSUME chain[u] # <<>>, rpc'[chain[u][1]].done, NEW i \in 1 .. L + 1
                   PROVE  ~On(pend'[i].tag, chain[u])
        BY <3>2, <2>1, <1>12 DEF Settled
      <4>1. CASE i = L + 1
        BY <4>1, <2>2, <1>6
      <4>2. CASE i \in 1 .. L
        BY <4>2, <2>1, <2>3, <1>18 DEF Settled
      <4> QED
        BY <4>1, <4>2, <2>5
    <3> QED
      BY <3>1, <3>2
  <2>11. \A u \in Proc : pc'[u] # "failed"
    BY <2>3, <1>3, <1>12, <1>24
  <2> QED
    BY <2>6, <2>7, <2>8, <2>9, <2>10, <2>11 DEF PendInv
<1>25. "garbage" \in faults => PendInv'
  BY <1>4 DEF PendInv
<1> QED
  BY <1>15, <1>16, <1>19, <1>20, <1>22, <1>23, <1>24, <1>25 DEF IInv

-----------------------------------------------------------------------------
\* The server forgets some of the requests.
LEMMA ThinStep ==
    ASSUME IInv, NEW I, pend' = At(pend, I), chain' = chain,
           \A t \in Tag : rpc'[t].ask = rpc[t].ask
    PROVE  /\ pend' \in Seq([tag : Tag, ask : Ask])
           /\ \E h : /\ \A k \in DOMAIN pend' : /\ h[k] \in I \cap DOMAIN pend
                                                /\ pend'[k] = pend[h[k]]
                     /\ \A k, l \in DOMAIN pend' : k < l => h[k] < h[l]
           /\ \A u \in Proc : /\ AskedFor(u) => AskedFor(u)'
                              /\ Newer(u) => Newer(u)'
           /\ NoStale => NoStale'
           /\ OnceSent => OnceSent'
<1> DEFINE Sent == [tag : Tag, ask : Ask]
<1>1. pend \in Seq(Sent)
  BY DEF IInv, TypeInv
<1>2. PICK r : r = At(pend, I)
  OBVIOUS
<1>3. pend' = r
  BY <1>2
<1>4. PICK h : r \in Seq(Sent) /\ From(r, pend, I, Len(pend), h)
  <2> HIDE DEF Sent
  <2> QED
    BY <1>1, <1>2, AtQueue
<1>5. /\ DOMAIN r = 1 .. Len(r) /\ DOMAIN pend = 1 .. Len(pend)
      /\ Len(r) \in Nat /\ Len(pend) \in Nat
  <2> HIDE DEF Sent
  <2> QED
    BY <1>1, <1>4, LenProperties
<1>6. /\ \A k \in DOMAIN r : h[k] \in I \cap DOMAIN pend /\ r[k] = pend[h[k]]
      /\ \A k, l \in DOMAIN r : k < l => h[k] < h[l]
  BY <1>4, <1>5 DEF From
<1>7. \A i \in DOMAIN pend : pend[i].tag \in Tag
  <2>1. \A i \in DOMAIN pend : pend[i] \in Sent
    BY <1>1, <1>5, ElementOfSeq
  <2> QED
    BY <2>1
<1>8. ASSUME NEW u \in Proc, AskedFor(u) PROVE AskedFor(u)'
  BY <1>3, <1>6, <1>7, <1>8 DEF AskedFor
<1>9. ASSUME NEW u \in Proc, Newer(u) PROVE Newer(u)'
  <2> SUFFICES ASSUME NEW a \in 1 .. Len(chain[u]), NEW b \in 1 .. Len(chain[u]),
                      NEW i \in DOMAIN r, NEW j \in DOMAIN r, a < b,
                      r[i].tag = chain[u][a], r[j].tag = chain[u][b]
               PROVE  j < i
    BY <1>3 DEF Newer
  <2>1. h[j] < h[i]
    BY <1>6, <1>9 DEF Newer
  <2>2. h[i] \in Nat /\ h[j] \in Nat /\ i \in Nat /\ j \in Nat
    BY <1>5, <1>6
  <2>3. ~(i < j)
    BY <1>6, <2>1, <2>2
  <2>4. i # j
    BY <2>1, <2>2
  <2> QED
    BY <2>2, <2>3, <2>4
<1>10. NoStale => NoStale'
  BY <1>3, <1>6 DEF NoStale
<1>11. ASSUME OnceSent PROVE OnceSent'
  <2> SUFFICES ASSUME NEW i \in DOMAIN r, NEW j \in DOMAIN r, r[i].tag = r[j].tag
               PROVE  i = j
    BY <1>3 DEF OnceSent
  <2>1. h[i] = h[j]
    BY <1>6, <1>11 DEF OnceSent
  <2>2. h[i] \in Nat /\ i \in Nat /\ j \in Nat
    BY <1>5, <1>6
  <2>3. ~(i < j) /\ ~(j < i)
    BY <1>6, <2>1, <2>2
  <2> QED
    BY <2>2, <2>3
<1> QED
  BY <1>3, <1>4, <1>6, <1>8, <1>9, <1>10, <1>11

\* An answer is read.
LEMMA AnswerStep ==
    ASSUME IInv, NEW p \in Proc, pc[p] = "read", NEW i \in DOMAIN pend,
           mountmux(p, pend[i]), pend' = answered(i),
           UNCHANGED <<faults, free, rip, chain, hung, ncall, nfault>>
    PROVE  IInv'
<1>1. PICK m : m = pend[i]
  OBVIOUS
<1>2. m \in [tag : Tag, ask : Ask] /\ m.tag \in Tag /\ m.ask \in Ask
  <2>1. pend \in Seq([tag : Tag, ask : Ask]) /\ i \in 1 .. Len(pend)
    BY LenProperties DEF IInv, TypeInv
  <2>2. pend[i] \in [tag : Tag, ask : Ask]
    BY <2>1, ElementOfSeq
  <2> QED
    BY <1>1, <2>2
<1>3. /\ queue \in Seq(Tag) /\ Once(queue) /\ chain \in [Proc -> Seq(Tag)]
      /\ rpc \in [Tag -> [ask : Ask, done : BOOLEAN, reply : Ask]]
      /\ pc \in [Proc -> CallPlaces] /\ towake \in [Proc -> Tag \cup {nil}]
  BY DEF IInv, TypeInv, TagInv
<1>4. Contains(queue, m.tag) <=> On(m.tag, queue)
  BY <1>3, LenProperties DEF Contains, On
<1>5. /\ pc' \in [Proc -> CallPlaces] /\ towake' \in [Proc -> Tag \cup {nil}]
      /\ \A u \in Proc : pc'[u] = pc[u] \/ (u = p /\ pc'[u] = "wake")
  BY <1>1, <1>2, <1>3 DEF mountmux, Goto, CallPlaces
<1>6. /\ rpc' \in [Tag -> [ask : Ask, done : BOOLEAN, reply : Ask]]
      /\ \A t \in Tag : rpc'[t].ask = rpc[t].ask
      /\ \A t \in Tag \ {m.tag} : rpc'[t] = rpc[t]
      /\ On(m.tag, queue) => /\ rpc'[m.tag].done = TRUE
                             /\ rpc'[m.tag].reply = m.ask
      /\ ~On(m.tag, queue) => rpc'[m.tag] = rpc[m.tag]
  <2>1. CASE On(m.tag, queue)
    <3>1. rpc' = [rpc EXCEPT ![m.tag].done = TRUE, ![m.tag].reply = m.ask]
      BY <2>1, <1>1, <1>4 DEF mountmux
    <3>2. /\ rpc'[m.tag] = [rpc[m.tag] EXCEPT !.done = TRUE, !.reply = m.ask]
          /\ \A t \in Tag \ {m.tag} : rpc'[t] = rpc[t]
          /\ DOMAIN rpc' = Tag
          /\ rpc' = [t \in Tag |-> rpc'[t]]
      BY <3>1, <1>2, <1>3
    <3>3. rpc[m.tag] \in [ask : Ask, done : BOOLEAN, reply : Ask]
      BY <1>2, <1>3
    <3>4. /\ rpc'[m.tag] \in [ask : Ask, done : BOOLEAN, reply : Ask]
          /\ rpc'[m.tag].ask = rpc[m.tag].ask
          /\ rpc'[m.tag].done = TRUE /\ rpc'[m.tag].reply = m.ask
      BY <3>2, <3>3, <1>2
    <3>5. \A t \in Tag : rpc'[t] \in [ask : Ask, done : BOOLEAN, reply : Ask]
      <4>1. \A t \in Tag \ {m.tag} :
              rpc'[t] \in [ask : Ask, done : BOOLEAN, reply : Ask]
        <5>1. \A t \in Tag : rpc[t] \in [ask : Ask, done : BOOLEAN, reply : Ask]
          BY <1>3
        <5> QED
          BY <5>1, <3>2
      <4> QED
        BY <4>1, <3>4
    <3>6. rpc' \in [Tag -> [ask : Ask, done : BOOLEAN, reply : Ask]]
      BY <3>2, <3>5
    <3>7. \A t \in Tag : rpc'[t].ask = rpc[t].ask
      BY <3>2, <3>4
    <3> QED
      BY <2>1, <3>2, <3>4, <3>6, <3>7
  <2>2. CASE ~On(m.tag, queue)
    BY <2>2, <1>1, <1>3, <1>4 DEF mountmux
  <2> QED
    BY <2>1, <2>2
<1>7. /\ queue' \in Seq(Tag) /\ Once(queue')
      /\ \A t : On(t, queue') <=> On(t, queue) /\ t # m.tag
  <2>1. CASE On(m.tag, queue)
    <3>1. queue' = RemoveFirst(queue, m.tag)
      BY <2>1, <1>1, <1>4 DEF mountmux
    <3> QED
      BY <3>1, <2>1, <1>2, <1>3, RemoveQueue
  <2>2. CASE ~On(m.tag, queue)
    BY <2>2, <1>1, <1>3, <1>4 DEF mountmux
  <2> QED
    BY <2>1, <2>2
<1> DEFINE kept(r) == m.ask[1] = "flush" => r.tag # m.ask[2] /\ r.ask # m.ask
           I == {j \in DOMAIN pend \ {i} : j < i => kept(pend[j])}
<1>8. pend' = At(pend, I)
  BY <1>1 DEF answered
<1>9. /\ pend' \in Seq([tag : Tag, ask : Ask])
      /\ \A u \in Proc : /\ AskedFor(u) => AskedFor(u)'
                         /\ Newer(u) => Newer(u)'
      /\ NoStale => NoStale'
      /\ OnceSent => OnceSent'
  <2> HIDE DEF I
  <2> QED
    BY <1>6, <1>8, ThinStep
<1>10. \A k \in DOMAIN pend' : \E j \in I : pend'[k] = pend[j]
  <2> HIDE DEF I
  <2>1. PICK h : \A k \in DOMAIN pend' : /\ h[k] \in I \cap DOMAIN pend
                                        /\ pend'[k] = pend[h[k]]
    BY <1>6, <1>8, ThinStep
  <2> QED
    BY <2>1
<1>11. TypeInv'
  BY <1>5, <1>6, <1>7, <1>9 DEF IInv, TypeInv
<1>12. \A u \in Proc, t \in Tag : On(t, chain[u]) => (On(t, queue) <=> ~rpc[t].done)
  BY DEF IInv, TagInv
<1>13. TagInv'
  <2>1. ASSUME NEW u \in Proc, NEW t \in Tag, On(t, chain[u])
        PROVE  On(t, queue') <=> ~rpc'[t].done
    BY <2>1, <1>6, <1>7, <1>12
  <2> QED
    BY <2>1, <1>7 DEF IInv, TagInv
<1>14. ASSUME NEW u \in Proc, NEW a \in 1 .. Len(chain[u])
       PROVE  /\ chain[u][a] \in Tag /\ On(chain[u][a], chain[u])
  BY <1>3, ElementOfSeq, LenProperties DEF On
<1>15. \A u \in Proc : chain[u] # <<>> => 1 \in 1 .. Len(chain[u])
  BY <1>3, Ends
<1>16. StepInv'
  <2>1. ASSUME NEW u \in Proc, pc[u] = "done" PROVE rpc'[chain[u][1]].done
    <3>1. rpc[chain[u][1]].done /\ chain[u] # <<>>
      BY <2>1 DEF IInv, StepInv
    <3>2. chain[u][1] \in Tag
      BY <3>1, <1>14, <1>15
    <3> QED
      BY <3>1, <3>2, <1>6
  <2> QED
    BY <2>1, <1>5 DEF IInv, StepInv
<1>17. AskInv'
  BY <1>6, <1>14 DEF IInv, AskInv
<1>18. ASSUME NEW t, NEW u \in Proc, On(t, chain[u]) PROVE t \in Tag
  <2>1. PICK a \in 1 .. Len(chain[u]) : chain[u][a] = t
    BY <1>18, <1>3, LenProperties DEF On
  <2> QED
    BY <2>1, <1>14
<1>19. ASSUME "garbage" \notin faults PROVE OwnReply'
  <2> SUFFICES ASSUME NEW u \in Proc, pc'[u] # "failed", NEW t \in ToSet(chain[u]),
                      rpc'[t].done
               PROVE  rpc'[t].reply = rpc'[t].ask
    BY DEF OwnReply
  <2>1. t \in Tag /\ On(t, chain[u]) /\ pc[u] # "failed"
    BY <1>5, <1>18, Members
  <2>2. AskedFor(u)
    BY <2>1, <1>19 DEF IInv, PendInv
  <2>3. CASE t = m.tag /\ On(t, queue)
    BY <2>1, <2>2, <2>3, <1>1, <1>6 DEF AskedFor
  <2>4. CASE ~(t = m.tag /\ On(t, queue))
    <3>1. rpc'[t] = rpc[t]
      BY <2>1, <2>4, <1>6
    <3> QED
      BY <3>1, <2>1, <1>19 DEF IInv, OwnReply
  <2> QED
    BY <2>3, <2>4
<1>20. ASSUME "garbage" \notin faults, ~hung, NEW u \in Proc PROVE Settled(u)'
  <2>0. /\ \A v \in Proc : pc[v] # "failed" /\ AskedFor(v) /\ Newer(v) /\ Settled(v)
        /\ OnceSent
    BY <1>20 DEF IInv, PendInv
  <2> SUFFICES ASSUME chain[u] # <<>>, rpc'[chain[u][1]].done,
                      NEW k \in DOMAIN pend', On(pend'[k].tag, chain[u])
               PROVE  FALSE
    BY DEF Settled
  <2>1. PICK j \in I : pend'[k] = pend[j]
    BY <1>10
  <2>2. PICK b \in 1 .. Len(chain[u]) : chain[u][b] = pend[j].tag
    BY <2>1, <1>3, LenProperties DEF On
  <2>3. 1 \in 1 .. Len(chain[u]) /\ chain[u][1] \in Tag
    BY <1>14, <1>15
  <2>4. rpc'[chain[u][1]] # rpc[chain[u][1]]
    BY <2>0, <2>1 DEF Settled
  <2>5. chain[u][1] = m.tag
    BY <2>3, <2>4, <1>6
  <2>6. b # 1
    BY <2>0, <2>1, <2>2, <2>5, <1>1 DEF OnceSent
  <2>7. Len(chain[u]) \in Nat /\ 1 < b /\ 1 # Len(chain[u])
    BY <2>2, <2>6, <1>3, LenProperties
  <2>8. j < i
    <3>1. Newer(u)
      BY <2>0
    <3>2. j \in DOMAIN pend /\ pend[i].tag = chain[u][1]
      BY <2>1, <2>5, <1>1
    <3> QED
      BY <3>1, <3>2, <2>2, <2>3, <2>7 DEF Newer
  <2>9. kept(pend[j])
    BY <2>1, <2>8
  <2>10. PICK z : z = chain[u][Len(chain[u])]
    OBVIOUS
  <2>11. m.ask = rpc[m.tag].ask
    BY <2>0, <2>3, <2>5, <1>1, <1>14 DEF AskedFor
  <2>12. m.ask = Flush(z)
    BY <2>3, <2>5, <2>7, <2>10, <2>11 DEF IInv, AskInv
  <2>13. pend[j].tag # z /\ pend[j].ask # Flush(z)
    BY <2>9, <2>12 DEF Flush
  <2>14. b # Len(chain[u])
    BY <2>2, <2>10, <2>13
  <2>15. rpc[chain[u][b]].ask = Flush(z)
    BY <2>2, <2>10, <2>14 DEF IInv, AskInv
  <2>16. pend[j].ask = rpc[chain[u][b]].ask
    BY <2>0, <2>1, <2>2, <1>14 DEF AskedFor
  <2> QED
    BY <2>13, <2>15, <2>16
<1>21. PendInv'
  <2>1. ASSUME "garbage" \notin faults, NEW u \in Proc
        PROVE  /\ pc'[u] = "failed" => hung
               /\ pc'[u] # "failed" => AskedFor(u)'
    BY <2>1, <1>5, <1>9 DEF IInv, PendInv
  <2>2. ASSUME "garbage" \notin faults, ~hung
        PROVE  NoStale' /\ OnceSent' /\ \A u \in Proc : Newer(u)'
    BY <2>2, <1>9 DEF IInv, PendInv
  <2> QED
    BY <2>1, <2>2, <1>20 DEF PendInv
<1>22. "garbage" \in faults => OwnReply'
  BY DEF OwnReply
<1> QED
  BY <1>11, <1>13, <1>16, <1>17, <1>19, <1>21, <1>22 DEF IInv

\* The reader gives up.
LEMMA GiveUpStep ==
    ASSUME IInv, NEW p \in Proc, hung \/ "garbage" \in faults,
           Goto(p, "read", "failed"), nfault' \in Nat,
           UNCHANGED <<faults, rpc, free, queue, rip, chain, towake, pend, hung, ncall>>
    PROVE  IInv'
<1>1. pc' = [pc EXCEPT ![p] = "failed"] /\ pc[p] = "read" /\ pc \in [Proc -> CallPlaces]
  BY DEF Goto, IInv, TypeInv
<1>2. TypeInv'
  BY <1>1 DEF IInv, TypeInv, CallPlaces
<1>3. StepInv'
  BY <1>1 DEF IInv, StepInv
<1> QED
  BY <1>1, <1>2, <1>3, MoveStep

\* An error, or the answer: the whole chain is given back.
LEMMA ReturnStep ==
    ASSUME IInv, NEW p \in Proc, return(p) PROVE IInv'
<1>1. PICK c : c = chain[p]
  OBVIOUS
<1>2. /\ rip # p /\ pc[p] \in {"failed", "done"} /\ pc' = [pc EXCEPT ![p] = "out"]
      /\ queue' = At(queue, {i \in DOMAIN queue : queue[i] \notin ToSet(c)})
      /\ free' = Reverse(SubSeq(c, 1, Min({MaxFree - Len(free), Len(c)}))) \o free
      /\ rpc' = [t \in Tag |-> IF t \in ToSet(c) THEN fresh(Call(0)) ELSE rpc[t]]
      /\ chain' = [chain EXCEPT ![p] = <<>>]
      /\ UNCHANGED <<faults, rip, towake, pend, hung, ncall, nfault>>
  BY <1>1 DEF return, mntflushfree, Goto, server, counts
<1>3. /\ c \in Seq(Tag) /\ Once(c) /\ queue \in Seq(Tag) /\ Once(queue)
      /\ free \in Seq(Tag) /\ Once(free) /\ Len(free) <= MaxFree
      /\ chain \in [Proc -> Seq(Tag)] /\ pc \in [Proc -> CallPlaces]
      /\ rpc \in [Tag -> [ask : Ask, done : BOOLEAN, reply : Ask]]
  BY <1>1 DEF IInv, TypeInv, TagInv
<1>4. /\ queue' \in Seq(Tag) /\ Once(queue')
      /\ \A t : On(t, queue') <=> On(t, queue) /\ ~On(t, c)
  <2>1. PICK I : I = {i \in DOMAIN queue : queue[i] \notin ToSet(c)}
    OBVIOUS
  <2>2. I \subseteq DOMAIN queue /\ queue' = At(queue, I)
    BY <2>1, <1>2
  <2>3. /\ queue' \in Seq(Tag) /\ (Once(queue) => Once(queue'))
        /\ \A t : On(t, queue') <=> \E i \in I : queue[i] = t
    BY <2>2, <1>3, Filtered
  <2>4. \A t : (\E i \in I : queue[i] = t) <=> On(t, queue) /\ ~On(t, c)
    BY <2>1, Members DEF On
  <2> QED
    BY <2>3, <2>4, <1>3
<1>5. ASSUME NEW t, On(t, c)
      PROVE  t \in Tag /\ ~On(t, free) /\ \A u \in Proc : On(t, chain[u]) => u = p
  <2>1. t \in Tag
    BY <1>3, <1>5, ElementOfSeq, LenProperties DEF On
  <2> QED
    BY <2>1, <1>1, <1>5 DEF IInv, TagInv
<1>6. /\ free' \in Seq(Tag) /\ Once(free') /\ Len(free') <= MaxFree
      /\ \A t : On(t, free') => On(t, free) \/ On(t, c)
  <2>1. /\ MaxFree \in Nat /\ Len(free) \in Nat /\ Len(c) \in Nat
        /\ MaxFree - Len(free) \in Nat
    BY <1>3, MountMuxAssumption, LenProperties
  <2> DEFINE S == {MaxFree - Len(free), Len(c)}
  <2>2. S \in SUBSET Nat /\ S # {}
    BY <2>1
  <2>3. \E n \in S : \A k \in S : n <= k
    BY <2>2, Least
  <2>4. PICK n : n = Min(S)
    OBVIOUS
  <2>5. n \in S /\ \A k \in S : n <= k
    BY <2>3, <2>4 DEF Min
  <2>6. n \in 0 .. Len(c) /\ n <= MaxFree - Len(free)
    BY <2>1, <2>5
  <2>7. free' = Give(c, n, free)
    BY <1>2, <2>4 DEF Give
  <2>10. n \in 0 .. Len(c)
    BY <2>6
  <2>11. /\ Give(c, n, free) \in Seq(Tag) /\ Len(Give(c, n, free)) = Len(free) + n
         /\ \A t : On(t, Give(c, n, free)) => On(t, free) \/ On(t, c)
         /\ (Once(free) /\ Once(c) /\ \A t : ~(On(t, free) /\ On(t, c)))
              => Once(Give(c, n, free))
    BY <2>10, <1>3, Freed
  <2>8. /\ free' \in Seq(Tag) /\ Len(free') = Len(free) + n
        /\ \A t : On(t, free') => On(t, free) \/ On(t, c)
        /\ Once(free')
    BY <2>7, <2>11, <1>3, <1>5
  <2>9. Len(free') <= MaxFree
    BY <2>1, <2>6, <2>8
  <2> QED
    BY <2>8, <2>9
<1>7. /\ chain' \in [Proc -> Seq(Tag)] /\ chain'[p] = <<>>
      /\ \A u \in Proc \ {p} : chain'[u] = chain[u]
      /\ pc' \in [Proc -> CallPlaces] /\ pc'[p] = "out"
      /\ \A u \in Proc \ {p} : pc'[u] = pc[u]
  <2>1. <<>> \in Seq(Tag)
    OBVIOUS
  <2> QED
    BY <2>1, <1>2, <1>3 DEF CallPlaces
<1>8. \A t : ~On(t, <<>>)
  BY DEF On
<1>9. rpc' \in [Tag -> [ask : Ask, done : BOOLEAN, reply : Ask]]
  <2>1. fresh(Call(0)) \in [ask : Ask, done : BOOLEAN, reply : Ask]
    BY DEF fresh, Call, Ask
  <2> QED
    BY <2>1, <1>2, <1>3
<1>10. ASSUME NEW u \in Proc \ {p}, NEW t, On(t, chain[u])
       PROVE  t \in Tag /\ ~On(t, c) /\ rpc'[t] = rpc[t]
  <2>1. t \in Tag
    BY <1>3, <1>10, ElementOfSeq, LenProperties DEF On
  <2>2. ~On(t, c)
    BY <1>5, <1>10
  <2> QED
    BY <2>1, <2>2, <1>2, Members
<1>11. ASSUME NEW u \in Proc, NEW a \in 1 .. Len(chain[u])
       PROVE  On(chain[u][a], chain[u])
  BY <1>3, LenProperties DEF On
<1>12. \A u \in Proc : chain[u] # <<>> => 1 \in 1 .. Len(chain[u])
  BY <1>3, Ends
<1>13. TypeInv'
  BY <1>2, <1>4, <1>6, <1>7, <1>9 DEF IInv, TypeInv
<1>14. TagInv'
  <2>1. ASSUME NEW u \in Proc PROVE Once(chain'[u])
    <3>1. Once(<<>>)
      BY DEF Once
    <3> QED
      BY <3>1, <1>7 DEF IInv, TagInv
  <2>2. ASSUME NEW u \in Proc, NEW t \in Tag, On(t, chain'[u])
        PROVE  /\ ~On(t, free')
               /\ On(t, queue') <=> ~rpc'[t].done
               /\ \A v \in Proc : On(t, chain'[v]) => u = v
    <3>1. u # p /\ On(t, chain[u])
      BY <2>2, <1>7, <1>8
    <3>2. ~On(t, c) /\ rpc'[t] = rpc[t]
      BY <3>1, <1>10
    <3>3. /\ ~On(t, free)
          /\ On(t, queue) <=> ~rpc[t].done
          /\ \A v \in Proc : On(t, chain[v]) => u = v
      BY <3>1 DEF IInv, TagInv
    <3>4. \A v \in Proc : On(t, chain'[v]) => On(t, chain[v])
      BY <1>7, <1>8
    <3> QED
      BY <3>2, <3>3, <3>4, <1>4, <1>6
  <2>3. ASSUME NEW t \in Tag, On(t, queue')
        PROVE  \E u \in Proc : On(t, chain'[u])
    <3>1. On(t, queue) /\ ~On(t, c)
      BY <2>3, <1>4
    <3>2. PICK u \in Proc : On(t, chain[u])
      BY <3>1 DEF IInv, TagInv
    <3> QED
      BY <3>1, <3>2, <1>1, <1>7
  <2> QED
    BY <2>1, <2>2, <2>3, <1>4, <1>6 DEF TagInv
<1>15. StepInv'
  <2>1. ASSUME NEW u \in Proc \ {p}, pc[u] = "done" PROVE rpc'[chain[u][1]].done
    <3>1. rpc[chain[u][1]].done /\ chain[u] # <<>>
      BY <2>1 DEF IInv, StepInv
    <3>2. On(chain[u][1], chain[u])
      BY <3>1, <1>11, <1>12
    <3> QED
      BY <3>1, <3>2, <1>10
  <2> QED
    BY <2>1, <1>2, <1>7 DEF IInv, StepInv
<1>16. AskInv'
  <2>1. ASSUME NEW u \in Proc \ {p}, NEW i \in 1 .. Len(chain[u])
        PROVE  IF i = Len(chain[u]) THEN rpc'[chain[u][i]].ask[1] = "call"
               ELSE rpc'[chain[u][i]].ask = Flush(chain[u][Len(chain[u])])
    BY <1>10, <1>11 DEF IInv, AskInv
  <2>2. 1 .. Len(<<>>) = {}
    OBVIOUS
  <2> QED
    BY SMTT(30), <2>1, <2>2, <1>7 DEF AskInv
<1>17. OwnReply'
  <2> SUFFICES ASSUME "garbage" \notin faults, NEW u \in Proc, pc'[u] # "failed",
                      NEW t \in ToSet(chain'[u]), rpc'[t].done
               PROVE  rpc'[t].reply = rpc'[t].ask
    BY <1>2 DEF OwnReply
  <2>1. u # p /\ On(t, chain[u])
    BY <1>7, <1>8, Members
  <2> QED
    BY <2>1, <1>7, <1>10, Members DEF IInv, OwnReply
<1>18. ASSUME "garbage" \notin faults, NEW u \in Proc, pc'[u] # "failed"
       PROVE  AskedFor(u)'
  <2>1. CASE u = p
    BY <2>1, <1>7, <1>8 DEF AskedFor
  <2>2. CASE u # p
    <3>1. AskedFor(u)
      BY <2>2, <1>7, <1>18 DEF IInv, PendInv
    <3>2. pend' = pend /\ chain'[u] = chain[u]
      BY <2>2, <1>2, <1>7
    <3> SUFFICES ASSUME NEW i \in DOMAIN pend, On(pend[i].tag, chain[u])
                 PROVE  pend[i].ask = rpc'[pend[i].tag].ask
      BY <3>2 DEF AskedFor
    <3>3. rpc'[pend[i].tag] = rpc[pend[i].tag]
      BY <2>2, <1>10
    <3> QED
      BY <3>1, <3>3 DEF AskedFor
  <2> QED
    BY <2>1, <2>2
<1>19. ASSUME "garbage" \notin faults, ~hung
       PROVE  NoStale' /\ OnceSent' /\ \A u \in Proc : Newer(u)' /\ Settled(u)'
  <2>1. /\ NoStale /\ OnceSent /\ pc[p] # "failed"
        /\ \A u \in Proc : Newer(u) /\ Settled(u)
    BY <1>19 DEF IInv, PendInv
  <2>2. \A i \in DOMAIN pend : ~On(pend[i].tag, c)
    <3>1. rpc[c[1]].done /\ c # <<>>
      BY <2>1, <1>1, <1>2 DEF IInv, StepInv
    <3> QED
      BY <3>1, <2>1, <1>1 DEF Settled
  <2>3. NoStale'
    BY <2>1, <2>2, <1>1, <1>2, <1>7 DEF NoStale
  <2>4. ASSUME NEW u \in Proc PROVE Newer(u)' /\ Settled(u)'
    <3>1. CASE u = p
      <4>1. 1 .. Len(<<>>) = {}
        OBVIOUS
      <4> QED
        BY <3>1, <4>1, <1>7 DEF Newer, Settled
    <3>2. CASE u # p
      <4>0. chain'[u] = chain[u] /\ pend' = pend
        BY <3>2, <1>2, <1>7
      <4>1. Newer(u)'
        <5>1. Newer(u)
          BY <2>1
        <5> QED
          BY <5>1, <4>0 DEF Newer
      <4>2. ASSUME chain[u] # <<>> PROVE rpc'[chain[u][1]] = rpc[chain[u][1]]
        BY <3>2, <4>2, <1>10, <1>11, <1>12
      <4>3. Settled(u)'
        BY <3>2, <4>2, <2>1, <1>2, <1>7 DEF Settled
      <4> QED
        BY <4>1, <4>3
    <3> QED
      BY <3>1, <3>2
  <2> QED
    BY <2>1, <2>3, <2>4, <1>2 DEF OnceSent
<1>20. PendInv'
  <2>1. ASSUME "garbage" \notin faults, NEW u \in Proc, pc'[u] = "failed" PROVE hung
    BY <2>1, <1>7 DEF IInv, PendInv
  <2> QED
    BY <2>1, <1>2, <1>18, <1>19 DEF PendInv
<1> QED
  BY <1>13, <1>14, <1>15, <1>16, <1>17, <1>20 DEF IInv

\* The connection is hung up.
LEMMA HangupStep ==
    ASSUME IInv, hangup PROVE IInv'
<1>1. PICK I : pend' = At(pend, I)
  BY DEF hangup
<1>2. /\ UNCHANGED <<faults, rpc, free, queue, rip, chain, pc, towake, ncall>>
      /\ hung' = TRUE /\ nfault' \in Nat
  BY DEF hangup, IInv, TypeInv
<1>3. /\ pend' \in Seq([tag : Tag, ask : Ask])
      /\ \A u \in Proc : AskedFor(u) => AskedFor(u)'
  BY <1>1, <1>2, ThinStep
<1>4. TypeInv' /\ TagInv' /\ StepInv' /\ AskInv' /\ OwnReply'
  BY <1>2, <1>3 DEF IInv, TypeInv, TagInv, StepInv, AskInv, OwnReply
<1>5. PendInv'
  BY <1>2, <1>3 DEF IInv, PendInv
<1> QED
  BY <1>4, <1>5 DEF IInv

-----------------------------------------------------------------------------
\* In the beginning nothing is asked and no tag is used.
LEMMA Initially == Init => IInv
<1> SUFFICES ASSUME Init PROVE IInv
  OBVIOUS
<1> USE DEF Init
<1>1. <<>> \in Seq(Tag) /\ <<>> \in Seq([tag : Tag, ask : Ask])
  OBVIOUS
<1>2. /\ DOMAIN <<>> = {} /\ Len(<<>>) = 0 /\ 1 .. Len(<<>>) = {}
      /\ \A t : ~On(t, <<>>)
      /\ Once(<<>>)
  BY DEF On, Once
<1>3. fresh(Call(0)) \in [ask : Ask, done : BOOLEAN, reply : Ask]
      /\ MaxFree \in Nat
  BY MountMuxAssumption DEF fresh, Call, Ask
<1>4. TypeInv
  BY <1>1, <1>3 DEF TypeInv, CallPlaces
<1>5. TagInv /\ AskInv
  BY <1>2, <1>3 DEF TagInv, AskInv
<1>6. StepInv
  BY MountMuxAssumption DEF StepInv
<1>7. PendInv
  BY <1>2 DEF PendInv, AskedFor, NoStale, OnceSent, Newer, Settled
<1>8. OwnReply
  BY <1>2, Members DEF OwnReply
<1> QED
  BY <1>4, <1>5, <1>6, <1>7, <1>8 DEF IInv

\* Every step keeps the invariant.
LEMMA Inductive == IInv /\ [Next]_vars => IInv'
<1> SUFFICES ASSUME IInv, [Next]_vars PROVE IInv'
  OBVIOUS
<1>1. ASSUME NEW p \in Proc, mountrpc(p) PROVE IInv'
  <2>1. ncall' \in Nat /\ ncall' = ncall + 1
    BY <1>1 DEF mountrpc, IInv, TypeInv
  <2>2. Call(ncall') \in Ask /\ Call(ncall')[1] = "call"
    BY <2>1 DEF Call, Ask
  <2>3. send(p, "out", Call(ncall')) /\ pc[p] = "out"
    BY <1>1 DEF mountrpc, send, Goto
  <2>4. chain[p] = <<>> /\ rip # p
    BY <2>3 DEF IInv, StepInv
  <2>5. PICK ask \in Ask : ask = Call(ncall')
    BY <2>2
  <2> QED
    BY <2>1, <2>2, <2>3, <2>4, <2>5, SendStep
<1>2. ASSUME NEW p \in Proc, mntflushalloc(p) PROVE IInv'
  <2>1. /\ ncall' \in Nat /\ rip # p /\ pc[p] = "noted"
        /\ send(p, "noted", Flush(Last(chain[p])))
    BY <1>2 DEF mntflushalloc, IInv, TypeInv
  <2>2. chain[p] # <<>> /\ chain[p] \in Seq(Tag)
    BY <2>1 DEF IInv, StepInv, TypeInv
  <2>3. Last(chain[p]) \in Tag
    BY <2>2, Ends
  <2>4. PICK ask : ask = Flush(Last(chain[p]))
    OBVIOUS
  <2>5. ask \in Ask
    BY <2>3, <2>4, MountMuxAssumption DEF Flush, Ask, Tag
  <2> QED
    BY <2>1, <2>2, <2>4, <2>5, SendStep
<1>3. ASSUME NEW p \in Proc, mntrpcread(p) PROVE IInv'
  <2>1. UNCHANGED <<faults, free, rip, chain, hung, ncall>> /\ pc[p] = "read"
    BY <1>3 DEF mntrpcread
  <2>2. CASE \E i \in DOMAIN pend :
               mountmux(p, pend[i]) /\ pend' = answered(i) /\ UNCHANGED nfault
    BY <2>1, <2>2, AnswerStep
  <2>3. CASE /\ \/ hung /\ pend = <<>> /\ UNCHANGED nfault
                \/ "garbage" \in faults /\ more /\ nfault' = nfault + 1
             /\ Goto(p, "read", "failed")
             /\ UNCHANGED <<queue, rpc, towake, pend>>
    <3>1. nfault' \in Nat
      BY <2>3 DEF IInv, TypeInv
    <3>2. hung \/ "garbage" \in faults
      BY <2>3
    <3> QED
      BY <2>1, <2>3, <3>1, <3>2, GiveUpStep
  <2> QED
    BY <1>3, <2>2, <2>3 DEF mntrpcread
<1>4. CASE UNCHANGED vars
  <2>1. TypeInv' /\ TagInv' /\ StepInv' /\ AskInv' /\ OwnReply'
    BY <1>4 DEF vars, IInv, TypeInv, TagInv, StepInv, AskInv, OwnReply
  <2>2. PendInv'
    BY <1>4 DEF vars, IInv, PendInv, AskedFor, NoStale, OnceSent, Newer, Settled
  <2> QED
    BY <2>1, <2>2 DEF IInv
<1>5. ASSUME NEW p \in Proc, step(p) PROVE IInv'
  BY <1>2, <1>3, <1>5, MoveSteps, PassSteps, ReturnStep DEF step
<1>6. ASSUME NEW p \in Proc, note(p) PROVE IInv'
  BY <1>6, MoveSteps
<1> QED
  BY <1>1, <1>4, <1>5, <1>6, HangupStep DEF Next

\* The invariant says more than the two properties of the books.
LEMMA Books == IInv => MountOK
<1> SUFFICES ASSUME IInv PROVE MountOK
  OBVIOUS
<1>1. TypeInv /\ TagInv /\ StepInv
  BY DEF IInv
<1>2. \A t : \A u \in Proc : On(t, chain[u]) => t \in Tag
  BY <1>1, ElementOfSeq, LenProperties DEF On, TypeInv
<1>3. ToSet(free) \cap used = {}
  BY <1>1, <1>2, Members DEF TagInv
<1>4. IsInjective(free) /\ IsInjective(queue)
  BY <1>1 DEF IsInjective, TagInv, Once
<1>5. \A p, u \in Proc : p # u => ToSet(chain[p]) \cap ToSet(chain[u]) = {}
  BY <1>1, <1>2, Members DEF TagInv
<1>6. \A t : On(t, queue) => t \in Tag
  BY <1>1, ElementOfSeq, LenProperties DEF On, TypeInv
<1>7. ToSet(queue) \subseteq used
  BY <1>1, <1>6, Members DEF TagInv
<1>8. \A t \in used : Contains(queue, t) => ~rpc[t].done
  <2>1. \A t : Contains(queue, t) => On(t, queue)
    BY <1>1, LenProperties DEF Contains, On, TypeInv
  <2> QED
    BY <2>1, <1>1, <1>2, Members DEF TagInv
<1>9. rip # nil => pc[rip] \in {"read", "wake", "noted", "failed"}
  BY <1>1 DEF StepInv, TypeInv
<1> QED
  BY <1>1, <1>3, <1>4, <1>5, <1>7, <1>8, <1>9 DEF MountOK, TypeInv, TagInv, StepInv

\* The Mntrpcs are each in one place, and m->queue holds the requests that
\* have been sent and not been answered.
THEOREM MountSound == Spec => []MountOK
<1>1. IInv => MountOK
  BY Books
<1> QED
  BY <1>1, Initially, Inductive, PTL DEF Spec

\* Every call gets the answer to itself, whatever notes and hang-ups there are.
THEOREM OwnReplies == Spec => []OwnReply
<1>1. IInv => OwnReply
  BY DEF IInv
<1> QED
  BY <1>1, Initially, Inductive, PTL DEF Spec

-----------------------------------------------------------------------------
\* The steps that change the Mntrpcs leave the newest one of another process
\* as it is.
LEMMA FirstKept ==
    ASSUME IInv, NEW p \in Proc, NEW u \in Proc \ {p}, chain[u] # <<>>,
           \/ \E from, ask : send(p, from, ask)
           \/ return(p)
    PROVE  chain'[u] = chain[u] /\ rpc'[chain[u][1]] = rpc[chain[u][1]]
<1>1. /\ chain \in [Proc -> Seq(Tag)]
      /\ rpc \in [Tag -> [ask : Ask, done : BOOLEAN, reply : Ask]]
  BY DEF IInv, TypeInv
<1>2. chain[u][1] \in Tag /\ On(chain[u][1], chain[u])
  BY <1>1, Ends
<1>3. CASE return(p)
  <2>1. ~On(chain[u][1], chain[p])
    BY <1>2 DEF IInv, TagInv
  <2>2. /\ chain' = [chain EXCEPT ![p] = <<>>]
        /\ rpc' = [t \in Tag |-> IF t \in ToSet(chain[p]) THEN fresh(Call(0))
                                 ELSE rpc[t]]
    BY <1>3 DEF return, mntflushfree
  <2> QED
    BY <2>1, <2>2, <1>1, <1>2, Members
<1>4. ASSUME NEW from, NEW ask, send(p, from, ask)
      PROVE  chain'[u] = chain[u] /\ rpc'[chain[u][1]] = rpc[chain[u][1]]
  <2>1. /\ free # <<>> \/ Tag \ used # {}
        /\ free' = IF free # <<>> THEN Tail(free) ELSE free
        /\ rpc' = [rpc EXCEPT ![new] = fresh(ask)]
        /\ chain' = [chain EXCEPT ![p] = <<new>> \o @]
    BY <1>4 DEF send
  <2>2. chain[u][1] # new
    BY <2>1, <1>2, NewTag
  <2> QED
    BY <2>1, <2>2, <1>1, <1>2
<1> QED
  BY <1>3, <1>4

\* The reading is not lost, unless notes and hang-ups come together: then the
\* flush of the one who is to read next fails, and he returns without passing
\* the reading on (devmnt.c:793).
LEMMA BatonStep ==
    ASSUME IInv, ~({"note", "hangup"} \subseteq faults), BatonInv, [Next]_vars
    PROVE  BatonInv'
<1>1. /\ \A u \in Proc : pc[u] = "noted" => "note" \in faults
      /\ hung => "hangup" \in faults
      /\ \A u \in Proc : pc[u] = "asleep" /\ rpc[chain[u][1]].done =>
           rip # nil /\ pc[rip] = "wake" /\ towake[rip] = chain[u][1]
      /\ rip = nil /\ (\E u \in Proc : pc[u] = "asleep") =>
           \E u \in Proc : pc[u] \in {"gate", "noted"} \/ Waits(u)
  BY DEF BatonInv
<1>2. /\ pc \in [Proc -> CallPlaces] /\ chain \in [Proc -> Seq(Tag)]
      /\ rpc \in [Tag -> [ask : Ask, done : BOOLEAN, reply : Ask]]
      /\ towake \in [Proc -> Tag \cup {nil}]
      /\ rip \in Proc \cup {nil} /\ nil \notin Proc
  BY MountMuxAssumption DEF IInv, TypeInv
<1>3. ASSUME NEW u \in Proc
      PROVE  /\ pc[u] = "out" <=> chain[u] = <<>>
             /\ pc[u] \in {"read", "wake"} => rip = u
             /\ rip = u => pc[u] \in {"read", "wake", "noted", "failed"}
  BY DEF IInv, StepInv
<1>4. \A u \in Proc : pc[u] # "out" =>
        /\ Head(chain[u]) = chain[u][1] /\ chain[u][1] \in Tag
        /\ On(chain[u][1], chain[u])
  BY <1>2, <1>3, Ends
<1>5. ASSUME NEW p \in Proc, mountrpc(p) \/ mntflushalloc(p) PROVE BatonInv'
  <2>1. PICK from \in {"out", "noted"} :
          pc[p] = from /\ \E ask : send(p, from, ask)
    BY <1>5 DEF mountrpc, mntflushalloc, send, Goto
  <2>2. PICK to \in {"failed", "gate", "noted"} :
          /\ pc' = [pc EXCEPT ![p] = to]
          /\ to = "failed" => hung
          /\ to = "noted" => "note" \in faults
          /\ UNCHANGED <<faults, rip, towake, hung>>
    BY <2>1 DEF send, Goto
  <2>3. pc'[p] = to /\ \A u \in Proc \ {p} : pc'[u] = pc[u]
    BY <2>2, <1>2
  <2>4. \A u \in Proc \ {p} : pc[u] # "out" =>
          chain'[u] = chain[u] /\ rpc'[chain[u][1]] = rpc[chain[u][1]]
    BY <2>1, <1>3, FirstKept
  <2>5. from = "noted" => to # "failed"
    BY <2>1, <2>2, <1>1
  <2>6. ASSUME NEW u \in Proc, pc'[u] = "asleep", rpc'[chain'[u][1]].done
        PROVE  rip # nil /\ pc'[rip] = "wake" /\ towake[rip] = chain'[u][1]
    <3>1. u # p /\ pc[u] = "asleep"
      BY <2>2, <2>3, <2>6
    <3>2. rip # nil /\ pc[rip] = "wake" /\ towake[rip] = chain[u][1]
      BY <3>1, <2>4, <2>6, <1>1
    <3> QED
      BY <3>1, <3>2, <2>1, <2>3, <2>4, <1>2
  <2>7. ASSUME rip = nil, NEW w \in Proc, pc'[w] = "asleep"
        PROVE  \E u \in Proc : pc'[u] \in {"gate", "noted"} \/ Waits(u)'
    <3>1. pc[w] = "asleep"
      BY <2>2, <2>3, <2>7
    <3>2. PICK u \in Proc : pc[u] \in {"gate", "noted"} \/ Waits(u)
      BY <3>1, <2>7, <1>1
    <3>3. CASE u = p
      BY <3>2, <3>3, <2>1, <2>2, <2>3, <2>5 DEF Waits
    <3>4. CASE u # p
      BY <3>2, <3>4, <2>3, <2>4 DEF Waits
    <3> QED
      BY <3>3, <3>4
  <2> QED
    BY <2>2, <2>3, <2>6, <2>7, <1>1 DEF BatonInv
<1>6. ASSUME NEW p \in Proc, return(p) PROVE BatonInv'
  <2>1. /\ pc[p] \in {"failed", "done"} /\ pc' = [pc EXCEPT ![p] = "out"]
        /\ rip # p /\ UNCHANGED <<faults, rip, towake, hung>>
    BY <1>6 DEF return, Goto, server
  <2>2. pc'[p] = "out" /\ \A u \in Proc \ {p} : pc'[u] = pc[u]
    BY <2>1, <1>2
  <2>3. \A u \in Proc \ {p} : pc[u] # "out" =>
          chain'[u] = chain[u] /\ rpc'[chain[u][1]] = rpc[chain[u][1]]
    BY <1>3, <1>6, FirstKept
  <2>4. ASSUME NEW u \in Proc, pc'[u] = "asleep", rpc'[chain'[u][1]].done
        PROVE  rip # nil /\ pc'[rip] = "wake" /\ towake[rip] = chain'[u][1]
    <3>1. u # p /\ pc[u] = "asleep"
      BY <2>2, <2>4
    <3>2. rip # nil /\ pc[rip] = "wake" /\ towake[rip] = chain[u][1]
      BY <3>1, <2>3, <2>4, <1>1
    <3> QED
      BY <3>1, <3>2, <2>1, <2>2, <2>3, <1>2
  <2>5. ASSUME rip = nil, NEW w \in Proc, pc'[w] = "asleep"
        PROVE  \E u \in Proc : pc'[u] \in {"gate", "noted"} \/ Waits(u)'
    <3>1. pc[w] = "asleep"
      BY <2>2, <2>5
    <3>2. PICK u \in Proc : pc[u] \in {"gate", "noted"} \/ Waits(u)
      BY <3>1, <2>5, <1>1
    <3> QED
      BY <3>2, <2>1, <2>2, <2>3 DEF Waits
  <2> QED
    BY <2>1, <2>2, <2>4, <2>5, <1>1 DEF BatonInv
<1>7. ASSUME NEW p \in Proc, readDone(p) \/ pass(p) PROVE BatonInv'
  <2>1. PICK to \in {"done", "noted", "failed"} :
          /\ mntgate(p, to)
          /\ UNCHANGED <<faults, rpc, chain, towake, hung>>
          /\ pc[p] \in {"read", "noted", "failed"}
          /\ to = "noted" => pc[p] = "noted"
          /\ rip = p
    BY <1>3, <1>7 DEF readDone, pass, server
  <2>2. /\ rip' = nil /\ pc'[p] = to
        /\ \A u \in Proc \ {p} :
             pc'[u] = pc[u] \/ (pc[u] = "asleep" /\ pc'[u] = "awake")
        /\ \A u \in Proc : pc[u] = "asleep" /\ ~rpc[chain[u][1]].done =>
             \E v \in Proc \ {p} : /\ pc[v] = "asleep" /\ pc'[v] = "awake"
                                   /\ ~rpc[chain[v][1]].done
    <3>1. to \in CallPlaces /\ pc[p] # "asleep"
      BY <2>1 DEF CallPlaces
    <3> QED
      BY <2>1, <3>1, GateStep
  <2>3. \A u \in Proc : pc[u] = "asleep" => ~rpc[chain[u][1]].done
    BY <2>1, <1>1
  <2>4. \A u \in Proc : pc'[u] = "asleep" => pc[u] = "asleep"
    BY <2>1, <2>2
  <2>5. ASSUME NEW w \in Proc, pc'[w] = "asleep"
        PROVE  \E u \in Proc : Waits(u)'
    <3>1. PICK v \in Proc : pc'[v] = "awake" /\ ~rpc[chain[v][1]].done
      BY <2>2, <2>3, <2>4, <2>5
    <3> QED
      BY <3>1, <2>1 DEF Waits
  <2>6. \A u \in Proc : pc'[u] = "noted" => pc[u] = "noted"
    BY <2>1, <2>2
  <2> QED
    BY <2>1, <2>2, <2>3, <2>4, <2>5, <2>6, <1>1 DEF BatonInv
<1>8. ASSUME NEW p \in Proc, mntrpcread(p) PROVE BatonInv'
  <2>1. pc[p] = "read" /\ rip = p /\ UNCHANGED <<faults, rip, chain, hung>>
    BY <1>3, <1>8 DEF mntrpcread
  <2>2. \A u \in Proc : pc[u] = "asleep" => u # p /\ ~rpc[chain[u][1]].done
    BY <2>1, <1>1
  <2>3. CASE \E i \in DOMAIN pend : mountmux(p, pend[i])
    <3>1. PICK m : mountmux(p, m)
      BY <2>3
    <3>2. CASE ~Contains(queue, m.tag)
      BY <3>1, <3>2, <2>1, <1>1, <1>2 DEF mountmux, BatonInv
    <3>3. CASE Contains(queue, m.tag)
      <4>1. /\ rpc' = [rpc EXCEPT ![m.tag].done = TRUE, ![m.tag].reply = m.ask]
            /\ IF m.tag = Head(chain[p]) THEN UNCHANGED <<pc, towake>>
               ELSE /\ pc' = [pc EXCEPT ![p] = "wake"]
                    /\ towake' = [towake EXCEPT ![p] = m.tag]
        BY <3>1, <3>3 DEF mountmux, Goto
      <4>2. \A u \in Proc : pc'[u] = pc[u] \/ (u = p /\ pc'[u] = "wake")
        BY <4>1, <1>2
      <4>3. ASSUME NEW u \in Proc, pc'[u] = "asleep", rpc'[chain[u][1]].done
            PROVE  pc'[p] = "wake" /\ towake'[p] = chain[u][1]
        <5>1. u # p /\ pc[u] = "asleep" /\ ~rpc[chain[u][1]].done
          BY <4>2, <4>3, <2>1, <2>2
        <5>2. chain[u][1] \in Tag /\ On(chain[u][1], chain[u])
          BY <5>1, <1>4
        <5>3. chain[u][1] = m.tag
          BY <4>1, <4>3, <5>1, <5>2, <1>2
        <5>4. m.tag # Head(chain[p])
          <6>1. On(Head(chain[p]), chain[p]) /\ Head(chain[p]) \in Tag
            BY <2>1, <1>4
          <6> QED
            BY <6>1, <5>1, <5>2, <5>3 DEF IInv, TagInv
        <5> QED
          BY <4>1, <5>3, <5>4, <1>2
      <4> QED
        BY <4>2, <4>3, <2>1, <1>1, <1>2 DEF BatonInv
    <3> QED
      BY <3>2, <3>3
  <2>4. CASE Goto(p, "read", "failed") /\ UNCHANGED <<rpc, towake>>
    <3>1. pc'[p] = "failed" /\ \A u \in Proc \ {p} : pc'[u] = pc[u]
      BY <2>4, <1>2 DEF Goto
    <3> QED
      BY <3>1, <2>1, <2>2, <2>4, <1>1, <1>2 DEF BatonInv
  <2> QED
    BY <1>8, <2>3, <2>4 DEF mntrpcread
<1>9. ASSUME NEW p \in Proc, gate(p) PROVE BatonInv'
  <2>1. /\ pc[p] = "gate" /\ UNCHANGED <<faults, rpc, chain, towake, hung>>
        /\ \/ rip = nil /\ rip' = p /\ pc' = [pc EXCEPT ![p] = "read"]
           \/ rip # nil /\ rip' = rip /\ pc' = [pc EXCEPT ![p] = "sleep"]
    BY <1>9 DEF gate, Goto, server
  <2>2. rip' # nil /\ rip # p
    BY <2>1, <1>2, <1>3
  <2>3. /\ pc'[p] \in {"read", "sleep"}
        /\ \A u \in Proc \ {p} : pc'[u] = pc[u]
    BY <2>1, <1>2
  <2>4. rip = nil => \A u \in Proc : pc[u] = "asleep" => ~rpc[chain[u][1]].done
    BY <1>1
  <2> QED
    BY <2>1, <2>2, <2>3, <2>4, <1>1, <1>2 DEF BatonInv
<1>10. ASSUME NEW p \in Proc, sleep(p) PROVE BatonInv'
  <2>1. /\ pc[p] = "sleep" /\ UNCHANGED <<faults, rpc, chain, towake, rip, hung>>
        /\ pc' = [pc EXCEPT ![p] = IF rpcattn(Head(chain[p])) THEN "awake"
                                   ELSE "asleep"]
    BY <1>10 DEF sleep, Goto, server
  <2>2. Head(chain[p]) = chain[p][1] /\ rip # p
    BY <2>1, <1>3, <1>4
  <2>3. /\ pc'[p] \in {"awake", "asleep"}
        /\ pc'[p] = "asleep" => ~rpc[chain[p][1]].done /\ rip # nil
        /\ \A u \in Proc \ {p} : pc'[u] = pc[u]
    BY <2>1, <2>2, <1>2 DEF rpcattn
  <2>4. \A u \in Proc : Waits(u) /\ rip = nil => Waits(u)'
    BY <2>1, <2>3 DEF Waits
  <2>5. ASSUME rip = nil, NEW w \in Proc, pc'[w] = "asleep"
        PROVE  \E u \in Proc : pc'[u] \in {"gate", "noted"} \/ Waits(u)'
    <3>1. pc[w] = "asleep"
      BY <2>3, <2>5
    <3>2. PICK u \in Proc : pc[u] \in {"gate", "noted"} \/ Waits(u)
      BY <3>1, <2>5, <1>1
    <3> QED
      BY <3>2, <2>1, <2>3, <2>4, <2>5
  <2>6. ASSUME NEW u \in Proc, pc'[u] = "asleep", rpc[chain[u][1]].done
        PROVE  rip # nil /\ pc'[rip] = "wake" /\ towake[rip] = chain[u][1]
    <3>1. u # p /\ pc[u] = "asleep"
      BY <2>3, <2>6
    <3> QED
      BY <3>1, <2>2, <2>3, <2>6, <1>1, <1>2
  <2> QED
    BY <2>1, <2>3, <2>5, <2>6, <1>1 DEF BatonInv
<1>11. ASSUME NEW p \in Proc, awake(p) PROVE BatonInv'
  <2>1. /\ pc[p] = "awake" /\ UNCHANGED <<faults, rpc, chain, towake, rip, hung>>
        /\ pc' = [pc EXCEPT ![p] = IF rpc[Head(chain[p])].done THEN "done"
                                   ELSE "gate"]
    BY <1>11 DEF awake, Goto, server
  <2>2. Head(chain[p]) = chain[p][1] /\ rip # p
    BY <2>1, <1>3, <1>4
  <2>3. /\ pc'[p] \in {"done", "gate"}
        /\ ~rpc[chain[p][1]].done => pc'[p] = "gate"
        /\ \A u \in Proc \ {p} : pc'[u] = pc[u]
    BY <2>1, <2>2, <1>2
  <2>4. ASSUME rip = nil, NEW w \in Proc, pc'[w] = "asleep"
        PROVE  \E u \in Proc : pc'[u] \in {"gate", "noted"} \/ Waits(u)'
    <3>1. pc[w] = "asleep"
      BY <2>3, <2>4
    <3>2. PICK u \in Proc : pc[u] \in {"gate", "noted"} \/ Waits(u)
      BY <3>1, <2>4, <1>1
    <3> QED
      BY <3>2, <2>1, <2>3 DEF Waits
  <2>5. ASSUME NEW u \in Proc, pc'[u] = "asleep", rpc[chain[u][1]].done
        PROVE  rip # nil /\ pc'[rip] = "wake" /\ towake[rip] = chain[u][1]
    BY <2>2, <2>3, <2>5, <1>1, <1>2
  <2> QED
    BY <2>1, <2>3, <2>4, <2>5, <1>1 DEF BatonInv
<1>12. ASSUME NEW p \in Proc, wake(p) PROVE BatonInv'
  <2>1. /\ pc[p] = "wake" /\ UNCHANGED <<faults, rpc, chain, rip, hung>>
        /\ pc' = [u \in Proc |->
                    IF u = p THEN "read"
                    ELSE IF pc[u] = "asleep" /\ Head(chain[u]) = towake[p]
                         THEN "awake" ELSE pc[u]]
    BY <1>12 DEF wake, server
  <2>2. rip = p
    BY <2>1, <1>3
  <2>3. ASSUME NEW u \in Proc, pc'[u] = "asleep"
        PROVE  ~rpc[chain[u][1]].done
    <3>1. pc[u] = "asleep" /\ Head(chain[u]) # towake[p]
      BY <2>1, <2>3
    <3> QED
      BY <3>1, <2>2, <1>1, <1>4
  <2>4. \A u \in Proc : pc'[u] = "noted" => pc[u] = "noted"
    BY <2>1
  <2> QED
    BY <2>1, <2>2, <2>3, <2>4, <1>1, <1>2 DEF BatonInv
<1>13. ASSUME NEW p \in Proc, note(p) PROVE BatonInv'
  <2>1. /\ "note" \in faults /\ pc[p] \in {"sleep", "asleep", "awake", "read"}
        /\ pc' = [pc EXCEPT ![p] = "noted"]
        /\ UNCHANGED <<faults, rpc, chain, towake, rip, hung>>
    BY <1>13 DEF note, server
  <2>2. pc'[p] = "noted" /\ \A u \in Proc \ {p} : pc'[u] = pc[u]
    BY <2>1, <1>2
  <2>3. ASSUME NEW u \in Proc, pc'[u] = "asleep", rpc[chain[u][1]].done
        PROVE  rip # nil /\ pc'[rip] = "wake" /\ towake[rip] = chain[u][1]
    <3>1. pc[u] = "asleep"
      BY <2>2, <2>3
    <3>2. rip # nil /\ pc[rip] = "wake" /\ towake[rip] = chain[u][1]
      BY <3>1, <2>3, <1>1
    <3> QED
      BY <3>2, <2>1, <2>2, <1>2
  <2> QED
    BY <2>1, <2>2, <2>3, <1>1 DEF BatonInv
<1>14. CASE hangup
  BY <1>14, <1>1 DEF hangup, BatonInv, Waits
<1>15. CASE UNCHANGED vars
  BY <1>15, <1>1 DEF vars, BatonInv, Waits
<1>16. ASSUME NEW p \in Proc, step(p) PROVE BatonInv'
  BY <1>5, <1>6, <1>7, <1>8, <1>9, <1>10, <1>11, <1>12, <1>16 DEF step
<1> QED
  BY <1>5, <1>13, <1>14, <1>15, <1>16 DEF Next

\* As long as somebody sleeps somebody reads, or is about to, in every world
\* where notes and hang-ups do not come together (with both, the one who was
\* woken to read may return when the write of his flush fails; the runs have no
\* such world for this property).
THEOREM BatonPassed ==
    ASSUME \A w \in Worlds : ~({"note", "hangup"} \subseteq w)
    PROVE  Spec => []BatonKept
<1>1. IInv => ~({"note", "hangup"} \subseteq faults)
  BY DEF IInv, TypeInv
<1>2. Init => BatonInv
  BY DEF Init, BatonInv
<1>3. IInv /\ BatonInv => BatonKept
  BY DEF BatonInv, BatonKept, Waits
<1>4. IInv /\ BatonInv /\ [Next]_vars => BatonInv'
  BY <1>1, BatonStep
<1> QED
  BY <1>2, <1>3, <1>4, Initially, Inductive, PTL DEF Spec

-----------------------------------------------------------------------------
\* The blocks of a queue.

\* What is computed element by element: the function f of positions is
\* determined by its recursion,
Alike(f, h, n) ==
    f[0] = h[0] /\ \A i \in 1 .. n : f[i - 1] = h[i - 1] => f[i] = h[i]

LEMMA Determined ==
    ASSUME NEW L \in Nat, NEW f, NEW h, Alike(f, h, L)
    PROVE  \A i \in 0 .. L : f[i] = h[i]
<1> DEFINE P == {n \in Nat : n <= L => f[n] = h[n]}
<1>1. 0 \in P
  BY DEF Alike
<1>2. ASSUME NEW n \in Nat, n \in P PROVE n + 1 \in P
  <2>1. n + 1 <= L => n + 1 \in 1 .. L /\ (n + 1) - 1 = n /\ n <= L
    OBVIOUS
  <2> QED
    BY <2>1, <1>2 DEF Alike
<1> HIDE DEF P
<1>3. \A n \in Nat : n \in P
  BY <1>1, <1>2, SetInduction
<1> QED
  BY <1>3 DEF P

\* and there is one.
Steps(f, a, g, n) == f[0] = a /\ \A i \in 1 .. n : f[i] = g[i][f[i - 1]]

LEMMA Recursion ==
    ASSUME NEW T, NEW a \in T, NEW L \in Nat, NEW g \in [1 .. L -> [T -> T]]
    PROVE  \E f \in [0 .. L -> T] : Steps(f, a, g, L)
<1> DEFINE Made(f, n) == /\ f \in [0 .. n -> T] /\ f[0] = a
                         /\ \A i \in 1 .. n : f[i] = g[i][f[i - 1]]
           P == {n \in Nat : n <= L => \E f : Made(f, n)}
<1>1. 0 \in P
  <2>1. PICK f : f = [i \in 0 .. 0 |-> a]
    OBVIOUS
  <2>2. f \in [0 .. 0 -> T] /\ f[0] = a /\ 1 .. 0 = {}
    BY <2>1
  <2> QED
    BY <2>2
<1>2. ASSUME NEW n \in Nat, n \in P PROVE n + 1 \in P
  <2> SUFFICES ASSUME n + 1 <= L PROVE \E f : Made(f, n + 1)
    BY SMTT(30)
  <2>0. n <= L /\ n + 1 \in 1 .. L
    OBVIOUS
  <2>1. PICK f : Made(f, n)
    BY <1>2, <2>0
  <2>2. PICK t : t = g[n + 1][f[n]]
    OBVIOUS
  <2>3. t \in T
    <3>1. g[n + 1] \in [T -> T] /\ f[n] \in T
      BY <2>0, <2>1
    <3> QED
      BY <2>2, <3>1
  <2>4. PICK h : h = [i \in 0 .. n + 1 |-> IF i = n + 1 THEN t ELSE f[i]]
    OBVIOUS
  <2>5. \A i \in 0 .. n + 1 : i = n + 1 \/ i \in 0 .. n
    OBVIOUS
  <2>6. h \in [0 .. n + 1 -> T]
    BY <2>1, <2>3, <2>4, <2>5
  <2>7. h[0] = a /\ h[n + 1] = t /\ \A i \in 0 .. n : h[i] = f[i]
    BY <2>1, <2>4
  <2>8. ASSUME NEW i \in 1 .. n + 1 PROVE h[i] = g[i][h[i - 1]]
    <3>1. i - 1 \in 0 .. n /\ (i = n + 1 \/ i \in 1 .. n)
      OBVIOUS
    <3>2. i = n + 1 => i - 1 = n
      OBVIOUS
    <3>3. i \in 1 .. n => i \in 0 .. n
      OBVIOUS
    <3> QED
      BY <3>1, <3>2, <3>3, <2>1, <2>2, <2>7
  <2> QED
    BY <2>6, <2>7, <2>8
<1> HIDE DEF P
<1>3. L \in P
  BY <1>1, <1>2, SetInduction
<1> QED
  BY <1>3 DEF P, Steps

-----------------------------------------------------------------------------
\* A block has room for its bytes, and for its own description.
Block == {b \in [data : Seq(Nat), alloc : Nat] : Len(b.data) + Hdr <= b.alloc}

\* f sums up the allocated space.
Sum(f, s) == f[0] = 0 /\ \A i \in 1 .. Len(s) : f[i] = f[i - 1] + s[i].alloc

LEMMA SpaceIs ==
    ASSUME NEW s \in Seq(Block)
    PROVE  /\ \E f \in [0 .. Len(s) -> Nat] : Sum(f, s)
           /\ \A f : Sum(f, s) => Q!space(s) = f[Len(s)]
<1>0. PICK L \in Nat : L = Len(s)
  BY LenProperties
<1>1. ASSUME NEW i \in 1 .. L PROVE s[i].alloc \in Nat
  <2>1. s[i] \in Block
    BY <1>0, ElementOfSeq
  <2> QED
    BY <2>1 DEF Block
<1>2. PICK g : g = [i \in 1 .. L |-> [x \in Nat |-> x + s[i].alloc]]
  OBVIOUS
<1>3. g \in [1 .. L -> [Nat -> Nat]]
  <2>1. \A i \in 1 .. L : [x \in Nat |-> x + s[i].alloc] \in [Nat -> Nat]
    BY <1>1
  <2> QED
    BY <2>1, <1>2
<1>4. PICK f \in [0 .. L -> Nat] : Steps(f, 0, g, L)
  <2>1. 0 \in Nat
    OBVIOUS
  <2> QED
    BY <2>1, <1>3, Recursion
<1>5. Sum(f, s)
  <2>1. ASSUME NEW i \in 1 .. L PROVE f[i] = f[i - 1] + s[i].alloc
    <3>1. f[i - 1] \in Nat
      <4>1. i - 1 \in 0 .. L
        OBVIOUS
      <4> QED
        BY <4>1, <1>4
    <3> QED
      BY <3>1, <1>2, <1>4 DEF Steps
  <2> QED
    BY <2>1, <1>4, <1>0 DEF Sum, Steps
<1> DEFINE Eq(h) == h = [i \in 0 .. L |-> IF i = 0 THEN 0 ELSE h[i - 1] + s[i].alloc]
<1>6. Eq(f)
  <2>1. f = [i \in 0 .. L |-> f[i]]
    BY <1>4
  <2>2. \A i \in 0 .. L : f[i] = IF i = 0 THEN 0 ELSE f[i - 1] + s[i].alloc
    <3>1. \A i \in 0 .. L : i = 0 \/ i \in 1 .. L
      OBVIOUS
    <3> QED
      BY <3>1, <1>4, <1>5, <1>0 DEF Sum
  <2> QED
    BY <2>1, <2>2
<1>7. PICK h : h = CHOOSE x : Eq(x)
  OBVIOUS
<1>8. Eq(h)
  <2> HIDE DEF Eq
  <2> QED
    BY <1>6, <1>7
<1>9. Q!space(s) = h[L]
  BY <1>0, <1>7 DEF Q!space
<1>10. h[0] = 0 /\ \A i \in 1 .. L : h[i] = h[i - 1] + s[i].alloc
  <2>1. 0 \in 0 .. L /\ \A i \in 1 .. L : i \in 0 .. L /\ i # 0
    BY <1>0
  <2> QED
    BY <2>1, <1>8
<1>11. ASSUME NEW k, Sum(k, s) PROVE k[L] = h[L]
  <2>1. Alike(k, h, L)
    BY <1>11, <1>10, <1>0 DEF Sum, Alike
  <2>2. \A i \in 0 .. L : k[i] = h[i]
    BY <2>1, Determined
  <2> QED
    BY <2>2
<1> QED
  BY <1>0, <1>4, <1>5, <1>9, <1>11

LEMMA SpaceConcat ==
    ASSUME NEW s \in Seq(Block), NEW t \in Seq(Block)
    PROVE  /\ s \o t \in Seq(Block)
           /\ Q!space(s \o t) = Q!space(s) + Q!space(t)
<1>0. PICK m \in Nat, n \in Nat : m = Len(s) /\ n = Len(t)
  BY LenProperties
<1>1. PICK u : u = s \o t
  OBVIOUS
<1>2. /\ u \in Seq(Block) /\ Len(u) = m + n
      /\ \A i \in 1 .. m + n : u[i] = IF i <= m THEN s[i] ELSE t[i - m]
  BY <1>0, <1>1, ConcatProperties
<1>3. PICK f \in [0 .. m -> Nat] : Sum(f, s)
  BY <1>0, SpaceIs
<1>4. PICK g \in [0 .. n -> Nat] : Sum(g, t)
  BY <1>0, SpaceIs
<1>5. f[m] \in Nat
  BY <1>3
<1>6. PICK h : h = [i \in 0 .. m + n |-> IF i <= m THEN f[i] ELSE f[m] + g[i - m]]
  OBVIOUS
<1>7. \A i \in 0 .. m : h[i] = f[i]
  BY <1>6
<1>8. \A i \in 0 .. n : h[m + i] = f[m] + g[i]
  <2>1. ASSUME NEW i \in 0 .. n, i # 0 PROVE h[m + i] = f[m] + g[i]
    BY <2>1, <1>6
  <2>2. h[m + 0] = f[m] + g[0]
    BY <1>4, <1>5, <1>7 DEF Sum
  <2> QED
    BY <2>1, <2>2
<1>9. Sum(h, u)
  <2>1. h[0] = 0
    BY <1>3, <1>7 DEF Sum
  <2>2. ASSUME NEW i \in 1 .. m PROVE h[i] = h[i - 1] + u[i].alloc
    <3>1. i \in 0 .. m /\ i - 1 \in 0 .. m /\ i \in 1 .. m + n /\ i <= m
      OBVIOUS
    <3>2. u[i] = s[i] /\ f[i] = f[i - 1] + s[i].alloc
      BY <3>1, <1>0, <1>2, <1>3 DEF Sum
    <3> QED
      BY <3>1, <3>2, <1>7
  <2>3. ASSUME NEW i \in 1 .. n PROVE h[m + i] = h[m + (i - 1)] + u[m + i].alloc
    <3>1. i \in 0 .. n /\ i - 1 \in 0 .. n /\ m + i \in 1 .. m + n
          /\ ~(m + i <= m) /\ (m + i) - m = i
      OBVIOUS
    <3>2. u[m + i] = t[i] /\ g[i] = g[i - 1] + t[i].alloc
      BY <3>1, <1>0, <1>2, <1>4 DEF Sum
    <3>3. g[i - 1] \in Nat /\ t[i].alloc \in Nat
      <4>1. t[i] \in Block
        BY <1>0, ElementOfSeq
      <4> QED
        BY <4>1, <3>1, <1>4 DEF Block
    <3>4. h[m + i] = f[m] + g[i] /\ h[m + (i - 1)] = f[m] + g[i - 1]
      BY <3>1, <1>8
    <3>5. f[m] + (g[i - 1] + t[i].alloc) = (f[m] + g[i - 1]) + t[i].alloc
      BY <3>3, <1>5
    <3> QED
      BY <3>2, <3>4, <3>5
  <2>4. ASSUME NEW i \in 1 .. m + n PROVE h[i] = h[i - 1] + u[i].alloc
    <3>1. CASE i <= m
      BY <3>1, <2>2
    <3>2. CASE ~(i <= m)
      <4>1. PICK j \in 1 .. n : j = i - m
        BY <3>2
      <4>2. m + j = i /\ m + (j - 1) = i - 1
        BY <4>1
      <4> QED
        BY <4>2, <2>3
    <3> QED
      BY <3>1, <3>2
  <2> QED
    BY <2>1, <2>4, <1>2 DEF Sum
<1>10. Q!space(u) = h[m + n] /\ Q!space(s) = f[m] /\ Q!space(t) = g[n]
  BY <1>0, <1>2, <1>3, <1>4, <1>9, SpaceIs
<1>11. h[m + n] = f[m] + g[n]
  BY <1>8
<1> QED
  BY <1>1, <1>2, <1>10, <1>11

LEMMA SpaceNat ==
    /\ Q!space(<<>>) = 0
    /\ \A s \in Seq(Block) : Q!space(s) \in Nat
    /\ \A b \in Block : <<b>> \in Seq(Block) /\ Q!space(<<b>>) = b.alloc
<1>1. ASSUME NEW s \in Seq(Block) PROVE Q!space(s) \in Nat
  <2>1. PICK f \in [0 .. Len(s) -> Nat] : Sum(f, s)
    BY SpaceIs
  <2>2. Q!space(s) = f[Len(s)] /\ Len(s) \in 0 .. Len(s)
    BY <2>1, SpaceIs, LenProperties
  <2> QED
    BY <2>1, <2>2
<1>2. Q!space(<<>>) = 0
  <2>1. <<>> \in Seq(Block) /\ Len(<<>>) = 0
    OBVIOUS
  <2>2. PICK f \in [0 .. Len(<<>>) -> Nat] : Sum(f, <<>>)
    BY <2>1, SpaceIs
  <2> QED
    BY <2>1, <2>2, SpaceIs DEF Sum
<1>3. ASSUME NEW b \in Block PROVE <<b>> \in Seq(Block) /\ Q!space(<<b>>) = b.alloc
  <2>0. b.alloc \in Nat
    BY DEF Block
  <2>1. PICK t : t = <<b>>
    OBVIOUS
  <2>2. t \in Seq(Block) /\ Len(t) = 1 /\ t[1] = b
    BY <2>1
  <2>3. PICK f \in [0 .. 1 -> Nat] : Sum(f, t)
    BY <2>2, SpaceIs
  <2>4. 1 \in 1 .. 1 /\ 1 - 1 = 0
    OBVIOUS
  <2>5. f[1] = b.alloc
    BY <2>0, <2>2, <2>3, <2>4 DEF Sum
  <2> QED
    BY <2>1, <2>2, <2>3, <2>5, SpaceIs
<1> QED
  BY <1>1, <1>2, <1>3

-----------------------------------------------------------------------------
\* f puts sequences one behind the other.
Joined(f, s) == f[0] = <<>> /\ \A i \in 1 .. Len(s) : f[i] = f[i - 1] \o s[i]

LEMMA FlattenIs ==
    ASSUME NEW S, NEW s \in Seq(Seq(S))
    PROVE  /\ \E f \in [0 .. Len(s) -> Seq(S)] : Joined(f, s)
           /\ \A f : Joined(f, s) => Q!FlattenSeq(s) = f[Len(s)]
<1>0. PICK L \in Nat : L = Len(s)
  BY LenProperties
<1>1. \A i \in 1 .. L : s[i] \in Seq(S)
  <2>1. ASSUME NEW T, NEW t \in Seq(T), NEW i \in 1 .. Len(t) PROVE t[i] \in T
    BY ElementOfSeq
  <2> QED
    BY <2>1, <1>0
<1>2. PICK g : g = [i \in 1 .. L |-> [x \in Seq(S) |-> x \o s[i]]]
  OBVIOUS
<1>3. g \in [1 .. L -> [Seq(S) -> Seq(S)]]
  <2>1. ASSUME NEW i \in 1 .. L
        PROVE  [x \in Seq(S) |-> x \o s[i]] \in [Seq(S) -> Seq(S)]
    <3>1. \A x \in Seq(S) : x \o s[i] \in Seq(S)
      BY <1>1, ConcatProperties
    <3> QED
      BY <3>1
  <2> QED
    BY <2>1, <1>2
<1>4. PICK f \in [0 .. L -> Seq(S)] : Steps(f, <<>>, g, L)
  <2>1. <<>> \in Seq(S)
    OBVIOUS
  <2> QED
    BY <2>1, <1>3, Recursion
<1>5. Joined(f, s)
  <2>1. ASSUME NEW i \in 1 .. L PROVE f[i] = f[i - 1] \o s[i]
    <3>1. f[i - 1] \in Seq(S)
      <4>1. i - 1 \in 0 .. L
        OBVIOUS
      <4> QED
        BY <4>1, <1>4
    <3> QED
      BY <3>1, <1>2, <1>4 DEF Steps
  <2> QED
    BY <2>1, <1>4, <1>0 DEF Joined, Steps
<1>6. ASSUME NEW k, Joined(k, s) PROVE \A i \in 0 .. L : k[i] = f[i]
  <2>1. Alike(k, f, L)
    BY <1>5, <1>6, <1>0 DEF Joined, Alike
  <2> QED
    BY <2>1, Determined
<1>7. CASE L = 0
  <2>1. s = <<>>
    BY <1>0, <1>7, EmptySeq
  <2>2. Q!FlattenSeq(s) = <<>>
    BY <2>1, <1>0, <1>7 DEF Q!FlattenSeq
  <2> QED
    BY <2>2, <1>0, <1>4, <1>5, <1>7 DEF Joined
<1>8. CASE L # 0
  <2> DEFINE Eq(h) == h = [i \in 1 .. L |-> IF i = 1 THEN s[i] ELSE h[i - 1] \o s[i]]
  <2>0. 1 \in 1 .. L /\ 1 - 1 = 0 /\ L \in 1 .. L
    BY <1>8
  <2>1. f[1] = s[1]
    <3>1. f[1] = <<>> \o s[1] /\ s[1] \in Seq(S)
      BY <2>0, <1>0, <1>1, <1>5 DEF Joined
    <3> QED
      BY <3>1, ConcatEmptySeq
  <2>2. PICK e : e = [i \in 1 .. L |-> f[i]]
    OBVIOUS
  <2>3. Eq(e)
    <3>1. \A i \in 1 .. L : e[i] = IF i = 1 THEN s[i] ELSE e[i - 1] \o s[i]
      <4>1. \A i \in 1 .. L : i # 1 => i - 1 \in 1 .. L
        OBVIOUS
      <4> QED
        BY <4>1, <2>1, <2>2, <1>0, <1>5 DEF Joined
    <3> QED
      BY <3>1, <2>2
  <2>4. PICK h : h = CHOOSE x : Eq(x)
    OBVIOUS
  <2>5. Eq(h)
    <3> HIDE DEF Eq
    <3> QED
      BY <2>3, <2>4
  <2>6. Q!FlattenSeq(s) = h[L]
    BY <1>0, <1>8, <2>4 DEF Q!FlattenSeq
  <2>7. h[1] = s[1] /\ \A i \in 1 .. L : i # 1 => h[i] = h[i - 1] \o s[i]
    BY <2>0, <2>5
  <2>8. PICK k : k = [i \in 0 .. L |-> IF i = 0 THEN <<>> ELSE h[i]]
    OBVIOUS
  <2>9. Joined(k, s)
    <3>1. k[0] = <<>> /\ \A i \in 1 .. L : k[i] = h[i]
      BY <2>8
    <3>2. ASSUME NEW i \in 1 .. L PROVE k[i] = k[i - 1] \o s[i]
      <4>1. CASE i = 1
        <5>1. k[1] = s[1] /\ k[1 - 1] = <<>> /\ s[1] \in Seq(S)
          BY <2>0, <2>7, <3>1, <1>1
        <5>2. k[1] = k[1 - 1] \o s[1]
          BY <5>1, ConcatEmptySeq
        <5> QED
          BY <5>2, <4>1
      <4>2. CASE i # 1
        <5>1. i - 1 \in 1 .. L
          BY <4>2
        <5> QED
          BY <5>1, <4>2, <2>7, <3>1
      <4> QED
        BY <4>1, <4>2
    <3> QED
      BY <3>1, <3>2, <1>0 DEF Joined
  <2>10. h[L] = f[L]
    <3>1. k[L] = f[L]
      BY <2>9, <1>6
    <3> QED
      BY <3>1, <2>8, <1>8
  <2> QED
    <3>1. ASSUME NEW x, Joined(x, s) PROVE Q!FlattenSeq(s) = x[L]
      BY <3>1, <1>6, <2>6, <2>10
    <3> QED
      BY <3>1, <1>0, <1>4, <1>5
<1> QED
  BY <1>7, <1>8

Associative(S) == \A x, y, z \in Seq(S) : x \o (y \o z) = (x \o y) \o z

LEMMA Assoc == \A S : Associative(S)
  BY ConcatAssociative DEF Associative

LEMMA FlattenConcat ==
    ASSUME NEW S, NEW s \in Seq(Seq(S)), NEW t \in Seq(Seq(S))
    PROVE  Q!FlattenSeq(s \o t) = Q!FlattenSeq(s) \o Q!FlattenSeq(t)
<1>0. PICK m \in Nat, n \in Nat : m = Len(s) /\ n = Len(t)
  BY LenProperties
<1>1. PICK u : u = s \o t
  OBVIOUS
<1>2. /\ u \in Seq(Seq(S)) /\ Len(u) = m + n
      /\ \A i \in 1 .. m + n : u[i] = IF i <= m THEN s[i] ELSE t[i - m]
  BY <1>0, <1>1, ConcatProperties
<1>3. PICK f \in [0 .. m -> Seq(S)] : Joined(f, s)
  BY <1>0, FlattenIs
<1>4. PICK g \in [0 .. n -> Seq(S)] : Joined(g, t)
  BY <1>0, FlattenIs
<1>5. f[m] \in Seq(S)
  BY <1>3
<1>6. PICK h : h = [i \in 0 .. m + n |-> IF i <= m THEN f[i] ELSE f[m] \o g[i - m]]
  OBVIOUS
<1>7. \A i \in 0 .. m : h[i] = f[i]
  BY <1>6
<1>8. \A i \in 0 .. n : h[m + i] = f[m] \o g[i]
  <2>1. ASSUME NEW i \in 0 .. n, i # 0 PROVE h[m + i] = f[m] \o g[i]
    <3>1. m + i \in 0 .. m + n /\ ~(m + i <= m) /\ (m + i) - m = i
      BY <2>1
    <3> QED
      BY <3>1, <1>6
  <2>2. h[m + 0] = f[m] \o g[0]
    <3>1. h[m + 0] = f[m] /\ g[0] = <<>>
      BY <1>4, <1>7 DEF Joined
    <3> QED
      BY <3>1, <1>5, ConcatEmptySeq
  <2> QED
    BY <2>1, <2>2
<1>9. Joined(h, u)
  <2>1. h[0] = <<>>
    BY <1>3, <1>7 DEF Joined
  <2>2. ASSUME NEW i \in 1 .. m PROVE h[i] = h[i - 1] \o u[i]
    <3>1. i \in 0 .. m /\ i - 1 \in 0 .. m /\ i \in 1 .. m + n /\ i <= m
      OBVIOUS
    <3>2. u[i] = s[i] /\ f[i] = f[i - 1] \o s[i]
      BY <3>1, <1>0, <1>2, <1>3 DEF Joined
    <3> QED
      BY <3>1, <3>2, <1>7
  <2>3. ASSUME NEW i \in 1 .. n, NEW j, j = m + (i - 1)
        PROVE  h[m + i] = h[j] \o u[m + i]
    <3>1. i \in 0 .. n /\ i - 1 \in 0 .. n /\ m + i \in 1 .. m + n
          /\ ~(m + i <= m) /\ (m + i) - m = i
      OBVIOUS
    <3>2. u[m + i] = t[i] /\ g[i] = g[i - 1] \o t[i]
      BY <3>1, <1>0, <1>2, <1>4 DEF Joined
    <3>3. g[i - 1] \in Seq(S) /\ t[i] \in Seq(S)
      <4>1. ASSUME NEW T, NEW x \in Seq(T), NEW k \in 1 .. Len(x) PROVE x[k] \in T
        BY ElementOfSeq
      <4>2. t[i] \in Seq(S)
        BY <4>1, <1>0
      <4> QED
        BY <4>2, <3>1, <1>4
    <3>4. h[m + i] = f[m] \o g[i] /\ h[j] = f[m] \o g[i - 1]
      BY <3>1, <2>3, <1>8
    <3>5. f[m] \o (g[i - 1] \o t[i]) = (f[m] \o g[i - 1]) \o t[i]
      <4>1. PICK x, y, z : x = f[m] /\ y = g[i - 1] /\ z = t[i]
        OBVIOUS
      <4>2. x \in Seq(S) /\ y \in Seq(S) /\ z \in Seq(S)
        BY <4>1, <3>3, <1>5
      <4>3. x \o (y \o z) = (x \o y) \o z
        <5>1. Associative(S)
          BY Assoc
        <5> QED
          BY <5>1, <4>2 DEF Associative
      <4> QED
        BY Zenon, <4>1, <4>3
    <3> QED
      BY <3>2, <3>4, <3>5
  <2>4. ASSUME NEW i \in 1 .. m + n PROVE h[i] = h[i - 1] \o u[i]
    <3>1. CASE i <= m
      <4>1. i \in 1 .. m
        BY <3>1
      <4> QED
        BY <4>1, <2>2
    <3>2. CASE ~(i <= m)
      <4>1. PICK j \in 1 .. n : j = i - m
        BY <3>2
      <4>2. m + j = i /\ i - 1 = m + (j - 1)
        BY <4>1
      <4> QED
        BY <4>2, <2>3
    <3> QED
      BY <3>1, <3>2
  <2> QED
    BY <2>1, <2>4, <1>2 DEF Joined
<1>10. Q!FlattenSeq(u) = h[m + n] /\ Q!FlattenSeq(s) = f[m] /\ Q!FlattenSeq(t) = g[n]
  BY <1>0, <1>2, <1>3, <1>4, <1>9, FlattenIs
<1>11. h[m + n] = f[m] \o g[n]
  BY <1>8
<1> QED
  BY <1>1, <1>10, <1>11

-----------------------------------------------------------------------------
Datas(s) == [i \in DOMAIN s |-> s[i].data]

LEMMA DataSeq ==
    ASSUME NEW s \in Seq(Block)
    PROVE  Datas(s) \in Seq(Seq(Nat)) /\ Len(Datas(s)) = Len(s)
<1>0. PICK n \in Nat : n = Len(s) /\ DOMAIN s = 1 .. n
  BY LenProperties
<1>1. ASSUME NEW i \in 1 .. n PROVE s[i].data \in Seq(Nat)
  <2>1. s[i] \in Block
    BY <1>0, ElementOfSeq
  <2> QED
    BY <2>1 DEF Block
<1>2. Datas(s) \in [1 .. n -> Seq(Nat)]
  BY <1>0, <1>1 DEF Datas
<1> QED
  BY <1>0, <1>2

LEMMA BytesSeq ==
    ASSUME NEW s \in Seq(Block)
    PROVE  Q!Bytes(s) \in Seq(Nat) /\ Len(Q!Bytes(s)) \in Nat
<1>1. Datas(s) \in Seq(Seq(Nat)) /\ Len(Datas(s)) \in Nat
  BY DataSeq, LenProperties
<1>2. PICK f \in [0 .. Len(Datas(s)) -> Seq(Nat)] : Joined(f, Datas(s))
  BY <1>1, FlattenIs
<1>3. Q!FlattenSeq(Datas(s)) = f[Len(Datas(s))]
  BY <1>1, <1>2, FlattenIs
<1>4. Q!FlattenSeq(Datas(s)) \in Seq(Nat)
  BY <1>1, <1>2, <1>3
<1> QED
  BY <1>4, LenProperties DEF Q!Bytes, Datas

LEMMA BytesConcat ==
    ASSUME NEW s \in Seq(Block), NEW t \in Seq(Block)
    PROVE  Q!Bytes(s \o t) = Q!Bytes(s) \o Q!Bytes(t)
<1>0. PICK m \in Nat, n \in Nat :
        /\ m = Len(s) /\ n = Len(t) /\ DOMAIN s = 1 .. m /\ DOMAIN t = 1 .. n
  BY LenProperties
<1>1. PICK u : u = s \o t
  OBVIOUS
<1>2. /\ u \in Seq(Block) /\ Len(u) = m + n
      /\ \A i \in 1 .. m + n : u[i] = IF i <= m THEN s[i] ELSE t[i - m]
  BY <1>0, <1>1, ConcatProperties
<1>3. DOMAIN u = 1 .. m + n
  BY <1>2, LenProperties
<1>4. PICK a, b : a = Datas(s) /\ b = Datas(t)
  OBVIOUS
<1>5. a \in Seq(Seq(Nat)) /\ b \in Seq(Seq(Nat)) /\ Len(a) = m /\ Len(b) = n
  BY <1>0, <1>4, DataSeq
<1>6. /\ a \o b \in Seq(Seq(Nat)) /\ Len(a \o b) = m + n
      /\ \A i \in 1 .. m + n : (a \o b)[i] = IF i <= m THEN a[i] ELSE b[i - m]
  BY <1>5, ConcatProperties
<1>7. Datas(u) = a \o b
  <2>1. Datas(u) \in Seq(Seq(Nat)) /\ Len(Datas(u)) = m + n
    BY <1>2, DataSeq
  <2>2. ASSUME NEW i \in 1 .. m + n PROVE Datas(u)[i] = (a \o b)[i]
    <3>1. Datas(u)[i] = u[i].data
      BY <1>3 DEF Datas
    <3>2. CASE i <= m
      <4>1. i \in 1 .. m
        BY <3>2
      <4> QED
        BY <4>1, <3>1, <3>2, <1>0, <1>2, <1>4, <1>6 DEF Datas
    <3>3. CASE ~(i <= m)
      <4>1. i - m \in 1 .. n
        BY <3>3
      <4> QED
        BY <4>1, <3>1, <3>3, <1>0, <1>2, <1>4, <1>6 DEF Datas
    <3> QED
      BY <3>2, <3>3
  <2> QED
    BY <2>1, <2>2, <1>6, SeqEqual
<1>8. Q!FlattenSeq(Datas(u)) = Q!FlattenSeq(Datas(s)) \o Q!FlattenSeq(Datas(t))
  BY <1>4, <1>5, <1>7, FlattenConcat
<1> QED
  BY <1>1, <1>8 DEF Q!Bytes, Datas

LEMMA BytesFew ==
    /\ Q!Bytes(<<>>) = <<>>
    /\ \A b \in Block : Q!Bytes(<<b>>) = b.data
<1>1. Q!Bytes(<<>>) = <<>>
  <2>1. Datas(<<>>) \in Seq(Seq(Nat)) /\ Len(Datas(<<>>)) = 0
    <3>1. <<>> \in Seq(Block) /\ Len(<<>>) = 0
      OBVIOUS
    <3> QED
      BY <3>1, DataSeq
  <2>2. Datas(<<>>) = <<>>
    BY <2>1, EmptySeq
  <2>3. Q!FlattenSeq(Datas(<<>>)) = <<>>
    BY <2>2, <2>1 DEF Q!FlattenSeq
  <2> QED
    BY <2>3 DEF Q!Bytes, Datas
<1>2. ASSUME NEW b \in Block PROVE Q!Bytes(<<b>>) = b.data
  <2>1. PICK t : t = <<b>>
    OBVIOUS
  <2>2. t \in Seq(Block) /\ Len(t) = 1 /\ t[1] = b /\ DOMAIN t = 1 .. 1
    BY <2>1
  <2>3. PICK d : d = Datas(t)
    OBVIOUS
  <2>4. d \in Seq(Seq(Nat)) /\ Len(d) = 1 /\ d[1] = b.data
    <3>1. 1 \in 1 .. 1
      OBVIOUS
    <3> QED
      BY <3>1, <2>2, <2>3, DataSeq DEF Datas
  <2>5. PICK f \in [0 .. 1 -> Seq(Nat)] : Joined(f, d)
    BY <2>4, FlattenIs
  <2>6. b.data \in Seq(Nat)
    BY DEF Block
  <2>7. f[1] = b.data
    <3>1. 1 \in 1 .. 1 /\ 1 - 1 = 0
      OBVIOUS
    <3>2. f[1] = <<>> \o b.data
      BY <3>1, <2>4, <2>5 DEF Joined
    <3> QED
      BY <3>2, <2>6, ConcatEmptySeq
  <2>8. Q!FlattenSeq(d) = b.data
    BY <2>4, <2>5, <2>7, FlattenIs
  <2> QED
    BY <2>1, <2>3, <2>8 DEF Q!Bytes, Datas
<1> QED
  BY <1>1, <1>2

-----------------------------------------------------------------------------
\* What x \o y is, place by place.
Joins(S, x, y, d) ==
    /\ x \in Seq(S) /\ y \in Seq(S) /\ d \in Seq(S) /\ Len(d) = Len(x) + Len(y)
    /\ \A i \in 1 .. Len(x) : d[i] = x[i]
    /\ \A i \in 1 .. Len(y) : d[Len(x) + i] = y[i]

LEMMA Joint ==
    ASSUME NEW S, NEW x, NEW y, NEW d, Joins(S, x, y, d)
    PROVE  d = x \o y
<1>a. x \in Seq(S) /\ y \in Seq(S)
  BY DEF Joins
<1>0. PICK l \in Nat, m \in Nat : l = Len(x) /\ m = Len(y)
  BY <1>a, LenProperties
<1>1. PICK z : z = x \o y
  OBVIOUS
<1>2. /\ z \in Seq(S) /\ Len(z) = l + m
      /\ \A i \in 1 .. l + m : z[i] = IF i <= l THEN x[i] ELSE y[i - l]
  BY <1>a, <1>0, <1>1, ConcatProperties
<1>3. \A i \in 1 .. l : i \in 1 .. l + m /\ i <= l /\ z[i] = x[i]
  <2>1. \A i \in 1 .. l : i \in 1 .. l + m /\ i <= l
    OBVIOUS
  <2> QED
    BY <2>1, <1>2
<1>4. \A i \in 1 .. m : z[l + i] = y[i]
  <2>1. \A i \in 1 .. m : l + i \in 1 .. l + m /\ ~(l + i <= l) /\ (l + i) - l = i
    OBVIOUS
  <2> QED
    BY <2>1, <1>2
<1>5. /\ d \in Seq(S) /\ Len(d) = l + m /\ \A i \in 1 .. l : d[i] = x[i]
      /\ \A i \in 1 .. m : d[l + i] = y[i]
  BY <1>0 DEF Joins
<1>6. d = z
  <2>1. ASSUME NEW i \in 1 .. l + m PROVE d[i] = z[i]
    <3>1. CASE i \in 1 .. l
      BY <3>1, <1>3, <1>5
    <3>2. CASE i \notin 1 .. l
      <4>1. PICK j \in 1 .. m : i = l + j
        <5>1. i - l \in 1 .. m /\ i = l + (i - l)
          BY <3>2
        <5> QED
          BY <5>1
      <4> QED
        BY <4>1, <1>4, <1>5
    <3> QED
      BY <3>1, <3>2
  <2> QED
    BY <2>1, <1>2, <1>5, SeqEqual
<1> QED
  BY <1>1, <1>6

LEMMA Concat ==
    ASSUME NEW S, NEW x \in Seq(S), NEW y \in Seq(S), NEW d, d = x \o y
    PROVE  Joins(S, x, y, d)
<1>0. PICK l \in Nat, m \in Nat : l = Len(x) /\ m = Len(y)
  BY LenProperties
<1>1. /\ d \in Seq(S) /\ Len(d) = l + m
      /\ \A i \in 1 .. l + m : d[i] = IF i <= l THEN x[i] ELSE y[i - l]
  BY <1>0, ConcatProperties
<1>2. \A i \in 1 .. l : d[i] = x[i]
  <2>1. \A i \in 1 .. l : i \in 1 .. l + m /\ i <= l
    OBVIOUS
  <2> QED
    BY <2>1, <1>1
<1>3. \A i \in 1 .. m : d[l + i] = y[i]
  <2>1. \A i \in 1 .. m : l + i \in 1 .. l + m /\ ~(l + i <= l) /\ (l + i) - l = i
    OBVIOUS
  <2> QED
    BY <2>1, <1>1
<1> QED
  BY <1>0, <1>1, <1>2, <1>3 DEF Joins

\* The first k elements and the rest.
LEMMA Split ==
    ASSUME NEW S, NEW s \in Seq(S), NEW k \in 0 .. Len(s)
    PROVE  /\ SubSeq(s, 1, k) \in Seq(S) /\ Len(SubSeq(s, 1, k)) = k
           /\ \A i \in 1 .. k : SubSeq(s, 1, k)[i] = s[i]
           /\ SubSeq(s, k + 1, Len(s)) \in Seq(S)
           /\ Len(SubSeq(s, k + 1, Len(s))) = Len(s) - k
           /\ \A i \in 1 .. Len(s) - k : SubSeq(s, k + 1, Len(s))[i] = s[k + i]
           /\ s = SubSeq(s, 1, k) \o SubSeq(s, k + 1, Len(s))
<1>0. PICK n \in Nat : n = Len(s) /\ DOMAIN s = 1 .. n
  BY LenProperties
<1>1. \A i \in 1 .. n : s[i] \in S
  BY <1>0, ElementOfSeq
<1>2. PICK a, b : a = SubSeq(s, 1, k) /\ b = SubSeq(s, k + 1, n)
  OBVIOUS
<1>3. a \in Seq(S) /\ Len(a) = k /\ \A i \in 1 .. k : a[i] = s[i]
  <2>1. /\ a \in Seq(S) /\ Len(a) = IF 1 <= k THEN k - 1 + 1 ELSE 0
        /\ \A i \in 1 .. k - 1 + 1 : a[i] = s[1 + i - 1]
    <3>1. 1 \in Int /\ k \in Int /\ \A i \in 1 .. k : s[i] \in S
      BY <1>0, <1>1
    <3> QED
      BY <3>1, <1>2, SubSeqProperties
  <2> QED
    BY <2>1, <1>0
<1>4. /\ b \in Seq(S) /\ Len(b) = n - k
      /\ \A i \in 1 .. n - k : b[i] = s[k + i]
  <2>1. /\ b \in Seq(S) /\ Len(b) = IF k + 1 <= n THEN n - (k + 1) + 1 ELSE 0
        /\ \A i \in 1 .. n - (k + 1) + 1 : b[i] = s[k + 1 + i - 1]
    <3>1. k + 1 \in Int /\ n \in Int /\ \A i \in k + 1 .. n : s[i] \in S
      BY <1>0, <1>1
    <3> QED
      BY <3>1, <1>2, SubSeqProperties
  <2>2. n - (k + 1) + 1 = n - k /\ k + 1 <= n => n - k # 0
    BY <1>0
  <2>3. Len(b) = n - k
    BY <2>1, <1>0
  <2>4. ASSUME NEW i \in 1 .. n - k PROVE b[i] = s[k + i]
    <3>1. i \in 1 .. n - (k + 1) + 1 /\ k + 1 + i - 1 = k + i
      BY <1>0
    <3> QED
      BY <3>1, <2>1
  <2> QED
    BY <2>1, <2>3, <2>4
<1>5. s = a \o b
  <2>1. k + Len(b) = n
    BY <1>0, <1>4
  <2>2. Joins(S, a, b, s)
    BY <2>1, <1>0, <1>3, <1>4 DEF Joins
  <2> QED
    BY <2>2, Joint
<1> QED
  BY <1>0, <1>2, <1>3, <1>4, <1>5

LEMMA FirstAndRest ==
    ASSUME NEW S, NEW s \in Seq(S), s # <<>>
    PROVE  /\ Head(s) \in S /\ Head(s) = s[1]
           /\ Tail(s) \in Seq(S) /\ Len(Tail(s)) = Len(s) - 1
           /\ Tail(s) = SubSeq(s, 2, Len(s)) /\ SubSeq(s, 1, 1) = <<Head(s)>>
           /\ s = <<Head(s)>> \o Tail(s)
           /\ Len(s) \in Nat \ {0} /\ 1 \in 1 .. Len(s)
<1>1. /\ Head(s) \in S /\ Head(s) = s[1] /\ Tail(s) \in Seq(S)
      /\ Len(Tail(s)) = Len(s) - 1
      /\ Len(s) \in Nat \ {0} /\ 1 \in 1 .. Len(s)
  BY TailQueue, EmptySeq
<1>2. Tail(s) = SubSeq(s, 2, Len(s))
  BY TailIsSubSeq
<1>3. SubSeq(s, 1, 1) = <<Head(s)>>
  <2>1. PICK t, u : t = SubSeq(s, 1, 1) /\ u = <<Head(s)>>
    OBVIOUS
  <2>2. t \in Seq(S) /\ Len(t) = 1 /\ t[1] = s[1]
    BY <2>1, <1>1, Split
  <2>3. u \in Seq(S) /\ Len(u) = 1 /\ u[1] = s[1]
    BY <2>1, <1>1
  <2>4. \A i \in 1 .. 1 : i = 1
    OBVIOUS
  <2>5. t = u
    BY <2>2, <2>3, <2>4, SeqEqual
  <2> QED
    BY <2>1, <2>5
<1>4. s = SubSeq(s, 1, 1) \o SubSeq(s, 1 + 1, Len(s))
  BY <1>1, Split
<1>5. 1 + 1 = 2
  OBVIOUS
<1> QED
  BY <1>1, <1>2, <1>3, <1>4, <1>5

\* What one takes from the front of x \o y when it is in x.
InFirst(S, x, y, n, d) ==
    x \in Seq(S) /\ y \in Seq(S) /\ n \in 0 .. Len(x) /\ d = x \o y

FromFirst(S, x, y, n, d) ==
    /\ d \in Seq(S) /\ Len(d) = Len(x) + Len(y) /\ n \in 0 .. Len(d)
    /\ SubSeq(d, 1, n) = SubSeq(x, 1, n)
    /\ SubSeq(d, n + 1, Len(d)) = SubSeq(x, n + 1, Len(x)) \o y

LEMMA TakeFirst ==
    ASSUME NEW S, NEW x, NEW y, NEW n, NEW d, InFirst(S, x, y, n, d)
    PROVE  FromFirst(S, x, y, n, d)
<1>a. x \in Seq(S) /\ y \in Seq(S) /\ n \in 0 .. Len(x) /\ d = x \o y
  BY DEF InFirst
<1>0. PICK l \in Nat, m \in Nat : l = Len(x) /\ m = Len(y)
  BY <1>a, LenProperties
<1>1. /\ d \in Seq(S) /\ Len(d) = l + m
      /\ \A i \in 1 .. l + m : d[i] = IF i <= l THEN x[i] ELSE y[i - l]
  BY <1>a, <1>0, ConcatProperties
<1>2. n \in 0 .. l + m /\ n \in 0 .. l
  BY <1>a, <1>0
<1>3. PICK a, b, e : /\ a = SubSeq(d, 1, n) /\ b = SubSeq(x, 1, n)
                     /\ e = SubSeq(x, n + 1, l)
  OBVIOUS
<1>4. PICK r : r = SubSeq(d, n + 1, l + m)
  OBVIOUS
<1>5. /\ a \in Seq(S) /\ Len(a) = n /\ \A i \in 1 .. n : a[i] = d[i]
      /\ r \in Seq(S) /\ Len(r) = Len(d) - n
      /\ \A i \in 1 .. Len(d) - n : r[i] = d[n + i]
  <2>1. n \in 0 .. Len(d) /\ r = SubSeq(d, n + 1, Len(d))
    BY <1>1, <1>2, <1>4
  <2> QED
    BY <2>1, <1>1, <1>3, Split
<1>6. /\ b \in Seq(S) /\ Len(b) = n /\ \A i \in 1 .. n : b[i] = x[i]
      /\ e \in Seq(S) /\ Len(e) = l - n
      /\ \A i \in 1 .. l - n : e[i] = x[n + i]
  BY <1>a, <1>0, <1>2, <1>3, Split
<1>7. a = b
  <2>1. \A i \in 1 .. n : a[i] = b[i]
    <3>1. \A i \in 1 .. n : i \in 1 .. l + m /\ i <= l
      BY <1>2
    <3> QED
      BY <3>1, <1>1, <1>5, <1>6
  <2> QED
    BY <2>1, <1>5, <1>6, SeqEqual
<1>8. r = e \o y
  <2>1. Len(r) = Len(e) + Len(y)
    BY <1>0, <1>1, <1>2, <1>5, <1>6
  <2>2. ASSUME NEW i \in 1 .. Len(e) PROVE r[i] = e[i]
    <3>1. /\ i \in 1 .. l - n /\ i \in 1 .. Len(d) - n
          /\ n + i \in 1 .. l + m /\ n + i <= l
      BY <1>0, <1>1, <1>2, <1>6
    <3> QED
      BY <3>1, <1>1, <1>5, <1>6
  <2>3. ASSUME NEW i \in 1 .. Len(y) PROVE r[Len(e) + i] = y[i]
    <3>1. PICK j \in Nat : j = Len(e) + i
      BY <1>0, <1>2, <1>6
    <3>2. /\ j \in 1 .. Len(d) - n /\ n + j \in 1 .. l + m
          /\ ~(n + j <= l) /\ (n + j) - l = i
      BY <3>1, <1>0, <1>1, <1>2, <1>6
    <3> QED
      BY <3>1, <3>2, <1>1, <1>5
  <2>4. Joins(S, e, y, r)
    BY <2>1, <2>2, <2>3, <1>a, <1>5, <1>6 DEF Joins
  <2> QED
    BY <2>4, Joint
<1> QED
  BY <1>0, <1>1, <1>2, <1>3, <1>4, <1>7, <1>8 DEF FromFirst

-----------------------------------------------------------------------------
\* Blocks in two parts.
InParts(s, t, u) ==
    /\ u \in Seq(Block)
    /\ Q!space(s) \in Nat /\ Q!space(t) \in Nat
    /\ Q!space(u) = Q!space(s) + Q!space(t)
    /\ Q!Bytes(s) \in Seq(Nat) /\ Q!Bytes(t) \in Seq(Nat)
    /\ Q!Bytes(u) \in Seq(Nat) /\ Q!Bytes(u) = Q!Bytes(s) \o Q!Bytes(t)
    /\ Len(Q!Bytes(s)) \in Nat /\ Len(Q!Bytes(t)) \in Nat
    /\ Len(Q!Bytes(u)) = Len(Q!Bytes(s)) + Len(Q!Bytes(t))

LEMMA Parts ==
    ASSUME NEW s \in Seq(Block), NEW t \in Seq(Block), NEW u, u = s \o t
    PROVE  InParts(s, t, u)
<1>1. u \in Seq(Block) /\ Q!space(u) = Q!space(s) + Q!space(t)
  BY SpaceConcat
<1>2. Q!Bytes(u) = Q!Bytes(s) \o Q!Bytes(t)
  BY BytesConcat
<1>3. /\ Q!Bytes(s) \in Seq(Nat) /\ Q!Bytes(t) \in Seq(Nat)
      /\ Q!Bytes(u) \in Seq(Nat)
      /\ Len(Q!Bytes(s)) \in Nat /\ Len(Q!Bytes(t)) \in Nat
  BY <1>1, BytesSeq
<1>4. Len(Q!Bytes(u)) = Len(Q!Bytes(s)) + Len(Q!Bytes(t))
  <2>1. PICK x, y : x = Q!Bytes(s) /\ y = Q!Bytes(t)
    OBVIOUS
  <2>2. Len(x \o y) = Len(x) + Len(y)
    BY <2>1, <1>3, ConcatProperties
  <2> QED
    BY <2>1, <2>2, <1>2
<1> QED
  BY <1>1, <1>2, <1>3, <1>4, SpaceNat DEF InParts

LEMMA OneBlock ==
    ASSUME NEW b \in Block
    PROVE  /\ <<b>> \in Seq(Block) /\ Len(<<b>>) = 1
           /\ Q!space(<<b>>) = b.alloc /\ Q!Bytes(<<b>>) = b.data
           /\ b.alloc \in Nat /\ b.data \in Seq(Nat) /\ Len(b.data) \in Nat
           /\ b.alloc >= Len(b.data) + Hdr
<1>1. b.alloc \in Nat /\ b.data \in Seq(Nat) /\ b.alloc >= Len(b.data) + Hdr
  BY DEF Block
<1> QED
  BY <1>1, SpaceNat, BytesFew, LenProperties

LEMMA NoBlocks ==
    /\ <<>> \in Seq(Block) /\ Q!space(<<>>) = 0 /\ Q!Bytes(<<>>) = <<>>
    /\ Len(<<>>) = 0
  BY SpaceNat, BytesFew

LEMMA EmptyBlocks ==
    ASSUME NEW s \in Seq(Block), \A i \in 1 .. Len(s) : s[i].data = <<>>
    PROVE  Q!Bytes(s) = <<>>
<1>0. PICK n \in Nat : n = Len(s) /\ DOMAIN s = 1 .. n
  BY LenProperties
<1>1. PICK d : d = Datas(s)
  OBVIOUS
<1>2. d \in Seq(Seq(Nat)) /\ Len(d) = n /\ \A i \in 1 .. n : d[i] = <<>>
  BY <1>0, <1>1, DataSeq DEF Datas
<1>3. PICK f : f = [i \in 0 .. n |-> <<>>]
  OBVIOUS
<1>4. Joined(f, d)
  <2>1. f[0] = <<>> /\ \A i \in 1 .. n : f[i] = <<>> /\ f[i - 1] = <<>>
    <3>1. \A i \in 1 .. n : i \in 0 .. n /\ i - 1 \in 0 .. n
      OBVIOUS
    <3> QED
      BY <3>1, <1>3
  <2>2. <<>> = <<>> \o <<>>
    <3>1. <<>> \in Seq(Nat)
      OBVIOUS
    <3> QED
      BY <3>1, ConcatEmptySeq
  <2> QED
    BY <2>1, <2>2, <1>2 DEF Joined
<1>5. Q!FlattenSeq(d) = f[n]
  BY <1>2, <1>4, FlattenIs
<1> QED
  BY <1>1, <1>3, <1>5 DEF Q!Bytes, Datas

\* The walks of qread and qdiscard along the list end somewhere.
LEMMA FirstStop ==
    ASSUME NEW n \in Nat, NEW T \in SUBSET (0 .. n), n \in T
    PROVE  \E j \in T : \A i \in T : j <= i
<1>1. T \in SUBSET Nat /\ T # {}
  OBVIOUS
<1> QED
  BY <1>1, Least

LEMMA FittingIs ==
    ASSUME q \in Seq(Block), q # <<>>, want \in Nat
    PROVE  /\ Q!fitting \in 1 .. Len(q)
           /\ Q!fitting = 1 \/ Len(Q!Bytes(SubSeq(q, 1, Q!fitting))) <= want
           /\ "Qcoalesce" \notin state => Q!fitting = 1
<1>0. PICK n \in Nat : n = Len(q) /\ n # 0
  BY EmptySeq
<1> DEFINE big(k) == Len(Q!Bytes(SubSeq(q, 1, k))) > want
           Fits(k) == /\ k = 1 \/ Len(Q!Bytes(SubSeq(q, 1, k))) <= want
                      /\ k < n => Len(Q!Bytes(SubSeq(q, 1, k + 1))) > want
<1>1. \E k \in 1 .. n : Fits(k)
  <2> DEFINE T == {k \in 1 .. n : k < n => big(k + 1)}
  <2>1. T \in SUBSET (0 .. n) /\ n \in T
    BY <1>0
  <2>2. PICK j \in T : \A i \in T : j <= i
    <3> HIDE DEF T
    <3> QED
      BY <2>1, FirstStop
  <2>3. CASE j = 1
    BY <2>2, <2>3
  <2>4. CASE j # 1
    <3>1. j - 1 \in 1 .. n /\ j - 1 < n /\ (j - 1) + 1 = j /\ ~(j <= j - 1)
      BY <2>2, <2>4
    <3>2. j - 1 \notin T
      BY <3>1, <2>2
    <3>3. ~big(j)
      BY <3>1, <3>2
    <3>4. Len(Q!Bytes(SubSeq(q, 1, j))) \in Nat
      <4>1. SubSeq(q, 1, j) \in Seq(Block)
        <5>1. j \in 0 .. Len(q)
          BY <2>2, <1>0
        <5> QED
          BY <5>1, Split
      <4> QED
        BY <4>1, BytesSeq
    <3>5. Len(Q!Bytes(SubSeq(q, 1, j))) <= want
      BY <3>3, <3>4
    <3> QED
      BY <3>5, <2>2
  <2> QED
    BY <2>3, <2>4
<1>2. CASE "Qcoalesce" \notin state
  BY <1>0, <1>2 DEF Q!fitting
<1>3. CASE "Qcoalesce" \in state
  <2>1. PICK k : k = CHOOSE i \in 1 .. n : Fits(i)
    OBVIOUS
  <2>2. k \in 1 .. n /\ Fits(k)
    <3> HIDE DEF Fits
    <3> QED
      BY <1>1, <2>1
  <2>3. Q!fitting = k
    BY <1>0, <1>3, <2>1 DEF Q!fitting
  <2> QED
    BY <2>2, <2>3, <1>0, <1>3
<1> QED
  BY <1>2, <1>3

\* What one takes from the front of x \o y when it is more than x.
InSecond(S, x, y, m, d) ==
    x \in Seq(S) /\ y \in Seq(S) /\ m \in 0 .. Len(y) /\ d = x \o y

FromSecond(x, y, m, d) ==
    /\ Len(x) + m \in 0 .. Len(d)
    /\ SubSeq(d, Len(x) + m + 1, Len(d)) = SubSeq(y, m + 1, Len(y))

LEMMA TakeSecond ==
    ASSUME NEW S, NEW x, NEW y, NEW m, NEW d, InSecond(S, x, y, m, d)
    PROVE  FromSecond(x, y, m, d)
<1>a. x \in Seq(S) /\ y \in Seq(S) /\ m \in 0 .. Len(y) /\ d = x \o y
  BY DEF InSecond
<1>0. PICK l \in Nat, k \in Nat : l = Len(x) /\ k = Len(y)
  BY <1>a, LenProperties
<1>1. /\ d \in Seq(S) /\ Len(d) = l + k
      /\ \A i \in 1 .. l + k : d[i] = IF i <= l THEN x[i] ELSE y[i - l]
  BY <1>a, <1>0, ConcatProperties
<1>2. PICK n \in Nat : n = l + m /\ m \in 0 .. k /\ n \in 0 .. l + k
  BY <1>a, <1>0
<1>3. PICK a, b : a = SubSeq(d, n + 1, Len(d)) /\ b = SubSeq(y, m + 1, Len(y))
  OBVIOUS
<1>4. n \in 0 .. Len(d)
  BY <1>1, <1>2
<1>5. /\ a \in Seq(S) /\ Len(a) = Len(d) - n
      /\ \A i \in 1 .. Len(d) - n : a[i] = d[n + i]
  BY <1>1, <1>3, <1>4, Split
<1>6. /\ b \in Seq(S) /\ Len(b) = Len(y) - m
      /\ \A i \in 1 .. Len(y) - m : b[i] = y[m + i]
  BY <1>a, <1>3, Split
<1>7. Len(a) = Len(b)
  BY <1>0, <1>1, <1>2, <1>5, <1>6
<1>8. ASSUME NEW i \in 1 .. Len(a) PROVE a[i] = b[i]
  <2>1. PICK j \in Nat : j = n + i
    BY <1>0, <1>1, <1>2, <1>5
  <2>2. /\ i \in 1 .. Len(d) - n /\ i \in 1 .. Len(y) - m
        /\ j \in 1 .. l + k /\ ~(j <= l) /\ j - l = m + i
    BY <2>1, <1>0, <1>1, <1>2, <1>5, <1>6, <1>7
  <2> QED
    BY <2>1, <2>2, <1>1, <1>5, <1>6
<1>9. a = b
  BY <1>5, <1>6, <1>7, <1>8, SeqEqual
<1> QED
  BY <1>0, <1>1, <1>2, <1>3, <1>4, <1>9 DEF FromSecond

\* The first n bytes of s have been taken, t is left.
Taken(s, t) ==
    /\ t \in Seq(Block) /\ Q!space(t) <= Q!space(s)
    /\ \E n \in 0 .. Len(Q!Bytes(s)) :
         Q!Bytes(t) = SubSeq(Q!Bytes(s), n + 1, Len(Q!Bytes(s)))

\* The blocks of a,
LEMMA TakeBlocks ==
    ASSUME NEW a \in Seq(Block), NEW t \in Seq(Block), NEW s, s = a \o t
    PROVE  Taken(s, t)
<1>1. PICK x, y, d : x = Q!Bytes(a) /\ y = Q!Bytes(t) /\ d = Q!Bytes(s)
  OBVIOUS
<1>2. /\ x \in Seq(Nat) /\ y \in Seq(Nat) /\ d = x \o y /\ Len(x) \in Nat
      /\ Q!space(t) \in Nat /\ Q!space(a) \in Nat
      /\ Q!space(s) = Q!space(a) + Q!space(t)
  BY <1>1, Parts DEF InParts
<1>3. 0 \in 0 .. Len(y) /\ 0 + 1 = 1
  BY <1>2, LenProperties
<1>4. /\ Len(x) + 0 \in 0 .. Len(d)
      /\ SubSeq(d, Len(x) + 0 + 1, Len(d)) = SubSeq(y, 0 + 1, Len(y))
  <2>1. InSecond(Nat, x, y, 0, d)
    BY <1>2, <1>3 DEF InSecond
  <2>2. FromSecond(x, y, 0, d)
    BY <2>1, TakeSecond
  <2> QED
    BY <2>2 DEF FromSecond
<1>5. SubSeq(y, 0 + 1, Len(y)) = y
  BY <1>2, <1>3, SubSeqFull
<1>6. Q!space(t) <= Q!space(s)
  BY <1>2
<1> QED
  BY <1>1, <1>4, <1>5, <1>6 DEF Taken

\* or these and m bytes of the next one.
Shorter(b, m) == [b EXCEPT !.data = SubSeq(@, m + 1, Len(@))]

Cut(a, b, r, m, s, c, t) ==
    /\ Hdr \in Nat /\ a \in Seq(Block) /\ b \in Block /\ r \in Seq(Block)
    /\ m \in 0 .. Len(b.data)
    /\ s = a \o (<<b>> \o r)
    /\ c = Shorter(b, m)
    /\ t = <<c>> \o r

LEMMA TakeBytes ==
    ASSUME NEW a, NEW b, NEW r, NEW m, NEW s, NEW c, NEW t, Cut(a, b, r, m, s, c, t)
    PROVE  /\ c \in Block /\ t \in Seq(Block) /\ Taken(s, t)
           /\ Q!space(t) = Q!space(s) - Q!space(a)
           /\ Len(Q!Bytes(t)) = (Len(Q!Bytes(s)) - Len(Q!Bytes(a))) - m
           /\ m < Len(b.data) => c.data # <<>>
<1>0. PICK z : z = b.data
  OBVIOUS
<1>1. /\ z \in Seq(Nat) /\ Len(z) \in Nat /\ b.alloc \in Nat
      /\ b.alloc >= Len(z) + Hdr /\ m \in 0 .. Len(z)
  BY <1>0, OneBlock DEF Cut
<1>2. PICK y : y = SubSeq(z, m + 1, Len(z))
  OBVIOUS
<1>3. y \in Seq(Nat) /\ Len(y) = Len(z) - m /\ Len(y) \in Nat
  <2>1. y \in Seq(Nat) /\ Len(y) = Len(z) - m
    BY <1>1, <1>2, Split
  <2> QED
    BY <2>1, LenProperties
<1>4. c \in [data : Seq(Nat), alloc : Nat] /\ c.data = y /\ c.alloc = b.alloc
  BY <1>0, <1>1, <1>2, <1>3 DEF Shorter, Block, Cut
<1>5. c \in Block
  BY <1>0, <1>1, <1>3, <1>4 DEF Block, Cut
<1>6. PICK o, k, u : o = <<b>> /\ k = <<c>> /\ u = o \o r
  OBVIOUS
<1>7. /\ o \in Seq(Block) /\ Q!Bytes(o) = z /\ Q!space(o) = b.alloc
      /\ k \in Seq(Block) /\ Q!Bytes(k) = y /\ Q!space(k) = b.alloc
  BY <1>0, <1>4, <1>5, <1>6, OneBlock DEF Cut
<1>8. InParts(o, r, u)
  BY <1>6, <1>7, Parts DEF Cut
<1>9. InParts(k, r, t)
  BY <1>6, <1>7, Parts DEF Cut
<1>10. InParts(a, u, s)
  <2>1. u \in Seq(Block)
    BY <1>8 DEF InParts
  <2> QED
    BY <2>1, <1>6, Parts DEF Cut
<1>11. PICK d, x, v, w, l :
         d = Q!Bytes(s) /\ x = Q!Bytes(a) /\ v = Q!Bytes(u) /\ w = Q!Bytes(r)
         /\ l = Q!Bytes(t)
  OBVIOUS
<1>12. /\ u \in Seq(Block) /\ w \in Seq(Nat) /\ v = z \o w /\ v \in Seq(Nat)
       /\ Len(v) = Len(z) + Len(w) /\ Len(w) \in Nat
       /\ Q!space(u) = b.alloc + Q!space(r) /\ Q!space(r) \in Nat
  BY <1>7, <1>8, <1>11 DEF InParts
<1>13. /\ t \in Seq(Block) /\ l = y \o w /\ Len(l) = Len(y) + Len(w)
       /\ Q!space(t) = b.alloc + Q!space(r)
  BY <1>7, <1>9, <1>11 DEF InParts
<1>14. /\ x \in Seq(Nat) /\ d = x \o v /\ Len(d) = Len(x) + Len(v)
       /\ Len(x) \in Nat /\ Q!space(s) = Q!space(a) + Q!space(u)
       /\ Q!space(a) \in Nat
  BY <1>10, <1>11 DEF InParts
<1>15. Q!space(t) = Q!space(s) - Q!space(a) /\ Q!space(t) <= Q!space(s)
  BY <1>1, <1>12, <1>13, <1>14
<1>16. Len(l) = (Len(d) - Len(x)) - m
  BY <1>1, <1>3, <1>12, <1>13, <1>14
<1>17. SubSeq(v, m + 1, Len(v)) = y \o w
  <2>1. InFirst(Nat, z, w, m, v)
    BY <1>1, <1>12 DEF InFirst
  <2>2. FromFirst(Nat, z, w, m, v)
    BY <2>1, TakeFirst
  <2> QED
    BY <2>2, <1>2 DEF FromFirst
<1>18. m \in 0 .. Len(v)
  BY <1>1, <1>12
<1>19. /\ Len(x) + m \in 0 .. Len(d)
       /\ SubSeq(d, Len(x) + m + 1, Len(d)) = SubSeq(v, m + 1, Len(v))
  <2>1. InSecond(Nat, x, v, m, d)
    BY <1>12, <1>14, <1>18 DEF InSecond
  <2>2. FromSecond(x, v, m, d)
    BY <2>1, TakeSecond
  <2> QED
    BY <2>2 DEF FromSecond
<1>20. Taken(s, t)
  <2>1. PICK n \in 0 .. Len(d) : n = Len(x) + m
    BY <1>19
  <2>2. l = SubSeq(d, n + 1, Len(d))
    BY <2>1, <1>13, <1>17, <1>19
  <2> QED
    BY <2>2, <1>11, <1>13, <1>15 DEF Taken
<1>21. m < Len(b.data) => c.data # <<>>
  <2>1. m < Len(z) => Len(y) # 0
    BY <1>1, <1>3
  <2> QED
    BY <2>1, <1>0, <1>4
<1> QED
  BY <1>5, <1>11, <1>13, <1>15, <1>16, <1>20, <1>21

-----------------------------------------------------------------------------
\* The blocks of the queue, and its two lengths.
Counted == q \in Seq(Block) /\ len = Q!space(q) /\ dlen = Len(Q!Bytes(q))

LEMMA Adding ==
    ASSUME Q!QioAssumption, Counted, next \in Nat, NEW n \in Nat,
           Q!add(Q!allocb(n))
    PROVE  /\ Counted' /\ next' \in Nat
           /\ \E b \in Block : /\ q' = q \o <<b>> /\ Len(b.data) = n
                               /\ len' = len + b.alloc
<1>a. Hdr \in Nat /\ Labels \in Nat \ {0}
  BY DEF Q!QioAssumption
<1>1. PICK b : b = Q!allocb(n)
  OBVIOUS
<1>2. PICK d : d = [i \in 1 .. n |-> (next + i - 1) % Labels]
  OBVIOUS
<1>3. d \in Seq(Nat) /\ Len(d) = n
  <2>1. \A i \in 1 .. n : (next + i - 1) % Labels \in Nat
    BY <1>a
  <2>2. d \in [1 .. n -> Nat]
    BY <2>1, <1>2
  <2> QED
    BY <2>2
<1>4. b \in [data : Seq(Nat), alloc : Nat] /\ b.data = d /\ b.alloc = n + Hdr
  BY <1>a, <1>1, <1>2, <1>3 DEF Q!allocb
<1>5. b \in Block
  BY <1>a, <1>3, <1>4 DEF Block
<1>6. /\ q' = Append(q, b) /\ len' = len + b.alloc /\ dlen' = dlen + Len(b.data)
      /\ next' = (next + Len(b.data)) % Labels
  BY <1>1 DEF Q!add, Q!filled
<1>7. next' \in Nat
  BY <1>a, <1>3, <1>4, <1>6
<1>8. PICK o : o = <<b>>
  OBVIOUS
<1>9. o \in Seq(Block) /\ Q!space(o) = b.alloc /\ Q!Bytes(o) = b.data
  BY <1>5, <1>8, OneBlock
<1>10. q' = q \o o
  BY <1>5, <1>6, <1>8, AppendIsConcat DEF Counted
<1>11. InParts(q, o, q')
  BY <1>9, <1>10, Parts DEF Counted
<1>12. q' \in Seq(Block) /\ len' = Q!space(q') /\ dlen' = Len(Q!Bytes(q'))
  BY <1>6, <1>9, <1>11 DEF InParts, Counted
<1>13. Counted'
  BY <1>12 DEF Counted
<1> QED
  BY <1>3, <1>4, <1>5, <1>6, <1>7, <1>8, <1>10, <1>13

LEMMA Removing ==
    ASSUME Counted, NEW k \in 0 .. Len(q), Q!qremove(k)
    PROVE  /\ Counted' /\ SubSeq(q, 1, k) \in Seq(Block)
           /\ q = SubSeq(q, 1, k) \o q'
           /\ len = Q!space(SubSeq(q, 1, k)) + len'
<1>1. PICK a, r : a = SubSeq(q, 1, k) /\ r = SubSeq(q, k + 1, Len(q))
  OBVIOUS
<1>2. a \in Seq(Block) /\ r \in Seq(Block) /\ q = a \o r
  BY <1>1, Split DEF Counted
<1>3. InParts(a, r, q)
  BY <1>2, Parts
<1>4. /\ q' = r /\ len' = len - Q!space(a) /\ dlen' = dlen - Len(Q!Bytes(a))
  BY <1>1 DEF Q!qremove
<1>5. len' = Q!space(r) /\ dlen' = Len(Q!Bytes(r)) /\ len = Q!space(a) + len'
  BY <1>3, <1>4 DEF InParts, Counted
<1>6. Counted'
  BY <1>2, <1>4, <1>5 DEF Counted
<1> QED
  BY <1>1, <1>2, <1>4, <1>5, <1>6

\* A part of the bytes of h is put back before r.
PartLeft(h, r, n, b) ==
    /\ n \in 0 .. Len(Q!Bytes(h \o r))
    /\ Q!Bytes(b \o r) =
         SubSeq(Q!Bytes(h \o r), n + 1, Len(Q!Bytes(h \o r)))
    /\ SubSeq(Q!Bytes(h), 1, n) = SubSeq(Q!Bytes(h \o r), 1, n)

LEMMA PartBack ==
    ASSUME NEW h \in Seq(Block), NEW r \in Seq(Block), NEW b \in Seq(Block),
           NEW n \in 0 .. Len(Q!Bytes(h)),
           Q!Bytes(b) = SubSeq(Q!Bytes(h), n + 1, Len(Q!Bytes(h)))
    PROVE  PartLeft(h, r, n, b)
<1>1. PICK w, v : w = h \o r /\ v = b \o r
  OBVIOUS
<1>2. InParts(h, r, w) /\ InParts(b, r, v)
  BY <1>1, Parts
<1>3. PICK x, y, z, d : /\ x = Q!Bytes(h) /\ y = Q!Bytes(r) /\ z = Q!Bytes(b)
                        /\ d = Q!Bytes(w)
  OBVIOUS
<1>4. InFirst(Nat, x, y, n, d)
  BY <1>2, <1>3 DEF InParts, InFirst
<1>5. FromFirst(Nat, x, y, n, d)
  BY <1>4, TakeFirst
<1>6. n \in 0 .. Len(d) /\ SubSeq(d, 1, n) = SubSeq(x, 1, n)
      /\ SubSeq(d, n + 1, Len(d)) = z \o y
  BY <1>3, <1>5 DEF FromFirst
<1>7. Q!Bytes(v) = z \o y
  BY <1>2, <1>3 DEF InParts
<1> QED
  BY <1>1, <1>3, <1>6, <1>7 DEF PartLeft
-----------------------------------------------------------------------------
\* The queue, with what qread has taken from it and not yet put back.
Whole == hand \o q

SameKind == "Qmsg" \in state' <=> "Qmsg" \in state

LEMMA MarkStep ==
    ASSUME SameKind, Q!Items(Whole)' = Q!Items(Whole), last' \in {last, <<>>}
    PROVE  Q!BQ!Next
  BY DEF SameKind, Whole, Q!BQ!Next, Q!BQ!Mark

LEMMA ClearStep ==
    ASSUME SameKind, hand' = <<>>, q' = <<>>, last' = last,
           due[ctl] = <<>>, due'[ctl] # <<>>
    PROVE  Q!BQ!Next
<1>1. Whole' = <<>>
  BY ConcatEmptySeq DEF Whole
<1>2. Q!Items(<<>>)' = <<>>
  BY BytesFew DEF Q!Items
<1>3. Q!Items(Whole)' = <<>>
  BY <1>1, <1>2
<1> QED
  BY <1>3 DEF SameKind, Whole, Q!BQ!Next, Q!BQ!Clear

\* A queue of messages is a queue of blocks.
LEMMA MessagesAre ==
    ASSUME NEW s \in Seq(Block), NEW t \in Seq(Block)
    PROVE  /\ Datas(s) \in Seq(Seq(Nat)) /\ Len(Datas(s)) = Len(s)
           /\ Datas(s \o t) = Datas(s) \o Datas(t)
<1>0. PICK m \in Nat, n \in Nat :
        /\ m = Len(s) /\ n = Len(t) /\ DOMAIN s = 1 .. m /\ DOMAIN t = 1 .. n
  BY LenProperties
<1>1. PICK u : u = s \o t
  OBVIOUS
<1>2. /\ u \in Seq(Block) /\ Len(u) = m + n
      /\ \A i \in 1 .. m + n : u[i] = IF i <= m THEN s[i] ELSE t[i - m]
  BY <1>0, <1>1, ConcatProperties
<1>3. DOMAIN u = 1 .. m + n
  BY <1>2, LenProperties
<1>4. PICK a, b, d : a = Datas(s) /\ b = Datas(t) /\ d = Datas(u)
  OBVIOUS
<1>5. /\ a \in Seq(Seq(Nat)) /\ Len(a) = m /\ \A i \in 1 .. m : a[i] = s[i].data
      /\ b \in Seq(Seq(Nat)) /\ Len(b) = n /\ \A i \in 1 .. n : b[i] = t[i].data
  BY <1>0, <1>4, DataSeq DEF Datas
<1>6. /\ d \in Seq(Seq(Nat)) /\ Len(d) = m + n
      /\ \A i \in 1 .. m + n : d[i] = u[i].data
  BY <1>2, <1>3, <1>4, DataSeq DEF Datas
<1>7. ASSUME NEW i \in 1 .. m PROVE d[i] = a[i]
  <2>1. i \in 1 .. m + n /\ i <= m
    OBVIOUS
  <2>2. d[i] = u[i].data /\ a[i] = s[i].data /\ u[i] = s[i]
    BY <2>1, <1>2, <1>5, <1>6
  <2> QED
    BY <2>2
<1>8. ASSUME NEW i \in 1 .. n PROVE d[m + i] = b[i]
  <2>1. PICK j : j = m + i
    OBVIOUS
  <2>2. j \in 1 .. m + n /\ ~(j <= m) /\ j - m = i
    BY <2>1
  <2>3. d[j] = u[j].data /\ b[i] = t[i].data /\ u[j] = t[i]
    BY <2>2, <1>2, <1>5, <1>6
  <2> QED
    BY <2>1, <2>3
<1>9. d = a \o b
  <2>1. Joins(Seq(Nat), a, b, d)
    BY <1>5, <1>6, <1>7, <1>8 DEF Joins
  <2> QED
    BY <2>1, Joint
<1> QED
  BY <1>0, <1>1, <1>4, <1>5, <1>9

\* What has something put behind it begins what becomes of it.
Longer(x, y, z) ==
    IF Len(y) = 0 THEN z = x ELSE Q!BQ!IsStrictPrefix(x, z)

LEMMA LongerPrefix ==
    ASSUME NEW S, NEW x, NEW y, NEW z, Joins(S, x, y, z)
    PROVE  Longer(x, y, z)
<1>0. x \in Seq(S) /\ y \in Seq(S) /\ z = x \o y
  BY Joint DEF Joins
<1>1. CASE Len(y) = 0
  <2>1. y = <<>>
    BY <1>0, <1>1, EmptySeq
  <2> QED
    BY <1>0, <1>1, <2>1, ConcatEmptySeq DEF Longer
<1>2. CASE Len(y) # 0
  <2>0. PICK l \in Nat, m \in Nat : l = Len(x) /\ m = Len(y)
    BY <1>0, LenProperties
  <2>1. PICK d : d = z /\ d = x \o y
    BY <1>0
  <2>2. d \in Seq(S) /\ Len(d) = l + m
    BY <1>0, <2>0, <2>1, ConcatProperties
  <2>3. InFirst(S, x, y, l, d)
    BY <1>0, <2>0, <2>1 DEF InFirst
  <2>4. SubSeq(d, 1, l) = SubSeq(x, 1, l)
    <3>1. FromFirst(S, x, y, l, d)
      BY <2>3, TakeFirst
    <3> QED
      BY <3>1 DEF FromFirst
  <2>5. Len(x) <= Len(d) /\ Len(x) # Len(d)
    BY <1>2, <2>0, <2>2
  <2>6. x # d
    BY <2>5
  <2>7. Q!BQ!IsStrictPrefix(x, d)
    BY <2>0, <2>4, <2>5, <2>6 DEF Q!BQ!IsStrictPrefix, Q!BQ!IsPrefix
  <2> QED
    BY <1>2, <2>1, <2>7 DEF Longer
<1> QED
  BY <1>1, <1>2

LEMMA ItemsAre ==
    /\ "Qmsg" \in state => Q!Items(Whole) = Datas(Whole)
    /\ "Qmsg" \notin state => Q!Items(Whole) = Q!Bytes(Whole)
    /\ "Qmsg" \in state' => Q!Items(Whole)' = Datas(Whole')
    /\ "Qmsg" \notin state' => Q!Items(Whole)' = Q!Bytes(Whole')
  BY DEF Q!Items, Datas, Q!Bytes

LEMMA PutStep ==
    ASSUME SameKind, hand \in Seq(Block), q \in Seq(Block), NEW b \in Block,
           hand' = hand, q' = q \o <<b>>, last' = last
    PROVE  Q!BQ!Next
<1>1. PICK w, o, v : w = Whole /\ o = <<b>> /\ v = w \o o
  OBVIOUS
<1>2. w \in Seq(Block) /\ o \in Seq(Block) /\ v \in Seq(Block) /\ Len(o) = 1
      /\ Q!Bytes(o) = b.data
  <2>1. w \in Seq(Block)
    BY <1>1, ConcatProperties DEF Whole
  <2> QED
    BY <1>1, <2>1, OneBlock, SpaceConcat
<1>3. Whole' = v
  <2>1. hand \o (q \o o) = (hand \o q) \o o
    <3>1. Associative(Block)
      BY Assoc
    <3> QED
      BY <1>2, <3>1 DEF Associative
  <2> QED
    BY <1>1, <2>1 DEF Whole
<1>4. CASE "Qmsg" \in state
  <2>1. PICK x, y : x = Datas(w) /\ y = Datas(o)
    OBVIOUS
  <2>2. /\ x \in Seq(Seq(Nat)) /\ y \in Seq(Seq(Nat)) /\ Len(y) = 1
        /\ Datas(v) = x \o y
    BY <1>1, <1>2, <2>1, MessagesAre
  <2>a. PICK z : z = x \o y
    OBVIOUS
  <2>3. Q!BQ!IsStrictPrefix(x, z) /\ Len(z) = Len(x) + 1
    <3>1. Joins(Seq(Nat), x, y, z)
      BY <2>a, <2>2, Concat
    <3>2. Q!BQ!IsStrictPrefix(x, z)
      <4>1. Longer(x, y, z)
        BY <3>1, LongerPrefix
      <4> QED
        BY <4>1, <2>2 DEF Longer
    <3>3. Len(z) = Len(x) + 1
      BY <2>2, <3>1 DEF Joins
    <3> QED
      BY <3>2, <3>3
  <2>4. Q!Items(Whole) = x /\ Q!Items(Whole)' = z
    BY <2>a, <1>1, <1>3, <1>4, <2>1, <2>2, ItemsAre DEF SameKind
  <2> QED
    BY <1>4, <2>3, <2>4 DEF SameKind, Whole, Q!BQ!Next, Q!BQ!Put
<1>5. CASE "Qmsg" \notin state
  <2>1. PICK x, y : x = Q!Bytes(w) /\ y = b.data
    OBVIOUS
  <2>2. x \in Seq(Nat) /\ y \in Seq(Nat) /\ Q!Bytes(v) = x \o y
    <3>1. InParts(w, o, v)
      BY <1>1, <1>2, Parts
    <3> QED
      BY <1>2, <2>1, <3>1, OneBlock DEF InParts
  <2>a. PICK z : z = x \o y
    OBVIOUS
  <2>b. Joins(Nat, x, y, z)
    BY <2>a, <2>2, Concat
  <2>3. Q!Items(Whole) = x /\ Q!Items(Whole)' = z
    BY <2>a, <1>1, <1>3, <1>5, <2>1, <2>2, ItemsAre DEF SameKind
  <2>4. CASE Len(y) = 0
    <3>1. Q!Items(Whole)' = Q!Items(Whole)
      BY <2>b, <2>3, <2>4, LongerPrefix DEF Longer
    <3> QED
      BY <3>1, MarkStep
  <2>5. CASE Len(y) # 0
    <3>1. Q!BQ!IsStrictPrefix(x, z)
      BY <2>b, <2>5, LongerPrefix DEF Longer
    <3> QED
      BY <1>5, <3>1, <2>3 DEF SameKind, Whole, Q!BQ!Next, Q!BQ!Put
  <2> QED
    BY <2>4, <2>5
<1> QED
  BY <1>4, <1>5

LEMMA GetStep ==
    ASSUME SameKind, "Qmsg" \notin state, NEW n \in 0 .. Len(Q!Bytes(Whole)),
           Q!Bytes(Whole') = SubSeq(Q!Bytes(Whole), n + 1, Len(Q!Bytes(Whole))),
           last' \in {SubSeq(Q!Bytes(Whole), 1, n), <<>>}
    PROVE  Q!BQ!Next
<1>1. Q!Items(Whole) = Q!Bytes(Whole) /\ Q!Items(Whole)' = Q!Bytes(Whole')
  BY ItemsAre DEF SameKind
<1>2. Q!BQ!Get
  BY <1>1 DEF Whole, Q!BQ!Get
<1> QED
  BY <1>2 DEF SameKind, Q!BQ!Next

LEMMA MessageStep ==
    ASSUME SameKind, "Qmsg" \in state, NEW b \in Block, NEW r \in Seq(Block),
           Whole = <<b>> \o r, Whole' = r, NEW n \in 0 .. Len(b.data),
           last' = SubSeq(b.data, 1, n)
    PROVE  Q!BQ!Next
<1>1. PICK o, w : o = <<b>> /\ w = o \o r
  OBVIOUS
<1>2. PICK x, y : x = Datas(o) /\ y = Datas(r)
  OBVIOUS
<1>3. o \in Seq(Block) /\ Len(o) = 1 /\ o[1] = b /\ DOMAIN o = 1 .. 1
  BY <1>1, OneBlock
<1>4. /\ x \in Seq(Seq(Nat)) /\ y \in Seq(Seq(Nat)) /\ Len(x) = 1
      /\ Datas(w) = x \o y
  BY <1>1, <1>2, <1>3, MessagesAre
<1>5. x[1] = b.data
  BY <1>2, <1>3 DEF Datas
<1>6. PICK d : d = x \o y
  OBVIOUS
<1>7. PICK m \in Nat : m = Len(y)
  BY <1>4, LenProperties
<1>8. d \in Seq(Seq(Nat)) /\ Len(d) = 1 + m /\ d[1] = b.data
  <2>1. Joins(Seq(Nat), x, y, d)
    BY <1>4, <1>6, Concat
  <2>2. 1 \in 1 .. Len(x)
    BY <1>4
  <2> QED
    BY <2>1, <2>2, <1>4, <1>5, <1>7 DEF Joins
<1>9. d # <<>> /\ d[1] = b.data
  <2>1. 1 \in 1 .. 1 + m /\ 1 + m # 0
    BY <1>7
  <2>2. d # <<>>
    BY <2>1, <1>8, EmptySeq
  <2> QED
    BY <2>2, <1>8
<1>10. /\ Head(d) = b.data /\ Tail(d) = SubSeq(d, 2, Len(d))
  BY <1>8, <1>9, FirstAndRest
<1>11. Tail(d) = y
  <2>1. InSecond(Seq(Nat), x, y, 0, d)
    BY <1>4, <1>6, <1>7 DEF InSecond
  <2>2. FromSecond(x, y, 0, d)
    BY <2>1, TakeSecond
  <2>3. Len(x) + 0 + 1 = 2 /\ 0 + 1 = 1
    BY <1>4
  <2>4. SubSeq(d, 2, Len(d)) = SubSeq(y, 1, Len(y))
    BY <2>2, <2>3 DEF FromSecond
  <2>5. SubSeq(y, 1, Len(y)) = y
    BY <1>4, SubSeqFull
  <2> QED
    BY <2>4, <2>5, <1>10
<1>12. Q!Items(Whole) = d /\ Q!Items(Whole)' = y
  BY <1>1, <1>2, <1>4, <1>6, ItemsAre DEF SameKind
<1>13. Q!BQ!GetMessage
  BY <1>9, <1>10, <1>11, <1>12 DEF Whole, Q!BQ!GetMessage
<1> QED
  BY <1>13 DEF SameKind, Q!BQ!Next

-----------------------------------------------------------------------------
LEMMA Single ==
    ASSUME NEW S, NEW s \in Seq(S), Len(s) = 1
    PROVE  s = <<Head(s)>> /\ Head(s) \in S /\ Head(s) = s[1] /\ s # <<>>
<1>1. s # <<>>
  BY EmptySeq
<1>2. /\ Len(Tail(s)) = 1 - 1 /\ s = <<Head(s)>> \o Tail(s) /\ Head(s) \in S
      /\ Tail(s) \in Seq(S) /\ Head(s) = s[1]
  BY <1>1, FirstAndRest
<1>3. Tail(s) = <<>>
  BY <1>2, EmptySeq
<1>4. PICK o : o = <<Head(s)>>
  OBVIOUS
<1>5. o \in Seq(S)
  BY <1>2, <1>4
<1>6. o \o <<>> = o
  BY <1>5, ConcatEmptySeq
<1> QED
  BY <1>1, <1>2, <1>3, <1>4, <1>6

\* What is put back leaves the lengths right, takes no more room than what
\* was taken, and begins with the first byte that was not read.
Returned(back, h, n) ==
    /\ back \in Seq(Block)
    /\ Q!space(back) \in Nat /\ Q!space(back) <= Q!space(h)
    /\ "Qmsg" \notin state => Q!Bytes(back) = SubSeq(Q!Bytes(h), n + 1, Len(Q!Bytes(h)))

LEMMA GiveBackStep ==
    ASSUME SameKind, NEW h \in Seq(Block), NEW r \in Seq(Block), NEW back,
           NEW n \in 0 .. Len(Q!Bytes(h)),
           Returned(back, h, n),
           "Qmsg" \in state => Len(h) = 1 /\ back = <<>>,
           Whole = h \o r, Whole' = back \o r,
           last' = SubSeq(Q!Bytes(h), 1, n)
    PROVE  Q!BQ!Next
<1>1. back \in Seq(Block)
  BY DEF Returned
<1>2. CASE "Qmsg" \notin state
  <2>1. PartLeft(h, r, n, back)
    BY <1>1, <1>2, PartBack DEF Returned
  <2> QED
    BY <2>1, <1>2, GetStep DEF PartLeft
<1>3. CASE "Qmsg" \in state
  <2>1. PICK b : b = Head(h)
    OBVIOUS
  <2>2. b \in Block /\ h = <<b>>
    BY <2>1, <1>3, Single
  <2>3. Q!Bytes(h) = b.data
    BY <2>2, OneBlock
  <2>4. Whole' = r
    BY <1>3, ConcatEmptySeq
  <2> QED
    BY <2>2, <2>3, <2>4, <1>3, MessageStep
<1> QED
  BY <1>2, <1>3

LEMMA PutBack ==
    ASSUME Q!QioAssumption, Counted, hand \in Seq(Block), hand # <<>>,
           want \in Nat, Len(hand) = 1 \/ Len(Q!Bytes(hand)) <= want,
           "Qmsg" \in state => Len(hand) = 1, NEW t, Q!qputback(t)
    PROVE  /\ Counted' /\ hand' = <<>> /\ len' \in Nat
           /\ len' <= len + Q!space(hand)
           /\ Q!BQ!Next
<1>a. Hdr \in Nat
  BY DEF Q!QioAssumption
<1>1. PICK bytes : bytes = Q!Bytes(hand)
  OBVIOUS
<1>2. bytes \in Seq(Nat) /\ Len(bytes) \in Nat
  BY <1>1, BytesSeq
<1>3. PICK n \in 0 .. Len(bytes) : n = IF Len(bytes) > want THEN want ELSE Len(bytes)
  BY <1>2
<1>4. PICK rest : rest = [data |-> SubSeq(bytes, n + 1, Len(bytes)),
                          alloc |-> Q!Last(hand).alloc]
  OBVIOUS
<1>5. PICK back : back = IF n < Len(bytes) /\ "Qmsg" \notin state
                         THEN <<rest>> ELSE <<>>
  OBVIOUS
<1>6. /\ last' = SubSeq(bytes, 1, n) /\ hand' = <<>> /\ q' = back \o q
      /\ len' = IF back = <<>> THEN len ELSE len + rest.alloc
      /\ dlen' = dlen + Len(Q!Bytes(back))
  BY <1>1, <1>3, <1>4, <1>5 DEF Q!qputback
<1>7. SameKind
  BY DEF Q!qputback, Q!restart, SameKind
<1>8. SubSeq(bytes, n + 1, Len(bytes)) \in Seq(Nat)
      /\ Len(SubSeq(bytes, n + 1, Len(bytes))) = Len(bytes) - n
  BY <1>2, <1>3, Split
<1>9. Q!space(hand) \in Nat /\ len \in Nat /\ dlen \in Nat
  BY SpaceNat, BytesSeq DEF Counted
<1>10. /\ Returned(back, hand, n)
       /\ Q!space(back) = IF back = <<>> THEN 0 ELSE rest.alloc
  <2>1. CASE n < Len(bytes) /\ "Qmsg" \notin state
    <3>1. back = <<rest>> /\ back # <<>>
      BY <2>1, <1>5
    <3>2. Len(hand) = 1
      BY <2>1, <1>1, <1>2, <1>3
    <3>3. PICK b : b = Head(hand)
      OBVIOUS
    <3>4. b \in Block /\ hand = <<b>> /\ Q!Last(hand) = b
      BY <3>2, <3>3, Single DEF Q!Last
    <3>5. bytes = b.data /\ Q!space(hand) = b.alloc /\ b.alloc \in Nat
          /\ b.alloc >= Len(bytes) + Hdr
      BY <3>4, <1>1, OneBlock
    <3>6. rest \in Block
      <4>1. rest \in [data : Seq(Nat), alloc : Nat]
        BY <3>4, <3>5, <1>4, <1>8
      <4>2. Len(rest.data) + Hdr <= rest.alloc
        <5>1. Len(rest.data) = Len(bytes) - n /\ rest.alloc = b.alloc
          BY <3>4, <1>4, <1>8
        <5>2. b.alloc \in Nat /\ b.alloc >= Len(bytes) + Hdr
          BY <3>5
        <5>3. \A k, h, a, m \in Nat : a >= k + h => (k - m) + h <= a
          OBVIOUS
        <5>4. n \in Nat /\ n <= Len(bytes)
          BY <1>2, <1>3
        <5>5. (Len(bytes) - n) + Hdr <= b.alloc
          BY <5>2, <5>3, <5>4, <1>a, <1>2
        <5> QED
          BY <5>1, <5>5
      <4> QED
        BY <4>1, <4>2 DEF Block
    <3>7. rest.data = SubSeq(bytes, n + 1, Len(bytes)) /\ rest.alloc = b.alloc
      BY <1>4, <3>4
    <3>8. /\ back \in Seq(Block) /\ Q!space(back) = b.alloc
          /\ Q!Bytes(back) = SubSeq(bytes, n + 1, Len(bytes))
      BY <3>1, <3>6, <3>7, OneBlock
    <3> QED
      BY <3>1, <3>5, <3>7, <3>8, <1>1 DEF Returned
  <2>2. CASE ~(n < Len(bytes) /\ "Qmsg" \notin state)
    <3>1. back = <<>>
      BY <2>2, <1>5
    <3>2. back \in Seq(Block) /\ Q!space(back) = 0 /\ Q!Bytes(back) = <<>>
      BY <3>1, NoBlocks
    <3>3. "Qmsg" \notin state => SubSeq(bytes, n + 1, Len(bytes)) = <<>>
      <4>1. "Qmsg" \notin state => Len(bytes) - n = 0
        BY <2>2, <1>2, <1>3
      <4> QED
        BY <4>1, <1>8, EmptySeq
    <3>4. Q!space(back) \in Nat /\ Q!space(back) <= Q!space(hand)
      BY <3>2, <1>9
    <3>5. Returned(back, hand, n)
      BY <3>2, <3>3, <3>4, <1>1 DEF Returned
    <3> QED
      BY <3>1, <3>2, <3>5
  <2> QED
    BY <2>1, <2>2
<1>11. InParts(back, q, q')
  BY <1>6, <1>10, Parts DEF Returned, Counted
<1>12. /\ q' \in Seq(Block) /\ len' = Q!space(q') /\ dlen' = Len(Q!Bytes(q'))
  BY <1>6, <1>10, <1>11 DEF InParts, Counted
<1>13. Counted'
  BY <1>12 DEF Counted
<1>14. len' \in Nat /\ len' <= len + Q!space(hand)
  BY <1>6, <1>9, <1>10 DEF Returned
<1>15. Whole = hand \o q /\ Whole' = back \o q
  <2>1. <<>> \o q' = q'
    BY <1>12, ConcatEmptySeq
  <2> QED
    BY <2>1, <1>6 DEF Whole
<1>16. "Qmsg" \in state => Len(hand) = 1 /\ back = <<>>
  BY <1>5
<1>17. Q!BQ!Next
  BY <1>1, <1>3, <1>6, <1>7, <1>10, <1>15, <1>16, GiveBackStep DEF Counted
<1> QED
  BY <1>6, <1>13, <1>14, <1>17

LEMMA ReadBlock ==
    ASSUME Q!QioAssumption, Counted, hand = <<>>, want \in Nat,
           NEW t, Q!qbread(t)
    PROVE  /\ Counted' /\ hand' = <<>> /\ len' \in Nat /\ len' <= len
           /\ Q!BQ!Next
<1>a. Hdr \in Nat
  BY DEF Q!QioAssumption
<1>b. PICK b, h, r : b = Head(q) /\ h = <<b>> /\ r = Tail(q)
  OBVIOUS
<1>c. /\ b \in Block /\ h \in Seq(Block) /\ r \in Seq(Block) /\ q = h \o r
      /\ Len(h) = 1
  <2>1. q # <<>> /\ q \in Seq(Block)
    BY DEF Q!qbread, Counted
  <2>2. b \in Block /\ r \in Seq(Block) /\ q = h \o r
    BY <2>1, <1>b, FirstAndRest
  <2> QED
    BY <2>2, <1>b, OneBlock
<1>1. PICK bytes : bytes = b.data
  OBVIOUS
<1>2. /\ bytes \in Seq(Nat) /\ Len(bytes) \in Nat /\ b.alloc \in Nat
      /\ b.alloc >= Len(bytes) + Hdr
      /\ Q!Bytes(h) = bytes /\ Q!space(h) = b.alloc
  BY <1>b, <1>c, <1>1, OneBlock
<1>3. PICK n \in 0 .. Len(bytes) :
        n = IF Len(bytes) > want THEN want ELSE Len(bytes)
  BY <1>2
<1>4. PICK rest : rest = SubSeq(bytes, n + 1, Len(bytes))
  OBVIOUS
<1>5. PICK back : back = IF rest # <<>> /\ "Qmsg" \notin state
                         THEN <<[data |-> rest, alloc |-> Len(rest) + Hdr]>>
                         ELSE <<>>
  OBVIOUS
<1>6. /\ last' = SubSeq(bytes, 1, n) /\ hand' = hand /\ q' = back \o r
      /\ len' = len - b.alloc + (IF back = <<>> THEN 0 ELSE back[1].alloc)
      /\ dlen' = dlen - Len(bytes) + Len(Q!Bytes(back))
  BY <1>b, <1>1, <1>3, <1>4, <1>5 DEF Q!qbread
<1>7. SameKind
  BY DEF Q!qbread, Q!restart, SameKind
<1>8. rest \in Seq(Nat) /\ Len(rest) = Len(bytes) - n /\ Len(rest) \in Nat
  BY <1>2, <1>3, <1>4, Split, LenProperties
<1>9. InParts(h, r, q)
  BY <1>c, Parts
<1>10. /\ Returned(back, h, n)
       /\ Q!space(back) = IF back = <<>> THEN 0 ELSE back[1].alloc
  <2>1. CASE rest # <<>> /\ "Qmsg" \notin state
    <3>1. PICK c : c = [data |-> rest, alloc |-> Len(rest) + Hdr]
      OBVIOUS
    <3>2. c \in Block /\ c.data = rest /\ c.alloc <= b.alloc
      <4>1. Len(rest) + Hdr \in Nat /\ Len(rest) + Hdr <= b.alloc
        <5>1. PICK l \in Nat, m \in Nat, a \in Nat :
                l = Len(bytes) /\ m = Len(rest) /\ a = b.alloc
          BY <1>2, <1>8
        <5>2. m = l - n /\ n \in 0 .. l /\ a >= l + Hdr
          BY <5>1, <1>2, <1>3, <1>8
        <5> QED
          BY <5>1, <5>2, <1>a
      <4>2. c \in [data : Seq(Nat), alloc : Nat] /\ c.data = rest
            /\ c.alloc = Len(rest) + Hdr
        BY <4>1, <3>1, <1>8
      <4>3. c \in Block
        BY <4>1, <4>2 DEF Block
      <4> QED
        BY <4>1, <4>2, <4>3
    <3>3. back = <<c>> /\ back # <<>> /\ back[1] = c
      BY <2>1, <3>1, <1>5
    <3>4. /\ back \in Seq(Block) /\ Q!space(back) = c.alloc /\ c.alloc \in Nat
          /\ Q!Bytes(back) = rest
      BY <3>2, <3>3, OneBlock
    <3>5. Returned(back, h, n)
      BY <3>2, <3>4, <1>2, <1>4 DEF Returned
    <3> QED
      BY <3>3, <3>4, <3>5
  <2>2. CASE ~(rest # <<>> /\ "Qmsg" \notin state)
    <3>1. back = <<>>
      BY <2>2, <1>5
    <3>2. back \in Seq(Block) /\ Q!space(back) = 0 /\ Q!Bytes(back) = <<>>
      BY <3>1, NoBlocks
    <3>3. Q!space(back) \in Nat /\ Q!space(back) <= Q!space(h)
      BY <3>2, <1>2
    <3>4. Returned(back, h, n)
      BY <2>2, <3>2, <3>3, <1>2, <1>4 DEF Returned
    <3> QED
      BY <3>1, <3>2, <3>4
  <2> QED
    BY <2>1, <2>2
<1>11. InParts(back, r, q')
  BY <1>c, <1>6, <1>10, Parts DEF Returned
<1>12. /\ q' \in Seq(Block) /\ len' = Q!space(q') /\ dlen' = Len(Q!Bytes(q'))
  BY <1>2, <1>6, <1>9, <1>10, <1>11 DEF InParts, Counted
<1>13. Counted'
  BY <1>12 DEF Counted
<1>14. len' \in Nat /\ len' <= len
  <2>1. /\ Q!space(back) \in Nat /\ Q!space(back) <= Q!space(h)
        /\ Q!space(r) \in Nat /\ Q!space(h) \in Nat
        /\ len = Q!space(h) + Q!space(r) /\ len' = Q!space(back) + Q!space(r)
    BY <1>9, <1>10, <1>11, <1>12 DEF Returned, InParts, Counted
  <2>2. PICK x, y, z, u, v : /\ x = Q!space(h) /\ y = Q!space(r)
                             /\ z = Q!space(back) /\ u = len /\ v = len'
    OBVIOUS
  <2> QED
    BY <2>1, <2>2
<1>15. Whole = h \o r /\ Whole' = back \o r
  <2>1. <<>> \o q' = q' /\ <<>> \o q = q
    BY <1>12, ConcatEmptySeq DEF Counted
  <2> QED
    BY <2>1, <1>c, <1>6 DEF Whole
<1>16. "Qmsg" \in state => Len(h) = 1 /\ back = <<>>
  BY <1>c, <1>5
<1>17. Q!BQ!Next
  BY <1>c, <1>2, <1>3, <1>6, <1>7, <1>10, <1>15, <1>16, GiveBackStep
<1> QED
  BY <1>6, <1>13, <1>14, <1>17

LEMMA TakeOff ==
    ASSUME Counted, hand = <<>>, want \in Nat,
           "Qcoalesce" \in state => "Qmsg" \notin state,
           NEW t, Q!qread(t)
    PROVE  /\ Counted' /\ hand' \in Seq(Block) /\ len' \in Nat
           /\ Q!space(hand') \in Nat /\ len' + Q!space(hand') <= len
           /\ \/ hand' = <<>> /\ qpc' = qpc
              \/ /\ hand' # <<>> /\ Q!Goto(t, "read", "copy")
                 /\ Len(hand') = 1 \/ Len(Q!Bytes(hand')) <= want
                 /\ "Qmsg" \in state => Len(hand') = 1
           /\ Q!BQ!Next
<1>1. q \in Seq(Block) /\ q # <<>> /\ len \in Nat
  BY SpaceNat DEF Counted, Q!qread
<1>2. SameKind /\ last' = last
  BY DEF Q!qread, SameKind
<1>3. CASE "Qcoalesce" \in state /\ Head(q).data = <<>>
  <2>1. Q!qremove(1) /\ hand' = hand /\ qpc' = qpc
    BY <1>3 DEF Q!qread
  <2>2. PICK b, o : b = Head(q) /\ o = <<b>>
    OBVIOUS
  <2>3. b \in Block /\ 1 \in 0 .. Len(q) /\ SubSeq(q, 1, 1) = o
    BY <1>1, <2>2, FirstAndRest
  <2>4. /\ Counted' /\ q = o \o q' /\ len = Q!space(o) + len'
    BY <2>1, <2>3, Removing
  <2>5. /\ o \in Seq(Block) /\ Q!Bytes(o) = <<>> /\ Q!space(o) \in Nat
        /\ q' \in Seq(Block) /\ len' \in Nat
    BY <1>3, <2>2, <2>3, <2>4, OneBlock, SpaceNat DEF Counted
  <2>6. Q!Bytes(q) = Q!Bytes(q')
    <3>1. InParts(o, q', q)
      BY <2>4, <2>5, Parts
    <3> QED
      BY <3>1, <2>5, ConcatEmptySeq DEF InParts
  <2>7. hand' = <<>> /\ Q!space(hand') = 0 /\ hand' \in Seq(Block)
    BY <2>1, NoBlocks
  <2>8. Whole = q /\ Whole' = q'
    BY <1>1, <2>5, <2>7, ConcatEmptySeq DEF Whole
  <2>9. Q!BQ!Next
    <3>1. Q!Items(Whole)' = Q!Items(Whole)
      BY <1>2, <1>3, <2>6, <2>8, ItemsAre DEF SameKind
    <3> QED
      BY <1>2, <3>1, MarkStep
  <2>10. len' + Q!space(hand') <= len
    BY <2>4, <2>5, <2>7
  <2> QED
    BY <2>1, <2>4, <2>5, <2>7, <2>9, <2>10
<1>4. CASE ~("Qcoalesce" \in state /\ Head(q).data = <<>>)
  <2>1. PICK k : k = Q!fitting
    OBVIOUS
  <2>2. k \in 1 .. Len(q) /\ (k = 1 \/ Len(Q!Bytes(SubSeq(q, 1, k))) <= want)
        /\ ("Qcoalesce" \notin state => k = 1)
    BY <1>1, <2>1, FittingIs
  <2>3. /\ Q!Goto(t, "read", "copy") /\ Q!qremove(k) /\ hand' = SubSeq(q, 1, k)
    BY <1>4, <2>1 DEF Q!qread
  <2>4. k \in 0 .. Len(q)
    BY <2>2
  <2>5. /\ Counted' /\ hand' \in Seq(Block) /\ q = hand' \o q'
        /\ len = Q!space(hand') + len'
    BY <2>3, <2>4, Removing
  <2>6. Len(hand') = k
    BY <1>1, <2>3, <2>4, Split
  <2>7. hand' # <<>>
    BY <2>2, <2>5, <2>6, EmptySeq
  <2>8. Q!space(hand') \in Nat /\ len' \in Nat
    BY <2>5, SpaceNat DEF Counted
  <2>9. Whole' = Whole
    BY <1>1, <2>5, ConcatEmptySeq DEF Whole
  <2>10. Q!BQ!Next
    <3>1. Q!Items(Whole)' = Q!Items(Whole)
      BY <1>2, <2>9, ItemsAre DEF SameKind
    <3> QED
      BY <1>2, <3>1, MarkStep
  <2>11. len' + Q!space(hand') <= len
    BY <2>5, <2>8
  <2>12. /\ Len(hand') = 1 \/ Len(Q!Bytes(hand')) <= want
         /\ "Qmsg" \in state => Len(hand') = 1
    BY <2>2, <2>3, <2>6
  <2> QED
    BY <2>3, <2>5, <2>7, <2>8, <2>10, <2>11, <2>12
<1> QED
  BY <1>3, <1>4

-----------------------------------------------------------------------------
\* A sequence around one of its elements.
Around(S, s, i) ==
    /\ SubSeq(s, 1, i - 1) \in Seq(S) /\ Len(SubSeq(s, 1, i - 1)) = i - 1
    /\ \A j \in 1 .. i - 1 : SubSeq(s, 1, i - 1)[j] = s[j]
    /\ s[i] \in S
    /\ SubSeq(s, i + 1, Len(s)) \in Seq(S)
    /\ \A j \in 1 .. Len(SubSeq(s, i + 1, Len(s))) :
         \E k \in 1 .. Len(s) : SubSeq(s, i + 1, Len(s))[j] = s[k]
    /\ s = SubSeq(s, 1, i - 1) \o (<<s[i]>> \o SubSeq(s, i + 1, Len(s)))
    /\ SubSeq(s, 1, i) = SubSeq(s, 1, i - 1) \o <<s[i]>>
    /\ s = SubSeq(s, 1, i) \o SubSeq(s, i + 1, Len(s))

LEMMA AroundPlace ==
    ASSUME NEW S, NEW s \in Seq(S), NEW i \in 1 .. Len(s)
    PROVE  Around(S, s, i)
<1>0. PICK n \in Nat : n = Len(s)
  BY LenProperties
<1>1. PICK h \in Nat : h = i - 1
  BY <1>0
<1>2. i \in 1 .. n /\ i \in 0 .. n /\ h \in 0 .. n /\ h + 1 = i /\ i - 1 = h
  BY <1>0, <1>1
<1>3. PICK a, o, r, f : /\ a = SubSeq(s, 1, h) /\ o = <<s[i]>>
                        /\ r = SubSeq(s, i + 1, n) /\ f = SubSeq(s, 1, i)
  OBVIOUS
<1>4. /\ a \in Seq(S) /\ Len(a) = h /\ \A j \in 1 .. h : a[j] = s[j]
  BY <1>0, <1>2, <1>3, Split
<1>5. /\ r \in Seq(S) /\ Len(r) = n - i
      /\ \A j \in 1 .. n - i : r[j] = s[i + j]
      /\ f \in Seq(S) /\ Len(f) = i /\ \A j \in 1 .. i : f[j] = s[j]
      /\ s = f \o r
  BY <1>0, <1>2, <1>3, Split
<1>6. s[i] \in S
  BY ElementOfSeq
<1>7. o \in Seq(S) /\ Len(o) = 1 /\ o[1] = s[i]
  BY <1>3, <1>6
<1>8. f = a \o o
  <2>1. Len(f) = Len(a) + Len(o)
    BY <1>2, <1>4, <1>5, <1>7
  <2>2. ASSUME NEW j \in 1 .. Len(a) PROVE f[j] = a[j]
    <3>1. j \in 1 .. h /\ j \in 1 .. i
      BY <1>2, <1>4
    <3> QED
      BY <3>1, <1>4, <1>5
  <2>3. ASSUME NEW j \in 1 .. Len(o) PROVE f[Len(a) + j] = o[j]
    <3>1. j = 1 /\ Len(a) + j = i /\ i \in 1 .. i
      BY <1>2, <1>4, <1>7
    <3> QED
      BY <3>1, <1>5, <1>7
  <2>4. Joins(S, a, o, f)
    BY <2>1, <2>2, <2>3, <1>4, <1>5, <1>7 DEF Joins
  <2> QED
    BY <2>4, Joint
<1>9. s = a \o (o \o r)
  <2>1. Associative(S)
    BY Assoc
  <2>2. a \o (o \o r) = (a \o o) \o r
    BY <2>1, <1>4, <1>5, <1>7 DEF Associative
  <2> QED
    BY <2>2, <1>5, <1>8
<1>10. ASSUME NEW j \in 1 .. Len(r) PROVE \E k \in 1 .. n : r[j] = s[k]
  <2>1. PICK k : k = i + j
    OBVIOUS
  <2>2. j \in 1 .. n - i /\ k \in 1 .. n
    BY <2>1, <1>2, <1>5
  <2> QED
    BY <2>1, <2>2, <1>5
<1> QED
  BY <1>0, <1>2, <1>3, <1>4, <1>5, <1>6, <1>8, <1>9, <1>10 DEF Around

\* The queue has lost the bytes that the device took.
LEMMA TakenStep ==
    ASSUME SameKind, "Qmsg" \notin state, hand = <<>>, hand' = <<>>,
           q \in Seq(Block), q' \in Seq(Block), Taken(q, q'), last' = <<>>
    PROVE  Q!BQ!Next
<1>1. Whole = q /\ Whole' = q'
  BY ConcatEmptySeq DEF Whole
<1>2. PICK n \in 0 .. Len(Q!Bytes(q)) :
        Q!Bytes(q') = SubSeq(Q!Bytes(q), n + 1, Len(Q!Bytes(q)))
  BY DEF Taken
<1> QED
  BY <1>1, <1>2, GetStep

LEMMA GetBlock ==
    ASSUME Counted, hand = <<>>, hand' = hand, last = <<>>, last' = last,
           "Qmsg" \in state, Q!qget
    PROVE  /\ Counted' /\ len' \in Nat /\ len' <= len
           /\ Q!BQ!Next
<1>1. SameKind
  BY DEF Q!qget, Q!restart, SameKind
<1>2. CASE q = <<>>
  <2>1. q' = q /\ len' = len /\ dlen' = dlen
    BY <1>2 DEF Q!qget, Q!qvars
  <2>2. Counted' /\ len' \in Nat /\ len' <= len
    BY <2>1, SpaceNat DEF Counted
  <2>3. Whole' = Whole
    BY <2>1 DEF Whole
  <2>4. Q!Items(Whole)' = Q!Items(Whole)
    BY <2>3, <1>1, ItemsAre DEF SameKind
  <2> QED
    BY <2>2, <2>4, <1>1, MarkStep
<1>3. CASE q # <<>>
  <2>1. Q!qremove(1)
    BY <1>3 DEF Q!qget
  <2>2. PICK b : b = Head(q)
    OBVIOUS
  <2>3. b \in Block /\ 1 \in 0 .. Len(q) /\ SubSeq(q, 1, 1) = <<b>>
    <3>1. q \in Seq(Block)
      BY DEF Counted
    <3>2. /\ Head(q) \in Block /\ SubSeq(q, 1, 1) = <<Head(q)>>
          /\ 1 \in 1 .. Len(q)
      BY <1>3, <3>1, FirstAndRest
    <3> QED
      BY <2>2, <3>2
  <2>4. /\ Counted' /\ q = <<b>> \o q' /\ len = Q!space(<<b>>) + len'
    BY <2>1, <2>3, Removing
  <2>5. /\ Q!space(<<b>>) \in Nat /\ q' \in Seq(Block) /\ len' \in Nat
        /\ len \in Nat /\ 0 \in 0 .. Len(b.data)
    BY <2>3, <2>4, OneBlock, SpaceNat DEF Counted
  <2>6. len' <= len
    BY <2>4, <2>5
  <2>7. Whole = <<b>> \o q' /\ Whole' = q'
    BY <2>4, <2>5, ConcatEmptySeq DEF Whole, Counted
  <2>8. SubSeq(b.data, 1, 0) = <<>>
    <3>1. b.data \in Seq(Nat)
      BY <2>3, OneBlock
    <3>2. SubSeq(b.data, 1, 0) \in Seq(Nat) /\ Len(SubSeq(b.data, 1, 0)) = 0
      BY <3>1, <2>5, Split
    <3> QED
      BY <3>2, EmptySeq
  <2> QED
    BY <2>3, <2>4, <2>5, <2>6, <2>7, <2>8, <1>1, MessageStep
<1> QED
  BY <1>2, <1>3

\* Every block has something in it.
NoneEmpty == \A i \in 1 .. Len(q) : q[i].data # <<>>

LEMMA ConsumeBytes ==
    ASSUME Q!QioAssumption, Counted, hand = <<>>, hand' = hand, last = <<>>,
           last' = last, "Qmsg" \notin state, NEW n \in Nat, Q!qconsume(n)
    PROVE  /\ Counted' /\ len' \in Nat /\ len' <= len
           /\ NoneEmpty => NoneEmpty'
           /\ \/ /\ q' = <<>> /\ state' = state \cup {"Qstarve"}
                 /\ going' = FALSE /\ due' = due
                 /\ NoneEmpty => q = <<>>
              \/ Q!restart(intr, len', limit \div 2) /\ going' = going
           /\ Q!BQ!Next
<1>a. Hdr \in Nat /\ q \in Seq(Block) /\ len \in Nat /\ dlen \in Nat
  BY SpaceNat, BytesSeq DEF Counted, Q!QioAssumption
<1>b. PICK L \in Nat : L = Len(q) /\ DOMAIN q = 1 .. L
  BY <1>a, LenProperties
<1>c. SameKind
  <2>1. \/ Q!restart(intr, len', limit \div 2)
        \/ state' = state \cup {"Qstarve"}
    BY Zenon DEF Q!qconsume
  <2> QED
    BY <2>1 DEF Q!restart, SameKind
<1>1. PICK full : full = {j \in 1 .. L : q[j].data # <<>>}
  OBVIOUS
<1>2. CASE full = {}
  <2>1. /\ q' = <<>> /\ len' = 0 /\ state' = state \cup {"Qstarve"}
        /\ going' = FALSE /\ dlen' = dlen /\ due' = due
    BY <1>b, <1>1, <1>2 DEF Q!qconsume
  <2>2. Q!Bytes(q) = <<>>
    <3>1. \A i \in 1 .. Len(q) : q[i].data = <<>>
      BY <1>b, <1>1, <1>2
    <3> QED
      BY <3>1, <1>a, EmptyBlocks
  <2>3. Counted'
    BY <2>1, <2>2, NoBlocks DEF Counted
  <2>4. Whole = q /\ Whole' = <<>>
    BY <2>1, <1>a, ConcatEmptySeq DEF Whole
  <2>5. Q!Items(Whole)' = Q!Items(Whole)
    BY <2>2, <2>4, <1>c, ItemsAre, NoBlocks DEF SameKind
  <2>6. Q!BQ!Next
    BY <2>5, <1>c, MarkStep
  <2>7. NoneEmpty'
    BY <2>1 DEF NoneEmpty
  <2>8. NoneEmpty => q = <<>>
    <3>1. NoneEmpty => L = 0
      BY <1>b, <1>1, <1>2 DEF NoneEmpty
    <3> QED
      BY <3>1, <1>a, <1>b, EmptySeq
  <2> QED
    BY <2>1, <2>3, <2>6, <2>7, <2>8, <1>a
<1>3. CASE full # {}
  <2>1. PICK i \in full : i = CHOOSE j \in full : \A k \in full : j <= k
    <3>1. full \in SUBSET Nat
      BY <1>1
    <3>2. \E j \in full : \A k \in full : j <= k
      BY <3>1, <1>3, Least
    <3> QED
      BY <3>2
  <2>2. \A k \in full : i <= k
    <3>1. full \in SUBSET Nat
      BY <1>1
    <3>2. \E j \in full : \A k \in full : j <= k
      BY <3>1, <1>3, Least
    <3> QED
      BY <2>1, <3>2
  <2>3. i \in 1 .. Len(q) /\ q[i].data # <<>>
    BY <2>1, <1>1, <1>b
  <2>4. PICK b, a, r, f :
          /\ b = q[i] /\ a = SubSeq(q, 1, i - 1) /\ f = SubSeq(q, 1, i)
          /\ r = SubSeq(q, i + 1, Len(q))
    OBVIOUS
  <2>5. /\ a \in Seq(Block) /\ Len(a) = i - 1
        /\ \A j \in 1 .. i - 1 : a[j] = q[j]
        /\ b \in Block /\ r \in Seq(Block)
        /\ \A j \in 1 .. Len(r) : \E k \in 1 .. Len(q) : r[j] = q[k]
        /\ q = a \o (<<b>> \o r) /\ f = a \o <<b>> /\ q = f \o r
    <3>1. Around(Block, q, i)
      BY <2>3, <1>a, AroundPlace
    <3> QED
      BY <2>4, <3>1 DEF Around
  <2>6. Q!Bytes(a) = <<>>
    <3>1. ASSUME NEW j \in 1 .. Len(a) PROVE a[j].data = <<>>
      <4>1. j \in 1 .. i - 1 /\ j \in 1 .. L /\ ~(i <= j)
        BY <2>3, <2>5, <1>b
      <4> QED
        BY <4>1, <2>2, <2>5, <1>1
    <3> QED
      BY <3>1, <2>5, EmptyBlocks
  <2>7. b.data \in Seq(Nat) /\ Len(b.data) \in Nat /\ b.alloc \in Nat
    BY <2>5, OneBlock
  <2>8. PICK m \in 0 .. Len(b.data) :
          m = IF n < Len(b.data) THEN n ELSE Len(b.data)
    BY <2>7
  <2>9. PICK c : c = Shorter(b, m)
    OBVIOUS
  <2>10. /\ Q!restart(intr, len', limit \div 2) /\ going' = going
         /\ q' = (IF m = Len(b.data) THEN <<>> ELSE <<c>>) \o r
         /\ len' = len - Q!space(IF m = Len(b.data) THEN f ELSE a)
         /\ dlen' = dlen - m
    BY <1>b, <1>1, <1>3, <2>1, <2>4, <2>8, <2>9 DEF Q!qconsume, Shorter
  <2>11. CASE m = Len(b.data)
    <3>1. q' = r /\ len' = len - Q!space(f) /\ dlen' = dlen - m
      BY <2>5, <2>10, <2>11, ConcatEmptySeq
    <3>2. /\ <<b>> \in Seq(Block) /\ Q!Bytes(<<b>>) = b.data
      BY <2>5, OneBlock
    <3>3. InParts(a, <<b>>, f)
      BY <3>2, <2>5, Parts
    <3>4. f \in Seq(Block) /\ Len(Q!Bytes(f)) = m /\ Q!space(f) \in Nat
      <4>1. Len(Q!Bytes(a)) = 0
        BY <2>6, NoBlocks
      <4>2. f \in Seq(Block) /\ Len(Q!Bytes(f)) = m
        BY <4>1, <3>2, <3>3, <2>7, <2>11 DEF InParts
      <4> QED
        BY <4>2, SpaceNat
    <3>5. InParts(f, r, q)
      BY <3>4, <2>5, Parts
    <3>6. /\ len' = Q!space(r) /\ dlen' = Len(Q!Bytes(r))
          /\ len' \in Nat /\ len' <= len
      BY <3>1, <3>4, <3>5 DEF InParts, Counted
    <3>7. Counted'
      BY <3>1, <3>6, <2>5 DEF Counted
    <3>8. Taken(q, r)
      BY <3>4, <2>5, TakeBlocks
    <3>9. Q!BQ!Next
      BY <3>1, <3>8, <1>a, <1>c, <2>5, TakenStep
    <3>10. NoneEmpty => NoneEmpty'
      BY <3>1, <2>5 DEF NoneEmpty
    <3> QED
      BY <3>6, <3>7, <3>9, <3>10, <2>10
  <2>12. CASE m # Len(b.data)
    <3>1. PICK t : t = <<c>> \o r
      OBVIOUS
    <3>2. q' = t /\ len' = len - Q!space(a) /\ dlen' = dlen - m
      BY <3>1, <2>10, <2>12
    <3>3. Cut(a, b, r, m, q, c, t)
      BY <3>1, <1>a, <2>5, <2>8, <2>9 DEF Cut
    <3>4. /\ c \in Block /\ t \in Seq(Block) /\ Taken(q, t)
          /\ Q!space(t) = Q!space(q) - Q!space(a)
          /\ Len(Q!Bytes(t)) = (Len(Q!Bytes(q)) - Len(Q!Bytes(a))) - m
          /\ m < Len(b.data) => c.data # <<>>
      BY <3>3, TakeBytes
    <3>5. len' = Q!space(t) /\ dlen' = Len(Q!Bytes(t))
      <4>1. Len(Q!Bytes(a)) = 0
        BY <2>6, NoBlocks
      <4> QED
        BY <4>1, <3>2, <3>4, <1>a DEF Counted
    <3>6. Counted'
      BY <3>2, <3>4, <3>5 DEF Counted
    <3>7. len' \in Nat /\ len' <= len
      BY <3>4, <3>5, SpaceNat DEF Taken, Counted
    <3>8. Q!BQ!Next
      BY <3>2, <3>4, <1>a, <1>c, TakenStep
    <3>9. NoneEmpty => NoneEmpty'
      <4>1. c.data # <<>>
        BY <3>4, <2>7, <2>8, <2>12
      <4>2. <<c>> \in Seq(Block) /\ Len(<<c>>) = 1 /\ <<c>>[1] = c
        BY <3>4, OneBlock
      <4>3. Joins(Block, <<c>>, r, t)
        BY <4>2, <3>1, <2>5, Concat
      <4>4. PICK l \in Nat : l = Len(r)
        BY <2>5, LenProperties
      <4>5. /\ Len(t) = 1 + l /\ t[1] = c /\ \A j \in 1 .. l : t[1 + j] = r[j]
        BY <4>2, <4>3, <4>4 DEF Joins
      <4>6. ASSUME NoneEmpty, NEW j \in 1 .. Len(t) PROVE t[j].data # <<>>
        <5>1. CASE j = 1
          BY <5>1, <4>1, <4>5
        <5>2. CASE j # 1
          <6>1. PICK k \in 1 .. l : 1 + k = j
            <7>1. j - 1 \in 1 .. l /\ 1 + (j - 1) = j
              BY <5>2, <4>5
            <7> QED
              BY <7>1
          <6>2. PICK x \in 1 .. Len(q) : r[k] = q[x]
            BY <4>4, <2>5
          <6> QED
            BY <6>1, <6>2, <4>5, <4>6 DEF NoneEmpty
        <5> QED
          BY <5>1, <5>2
      <4> QED
        BY <4>6, <3>2 DEF NoneEmpty
    <3> QED
      BY <3>6, <3>7, <3>8, <3>9, <2>10
  <2> QED
    BY <2>11, <2>12
<1> QED
  BY <1>2, <1>3

LEMMA DiscardBytes ==
    ASSUME Q!QioAssumption, Counted, hand = <<>>, hand' = hand, last = <<>>,
           last' = last, "Qmsg" \notin state, NEW n \in Nat, Q!qdiscard(n)
    PROVE  /\ Counted' /\ len' \in Nat /\ len' <= len
           /\ Q!restart(intr, len', limit) /\ going' = going
           /\ Q!BQ!Next
<1>a. Hdr \in Nat /\ q \in Seq(Block) /\ len \in Nat /\ dlen \in Nat
  BY SpaceNat, BytesSeq DEF Counted, Q!QioAssumption
<1>b. PICK L \in Nat : L = Len(q)
  BY <1>a, LenProperties
<1>c. Q!restart(intr, len', limit) /\ going' = going
  BY Zenon DEF Q!qdiscard
<1>d. SameKind
  BY <1>c DEF Q!restart, SameKind
<1>1. PICK size : size = [k \in 0 .. L |-> Len(Q!Bytes(SubSeq(q, 1, k)))]
  OBVIOUS
<1>2. ASSUME NEW k \in 0 .. L
      PROVE  /\ size[k] = Len(Q!Bytes(SubSeq(q, 1, k))) /\ size[k] \in Nat
             /\ SubSeq(q, 1, k) \in Seq(Block)
             /\ SubSeq(q, k + 1, L) \in Seq(Block)
             /\ Len(SubSeq(q, k + 1, L)) = L - k
             /\ q = SubSeq(q, 1, k) \o SubSeq(q, k + 1, L)
  <2>1. /\ SubSeq(q, 1, k) \in Seq(Block)
        /\ SubSeq(q, k + 1, L) \in Seq(Block)
        /\ Len(SubSeq(q, k + 1, L)) = L - k
        /\ q = SubSeq(q, 1, k) \o SubSeq(q, k + 1, L)
    BY <1>a, <1>b, Split
  <2>2. Len(Q!Bytes(SubSeq(q, 1, k))) \in Nat
    BY <2>1, BytesSeq
  <2> QED
    BY <2>1, <2>2, <1>1
<1> DEFINE Cuts(j) == /\ j = 0 \/ (size[j - 1] < n /\ size[j] <= n)
                      /\ j = L \/ size[j] >= n \/ size[j + 1] > n
<1>3. \E j \in 0 .. L : Cuts(j)
  <2>1. PICK T : T = {j \in 0 .. L : j = L \/ size[j] >= n \/ size[j + 1] > n}
    OBVIOUS
  <2>2. T \in SUBSET (0 .. L) /\ L \in T
    BY <2>1
  <2>3. PICK j \in T : \A i \in T : j <= i
    BY <2>2, FirstStop
  <2>4. j \in 0 .. L /\ (j = L \/ size[j] >= n \/ size[j + 1] > n)
    BY <2>1, <2>3
  <2>5. j = 0 \/ (size[j - 1] < n /\ size[j] <= n)
    <3> SUFFICES ASSUME j # 0 PROVE size[j - 1] < n /\ size[j] <= n
      OBVIOUS
    <3>1. PICK i \in 0 .. L : i = j - 1 /\ i + 1 = j /\ i # L /\ ~(j <= i)
      <4>1. j - 1 \in 0 .. L /\ (j - 1) + 1 = j /\ j - 1 # L /\ ~(j <= j - 1)
        BY <2>4
      <4> QED
        BY <4>1
    <3>2. i \notin T
      BY <3>1, <2>3
    <3>3. ~(size[i] >= n) /\ ~(size[j] > n)
      BY <3>1, <3>2, <2>1
    <3>4. size[i] \in Nat /\ size[j] \in Nat
      BY <3>1, <2>4, <1>2
    <3> QED
      BY <3>1, <3>3, <3>4
  <2> QED
    BY <2>4, <2>5
<1>4. PICK k : k = CHOOSE j \in 0 .. L : Cuts(j)
  OBVIOUS
<1>5. k \in 0 .. L /\ Cuts(k)
  <2> HIDE DEF Cuts
  <2> QED
    BY <1>3, <1>4
<1>6. k = CHOOSE j \in 0 .. Len(q) :
        /\ \/ j = 0
           \/ /\ Len(Q!Bytes(SubSeq(q, 1, j - 1))) < n
              /\ Len(Q!Bytes(SubSeq(q, 1, j))) <= n
        /\ \/ j = Len(q) \/ Len(Q!Bytes(SubSeq(q, 1, j))) >= n
           \/ Len(Q!Bytes(SubSeq(q, 1, j + 1))) > n
  <2>1. ASSUME NEW j \in 0 .. L
        PROVE  /\ size[j] = Len(Q!Bytes(SubSeq(q, 1, j)))
               /\ j # 0 => size[j - 1] = Len(Q!Bytes(SubSeq(q, 1, j - 1)))
               /\ j # L => size[j + 1] = Len(Q!Bytes(SubSeq(q, 1, j + 1)))
    <3>1. (j # 0 => j - 1 \in 0 .. L) /\ (j # L => j + 1 \in 0 .. L)
      OBVIOUS
    <3> QED
      BY <3>1, <1>1
  <2>2. ASSUME NEW j \in 0 .. L
        PROVE  Cuts(j) <=>
                 /\ \/ j = 0
                    \/ /\ Len(Q!Bytes(SubSeq(q, 1, j - 1))) < n
                       /\ Len(Q!Bytes(SubSeq(q, 1, j))) <= n
                 /\ \/ j = L \/ Len(Q!Bytes(SubSeq(q, 1, j))) >= n
                    \/ Len(Q!Bytes(SubSeq(q, 1, j + 1))) > n
    BY <2>1
  <2> HIDE DEF Cuts
  <2> QED
    BY <2>2, <1>4, <1>b
<1>7. PICK cut : cut = IF k < L /\ size[k] < n THEN n - size[k] ELSE 0
  OBVIOUS
<1>8. PICK a, rest : a = SubSeq(q, 1, k) /\ rest = SubSeq(q, k + 1, L)
  OBVIOUS
<1>9. /\ a \in Seq(Block) /\ rest \in Seq(Block) /\ Len(rest) = L - k
      /\ q = a \o rest /\ size[k] = Len(Q!Bytes(a)) /\ size[k] \in Nat
  BY <1>5, <1>8, <1>2
<1>10. /\ q' = IF cut = 0 THEN rest
               ELSE [rest EXCEPT ![1].data = SubSeq(@, cut + 1, Len(@))]
       /\ len' = len - Q!space(a)
       /\ dlen' = dlen - size[k] - cut
  <2> DEFINE Size(j) == Len(Q!Bytes(SubSeq(q, 1, j)))
             K == CHOOSE j \in 0 .. Len(q) :
                    /\ j = 0 \/ (Size(j - 1) < n /\ Size(j) <= n)
                    /\ j = Len(q) \/ Size(j) >= n \/ Size(j + 1) > n
             C == IF K < Len(q) /\ Size(K) < n THEN n - Size(K) ELSE 0
             R == SubSeq(q, K + 1, Len(q))
  <2>1. /\ q' = IF C = 0 THEN R
                ELSE [R EXCEPT ![1].data = SubSeq(@, C + 1, Len(@))]
        /\ len' = len - Q!space(SubSeq(q, 1, K))
        /\ dlen' = dlen - Size(K) - C
    BY Zenon DEF Q!qdiscard
  <2>2. K = k
    BY Zenon, <1>6
  <2>3. Size(k) = size[k]
    BY <1>8, <1>9
  <2> HIDE DEF K, Size
  <2>4. C = cut /\ R = rest
    BY <2>2, <2>3, <1>b, <1>7, <1>8
  <2> HIDE DEF C, R
  <2> QED
    BY Zenon, <2>1, <2>2, <2>3, <2>4, <1>8
<1>11. CASE cut = 0
  <2>1. InParts(a, rest, q)
    BY <1>9, Parts
  <2>2. q' = rest /\ len' = Q!space(rest) /\ dlen' = Len(Q!Bytes(rest))
        /\ len' <= len /\ len' \in Nat
    <3>1. q' = rest /\ len' = len - Q!space(a) /\ dlen' = dlen - size[k] - 0
      BY <1>10, <1>11
    <3>2. /\ Q!space(a) \in Nat /\ Q!space(rest) \in Nat
          /\ len = Q!space(a) + Q!space(rest)
          /\ dlen = size[k] + Len(Q!Bytes(rest)) /\ Len(Q!Bytes(rest)) \in Nat
      BY <2>1, <1>9 DEF InParts, Counted
    <3>3. len' = Q!space(rest)
      BY <3>1, <3>2
    <3>4. dlen' = Len(Q!Bytes(rest))
      BY <3>1, <3>2, <1>9
    <3>5. len' <= len /\ len' \in Nat
      BY <3>2, <3>3
    <3> QED
      BY <3>1, <3>3, <3>4, <3>5
  <2>3. Counted'
    BY <2>2, <1>9 DEF Counted
  <2>4. Taken(q, rest)
    BY <1>9, TakeBlocks
  <2>5. Q!BQ!Next
    BY <2>2, <2>4, <1>a, <1>d, <1>9, TakenStep
  <2> QED
    BY <2>2, <2>3, <2>5, <1>c
<1>12. CASE cut # 0
  <2>1. k < L /\ size[k] < n /\ cut = n - size[k]
    BY <1>7, <1>12
  <2>2. PICK b, r, c : b = Head(rest) /\ r = Tail(rest) /\ c = Shorter(b, cut)
    OBVIOUS
  <2>3. rest # <<>>
    BY <2>1, <1>5, <1>9, EmptySeq
  <2>4. /\ b \in Block /\ b = rest[1] /\ r \in Seq(Block) /\ rest = <<b>> \o r
        /\ Len(rest) = 1 + Len(r) /\ Len(r) \in Nat
    <3>1. /\ b \in Block /\ b = rest[1] /\ r \in Seq(Block) /\ rest = <<b>> \o r
          /\ Len(r) = Len(rest) - 1 /\ Len(rest) \in Nat
      BY <2>2, <2>3, <1>9, FirstAndRest
    <3> QED
      BY <3>1, LenProperties
  <2>5. cut \in 0 .. Len(b.data)
    <3>1. PICK i : i = k + 1
      OBVIOUS
    <3>2. i \in 1 .. L /\ i \in 0 .. L /\ i - 1 = k
      BY <3>1, <2>1, <1>5
    <3>3. size[i] > n
      BY <3>1, <2>1, <1>5, <1>9
    <3>4. Around(Block, q, i)
      BY <3>2, <1>a, <1>b, AroundPlace
    <3>5. SubSeq(q, 1, i) = a \o <<q[i]>> /\ q[i] \in Block
      BY <3>2, <3>4, <1>8 DEF Around
    <3>6. q[i] = b
      <4>1. 1 \in 1 .. Len(q) - k
        BY <2>1, <1>b, <1>5
      <4>2. rest[1] = q[k + 1]
        BY <4>1, <1>a, <1>b, <1>5, <1>8, Split
      <4> QED
        BY <4>2, <3>1, <2>4
    <3>7. <<b>> \in Seq(Block) /\ Q!Bytes(<<b>>) = b.data /\ Len(b.data) \in Nat
      BY <2>4, OneBlock
    <3>8. InParts(a, <<b>>, SubSeq(q, 1, i))
      BY <3>5, <3>6, <3>7, <1>9, Parts
    <3>9. size[i] = size[k] + Len(b.data)
      BY <3>2, <3>7, <3>8, <1>2, <1>9 DEF InParts
    <3> QED
      BY <3>3, <3>7, <3>9, <2>1, <1>9
  <2>6. PICK t : t = <<c>> \o r
    OBVIOUS
  <2>7. Cut(a, b, r, cut, q, c, t)
    BY <2>2, <2>4, <2>5, <2>6, <1>a, <1>9 DEF Cut
  <2>8. /\ c \in Block /\ t \in Seq(Block) /\ Taken(q, t)
        /\ Q!space(t) = Q!space(q) - Q!space(a)
        /\ Len(Q!Bytes(t)) = (Len(Q!Bytes(q)) - Len(Q!Bytes(a))) - cut
    BY <2>7, TakeBytes
  <2>9. q' = t
    <3>1. PICK p : p = [rest EXCEPT ![1] = c]
      OBVIOUS
    <3>2. q' = p
      <4>1. 1 \in DOMAIN rest
        BY <2>4, <1>9, LenProperties
      <4>2. [rest EXCEPT ![1].data = SubSeq(@, cut + 1, Len(@))] = p
        BY <4>1, <3>1, <2>2, <2>4 DEF Shorter
      <4> QED
        BY <4>2, <1>10, <1>12
    <3>3. p \in Seq(Block) /\ Len(p) = Len(rest) /\ p[1] = c
          /\ \A j \in 1 .. Len(rest) : j # 1 => p[j] = rest[j]
      <4>1. 1 \in 1 .. Len(rest)
        BY <2>4
      <4> QED
        BY <4>1, <3>1, <2>8, <1>9, ExceptSeq
    <3>4. <<c>> \in Seq(Block) /\ Len(<<c>>) = 1 /\ <<c>>[1] = c
      BY <2>8, OneBlock
    <3>5. <<b>> \in Seq(Block) /\ Len(<<b>>) = 1
      BY <2>4, OneBlock
    <3>6. Joins(Block, <<b>>, r, rest)
      BY <3>5, <2>4, Concat
    <3>7. Joins(Block, <<c>>, r, p)
      <4>1. \A j \in 1 .. Len(r) : p[1 + j] = r[j]
        <5>1. ASSUME NEW j \in 1 .. Len(r) PROVE p[1 + j] = r[j]
          <6>1. 1 + j \in 1 .. Len(rest) /\ 1 + j # 1
            BY <2>4
          <6>2. rest[1 + j] = r[j]
            BY <3>5, <3>6 DEF Joins
          <6> QED
            BY <6>1, <6>2, <3>3
        <5> QED
          BY <5>1
      <4>2. \A j \in 1 .. 1 : j = 1
        OBVIOUS
      <4> QED
        BY <4>1, <4>2, <3>3, <3>4, <2>4 DEF Joins
    <3>8. p = <<c>> \o r
      BY <3>7, Joint
    <3> QED
      BY <3>2, <3>8, <2>6
  <2>10. len' = Q!space(t) /\ dlen' = Len(Q!Bytes(t))
    BY <2>8, <1>9, <1>10, <1>12 DEF Counted
  <2>11. Counted'
    BY <2>8, <2>9, <2>10 DEF Counted
  <2>12. len' \in Nat /\ len' <= len
    BY <2>8, <2>10, SpaceNat DEF Taken, Counted
  <2>13. Q!BQ!Next
    BY <2>8, <2>9, <1>a, <1>d, TakenStep
  <2> QED
    BY <2>11, <2>12, <2>13, <1>c
<1> QED
  BY <1>11, <1>12

-----------------------------------------------------------------------------
\* The invariant of the queue.  What queues are for:
Kinds ==
    /\ use \in {"pipe", "input", "output", "print"}
    /\ state \subseteq {"Qstarve", "Qmsg", "Qclosed", "Qflow", "Qcoalesce",
                        "Qkick"}
    /\ "Qcoalesce" \in state => use = "input" /\ "Qmsg" \notin state
    /\ "Qkick" \in state => use = "output" /\ "Qmsg" \notin state

\* the types of the rest of the state;
ReaderPlaces == {"out", "read", "rsleep", "rasleep", "copy", "rdone"}
WriterPlaces == {"out", "write", "full", "wsleep", "wasleep"}
Calls == {<<>>, <<"rr">>, <<"wr">>, <<"kick">>, <<"rr", "wr">>}

Shape ==
    /\ want \in Nat /\ next \in Nat /\ limit \in Limits
    /\ noblock \in BOOLEAN /\ going \in BOOLEAN
    /\ due \in [Q!Thread -> Calls]

Places ==
    /\ qpc = [t \in Reader \cup Writer |-> qpc[t]]
    /\ \A t \in Reader : qpc[t] \in ReaderPlaces
    /\ \A t \in Writer : qpc[t] \in WriterPlaces
    /\ \A t \in Reader : qpc[t] # "out" <=> rlock = t
    /\ \A t \in Writer : qpc[t] # "out" <=> wlock = t
    /\ use \notin {"pipe", "input"} => \A t \in Reader : qpc[t] = "out"
    /\ use = "input" => \A t \in Writer : qpc[t] = "out"

\* who still has to call somebody;
Owing ==
    /\ \A t \in Reader : due[t] # <<>> => qpc[t] = "rdone"
    /\ \A t \in Writer : due[t] # <<>> => qpc[t] = "full"

\* and what the reader holds.
Held ==
    /\ hand \in Seq(Block)
    /\ hand # <<>> <=> \E t \in Reader : qpc[t] = "copy"
    /\ hand # <<>> => Len(hand) = 1 \/ Len(Q!Bytes(hand)) <= want
    /\ hand # <<>> /\ "Qmsg" \in state => Len(hand) = 1
    /\ use \notin {"pipe", "input"} => last = <<>>

QInv == Counted /\ Kinds /\ Shape /\ Places /\ Owing /\ Held

\* The steps of a reader and of a writer.
RMoved(t, a, b) ==
    /\ qpc[t] = a /\ qpc'[t] = b
    /\ qpc' = [u \in Reader \cup Writer |-> qpc'[u]]
    /\ \A u \in Reader : qpc'[u] \in ReaderPlaces /\ (u # t => qpc'[u] = qpc[u])
    /\ \A u \in Writer : qpc'[u] = qpc[u] /\ u # t
    /\ a # "out" => rlock = t /\ \A u \in Reader : u # t => qpc[u] = "out"

WMoved(t, a, b) ==
    /\ qpc[t] = a /\ qpc'[t] = b
    /\ qpc' = [u \in Reader \cup Writer |-> qpc'[u]]
    /\ \A u \in Writer : qpc'[u] \in WriterPlaces /\ (u # t => qpc'[u] = qpc[u])
    /\ \A u \in Reader : qpc'[u] = qpc[u] /\ u # t
    /\ a # "out" => wlock = t /\ \A u \in Writer : u # t => qpc[u] = "out"

LEMMA ReaderMoves ==
    ASSUME Q!QioAssumption, Places, NEW t \in Reader, NEW a,
           NEW b \in ReaderPlaces, Q!Goto(t, a, b)
    PROVE  RMoved(t, a, b)
<1>1. Reader \cap Writer = {}
  BY DEF Q!QioAssumption
<1>2. qpc[t] = a /\ qpc' = [qpc EXCEPT ![t] = b]
  BY DEF Q!Goto
<1>3. DOMAIN qpc = Reader \cup Writer
  BY DEF Places
<1>4. /\ qpc'[t] = b /\ \A u \in Reader \cup Writer : u # t => qpc'[u] = qpc[u]
      /\ qpc' = [u \in Reader \cup Writer |-> qpc'[u]]
  BY <1>2, <1>3
<1>5. a # "out" => rlock = t /\ \A u \in Reader : u # t => qpc[u] = "out"
  BY <1>2 DEF Places
<1> QED
  BY <1>1, <1>2, <1>4, <1>5 DEF RMoved, Places

LEMMA WriterMoves ==
    ASSUME Q!QioAssumption, Places, NEW t \in Writer, NEW a,
           NEW b \in WriterPlaces, Q!Goto(t, a, b)
    PROVE  WMoved(t, a, b)
<1>1. Reader \cap Writer = {}
  BY DEF Q!QioAssumption
<1>2. qpc[t] = a /\ qpc' = [qpc EXCEPT ![t] = b]
  BY DEF Q!Goto
<1>3. DOMAIN qpc = Reader \cup Writer
  BY DEF Places
<1>4. /\ qpc'[t] = b /\ \A u \in Reader \cup Writer : u # t => qpc'[u] = qpc[u]
      /\ qpc' = [u \in Reader \cup Writer |-> qpc'[u]]
  BY <1>2, <1>3
<1>5. a # "out" => wlock = t /\ \A u \in Writer : u # t => qpc[u] = "out"
  BY <1>2 DEF Places
<1> QED
  BY <1>1, <1>2, <1>4, <1>5 DEF WMoved, Places

\* What an invariant of the data needs from a step that leaves them alone.
LEMMA DataKept ==
    ASSUME UNCHANGED <<q, len, dlen, hand>>
    PROVE  /\ Counted => Counted'
           /\ Q!space(hand') = Q!space(hand)
           /\ SameKind /\ last' \in {last, <<>>} => Q!BQ!Next
<1>1. Whole' = Whole
  BY DEF Whole
<1>2. SameKind => Q!Items(Whole)' = Q!Items(Whole)
  BY <1>1, ItemsAre DEF SameKind
<1> QED
  BY <1>2, MarkStep DEF Counted

LEMMA ReaderPlacesKept ==
    ASSUME Q!QioAssumption, Places, NEW t \in Reader, NEW a,
           NEW b \in ReaderPlaces, Q!Goto(t, a, b), use \in {"pipe", "input"},
           use' = use, wlock' = wlock,
           IF a = "out" THEN b # "out" /\ rlock = nil /\ rlock' = t
           ELSE rlock' = IF b = "out" THEN nil ELSE rlock
    PROVE  Places' /\ RMoved(t, a, b)
<1>1. RMoved(t, a, b)
  BY ReaderMoves
<1>2. nil \notin Reader
  BY DEF Q!QioAssumption
<1>3. \A u \in Reader : qpc'[u] # "out" <=> rlock' = u
  <2>1. CASE a = "out"
    <3>1. \A u \in Reader : qpc[u] = "out"
      BY <2>1, <1>2 DEF Places
    <3> QED
      BY <3>1, <2>1, <1>1 DEF RMoved
  <2>2. CASE a # "out"
    BY <2>2, <1>1, <1>2 DEF RMoved
  <2> QED
    BY <2>1, <2>2
<1>4. /\ qpc' = [u \in Reader \cup Writer |-> qpc'[u]]
      /\ \A u \in Reader : qpc'[u] \in ReaderPlaces
      /\ \A u \in Writer : qpc'[u] \in WriterPlaces
      /\ \A u \in Writer : qpc'[u] # "out" <=> wlock' = u
      /\ use' = "input" => \A u \in Writer : qpc'[u] = "out"
  BY <1>1 DEF RMoved, Places
<1>5. Places'
  BY <1>3, <1>4 DEF Places
<1> QED
  BY <1>1, <1>5

LEMMA WriterPlacesKept ==
    ASSUME Q!QioAssumption, Places, NEW t \in Writer, NEW a,
           NEW b \in WriterPlaces, Q!Goto(t, a, b), use # "input",
           use' = use, rlock' = rlock,
           IF a = "out" THEN b # "out" /\ wlock = nil /\ wlock' = t
           ELSE wlock' = IF b = "out" THEN nil ELSE wlock
    PROVE  Places' /\ WMoved(t, a, b)
<1>1. WMoved(t, a, b)
  BY WriterMoves
<1>2. nil \notin Writer
  BY DEF Q!QioAssumption
<1>3. \A u \in Writer : qpc'[u] # "out" <=> wlock' = u
  <2>1. CASE a = "out"
    <3>1. \A u \in Writer : qpc[u] = "out"
      BY <2>1, <1>2 DEF Places
    <3> QED
      BY <3>1, <2>1, <1>1 DEF WMoved
  <2>2. CASE a # "out"
    BY <2>2, <1>1, <1>2 DEF WMoved
  <2> QED
    BY <2>1, <2>2
<1>4. /\ qpc' = [u \in Reader \cup Writer |-> qpc'[u]]
      /\ \A u \in Writer : qpc'[u] \in WriterPlaces
      /\ \A u \in Reader : qpc'[u] \in ReaderPlaces
      /\ \A u \in Reader : qpc'[u] # "out" <=> rlock' = u
      /\ use' \notin {"pipe", "input"} => \A u \in Reader : qpc'[u] = "out"
  BY <1>1 DEF WMoved, Places
<1>5. Places'
  BY <1>3, <1>4 DEF Places
<1> QED
  BY <1>1, <1>5

LEMMA PairTail ==
    ASSUME NEW x, NEW y
    PROVE  Tail(<<x, y>>) = <<y>>
<1> DEFINE S == {x, y}
<1>1. PICK d, w : d = <<x, y>> /\ w = <<y>>
  OBVIOUS
<1>2. x \in S /\ y \in S
  OBVIOUS
<1> HIDE DEF S
<1>3. d \in Seq(S) /\ Len(d) = 2 /\ d[2] = y
  BY <1>1, <1>2
<1>4. w \in Seq(S) /\ Len(w) = 1 /\ w[1] = y
  BY <1>1, <1>2
<1>5. d # <<>>
  <2>1. Len(<<>>) = 0
    OBVIOUS
  <2> QED
    BY <2>1, <1>3
<1>6. /\ Tail(d) \in Seq(S) /\ Len(Tail(d)) = 1
      /\ Tail(d) = SubSeq(d, 1 + 1, Len(d))
  <2>1. 1 + 1 = 2 /\ 2 - 1 = 1
    OBVIOUS
  <2> QED
    BY <2>1, <1>3, <1>5, FirstAndRest
<1>7. Tail(d)[1] = y
  <2>1. 1 \in 0 .. Len(d) /\ 1 \in 1 .. Len(d) - 1 /\ 1 + 1 = 2
    BY <1>3
  <2>2. SubSeq(d, 1 + 1, Len(d))[1] = d[1 + 1]
    BY <2>1, <1>3, Split
  <2> QED
    BY <2>1, <2>2, <1>3, <1>6
<1>8. \A i \in 1 .. 1 : i = 1
  OBVIOUS
<1>9. Tail(d) = w
  BY <1>4, <1>6, <1>7, <1>8, SeqEqual
<1> QED
  BY <1>1, <1>9

LEMMA CallsMade ==
    /\ \A d \in Calls : d # <<>> => Tail(d) \in Calls
    /\ \A d \in Calls : d # <<>> =>
         \/ d = <<"rr">> \/ d = <<"wr">> \/ d = <<"kick">>
         \/ d = <<"rr", "wr">>
    /\ Tail(<<"rr", "wr">>) = <<"wr">>
<1>1. /\ Tail(<<"rr">>) = <<>> /\ Tail(<<"wr">>) = <<>>
      /\ Tail(<<"kick">>) = <<>>
  OBVIOUS
<1>2. Tail(<<"rr", "wr">>) = <<"wr">>
  BY PairTail
<1> QED
  BY Zenon, <1>1, <1>2 DEF Calls

\* A thread of the kernel owes nothing where it may not.
LEMMA Threads ==
    ASSUME Q!QioAssumption
    PROVE  /\ Reader \subseteq Q!Thread /\ Writer \subseteq Q!Thread
           /\ intr \in Q!Thread /\ ctl \in Q!Thread /\ intr # ctl
           /\ intr \notin Reader \cup Writer /\ ctl \notin Reader \cup Writer
           /\ Reader \cap Writer = {} /\ nil \notin Reader \cup Writer
  BY DEF Q!QioAssumption, Q!Thread

-----------------------------------------------------------------------------
\* The steps.
LEMMA WakeStep ==
    ASSUME Q!QioAssumption, QInv, NEW t \in Q!Thread, Q!wake(t), use' = use
    PROVE  QInv' /\ Q!BQ!Next
<1>1. /\ UNCHANGED <<q, len, dlen, hand, limit, noblock, state, rlock, wlock,
                     want, last, next>>
      /\ due[t] # <<>> /\ due' = [due EXCEPT ![t] = Tail(due[t])]
      /\ going' = (going \/ Head(due[t]) = "kick")
      /\ qpc' = [u \in DOMAIN qpc |->
                  CASE Head(due[t]) = "rr" /\ qpc[u] = "rasleep" -> "read"
                    [] Head(due[t]) = "wr" /\ qpc[u] = "wasleep" -> "full"
                    [] OTHER -> qpc[u]]
  BY Zenon DEF Q!wake, Q!qvars
<1>2. due \in [Q!Thread -> Calls]
  BY DEF QInv, Shape
<1>3. Tail(due[t]) \in Calls
  <2>1. due[t] \in Calls
    BY <1>2
  <2>2. due[t] # <<>>
    BY <1>1
  <2> QED
    BY Zenon, <2>1, <2>2, CallsMade
<1>4. Shape'
  BY <1>1, <1>2, <1>3 DEF QInv, Shape
<1>5. /\ qpc' = [u \in Reader \cup Writer |-> qpc'[u]]
      /\ \A u \in Reader \cup Writer :
           qpc'[u] = CASE Head(due[t]) = "rr" /\ qpc[u] = "rasleep" -> "read"
                       [] Head(due[t]) = "wr" /\ qpc[u] = "wasleep" -> "full"
                       [] OTHER -> qpc[u]
  <2>1. DOMAIN qpc = Reader \cup Writer
    BY DEF QInv, Places
  <2> QED
    BY <1>1, <2>1
<1>6. \A u \in Reader \cup Writer :
        /\ qpc'[u] = "out" <=> qpc[u] = "out"
        /\ qpc'[u] = "copy" <=> qpc[u] = "copy"
        /\ qpc[u] \in {"rdone", "full"} => qpc'[u] = qpc[u]
  BY <1>5
<1>7. (\A u \in Reader : qpc'[u] \in ReaderPlaces)
      /\ (\A u \in Writer : qpc'[u] \in WriterPlaces)
  <2>1. \A u \in Reader : qpc[u] \in ReaderPlaces
    BY DEF QInv, Places
  <2>2. \A u \in Writer : qpc[u] \in WriterPlaces
    BY DEF QInv, Places
  <2> QED
    BY <1>5, <2>1, <2>2 DEF ReaderPlaces, WriterPlaces
<1>8. Places'
  BY <1>1, <1>5, <1>6, <1>7 DEF QInv, Places
<1>9. Owing'
  <2>1. \A u \in Reader \cup Writer : due'[u] # <<>> => due[u] # <<>>
    BY <1>1, <1>2, Threads
  <2> QED
    BY <2>1, <1>6 DEF QInv, Owing
<1>10. Held'
  <2>1. (\E u \in Reader : qpc'[u] = "copy") <=> (\E u \in Reader : qpc[u] = "copy")
    BY <1>6
  <2> QED
    BY <2>1, <1>1 DEF QInv, Held
<1>11. Counted' /\ Kinds' /\ SameKind
  BY <1>1 DEF QInv, Counted, Kinds, SameKind
<1>12. Q!BQ!Next
  BY <1>1, <1>11, DataKept
<1> QED
  BY <1>4, <1>8, <1>9, <1>10, <1>11, <1>12 DEF QInv

\* A reader that leaves the blocks alone.
LEMMA ReaderQuiet ==
    ASSUME Q!QioAssumption, QInv, NEW t \in Reader, NEW a \in ReaderPlaces,
           NEW b \in ReaderPlaces, Q!Goto(t, a, b), use \in {"pipe", "input"},
           UNCHANGED <<use, q, len, dlen, limit, noblock, wlock, hand, due,
                       going, next>>,
           IF a = "out" THEN b # "out" /\ rlock = nil /\ rlock' = t
           ELSE rlock' = IF b = "out" THEN nil ELSE rlock,
           a # "copy", b # "copy", a = "rdone" => due[t] = <<>>,
           want' \in Nat, want' = want \/ a \in {"out", "rdone"},
           last' \in {last, <<>>}, Kinds', SameKind
    PROVE  QInv' /\ Q!BQ!Next /\ RMoved(t, a, b)
<1>1. Places' /\ RMoved(t, a, b)
  BY ReaderPlacesKept DEF QInv
<1>2. (\E u \in Reader : qpc'[u] = "copy") <=> (\E u \in Reader : qpc[u] = "copy")
  BY <1>1 DEF RMoved
<1>3. hand # <<>> => want' = want
  <2>1. a \in {"out", "rdone"} => \A u \in Reader : qpc[u] # "copy"
    BY <1>1, Threads DEF RMoved, QInv, Places
  <2> QED
    BY <2>1 DEF QInv, Held
<1>4. Held'
  BY <1>2, <1>3 DEF QInv, Held, SameKind
<1>5. Owing'
  BY <1>1 DEF QInv, Owing, RMoved
<1>6. Shape'
  BY DEF QInv, Shape
<1>7. Counted' /\ Q!BQ!Next
  BY DataKept DEF QInv
<1> QED
  BY <1>1, <1>4, <1>5, <1>6, <1>7 DEF QInv

LEMMA WriterQuiet ==
    ASSUME Q!QioAssumption, QInv, NEW t \in Writer, NEW a \in WriterPlaces,
           NEW b \in WriterPlaces, Q!Goto(t, a, b), use # "input",
           UNCHANGED <<use, q, len, dlen, limit, noblock, rlock, want, hand,
                       last, due, going, next>>,
           IF a = "out" THEN b # "out" /\ wlock = nil /\ wlock' = t
           ELSE wlock' = IF b = "out" THEN nil ELSE wlock,
           a = "full" => due[t] = <<>>, Kinds', SameKind
    PROVE  QInv' /\ Q!BQ!Next /\ WMoved(t, a, b)
<1>1. Places' /\ WMoved(t, a, b)
  BY WriterPlacesKept DEF QInv
<1>2. (\E u \in Reader : qpc'[u] = "copy") <=> (\E u \in Reader : qpc[u] = "copy")
  BY <1>1 DEF WMoved
<1>3. Held'
  BY <1>2 DEF QInv, Held, SameKind
<1>4. Owing'
  BY <1>1 DEF QInv, Owing, WMoved
<1>5. Shape'
  BY DEF QInv, Shape
<1>6. Counted' /\ Q!BQ!Next
  BY DataKept DEF QInv
<1> QED
  BY <1>1, <1>3, <1>4, <1>5, <1>6 DEF QInv

LEMMA QuietReaderSteps ==
    ASSUME Q!QioAssumption, QInv, NEW t \in Reader, use \in {"pipe", "input"},
           use' = use
    PROVE  /\ Q!qlockr(t) => QInv' /\ Q!BQ!Next /\ RMoved(t, "out", "read")
           /\ Q!qwait(t) => /\ QInv' /\ Q!BQ!Next
                            /\ \/ RMoved(t, "read", "out")
                               \/ /\ RMoved(t, "read", "rsleep")
                                  /\ "Qstarve" \in state'
           /\ Q!sleepr(t) => /\ QInv' /\ Q!BQ!Next
                             /\ RMoved(t, "rsleep", IF Q!notempty THEN "read"
                                                    ELSE "rasleep")
           /\ Q!interruptedr(t) => QInv' /\ Q!BQ!Next
                                   /\ RMoved(t, qpc[t], "out")
           /\ Q!qunlockr(t) => QInv' /\ Q!BQ!Next /\ RMoved(t, "rdone", "out")
<1>0. /\ {"out", "read", "rsleep", "rasleep", "rdone"} \subseteq ReaderPlaces
      /\ want \in Nat /\ Kinds
  BY DEF ReaderPlaces, QInv, Shape
<1>1. ASSUME Q!qlockr(t)
      PROVE  QInv' /\ Q!BQ!Next /\ RMoved(t, "out", "read")
  <2>1. /\ rlock = nil /\ rlock' = t /\ Q!Goto(t, "out", "read")
        /\ want' \in Wants
        /\ UNCHANGED <<q, len, dlen, limit, noblock, state, wlock, hand, last,
                       due, going, next>>
    BY <1>1 DEF Q!qlockr, Q!qvars
  <2>2. Kinds' /\ SameKind /\ want' \in Nat
    BY <2>1, <1>0 DEF Kinds, SameKind, Q!QioAssumption
  <2> QED
    BY <2>1, <2>2, <1>0, ReaderQuiet
<1>2. ASSUME Q!qwait(t)
      PROVE  /\ QInv' /\ Q!BQ!Next
             /\ \/ RMoved(t, "read", "out")
                \/ RMoved(t, "read", "rsleep") /\ "Qstarve" \in state'
  <2>1. UNCHANGED <<q, len, dlen, limit, noblock, wlock, want, hand, last,
                    due, going, next>>
    BY <1>2 DEF Q!qwait, Q!qvars
  <2>2. CASE Q!Goto(t, "read", "out") /\ rlock' = nil /\ state' = state
    <3>1. Kinds' /\ SameKind
      BY <2>2, <1>0 DEF Kinds, SameKind
    <3> QED
      BY <2>1, <2>2, <3>1, <1>0, ReaderQuiet
  <2>3. CASE Q!Goto(t, "read", "rsleep") /\ state' = state \cup {"Qstarve"}
             /\ rlock' = rlock
    <3>1. Kinds' /\ SameKind /\ "Qstarve" \in state'
      BY <2>3, <1>0 DEF Kinds, SameKind
    <3> QED
      BY <2>1, <2>3, <3>1, <1>0, ReaderQuiet
  <2> QED
    BY <1>2, <2>2, <2>3 DEF Q!qwait
<1>3. ASSUME Q!sleepr(t)
      PROVE  /\ QInv' /\ Q!BQ!Next
             /\ RMoved(t, "rsleep", IF Q!notempty THEN "read" ELSE "rasleep")
  <2>1. PICK b : b = IF Q!notempty THEN "read" ELSE "rasleep"
    OBVIOUS
  <2>2. /\ Q!Goto(t, "rsleep", b)
        /\ UNCHANGED <<q, len, dlen, limit, noblock, state, rlock, wlock, want,
                       hand, last, due, going, next>>
    BY <1>3, <2>1 DEF Q!sleepr, Q!qvars
  <2>3. Kinds' /\ SameKind /\ b \in ReaderPlaces /\ b # "out" /\ b # "copy"
    BY <2>1, <2>2, <1>0 DEF Kinds, SameKind
  <2> QED
    BY <2>1, <2>2, <2>3, <1>0, ReaderQuiet
<1>4. ASSUME Q!interruptedr(t)
      PROVE  QInv' /\ Q!BQ!Next /\ RMoved(t, qpc[t], "out")
  <2>1. /\ qpc[t] \in {"rsleep", "rasleep"} /\ Q!Goto(t, qpc[t], "out")
        /\ rlock' = nil
        /\ UNCHANGED <<q, len, dlen, limit, noblock, state, wlock, want, hand,
                       last, due, going, next>>
    BY <1>4 DEF Q!interruptedr, Q!qvars, Q!Goto
  <2>2. Kinds' /\ SameKind
    BY <2>1, <1>0 DEF Kinds, SameKind
  <2> QED
    BY <2>1, <2>2, <1>0, ReaderQuiet
<1>5. ASSUME Q!qunlockr(t)
      PROVE  QInv' /\ Q!BQ!Next /\ RMoved(t, "rdone", "out")
  <2>1. /\ due[t] = <<>> /\ Q!Goto(t, "rdone", "out") /\ rlock' = nil
        /\ want' = 0 /\ last' = <<>>
        /\ UNCHANGED <<q, len, dlen, limit, noblock, state, wlock, hand, due,
                       going, next>>
    BY <1>5 DEF Q!qunlockr, Q!qvars
  <2>2. Kinds' /\ SameKind /\ want' \in Nat
    BY <2>1, <1>0 DEF Kinds, SameKind
  <2> QED
    BY <2>1, <2>2, <1>0, ReaderQuiet
<1> QED
  BY <1>1, <1>2, <1>3, <1>4, <1>5

LEMMA QuietWriterSteps ==
    ASSUME Q!QioAssumption, QInv, NEW t \in Writer, use # "input", use' = use
    PROVE  /\ Q!qlockw(t) => QInv' /\ Q!BQ!Next /\ WMoved(t, "out", "write")
           /\ Q!qfullWait(t) => /\ QInv' /\ Q!BQ!Next
                                /\ \/ WMoved(t, "full", "out")
                                   \/ /\ WMoved(t, "full", "wsleep")
                                      /\ "Qflow" \in state'
           /\ Q!sleepw(t) => /\ QInv' /\ Q!BQ!Next
                             /\ WMoved(t, "wsleep", IF Q!qnotfull THEN "full"
                                                    ELSE "wasleep")
           /\ Q!interruptedw(t) => QInv' /\ Q!BQ!Next
                                   /\ WMoved(t, qpc[t], "out")
<1>0. /\ {"out", "write", "full", "wsleep", "wasleep"} \subseteq WriterPlaces
      /\ Kinds
  BY DEF WriterPlaces, QInv
<1>1. ASSUME Q!qlockw(t)
      PROVE  QInv' /\ Q!BQ!Next /\ WMoved(t, "out", "write")
  <2>1. /\ wlock = nil /\ wlock' = t /\ Q!Goto(t, "out", "write")
        /\ UNCHANGED <<q, len, dlen, limit, noblock, state, rlock, want, hand,
                       last, due, going, next>>
    BY <1>1 DEF Q!qlockw, Q!qvars
  <2>2. Kinds' /\ SameKind
    BY <2>1, <1>0 DEF Kinds, SameKind
  <2> QED
    BY <2>1, <2>2, <1>0, WriterQuiet
<1>2. ASSUME Q!qfullWait(t)
      PROVE  /\ QInv' /\ Q!BQ!Next
             /\ \/ WMoved(t, "full", "out")
                \/ WMoved(t, "full", "wsleep") /\ "Qflow" \in state'
  <2>1. /\ due[t] = <<>>
        /\ UNCHANGED <<q, len, dlen, limit, noblock, rlock, want, hand, last,
                       due, going, next>>
    BY <1>2 DEF Q!qfullWait, Q!qvars
  <2>2. CASE Q!Goto(t, "full", "out") /\ wlock' = nil /\ state' = state
    <3>1. Kinds' /\ SameKind
      BY <2>2, <1>0 DEF Kinds, SameKind
    <3> QED
      BY <2>1, <2>2, <3>1, <1>0, WriterQuiet
  <2>3. CASE Q!Goto(t, "full", "wsleep") /\ state' = state \cup {"Qflow"}
             /\ wlock' = wlock
    <3>1. Kinds' /\ SameKind /\ "Qflow" \in state'
      BY <2>3, <1>0 DEF Kinds, SameKind
    <3> QED
      BY <2>1, <2>3, <3>1, <1>0, WriterQuiet
  <2> QED
    BY <1>2, <2>2, <2>3 DEF Q!qfullWait
<1>3. ASSUME Q!sleepw(t)
      PROVE  /\ QInv' /\ Q!BQ!Next
             /\ WMoved(t, "wsleep", IF Q!qnotfull THEN "full" ELSE "wasleep")
  <2>1. PICK b : b = IF Q!qnotfull THEN "full" ELSE "wasleep"
    OBVIOUS
  <2>2. /\ Q!Goto(t, "wsleep", b)
        /\ UNCHANGED <<q, len, dlen, limit, noblock, state, rlock, wlock, want,
                       hand, last, due, going, next>>
    BY <1>3, <2>1 DEF Q!sleepw, Q!qvars
  <2>3. Kinds' /\ SameKind /\ b \in WriterPlaces /\ b # "out"
    BY <2>1, <2>2, <1>0 DEF Kinds, SameKind
  <2> QED
    BY <2>1, <2>2, <2>3, <1>0, WriterQuiet
<1>4. ASSUME Q!interruptedw(t)
      PROVE  QInv' /\ Q!BQ!Next /\ WMoved(t, qpc[t], "out")
  <2>1. /\ qpc[t] \in {"wsleep", "wasleep"} /\ Q!Goto(t, qpc[t], "out")
        /\ wlock' = nil
        /\ UNCHANGED <<q, len, dlen, limit, noblock, state, rlock, want, hand,
                       last, due, going, next>>
    BY <1>4 DEF Q!interruptedw, Q!qvars, Q!Goto
  <2>2. Kinds' /\ SameKind
    BY <2>1, <1>0 DEF Kinds, SameKind
  <2> QED
    BY <2>1, <2>2, <1>0, WriterQuiet
<1> QED
  BY <1>1, <1>2, <1>3, <1>4

\* What the tails of the routines do to the rest of the state.
Tails(t) ==
    /\ Kinds' /\ SameKind
    /\ due' \in [Q!Thread -> Calls]
    /\ \A u \in Q!Thread : u # t => due'[u] = due[u]

LEMMA RestartTail ==
    ASSUME Kinds, use' = use, due \in [Q!Thread -> Calls],
           NEW t \in Q!Thread, NEW l, NEW below, Q!restart(t, l, below)
    PROVE  Tails(t)
<1>1. <<"wr">> \in Calls
  BY DEF Calls
<1>2. \/ state' = state \ {"Qflow"} /\ due' = [due EXCEPT ![t] = <<"wr">>]
      \/ state' = state /\ due' = due
  BY DEF Q!restart
<1>3. Kinds' /\ SameKind
  BY <1>2 DEF Kinds, SameKind
<1>4. due' \in [Q!Thread -> Calls] /\ \A u \in Q!Thread : u # t => due'[u] = due[u]
  BY <1>1, <1>2
<1> QED
  BY <1>3, <1>4 DEF Tails

LEMMA AwakenTail ==
    ASSUME Kinds, use' = use, due \in [Q!Thread -> Calls],
           NEW t \in Q!Thread, NEW flags \in SUBSET {"Qflow"},
           NEW call \in {"rr", "kick"}, Q!awaken(t, flags, call)
    PROVE  Tails(t)
<1>1. <<call>> \in Calls /\ <<>> \in Calls
  BY Zenon DEF Calls
<1>2. /\ \/ state' = (state \cup flags) \ {"Qstarve"}
         \/ state' = state \cup flags
      /\ \/ due' = [due EXCEPT ![t] = <<call>>]
         \/ due' = [due EXCEPT ![t] = <<>>]
  BY DEF Q!awaken
<1>3. Kinds' /\ SameKind
  BY <1>2 DEF Kinds, SameKind
<1>4. due' \in [Q!Thread -> Calls] /\ \A u \in Q!Thread : u # t => due'[u] = due[u]
  BY <1>1, <1>2
<1> QED
  BY <1>3, <1>4 DEF Tails

LEMMA ReadSteps ==
    ASSUME Q!QioAssumption, QInv, NEW t \in Reader, use \in {"pipe", "input"},
           use' = use, Q!qread(t)
    PROVE  /\ QInv' /\ Q!BQ!Next
           /\ qpc' = qpc \/ RMoved(t, "read", "copy")
           /\ len' + Q!space(hand') <= len /\ len' \in Nat
           /\ Q!space(hand') \in Nat
<1>1. /\ rlock' = rlock
      /\ UNCHANGED <<limit, noblock, state, wlock, want, last, due, going, next>>
      /\ qpc[t] = "read"
  BY DEF Q!qread, Q!Goto
<1>2. want \in Nat /\ ("Qcoalesce" \in state => "Qmsg" \notin state)
  BY DEF QInv, Shape, Kinds
<1>3. \A u \in Reader : qpc[u] # "copy"
  BY <1>1 DEF QInv, Places
<1>4. hand = <<>>
  BY <1>3 DEF QInv, Held
<1>5. /\ Counted' /\ hand' \in Seq(Block) /\ len' \in Nat
      /\ Q!space(hand') \in Nat /\ len' + Q!space(hand') <= len
      /\ \/ hand' = <<>> /\ qpc' = qpc
         \/ /\ hand' # <<>> /\ Q!Goto(t, "read", "copy")
            /\ Len(hand') = 1 \/ Len(Q!Bytes(hand')) <= want
            /\ "Qmsg" \in state => Len(hand') = 1
      /\ Q!BQ!Next
  BY <1>2, <1>4, TakeOff DEF QInv
<1>6. Kinds' /\ Shape'
  BY <1>1 DEF QInv, Kinds, Shape
<1>7. CASE hand' = <<>> /\ qpc' = qpc
  <2>1. Places' /\ Owing'
    BY <1>1, <1>7 DEF QInv, Places, Owing
  <2>2. Held'
    BY <1>1, <1>3, <1>5, <1>7 DEF QInv, Held
  <2> QED
    BY <1>5, <1>6, <1>7, <2>1, <2>2 DEF QInv
<1>8. CASE hand' # <<>> /\ Q!Goto(t, "read", "copy")
  <2>1. Places' /\ RMoved(t, "read", "copy")
    <3>1. "copy" \in ReaderPlaces
      BY DEF ReaderPlaces
    <3> QED
      BY <3>1, <1>1, <1>8, ReaderPlacesKept DEF QInv
  <2>2. Owing'
    BY <1>1, <2>1 DEF QInv, Owing, RMoved
  <2>3. Held'
    <3>1. \E u \in Reader : qpc'[u] = "copy"
      BY <2>1 DEF RMoved
    <3>2. /\ Len(hand') = 1 \/ Len(Q!Bytes(hand')) <= want
          /\ "Qmsg" \in state => Len(hand') = 1
      BY <1>5, <1>8
    <3> QED
      BY <3>1, <3>2, <1>1, <1>5, <1>8 DEF QInv, Held
  <2> QED
    BY <1>5, <1>6, <2>1, <2>2, <2>3 DEF QInv
<1> QED
  BY <1>5, <1>7, <1>8

LEMMA DoneSteps ==
    ASSUME Q!QioAssumption, QInv, NEW t \in Reader, use \in {"pipe", "input"},
           use' = use, Q!qputback(t) \/ Q!qbread(t)
    PROVE  /\ QInv' /\ Q!BQ!Next
           /\ RMoved(t, "copy", "rdone") \/ RMoved(t, "read", "rdone")
           /\ hand' = <<>> /\ len' \in Nat /\ len' <= len + Q!space(hand)
           /\ Q!restart(t, len', limit \div 2) /\ limit' = limit
<1>1. /\ rlock' = rlock /\ Q!restart(t, len', limit \div 2)
      /\ UNCHANGED <<limit, noblock, wlock, want, going, next>>
      /\ Q!Goto(t, "copy", "rdone") \/ Q!Goto(t, "read", "rdone")
  BY Zenon DEF Q!qputback, Q!qbread
<1>2. PICK a \in {"copy", "read"} : Q!Goto(t, a, "rdone")
  BY <1>1
<1>3. /\ Places' /\ RMoved(t, a, "rdone")
  <2>1. "rdone" \in ReaderPlaces /\ a # "out" /\ "rdone" # "out"
    BY <1>2 DEF ReaderPlaces
  <2> QED
    BY <2>1, <1>1, <1>2, ReaderPlacesKept DEF QInv
<1>4. t \in Q!Thread /\ Tails(t)
  <2>1. t \in Q!Thread
    BY Threads
  <2> QED
    BY <2>1, <1>1, RestartTail DEF QInv, Shape
<1>5. /\ Counted' /\ hand' = <<>> /\ len' \in Nat
      /\ len' <= len + Q!space(hand) /\ Q!BQ!Next
  <2>1. want \in Nat
    BY DEF QInv, Shape
  <2>2. CASE Q!qputback(t)
    <3>1. \E u \in Reader : qpc[u] = "copy"
      BY <2>2 DEF Q!qputback, Q!Goto
    <3>2. /\ hand \in Seq(Block) /\ hand # <<>>
          /\ Len(hand) = 1 \/ Len(Q!Bytes(hand)) <= want
          /\ "Qmsg" \in state => Len(hand) = 1
      BY <3>1 DEF QInv, Held
    <3> QED
      BY <2>1, <2>2, <3>2, PutBack DEF QInv
  <2>3. CASE Q!qbread(t)
    <3>1. qpc[t] = "read"
      BY <2>3 DEF Q!qbread, Q!Goto
    <3>2. hand = <<>>
      BY <3>1 DEF QInv, Held, Places
    <3>3. /\ Counted' /\ hand' = <<>> /\ len' \in Nat /\ len' <= len
          /\ Q!BQ!Next
      BY <2>1, <2>3, <3>2, ReadBlock DEF QInv
    <3>4. Q!space(hand) = 0 /\ len \in Nat
      BY <3>2, NoBlocks, SpaceNat DEF QInv, Counted
    <3>5. len' <= len + Q!space(hand)
      BY <3>3, <3>4
    <3> QED
      BY <3>3, <3>5
  <2> QED
    BY <2>2, <2>3
<1>6. Shape'
  BY <1>1, <1>4 DEF QInv, Shape, Tails
<1>7. Owing'
  <2>1. \A u \in Reader : due'[u] # <<>> => qpc'[u] = "rdone"
    <3>1. \A u \in Reader : u \in Q!Thread /\ (u # t => due'[u] = due[u])
      BY <1>4, Threads DEF Tails
    <3> QED
      BY <3>1, <1>3 DEF QInv, Owing, RMoved
  <2>2. \A u \in Writer : due'[u] # <<>> => qpc'[u] = "full"
    <3>1. \A u \in Writer : u \in Q!Thread /\ u # t
      BY Threads
    <3> QED
      BY <3>1, <1>3, <1>4 DEF QInv, Owing, RMoved, Tails
  <2> QED
    BY <2>1, <2>2 DEF Owing
<1>8. Held'
  <2>1. \A u \in Reader : qpc'[u] # "copy"
    BY <1>2, <1>3 DEF RMoved
  <2>2. hand' \in Seq(Block)
    BY <1>5, NoBlocks
  <2> QED
    BY <2>1, <2>2, <1>5 DEF Held
<1> QED
  BY <1>1, <1>2, <1>3, <1>4, <1>5, <1>6, <1>7, <1>8 DEF QInv, Tails

\* What is done to the blocks by whoever adds one.
LEMMA AddStep ==
    ASSUME Q!QioAssumption, QInv, NEW n \in Nat, Q!add(Q!allocb(n)),
           NEW t \in Q!Thread, NEW flags \in SUBSET {"Qflow"},
           NEW call \in {"rr", "kick"}, Q!awaken(t, flags, call),
           UNCHANGED <<use, limit, noblock, want, hand, last, going>>
    PROVE  /\ Counted' /\ Kinds' /\ Shape' /\ Tails(t) /\ Q!BQ!Next
           /\ len' >= len /\ len' \in Nat /\ q' # <<>>
           /\ n > 0 /\ NoneEmpty => NoneEmpty'
<1>1. /\ Counted' /\ next' \in Nat
      /\ \E b \in Block : /\ q' = q \o <<b>> /\ Len(b.data) = n
                          /\ len' = len + b.alloc
  BY Adding DEF QInv, Shape
<1>2. PICK b \in Block : /\ q' = q \o <<b>> /\ Len(b.data) = n
                         /\ len' = len + b.alloc
  BY <1>1
<1>3. Tails(t)
  BY AwakenTail DEF QInv, Shape
<1>4. Shape'
  BY <1>1, <1>3 DEF QInv, Shape, Tails
<1>5. q \in Seq(Block) /\ hand \in Seq(Block) /\ len \in Nat /\ b.alloc \in Nat
  BY OneBlock, SpaceNat DEF QInv, Held, Counted
<1>6. Q!BQ!Next
  BY <1>2, <1>3, <1>5, PutStep DEF Tails
<1>7. PICK o : o = <<b>>
  OBVIOUS
<1>8. o \in Seq(Block) /\ Len(o) = 1 /\ o[1] = b
  BY <1>7, OneBlock
<1>9. Joins(Block, q, o, q')
  BY <1>2, <1>5, <1>7, <1>8, Concat
<1>10. PICK l \in Nat : l = Len(q)
  BY <1>5, LenProperties
<1>11. /\ q' \in Seq(Block) /\ Len(q') = l + 1 /\ q'[l + 1] = b
       /\ \A i \in 1 .. l : q'[i] = q[i]
  BY <1>8, <1>9, <1>10 DEF Joins
<1>12. q' # <<>>
  <2>1. l + 1 # 0 /\ Len(<<>>) = 0
    BY <1>10
  <2> QED
    BY <2>1, <1>11
<1>13. ASSUME n > 0, NoneEmpty PROVE NoneEmpty'
  <2>1. b.data # <<>>
    <3>1. Len(<<>>) = 0
      OBVIOUS
    <3> QED
      BY <3>1, <1>2, <1>13
  <2>2. ASSUME NEW i \in 1 .. l + 1 PROVE q'[i].data # <<>>
    <3>1. i = l + 1 \/ i \in 1 .. l
      OBVIOUS
    <3> QED
      BY <3>1, <2>1, <1>10, <1>11, <1>13 DEF NoneEmpty
  <2> QED
    BY <2>2, <1>11 DEF NoneEmpty
<1>14. len' >= len /\ len' \in Nat
  BY <1>2, <1>5
<1> QED
  BY <1>1, <1>3, <1>4, <1>6, <1>12, <1>13, <1>14 DEF Tails

\* A block has been added, and whoever waits for it is to be woken.
Adds(t, flags, call) ==
    /\ due[t] = <<>> /\ Q!awaken(t, flags, call)
    /\ len' >= len /\ len' \in Nat /\ q' # <<>>

LEMMA WriteSteps ==
    ASSUME Q!QioAssumption, QInv, NEW t \in Writer, use # "input",
           use' = use, Q!qbwrite(t)
    PROVE  /\ QInv' /\ Q!BQ!Next
           /\ \/ WMoved(t, "write", "out") /\ UNCHANGED <<q, len, state, due>>
              \/ /\ WMoved(t, "write", "full") /\ "Qclosed" \notin state
                 /\ Adds(t, {}, IF use = "pipe" THEN "rr" ELSE "kick")
                 /\ \/ use = "pipe" \/ "empty" \in Hazards
                    \/ {"Qkick", "Qmsg"} \cap state # {}
                    \/ (NoneEmpty => NoneEmpty')
           /\ UNCHANGED <<limit, hand, going>>
<1>0. {"out", "full", "write"} \subseteq WriterPlaces
  BY DEF WriterPlaces
<1>1. UNCHANGED <<limit, noblock, rlock, want, hand, last, going>>
  BY DEF Q!qbwrite
<1>2. CASE /\ Q!Goto(t, "write", "out") /\ wlock' = nil
           /\ UNCHANGED <<q, len, dlen, state, due, next>>
  <2>1. Kinds' /\ SameKind
    BY <1>2 DEF QInv, Kinds, SameKind
  <2> QED
    BY <1>0, <1>1, <1>2, <2>1, WriterQuiet DEF Q!Goto
<1>3. CASE /\ "Qclosed" \notin state /\ Q!Goto(t, "write", "full")
           /\ \E n \in Sizes :
                /\ n = 0 => \/ "empty" \in Hazards \/ use = "pipe"
                            \/ {"Qkick", "Qmsg"} \cap state # {}
                /\ Q!add(Q!allocb(n))
           /\ Q!awaken(t, {}, IF use = "pipe" THEN "rr" ELSE "kick")
           /\ wlock' = wlock
  <2>1. PICK call \in {"rr", "kick"} : call = IF use = "pipe" THEN "rr" ELSE "kick"
    OBVIOUS
  <2>2. PICK n \in Sizes : /\ Q!add(Q!allocb(n))
                           /\ n = 0 => \/ "empty" \in Hazards \/ use = "pipe"
                                       \/ {"Qkick", "Qmsg"} \cap state # {}
    BY <1>3
  <2>3. n \in Nat /\ t \in Q!Thread
    BY Threads DEF Q!QioAssumption
  <2>4. /\ Counted' /\ Kinds' /\ Shape' /\ Tails(t) /\ Q!BQ!Next
        /\ len' >= len /\ len' \in Nat /\ q' # <<>>
        /\ n > 0 /\ NoneEmpty => NoneEmpty'
    <3>1. Q!awaken(t, {}, call) /\ {} \in SUBSET {"Qflow"}
      BY <1>3, <2>1
    <3> QED
      BY <3>1, <1>1, <2>2, <2>3, AddStep
  <2>5. Places' /\ WMoved(t, "write", "full")
    BY <1>0, <1>1, <1>3, WriterPlacesKept DEF QInv
  <2>6. due[t] = <<>>
    BY <2>5 DEF QInv, Owing, WMoved
  <2>7. Owing'
    <3>1. \A u \in Reader : u \in Q!Thread /\ u # t
      BY Threads
    <3>2. \A u \in Writer : u \in Q!Thread
      BY Threads
    <3> QED
      BY <3>1, <3>2, <2>4, <2>5 DEF QInv, Owing, Tails, WMoved
  <2>8. Held'
    <3>1. (\E u \in Reader : qpc'[u] = "copy") <=> (\E u \in Reader : qpc[u] = "copy")
      BY <2>5 DEF WMoved
    <3> QED
      BY <3>1, <1>1, <2>4 DEF QInv, Held, Tails, SameKind
  <2>9. Adds(t, {}, IF use = "pipe" THEN "rr" ELSE "kick")
    BY <1>3, <2>4, <2>6 DEF Adds
  <2>10. \/ use = "pipe" \/ "empty" \in Hazards
         \/ {"Qkick", "Qmsg"} \cap state # {}
         \/ (NoneEmpty => NoneEmpty')
    <3>1. CASE n = 0
      BY <3>1, <2>2
    <3>2. CASE n > 0
      BY <3>2, <2>4
    <3> QED
      BY <2>3, <3>1, <3>2
  <2> QED
    BY <1>1, <1>3, <2>4, <2>5, <2>7, <2>8, <2>9, <2>10 DEF QInv
<1> QED
  BY Zenon, <1>2, <1>3 DEF Q!qbwrite, Q!qvars

\* The steps at interrupt level move nobody.
LEMMA NobodyMoves ==
    ASSUME Q!QioAssumption, QInv, NEW t \in {intr, ctl}, Tails(t), Counted',
           Shape', UNCHANGED <<use, rlock, wlock, qpc, want, hand, last>>
    PROVE  QInv'
<1>1. Places'
  BY DEF QInv, Places
<1>2. Owing'
  <2>1. \A u \in Reader \cup Writer : u \in Q!Thread /\ u # t
    BY Threads
  <2> QED
    BY <2>1 DEF QInv, Owing, Tails
<1>3. Held'
  BY DEF QInv, Held, Tails, SameKind
<1> QED
  BY <1>1, <1>2, <1>3 DEF QInv, Tails

LEMMA ProducerSteps ==
    ASSUME Q!QioAssumption, QInv, use' = use, Q!producer
    PROVE  /\ QInv' /\ Q!BQ!Next
           /\ UNCHANGED <<limit, qpc, hand, going>>
           /\ use \in {"input", "print"}
           /\ \/ /\ UNCHANGED <<q, len, due>>
                 /\ state' = state \/ state' = state \cup {"Qflow"}
              \/ \E flags \in SUBSET {"Qflow"} :
                   Adds(intr, flags, IF use = "print" THEN "kick" ELSE "rr")
<1>1. /\ due[intr] = <<>>
      /\ UNCHANGED <<limit, noblock, rlock, wlock, qpc, want, hand, last, going>>
  BY DEF Q!producer
<1>2. PICK n \in Sizes :
        \/ /\ use = "input"
           /\ Q!qpass(n) \/ Q!qpassnolim(n) \/ Q!qproduce(n)
        \/ use = "print" /\ Q!qiwrite(n)
  BY DEF Q!producer
<1>3. n \in Nat /\ intr \in Q!Thread
  BY Threads DEF Q!QioAssumption
<1>4. use \in {"input", "print"}
  BY <1>2
<1>5. CASE UNCHANGED <<q, len, dlen, state, due, next>>
           \/ (state' = state \cup {"Qflow"} /\ UNCHANGED <<q, len, dlen, due, next>>)
  <2>1. state' = state \/ state' = state \cup {"Qflow"}
    BY <1>5
  <2>2. Counted' /\ Shape'
    BY <1>1, <1>5 DEF QInv, Counted, Shape
  <2>3. Kinds' /\ SameKind
    BY <2>1 DEF QInv, Kinds, SameKind
  <2>4. Tails(intr)
    BY <1>5, <2>3 DEF QInv, Shape, Tails
  <2>5. QInv'
    BY <1>1, <2>2, <2>4, NobodyMoves
  <2>6. Q!BQ!Next
    BY <1>1, <1>5, <2>3, DataKept
  <2> QED
    BY <1>1, <1>4, <1>5, <2>1, <2>5, <2>6
<1>6. ASSUME NEW flags \in SUBSET {"Qflow"}, NEW call \in {"rr", "kick"},
             Q!add(Q!allocb(n)), Q!awaken(intr, flags, call),
             call = IF use = "print" THEN "kick" ELSE "rr"
      PROVE  QInv' /\ Q!BQ!Next /\ Adds(intr, flags, call)
  <2>1. /\ Counted' /\ Kinds' /\ Shape' /\ Tails(intr) /\ Q!BQ!Next
        /\ len' >= len /\ len' \in Nat /\ q' # <<>>
    BY <1>1, <1>3, <1>6, AddStep
  <2>2. QInv'
    BY <1>1, <2>1, NobodyMoves
  <2> QED
    BY <1>1, <1>6, <2>1, <2>2 DEF Adds
<1>7. \/ UNCHANGED <<q, len, dlen, state, due, next>>
      \/ (state' = state \cup {"Qflow"} /\ UNCHANGED <<q, len, dlen, due, next>>)
      \/ /\ Q!add(Q!allocb(n))
         /\ \/ use = "print" /\ Q!awaken(intr, {}, "kick")
            \/ use = "input" /\ Q!awaken(intr, {}, "rr")
            \/ use = "input" /\ Q!awaken(intr, {"Qflow"}, "rr")
  <2>1. CASE use = "print" /\ Q!qiwrite(n)
    BY Zenon, <2>1 DEF Q!qiwrite
  <2>2. CASE use = "input" /\ Q!qpass(n)
    BY <2>2 DEF Q!qpass, Q!qvars, Q!awaken
  <2>3. CASE use = "input" /\ Q!qpassnolim(n)
    BY <2>3 DEF Q!qpassnolim, Q!qvars, Q!awaken
  <2>4. CASE use = "input" /\ Q!qproduce(n)
    BY <2>4 DEF Q!qproduce, Q!qvars, Q!awaken
  <2> QED
    BY <1>2, <2>1, <2>2, <2>3, <2>4
<1>8. CASE Q!add(Q!allocb(n)) /\ use = "print" /\ Q!awaken(intr, {}, "kick")
  <2>1. {} \in SUBSET {"Qflow"}
    OBVIOUS
  <2> QED
    BY <1>1, <1>4, <1>6, <1>8, <2>1
<1>9. CASE Q!add(Q!allocb(n)) /\ use = "input" /\ Q!awaken(intr, {}, "rr")
  <2>1. {} \in SUBSET {"Qflow"}
    OBVIOUS
  <2> QED
    BY <1>1, <1>4, <1>6, <1>9, <2>1
<1>10. CASE Q!add(Q!allocb(n)) /\ use = "input" /\ Q!awaken(intr, {"Qflow"}, "rr")
  <2>1. {"Qflow"} \in SUBSET {"Qflow"}
    OBVIOUS
  <2> QED
    BY <1>1, <1>4, <1>6, <1>10, <2>1
<1> QED
  BY Zenon, <1>5, <1>7, <1>8, <1>9, <1>10

LEMMA ConsumerSteps ==
    ASSUME Q!QioAssumption, QInv, use' = use, Q!consumer
    PROVE  /\ QInv' /\ Q!BQ!Next
           /\ UNCHANGED <<limit, qpc, hand>>
           /\ use \in {"output", "print"} /\ hand = <<>> /\ due[intr] = <<>>
           /\ len' \in Nat /\ len' <= len
           /\ "Qkick" \in state \/ going
           /\ "Qmsg" \notin state /\ "Qkick" \notin state /\ NoneEmpty
                => NoneEmpty'
           /\ \/ /\ q' = <<>> /\ state' = state \cup {"Qstarve"}
                 /\ due' = due /\ "Qkick" \notin state
                 /\ "Qmsg" \in state \/ NoneEmpty => q = <<>>
              \/ /\ \/ Q!restart(intr, len', limit \div 2)
                    \/ Q!restart(intr, len', limit)
                 /\ going' = going
<1>1. /\ due[intr] = <<>> /\ use \in {"output", "print"}
      /\ UNCHANGED <<limit, noblock, rlock, wlock, qpc, want, hand, last, next>>
      /\ \/ "Qkick" \in state /\ \E n \in Wants : Q!qdiscard(n)
         \/ "Qmsg" \in state /\ going /\ Q!qget
         \/ {"Qkick", "Qmsg"} \cap state = {} /\ going
            /\ \E n \in Wants : Q!qconsume(n)
  BY DEF Q!consumer
<1>2. hand = <<>> /\ last = <<>>
  BY <1>1 DEF QInv, Held, Places
<1>3. intr \in Q!Thread /\ Wants \subseteq Nat
  BY Threads DEF Q!QioAssumption
<1>4. /\ Counted' /\ len' \in Nat /\ len' <= len /\ Q!BQ!Next
      /\ "Qkick" \in state \/ going
      /\ "Qmsg" \notin state /\ "Qkick" \notin state /\ NoneEmpty
           => NoneEmpty'
      /\ \/ /\ q' = <<>> /\ state' = state \cup {"Qstarve"}
            /\ due' = due /\ going' = FALSE /\ "Qkick" \notin state
            /\ "Qmsg" \in state \/ NoneEmpty => q = <<>>
         \/ /\ \/ Q!restart(intr, len', limit \div 2)
               \/ Q!restart(intr, len', limit)
            /\ going' = going
  <2>1. CASE "Qkick" \in state /\ \E n \in Wants : Q!qdiscard(n)
    <3>1. "Qmsg" \notin state
      BY <2>1 DEF QInv, Kinds
    <3>2. PICK n \in Nat : Q!qdiscard(n)
      BY <2>1, <1>3
    <3>3. /\ Counted' /\ len' \in Nat /\ len' <= len
          /\ Q!restart(intr, len', limit) /\ going' = going
          /\ Q!BQ!Next
      BY <3>1, <3>2, <1>1, <1>2, DiscardBytes DEF QInv
    <3> QED
      BY <2>1, <3>3
  <2>2. CASE "Qmsg" \in state /\ going /\ Q!qget
    <3>1. /\ Counted' /\ len' \in Nat /\ len' <= len /\ Q!BQ!Next
      BY <2>2, <1>1, <1>2, GetBlock DEF QInv
    <3>2. \/ /\ q = <<>> /\ q' = q /\ state' = state \cup {"Qstarve"}
             /\ due' = due /\ going' = FALSE
          \/ Q!restart(intr, len', limit \div 2) /\ going' = going
      BY <2>2 DEF Q!qget, Q!qvars
    <3>3. "Qkick" \notin state
      BY <2>2 DEF QInv, Kinds
    <3> QED
      BY <2>2, <3>1, <3>2, <3>3
  <2>3. CASE {"Qkick", "Qmsg"} \cap state = {} /\ going
             /\ \E n \in Wants : Q!qconsume(n)
    <3>1. "Qmsg" \notin state /\ "Qkick" \notin state /\ going
      BY <2>3
    <3>2. PICK n \in Nat : Q!qconsume(n)
      BY <2>3, <1>3
    <3>3. /\ Counted' /\ len' \in Nat /\ len' <= len
          /\ NoneEmpty => NoneEmpty'
          /\ \/ /\ q' = <<>> /\ state' = state \cup {"Qstarve"}
                /\ going' = FALSE /\ due' = due
                /\ NoneEmpty => q = <<>>
             \/ Q!restart(intr, len', limit \div 2) /\ going' = going
          /\ Q!BQ!Next
      BY <3>1, <3>2, <1>1, <1>2, ConsumeBytes DEF QInv
    <3>4. CASE /\ q' = <<>> /\ state' = state \cup {"Qstarve"}
               /\ going' = FALSE /\ due' = due /\ (NoneEmpty => q = <<>>)
      BY <3>1, <3>3, <3>4
    <3>5. CASE Q!restart(intr, len', limit \div 2) /\ going' = going
      BY <3>1, <3>3, <3>5
    <3> QED
      BY <3>3, <3>4, <3>5
  <2> QED
    BY <1>1, <2>1, <2>2, <2>3
<1>5. Tails(intr)
  <2>1. CASE state' = state \cup {"Qstarve"} /\ due' = due
    <3>1. Kinds' /\ SameKind
      BY <2>1 DEF QInv, Kinds, SameKind
    <3> QED
      BY <3>1, <2>1 DEF QInv, Shape, Tails
  <2>2. CASE \/ Q!restart(intr, len', limit \div 2)
             \/ Q!restart(intr, len', limit)
    BY <2>2, <1>3, RestartTail DEF QInv, Shape
  <2> QED
    BY <1>4, <2>1, <2>2
<1>6. Shape'
  <2>1. going' \in BOOLEAN
    BY <1>4 DEF QInv, Shape
  <2> QED
    BY <2>1, <1>1, <1>5 DEF QInv, Shape, Tails
<1>7. QInv'
  BY <1>1, <1>4, <1>5, <1>6, NobodyMoves
<1> QED
  BY <1>1, <1>2, <1>4, <1>7

\* Nobody reads, so nothing is held.
LEMMA NothingHeld ==
    ASSUME QInv, use \in {"pipe", "input"} => Q!noReader
    PROVE  hand = <<>>
  BY DEF QInv, Held, Places, Q!noReader

LEMMA ControlSteps ==
    ASSUME Q!QioAssumption, QInv, use' = use, Q!control
    PROVE  QInv' /\ Q!BQ!Next
<1>1. /\ due[ctl] = <<>>
      /\ UNCHANGED <<rlock, wlock, qpc, want, hand, last, going, next>>
      /\ \/ Q!qclose \/ Q!qhangup \/ Q!qreopen \/ Q!qflush \/ Q!qsetlimit
         \/ Q!qnoblock
  BY DEF Q!control
<1>2. ctl \in Q!Thread /\ Kinds /\ limit \in Limits /\ noblock \in BOOLEAN
  BY Threads DEF QInv, Shape
<1>3. ASSUME NEW d \in Calls, due' = [due EXCEPT ![ctl] = d]
      PROVE  /\ due' \in [Q!Thread -> Calls] /\ due'[ctl] = d
             /\ \A u \in Q!Thread : u # ctl => due'[u] = due[u]
  BY <1>2, <1>3 DEF QInv, Shape
<1>4. <<"rr", "wr">> \in Calls /\ <<"wr">> \in Calls
      /\ <<"rr", "wr">> # <<>> /\ <<"wr">> # <<>>
  <2>1. Len(<<"rr", "wr">>) = 2 /\ Len(<<"wr">>) = 1 /\ Len(<<>>) = 0
    OBVIOUS
  <2>2. <<"rr", "wr">> # <<>> /\ <<"wr">> # <<>>
    BY <2>1
  <2> QED
    BY <2>2 DEF Calls
<1>5. ASSUME Kinds', SameKind, due' \in [Q!Thread -> Calls],
             \A u \in Q!Thread : u # ctl => due'[u] = due[u],
             limit' \in Limits, noblock' \in BOOLEAN, Counted'
      PROVE  QInv'
  <2>1. Tails(ctl)
    BY <1>5 DEF Tails
  <2>2. Shape'
    BY <1>1, <1>5 DEF QInv, Shape
  <2> QED
    BY <1>1, <1>5, <2>1, <2>2, NobodyMoves
<1>6. ASSUME q' = <<>>, len' = 0, dlen' = 0
      PROVE  Counted'
  BY <1>6, NoBlocks DEF Counted
<1>7. ASSUME UNCHANGED <<q, len, dlen>>
      PROVE  Counted' /\ (SameKind => Q!BQ!Next)
  BY <1>1, <1>7, DataKept DEF QInv
<1>8. CASE Q!qclose
  <2>1. /\ IF use \in {"pipe", "input"} THEN Q!noReader ELSE Q!noWriter
        /\ state' = (state \cup {"Qclosed"}) \ {"Qflow", "Qstarve"}
        /\ q' = <<>> /\ len' = 0 /\ dlen' = 0
        /\ noblock' = FALSE /\ limit' = limit
        /\ due' = [due EXCEPT ![ctl] = <<"rr", "wr">>]
    BY <1>8 DEF Q!qclose, Q!empty
  <2>2. hand = <<>>
    BY <2>1, NothingHeld
  <2>3. Kinds' /\ SameKind
    BY <2>1, <1>2 DEF Kinds, SameKind
  <2>4. Q!BQ!Next
    BY <2>1, <2>2, <2>3, <1>1, <1>3, <1>4, ClearStep
  <2>5. QInv'
    BY <2>1, <2>3, <1>2, <1>3, <1>4, <1>5, <1>6
  <2> QED
    BY <2>4, <2>5
<1>9. CASE Q!qhangup
  <2>1. /\ state' = state \cup {"Qclosed"}
        /\ due' = [due EXCEPT ![ctl] = <<"rr", "wr">>]
        /\ UNCHANGED <<q, len, dlen, limit, noblock>>
    BY <1>9 DEF Q!qhangup, Q!qvars
  <2>2. Kinds' /\ SameKind
    BY <2>1, <1>2 DEF Kinds, SameKind
  <2> QED
    BY <2>1, <2>2, <1>2, <1>3, <1>4, <1>5, <1>7
<1>10. CASE Q!qreopen
  <2>1. /\ state' = (state \ {"Qclosed"}) \cup {"Qstarve"}
        /\ limit' = Limit
        /\ UNCHANGED <<q, len, dlen, noblock, due>>
    BY <1>10 DEF Q!qreopen, Q!qvars
  <2>2. Kinds' /\ SameKind
    BY <2>1, <1>2 DEF Kinds, SameKind
  <2>3. limit' \in Limits /\ due \in [Q!Thread -> Calls]
    BY <2>1 DEF Q!QioAssumption, QInv, Shape
  <2> QED
    BY <2>1, <2>2, <2>3, <1>2, <1>5, <1>7
<1>11. CASE Q!qflush
  <2>1. /\ use = "output" \/ (use = "input" /\ Q!noReader)
        /\ q' = <<>> /\ len' = 0 /\ dlen' = 0
        /\ UNCHANGED <<limit, noblock, state>>
        /\ due' = [due EXCEPT ![ctl] = <<"wr">>]
    BY <1>11 DEF Q!qflush, Q!empty
  <2>2. hand = <<>>
    BY <2>1, NothingHeld
  <2>3. Kinds' /\ SameKind
    BY <2>1, <1>2 DEF Kinds, SameKind
  <2>4. Q!BQ!Next
    BY <2>1, <2>2, <2>3, <1>1, <1>3, <1>4, ClearStep
  <2>5. QInv'
    BY <2>1, <2>3, <1>2, <1>3, <1>4, <1>5, <1>6
  <2> QED
    BY <2>4, <2>5
<1>12. CASE Q!qsetlimit \/ Q!qnoblock
  <2>1. /\ limit' \in Limits /\ noblock' \in BOOLEAN
        /\ UNCHANGED <<q, len, dlen, state, due>>
    BY <1>2, <1>12 DEF Q!qsetlimit, Q!qnoblock, Q!qvars
  <2>2. Kinds' /\ SameKind
    BY <2>1, <1>2 DEF Kinds, SameKind
  <2>3. due \in [Q!Thread -> Calls]
    BY DEF QInv, Shape
  <2> QED
    BY <2>1, <2>2, <2>3, <1>5, <1>7
<1> QED
  BY <1>1, <1>8, <1>9, <1>10, <1>11, <1>12

LEMMA QueueBegins ==
    ASSUME Q!QioAssumption, Q!Init
    PROVE  QInv /\ Q!BQ!Init
<1>1. /\ use \in Uses /\ q = <<>> /\ len = 0 /\ dlen = 0
      /\ limit = Limit /\ noblock = FALSE
      /\ rlock = nil /\ wlock = nil
      /\ qpc = [t \in Reader \cup Writer |-> "out"]
      /\ want = 0 /\ hand = <<>> /\ last = <<>>
      /\ due = [t \in Q!Thread |-> <<>>]
      /\ going = FALSE /\ next = 0
  BY DEF Q!Init
<1>2. use \in {"pipe", "input", "output", "print"} /\ limit \in Limits
  BY <1>1 DEF Q!QioAssumption
<1>3. PICK m \in Q!modes : state = m \cup {"Qstarve"}
  BY DEF Q!Init
<1>4. /\ m \in {{}, {"Qmsg"}, {"Qcoalesce"}, {"Qkick"}}
      /\ m = {"Qcoalesce"} => use = "input"
      /\ m = {"Qkick"} => use = "output"
  <2>1. CASE use = "pipe"
    BY <2>1, <1>3 DEF Q!modes
  <2>2. CASE use = "input"
    BY <2>2, <1>3 DEF Q!modes
  <2>3. CASE use = "output"
    BY <2>3, <1>3 DEF Q!modes
  <2>4. CASE use = "print"
    BY <2>4, <1>3 DEF Q!modes
  <2> QED
    BY <1>2, <2>1, <2>2, <2>3, <2>4
<1>5. Kinds
  BY <1>2, <1>3, <1>4 DEF Kinds
<1>6. Counted
  BY <1>1, NoBlocks DEF Counted
<1>7. Shape
  <2>1. <<>> \in Calls
    BY DEF Calls
  <2> QED
    BY <2>1, <1>1, <1>2 DEF Shape
<1>8. Places
  BY <1>1, Threads DEF Places, ReaderPlaces, WriterPlaces
<1>9. Owing
  BY <1>1, Threads DEF Owing
<1>10. Held
  BY <1>1, NoBlocks DEF Held
<1>11. Q!BQ!Init
  <2>1. Whole = <<>>
    BY <1>1, ConcatEmptySeq DEF Whole
  <2>2. Q!Items(Whole) = <<>>
    BY <2>1, BytesFew DEF Q!Items
  <2>3. due[ctl] = <<>>
    BY <1>1, Threads
  <2> QED
    BY <1>1, <2>2, <2>3 DEF Q!BQ!Init, Whole
<1> QED
  BY <1>5, <1>6, <1>7, <1>8, <1>9, <1>10, <1>11 DEF QInv

-----------------------------------------------------------------------------
\* Who waits for the queue.

\* Who is about to be woken, or kicked.
WakesReader == \E t \in Q!Thread : due[t] \in {<<"rr">>, <<"rr", "wr">>}
WakesWriter == \E t \in Q!Thread : due[t] \in {<<"wr">>, <<"rr", "wr">>}
Kicks == \E t \in Q!Thread : due[t] = <<"kick">>

\* A reader that is about to sleep, and one that sleeps;
ReaderWaits ==
    /\ (\E t \in Reader : qpc[t] = "rsleep") =>
         "Qstarve" \in state \/ q # <<>> \/ "Qclosed" \in state
    /\ (\E t \in Reader : qpc[t] = "rasleep") =>
         \/ q = <<>> /\ "Qclosed" \notin state /\ "Qstarve" \in state
         \/ WakesReader

\* a writer that is about to sleep, and one that sleeps;
WriterWaits ==
    /\ use # "print" /\ (\E t \in Writer : qpc[t] = "wsleep") =>
         \/ "Qflow" \in state \/ "Qclosed" \in state
         \/ len + Q!space(hand) < limit
    /\ use # "print" /\ (\E t \in Writer : qpc[t] = "wasleep") =>
         \/ /\ "Qflow" \in state /\ "Qclosed" \notin state
            /\ len > 0 \/ hand # <<>>
         \/ WakesWriter

\* and a device that has stopped.  Only the messages of a network, and the
\* segments of tcp, may be empty blocks.
DeviceWaits ==
    /\ use = "output" /\ "Qkick" \notin state /\ "Qmsg" \notin state => NoneEmpty
    /\ use \in {"output", "print"} /\ "Qkick" \notin state /\ ~going =>
         \/ /\ "Qstarve" \in state \/ "Qclosed" \in state
            /\ use = "output" => q = <<>>
         \/ Kicks

Waiting == ReaderWaits /\ WriterWaits /\ DeviceWaits

\* What the flags of the queue leave alone.
SameModes == SameKind /\ ("Qkick" \in state' <=> "Qkick" \in state)

LEMMA CallsAre ==
    /\ Len(<<"rr", "wr">>) = 2 /\ <<"rr", "wr">>[1] = "rr"
    /\ <<"rr", "wr">>[2] = "wr"
    /\ \A c \in {"rr", "wr", "kick"} : Len(<<c>>) = 1 /\ <<c>>[1] = c
    /\ Len(<<>>) = 0
    /\ <<>> \notin {<<"rr">>, <<"wr">>, <<"kick">>, <<"rr", "wr">>}
<1>1. Len(<<"rr", "wr">>) = 2 /\ Len(<<"wr">>) = 1 /\ Len(<<>>) = 0
      /\ Len(<<"rr">>) = 1 /\ Len(<<"kick">>) = 1
  OBVIOUS
<1>2. <<>> \notin {<<"rr">>, <<"wr">>, <<"kick">>, <<"rr", "wr">>}
  BY <1>1
<1> QED
  BY <1>1, <1>2

\* Those are the calls to come of the specification.
LEMMA Coming ==
    ASSUME due \in [Q!Thread -> Calls]
    PROVE  /\ WakesReader => Q!coming("rr")
           /\ WakesWriter => Q!coming("wr")
           /\ Kicks => Q!coming("kick")
<1>1. ASSUME WakesReader PROVE Q!coming("rr")
  <2>1. PICK t \in Q!Thread : due[t] = <<"rr">> \/ due[t] = <<"rr", "wr">>
    BY <1>1 DEF WakesReader
  <2>2. 1 \in DOMAIN due[t] /\ due[t][1] = "rr"
    BY <2>1
  <2> QED
    BY <2>2 DEF Q!coming
<1>2. ASSUME WakesWriter PROVE Q!coming("wr")
  <2>1. PICK t \in Q!Thread : due[t] = <<"wr">> \/ due[t] = <<"rr", "wr">>
    BY <1>2 DEF WakesWriter
  <2>2. CASE due[t] = <<"wr">>
    <3>1. 1 \in DOMAIN due[t] /\ due[t][1] = "wr"
      BY <2>2
    <3> QED
      BY <3>1 DEF Q!coming
  <2>3. CASE due[t] = <<"rr", "wr">>
    <3>1. 2 \in DOMAIN due[t] /\ due[t][2] = "wr"
      BY <2>3
    <3> QED
      BY <3>1 DEF Q!coming
  <2> QED
    BY <2>1, <2>2, <2>3
<1>3. ASSUME Kicks PROVE Q!coming("kick")
  <2>1. PICK t \in Q!Thread : due[t] = <<"kick">>
    BY <1>3 DEF Kicks
  <2>2. 1 \in DOMAIN due[t] /\ due[t][1] = "kick"
    BY <2>1
  <2> QED
    BY <2>2 DEF Q!coming
<1> QED
  BY <1>1, <1>2, <1>3

LEMMA NobodyWaits ==
    ASSUME QInv, Waiting
    PROVE  Q!NoSleeperForgotten
<1>1. due \in [Q!Thread -> Calls]
  BY DEF QInv, Shape
<1> QED
  BY <1>1, Coming DEF Waiting, ReaderWaits, WriterWaits, DeviceWaits,
     Q!NoSleeperForgotten, Q!notempty

\* A step of somebody who owed nothing leaves what the others owe.
LEMMA OthersCall ==
    ASSUME NEW t \in Q!Thread, due[t] = <<>>,
           \A u \in Q!Thread : u # t => due'[u] = due[u]
    PROVE  /\ WakesReader => WakesReader'
           /\ WakesWriter => WakesWriter'
           /\ Kicks => Kicks'
<1>1. due[t] \notin {<<"rr">>, <<"wr">>, <<"kick">>, <<"rr", "wr">>}
  BY CallsAre
<1> QED
  BY <1>1 DEF WakesReader, WakesWriter, Kicks

LEMMA WakeWaits ==
    ASSUME Q!QioAssumption, QInv, Waiting, NEW t \in Q!Thread, Q!wake(t),
           use' = use
    PROVE  Waiting'
<1>1. /\ UNCHANGED <<q, len, hand, limit, state>>
      /\ due[t] # <<>> /\ due' = [due EXCEPT ![t] = Tail(due[t])]
      /\ going' = (going \/ Head(due[t]) = "kick")
      /\ qpc' = [u \in DOMAIN qpc |->
                  CASE Head(due[t]) = "rr" /\ qpc[u] = "rasleep" -> "read"
                    [] Head(due[t]) = "wr" /\ qpc[u] = "wasleep" -> "full"
                    [] OTHER -> qpc[u]]
  BY Zenon DEF Q!wake, Q!qvars
<1>2. due \in [Q!Thread -> Calls]
  BY DEF QInv, Shape
<1>3. /\ \A u \in Reader \cup Writer :
           qpc'[u] = CASE Head(due[t]) = "rr" /\ qpc[u] = "rasleep" -> "read"
                       [] Head(due[t]) = "wr" /\ qpc[u] = "wasleep" -> "full"
                       [] OTHER -> qpc[u]
  <2>1. DOMAIN qpc = Reader \cup Writer
    BY DEF QInv, Places
  <2> QED
    BY <1>1, <2>1
<1>4. /\ due'[t] = Tail(due[t])
      /\ \A u \in Q!Thread : u # t => due'[u] = due[u]
  BY <1>1, <1>2
<1>5. \/ due[t] = <<"rr">> \/ due[t] = <<"wr">> \/ due[t] = <<"kick">>
      \/ due[t] = <<"rr", "wr">>
  BY <1>1, <1>2, CallsMade
<1>6. /\ Head(due[t]) \in {"rr", "wr", "kick"}
      /\ due[t] \in {<<"rr">>, <<"rr", "wr">>} => Head(due[t]) = "rr"
      /\ due[t] = <<"wr">> => Head(due[t]) = "wr"
      /\ due[t] = <<"kick">> => Head(due[t]) = "kick"
      /\ due[t] = <<"rr", "wr">> => due'[t] = <<"wr">>
  <2>1. /\ Head(<<"rr">>) = "rr" /\ Head(<<"wr">>) = "wr"
        /\ Head(<<"kick">>) = "kick" /\ Head(<<"rr", "wr">>) = "rr"
        /\ Len(<<"rr">>) = 1 /\ Len(<<"rr", "wr">>) = 2
    OBVIOUS
  <2>2. CASE due[t] = <<"rr", "wr">>
    <3>1. due[t] \notin {<<"rr">>, <<"wr">>, <<"kick">>}
      BY <2>1, <2>2
    <3>2. due'[t] = <<"wr">>
      BY <2>2, <1>4, CallsMade
    <3> QED
      BY Zenon, <2>1, <2>2, <3>1, <3>2
  <2>3. CASE due[t] \in {<<"rr">>, <<"wr">>, <<"kick">>}
    <3>1. due[t] # <<"rr", "wr">>
      BY <2>1, <2>3
    <3> QED
      BY <2>1, <2>3, <3>1
  <2> QED
    BY <1>5, <2>2, <2>3
<1>7. ASSUME Head(due[t]) # "rr", WakesReader PROVE WakesReader'
  BY <1>4, <1>6, <1>7 DEF WakesReader
<1>8. ASSUME Head(due[t]) # "wr", WakesWriter PROVE WakesWriter'
  BY <1>4, <1>6, <1>8 DEF WakesWriter
<1>9. ASSUME Head(due[t]) # "kick", Kicks PROVE Kicks'
  BY <1>4, <1>6, <1>9 DEF Kicks
<1>10. \A u \in Reader \cup Writer :
         /\ qpc'[u] = "rsleep" => qpc[u] = "rsleep"
         /\ qpc'[u] = "wsleep" => qpc[u] = "wsleep"
         /\ qpc'[u] = "rasleep" => qpc[u] = "rasleep" /\ Head(due[t]) # "rr"
         /\ qpc'[u] = "wasleep" => qpc[u] = "wasleep" /\ Head(due[t]) # "wr"
  BY <1>3
<1>11. ReaderWaits'
  BY <1>1, <1>7, <1>10 DEF Waiting, ReaderWaits
<1>12. WriterWaits'
  BY <1>1, <1>8, <1>10 DEF Waiting, WriterWaits
<1>13. DeviceWaits'
  BY <1>1, <1>9 DEF Waiting, DeviceWaits, NoneEmpty
<1> QED
  BY <1>11, <1>12, <1>13 DEF Waiting

\* Who has no part in a use of the queue does not wait.
LEMMA OthersOut ==
    ASSUME QInv'
    PROVE  /\ use' \notin {"pipe", "input"} => ReaderWaits'
           /\ use' = "input" => WriterWaits'
           /\ use' \in {"pipe", "input"} => DeviceWaits'
  BY DEF QInv, Places, ReaderWaits, WriterWaits, DeviceWaits

\* A reader that leaves the blocks alone.
LEMMA QuietReaderWaits ==
    ASSUME Q!QioAssumption, QInv, Waiting, NEW t \in Reader,
           use \in {"pipe", "input"}, use' = use,
           \/ Q!qlockr(t) \/ Q!qwait(t) \/ Q!sleepr(t) \/ Q!interruptedr(t)
           \/ Q!qunlockr(t)
    PROVE  Waiting'
<1>1. /\ UNCHANGED <<q, len, limit, hand, due>>
      /\ state' = state \/ state' = state \cup {"Qstarve"}
  BY DEF Q!qlockr, Q!qwait, Q!sleepr, Q!interruptedr, Q!qunlockr, Q!qvars
<1>2. QInv'
  BY QuietReaderSteps
<1>3. \/ \E a : \E b \in {"read", "out"} : RMoved(t, a, b)
      \/ RMoved(t, "read", "rsleep") /\ "Qstarve" \in state'
      \/ RMoved(t, "rsleep", "rasleep") /\ ~Q!notempty
  <2>1. CASE Q!sleepr(t)
    BY <2>1, QuietReaderSteps
  <2>2. CASE Q!qwait(t)
    BY <2>2, QuietReaderSteps
  <2>3. CASE Q!qlockr(t) \/ Q!interruptedr(t) \/ Q!qunlockr(t)
    BY <2>3, QuietReaderSteps
  <2> QED
    BY <2>1, <2>2, <2>3
<1>4. /\ \A u \in Reader : u # t => qpc'[u] = qpc[u]
      /\ \A u \in Writer : qpc'[u] = qpc[u]
  BY <1>3 DEF RMoved
<1>5. /\ qpc'[t] = "rsleep" => "Qstarve" \in state'
      /\ qpc'[t] = "rasleep" => qpc[t] = "rsleep" /\ ~Q!notempty
  BY <1>3 DEF RMoved
<1>6. ReaderWaits'
  BY <1>1, <1>4, <1>5 DEF Waiting, ReaderWaits, WakesReader, Q!notempty
<1>7. WriterWaits'
  BY <1>1, <1>4 DEF Waiting, WriterWaits, WakesWriter
<1> QED
  BY <1>2, <1>6, <1>7, OthersOut DEF Waiting

\* A queue that writers sleep on has room for more than nothing.
LEMMA LimitIs ==
    ASSUME Q!QioAssumption, QInv
    PROVE  /\ limit \in Nat /\ limit >= 2 /\ len \in Nat
           /\ limit \div 2 \in Nat /\ 0 < limit \div 2 /\ limit \div 2 <= limit
           /\ q = <<>> => len = 0
<1>1. limit \in Nat /\ limit >= 2
  BY DEF Q!QioAssumption, QInv, Shape
<1>2. len \in Nat /\ (q = <<>> => len = 0)
  BY SpaceNat, NoBlocks DEF QInv, Counted
<1> QED
  BY <1>1, <1>2

LEMMA QuietWriterWaits ==
    ASSUME Q!QioAssumption, QInv, Waiting, NEW t \in Writer, use # "input",
           use' = use,
           \/ Q!qlockw(t) \/ Q!qfullWait(t) \/ Q!sleepw(t) \/ Q!interruptedw(t)
    PROVE  Waiting'
<1>1. /\ UNCHANGED <<q, len, limit, hand, due, going>>
      /\ state' = state \/ state' = state \cup {"Qflow"}
  BY DEF Q!qlockw, Q!qfullWait, Q!sleepw, Q!interruptedw, Q!qvars
<1>2. QInv'
  BY QuietWriterSteps
<1>3. \/ \E a : \E b \in {"write", "out", "full"} : WMoved(t, a, b)
      \/ WMoved(t, "full", "wsleep") /\ "Qflow" \in state'
      \/ WMoved(t, "wsleep", "wasleep") /\ ~Q!qnotfull
  <2>1. CASE Q!sleepw(t)
    BY <2>1, QuietWriterSteps
  <2>2. CASE Q!qfullWait(t)
    BY <2>2, QuietWriterSteps
  <2>3. CASE Q!qlockw(t) \/ Q!interruptedw(t)
    BY <2>3, QuietWriterSteps
  <2> QED
    BY <2>1, <2>2, <2>3
<1>4. /\ \A u \in Writer : u # t => qpc'[u] = qpc[u]
      /\ \A u \in Reader : qpc'[u] = qpc[u]
  BY <1>3 DEF WMoved
<1>5. /\ qpc'[t] = "wsleep" => "Qflow" \in state'
      /\ qpc'[t] = "wasleep" => qpc[t] = "wsleep" /\ ~Q!qnotfull
  BY <1>3 DEF WMoved
<1>6. ReaderWaits'
  BY <1>1, <1>4 DEF Waiting, ReaderWaits, WakesReader
<1>7. ASSUME use # "print", NEW u \in Writer, qpc'[u] = "wsleep"
      PROVE  \/ "Qflow" \in state' \/ "Qclosed" \in state'
             \/ len' + Q!space(hand') < limit'
  BY <1>1, <1>4, <1>5, <1>7 DEF Waiting, WriterWaits
<1>8. ASSUME use # "print", NEW u \in Writer, qpc'[u] = "wasleep"
      PROVE  \/ /\ "Qflow" \in state' /\ "Qclosed" \notin state'
                /\ len' > 0 \/ hand' # <<>>
             \/ WakesWriter'
  <2>1. CASE u # t
    BY <2>1, <1>1, <1>4, <1>8 DEF Waiting, WriterWaits, WakesWriter
  <2>2. CASE u = t
    <3>1. qpc[t] = "wsleep" /\ "Qclosed" \notin state /\ ~(len < limit)
      BY <2>2, <1>5, <1>8 DEF Q!qnotfull
    <3>2. Q!space(hand) \in Nat
      BY SpaceNat DEF QInv, Held
    <3>3. "Qflow" \in state
      BY <3>1, <3>2, <1>8, LimitIs DEF Waiting, WriterWaits
    <3>4. len > 0
      BY <3>1, LimitIs
    <3> QED
      BY <3>1, <3>3, <3>4, <1>1
  <2> QED
    BY <2>1, <2>2
<1>9. WriterWaits'
  BY <1>7, <1>8 DEF WriterWaits
<1>10. DeviceWaits'
  BY <1>1 DEF Waiting, DeviceWaits, Kicks, NoneEmpty
<1> QED
  BY <1>6, <1>9, <1>10 DEF Waiting

\* A reader that takes blocks holds them, or they were empty.
LEMMA ReadWaits ==
    ASSUME Q!QioAssumption, QInv, Waiting, NEW t \in Reader,
           use \in {"pipe", "input"}, use' = use, Q!qread(t)
    PROVE  Waiting'
<1>1. /\ UNCHANGED <<state, limit, due>> /\ qpc[t] = "read"
      /\ qpc' = qpc => "Qcoalesce" \in state
  <2>1. UNCHANGED <<state, limit, due>> /\ qpc[t] = "read"
    BY DEF Q!qread, Q!Goto
  <2>2. ASSUME "Qcoalesce" \notin state PROVE qpc' # qpc
    <3>1. qpc' = [qpc EXCEPT ![t] = "copy"]
      BY <2>2 DEF Q!qread, Q!Goto
    <3>2. qpc'[t] = "copy"
      BY <3>1 DEF QInv, Places
    <3> QED
      BY <2>1, <3>2
  <2> QED
    BY <2>1, <2>2
<1>2. /\ QInv'
      /\ qpc' = qpc \/ RMoved(t, "read", "copy")
      /\ len' + Q!space(hand') <= len /\ len' \in Nat
      /\ Q!space(hand') \in Nat
  BY ReadSteps
<1>3. /\ \A u \in Writer : qpc'[u] = qpc[u]
      /\ \A u \in Reader : u # t => qpc'[u] = qpc[u]
      /\ qpc'[t] \in {"read", "copy"}
  BY <1>1, <1>2 DEF RMoved
<1>4. \A u \in Reader : qpc'[u] \notin {"rsleep", "rasleep"}
  <2>1. \A u \in Reader : u # t => qpc[u] = "out"
    BY <1>1, Threads DEF QInv, Places
  <2> QED
    BY <2>1, <1>3
<1>5. ReaderWaits'
  BY <1>4 DEF ReaderWaits
<1>6. CASE qpc' = qpc
  <2>1. use' = "input"
    BY <1>1, <1>6 DEF QInv, Kinds
  <2> QED
    BY <2>1, <1>2, <1>5, OthersOut DEF Waiting
<1>7. CASE RMoved(t, "read", "copy")
  <2>1. hand' # <<>>
    BY <1>2, <1>7 DEF QInv, Held, RMoved
  <2>2. Q!space(hand) \in Nat /\ limit \in Nat /\ len \in Nat
    BY SpaceNat, LimitIs DEF QInv, Held
  <2>3. len + Q!space(hand) < limit => len' + Q!space(hand') < limit
    BY <1>2, <2>2
  <2>4. WriterWaits'
    BY <2>1, <2>3, <1>1, <1>3 DEF Waiting, WriterWaits, WakesWriter
  <2> QED
    BY <2>4, <1>2, <1>5, OthersOut DEF Waiting
<1> QED
  BY <1>2, <1>6, <1>7

\* What restart does for a sleeping writer.
LEMMA RestartWaits ==
    ASSUME Q!QioAssumption, QInv, Waiting, NEW t \in Q!Thread, due[t] = <<>>,
           use' = use, limit' = limit, hand' = <<>>, len' \in Nat,
           len' <= len + Q!space(hand), \A u \in Writer : qpc'[u] = qpc[u],
           \/ Q!restart(t, len', limit \div 2) \/ Q!restart(t, len', limit)
    PROVE  WriterWaits'
<1>0. due \in [Q!Thread -> Calls]
  BY DEF QInv, Shape
<1>1. /\ limit \in Nat /\ 0 < limit \div 2 /\ limit \div 2 <= limit
      /\ limit \div 2 \in Nat /\ len \in Nat /\ limit >= 2
  BY LimitIs
<1>2. Q!space(hand) \in Nat /\ Q!space(hand') = 0
  BY SpaceNat, NoBlocks DEF QInv, Held
<1>3. CASE /\ "Qflow" \in state /\ len' < limit
           /\ state' = state \ {"Qflow"}
           /\ due' = [due EXCEPT ![t] = <<"wr">>]
  <2>1. len' + Q!space(hand') < limit'
    BY <1>1, <1>2, <1>3
  <2>2. due'[t] = <<"wr">>
    BY <1>0, <1>3
  <2>3. WakesWriter'
    BY <2>2 DEF WakesWriter
  <2> QED
    BY <2>1, <2>3 DEF WriterWaits
<1>4. CASE /\ UNCHANGED <<state, due>>
           /\ "Qflow" \notin state \/ ~(len' < limit \div 2)
  <2>1. len + Q!space(hand) < limit => len' + Q!space(hand') < limit'
    BY <1>1, <1>2
  <2>2. "Qflow" \in state => len' > 0
    BY <1>1, <1>4
  <2> QED
    BY <2>1, <2>2, <1>4 DEF Waiting, WriterWaits, WakesWriter
<1>5. len' < limit \div 2 => len' < limit
  BY <1>1
<1> QED
  BY <1>3, <1>4, <1>5 DEF Q!restart

LEMMA DoneWaits ==
    ASSUME Q!QioAssumption, QInv, Waiting, NEW t \in Reader,
           use \in {"pipe", "input"}, use' = use,
           Q!qputback(t) \/ Q!qbread(t)
    PROVE  Waiting'
<1>1. /\ QInv'
      /\ RMoved(t, "copy", "rdone") \/ RMoved(t, "read", "rdone")
      /\ hand' = <<>> /\ len' \in Nat /\ len' <= len + Q!space(hand)
      /\ Q!restart(t, len', limit \div 2) /\ limit' = limit
  BY DoneSteps
<1>2. /\ \A u \in Writer : qpc'[u] = qpc[u]
      /\ \A u \in Reader : qpc'[u] \notin {"rsleep", "rasleep"}
      /\ qpc[t] # "rdone"
  BY <1>1 DEF RMoved
<1>3. due[t] = <<>> /\ t \in Q!Thread
  BY <1>2, Threads DEF QInv, Owing
<1>4. WriterWaits'
  BY <1>1, <1>2, <1>3, RestartWaits
<1>5. ReaderWaits'
  BY <1>2 DEF ReaderWaits
<1> QED
  BY <1>1, <1>4, <1>5, OthersOut DEF Waiting

\* What awaken does for those who wait.
LEMMA AddsCall ==
    ASSUME QInv, NEW t \in Q!Thread, NEW flags \in SUBSET {"Qflow"},
           NEW call \in {"rr", "kick"}, Adds(t, flags, call)
    PROVE  /\ "Qclosed" \in state' <=> "Qclosed" \in state
           /\ "Qkick" \in state' <=> "Qkick" \in state
           /\ "Qmsg" \in state' <=> "Qmsg" \in state
           /\ "Qflow" \in state => "Qflow" \in state'
           /\ "Qstarve" \in state /\ call = "rr" => WakesReader'
           /\ "Qstarve" \in state /\ call = "kick" => Kicks'
           /\ WakesReader => WakesReader'
           /\ WakesWriter => WakesWriter'
           /\ Kicks => Kicks'
<1>1. due[t] = <<>> /\ Q!awaken(t, flags, call)
  BY DEF Adds
<1>2. due \in [Q!Thread -> Calls]
  BY DEF QInv, Shape
<1>3. /\ \/ state' = (state \cup flags) \ {"Qstarve"}
         \/ state' = state \cup flags
      /\ \/ due' = [due EXCEPT ![t] = <<call>>]
         \/ due' = [due EXCEPT ![t] = <<>>]
      /\ "Qstarve" \in state => due' = [due EXCEPT ![t] = <<call>>]
  BY <1>1 DEF Q!awaken
<1>4. \A u \in Q!Thread : u # t => due'[u] = due[u]
  BY <1>2, <1>3
<1>5. "Qstarve" \in state => due'[t] = <<call>>
  BY <1>2, <1>3
<1>6. /\ "Qstarve" \in state /\ call = "rr" => WakesReader'
      /\ "Qstarve" \in state /\ call = "kick" => Kicks'
  BY <1>5 DEF WakesReader, Kicks
<1> QED
  BY <1>1, <1>3, <1>4, <1>6, OthersCall

LEMMA ReaderAdded ==
    ASSUME QInv, QInv', Waiting, NEW t \in Q!Thread,
           NEW flags \in SUBSET {"Qflow"}, NEW call \in {"rr", "kick"},
           Adds(t, flags, call), use' = use,
           use \in {"pipe", "input"} => call = "rr",
           \A u \in Reader : qpc'[u] = qpc[u]
    PROVE  ReaderWaits'
<1>1. CASE use \in {"pipe", "input"}
  <2>1. q' # <<>>
    BY DEF Adds
  <2>2. (\E u \in Reader : qpc[u] = "rasleep") => WakesReader'
    BY <1>1, AddsCall DEF Waiting, ReaderWaits
  <2> QED
    BY <2>1, <2>2 DEF ReaderWaits
<1>2. CASE use \notin {"pipe", "input"}
  BY <1>2, OthersOut
<1> QED
  BY <1>1, <1>2

LEMMA DeviceAdded ==
    ASSUME QInv, QInv', Waiting, NEW t \in Q!Thread,
           NEW flags \in SUBSET {"Qflow"}, NEW call \in {"rr", "kick"},
           Adds(t, flags, call), use' = use, going' = going,
           use \in {"output", "print"} => call = "kick",
           use = "output" => "Qclosed" \notin state,
           use = "output" => \/ {"Qkick", "Qmsg"} \cap state # {}
                             \/ (NoneEmpty => NoneEmpty')
    PROVE  DeviceWaits'
<1>1. CASE use \in {"output", "print"}
  <2>1. /\ "Qclosed" \in state' <=> "Qclosed" \in state
        /\ "Qkick" \in state' <=> "Qkick" \in state
        /\ "Qmsg" \in state' <=> "Qmsg" \in state
        /\ "Qstarve" \in state => Kicks'
        /\ Kicks => Kicks'
    BY <1>1, AddsCall
  <2>2. use' = "output" /\ "Qkick" \notin state' /\ "Qmsg" \notin state'
          => NoneEmpty'
    BY <2>1 DEF Waiting, DeviceWaits
  <2>3. ASSUME "Qkick" \notin state', ~going'
        PROVE  \/ /\ "Qstarve" \in state' \/ "Qclosed" \in state'
                  /\ use' = "output" => q' = <<>>
               \/ Kicks'
    <3>1. \/ /\ "Qstarve" \in state \/ "Qclosed" \in state
             /\ use = "output" => q = <<>>
          \/ Kicks
      BY <1>1, <2>1, <2>3 DEF Waiting, DeviceWaits
    <3>2. CASE "Qstarve" \in state \/ Kicks
      BY <2>1, <3>2
    <3>3. CASE "Qclosed" \in state
      BY <2>1, <3>3
    <3> QED
      BY <3>1, <3>2, <3>3
  <2> QED
    BY <2>2, <2>3 DEF DeviceWaits
<1>2. CASE use \notin {"output", "print"}
  BY <1>2 DEF DeviceWaits
<1> QED
  BY <1>1, <1>2

\* A writer that has added a block, unless empty blocks are written to
\* serial lines.
LEMMA WriteWaits ==
    ASSUME Q!QioAssumption, QInv, Waiting, Hazards = {}, NEW t \in Writer,
           use # "input", use' = use, Q!qbwrite(t)
    PROVE  Waiting'
<1>1. /\ QInv'
      /\ \/ WMoved(t, "write", "out") /\ UNCHANGED <<q, len, state, due>>
         \/ /\ WMoved(t, "write", "full") /\ "Qclosed" \notin state
            /\ Adds(t, {}, IF use = "pipe" THEN "rr" ELSE "kick")
            /\ \/ use = "pipe" \/ "empty" \in Hazards
               \/ {"Qkick", "Qmsg"} \cap state # {}
               \/ (NoneEmpty => NoneEmpty')
      /\ UNCHANGED <<limit, hand, going>>
  BY WriteSteps
<1>2. /\ \A u \in Reader : qpc'[u] = qpc[u]
      /\ \A u \in Writer : qpc'[u] \notin {"wsleep", "wasleep"}
  BY <1>1 DEF WMoved
<1>3. WriterWaits'
  BY <1>2 DEF WriterWaits
<1>4. CASE UNCHANGED <<q, len, state, due>>
  <2>1. ReaderWaits'
    BY <1>2, <1>4 DEF Waiting, ReaderWaits, WakesReader
  <2>2. DeviceWaits'
    BY <1>1, <1>4 DEF Waiting, DeviceWaits, Kicks, NoneEmpty
  <2> QED
    BY <1>3, <2>1, <2>2 DEF Waiting
<1>5. CASE /\ "Qclosed" \notin state
           /\ Adds(t, {}, IF use = "pipe" THEN "rr" ELSE "kick")
           /\ \/ use = "pipe" \/ "empty" \in Hazards
              \/ {"Qkick", "Qmsg"} \cap state # {}
              \/ (NoneEmpty => NoneEmpty')
  <2>1. PICK call \in {"rr", "kick"} : call = IF use = "pipe" THEN "rr" ELSE "kick"
    OBVIOUS
  <2>2. Adds(t, {}, call) /\ {} \in SUBSET {"Qflow"} /\ t \in Q!Thread
    BY <1>5, <2>1, Threads
  <2>3. ReaderWaits'
    BY <1>1, <1>2, <2>1, <2>2, ReaderAdded
  <2>4. DeviceWaits'
    <3>1. use = "output" => \/ {"Qkick", "Qmsg"} \cap state # {}
                            \/ (NoneEmpty => NoneEmpty')
      BY <1>5
    <3>2. use \in {"output", "print"} => call = "kick"
      BY <2>1
    <3> QED
      BY <3>1, <3>2, <1>1, <1>5, <2>2, DeviceAdded
  <2> QED
    BY <1>3, <2>3, <2>4 DEF Waiting
<1> QED
  BY <1>1, <1>4, <1>5

LEMMA ProducerWaits ==
    ASSUME Q!QioAssumption, QInv, Waiting, use' = use, Q!producer
    PROVE  Waiting'
<1>1. /\ QInv' /\ UNCHANGED <<limit, qpc, hand, going>>
      /\ use \in {"input", "print"}
      /\ \/ /\ UNCHANGED <<q, len, due>>
            /\ state' = state \/ state' = state \cup {"Qflow"}
         \/ \E flags \in SUBSET {"Qflow"} :
              Adds(intr, flags, IF use = "print" THEN "kick" ELSE "rr")
  BY ProducerSteps
<1>2. WriterWaits'
  <2>1. use = "print" => WriterWaits'
    BY DEF WriterWaits
  <2> QED
    BY <2>1, <1>1, OthersOut
<1>3. CASE /\ UNCHANGED <<q, len, due>>
           /\ state' = state \/ state' = state \cup {"Qflow"}
  <2>1. ReaderWaits'
    BY <1>1, <1>3 DEF Waiting, ReaderWaits, WakesReader
  <2>2. DeviceWaits'
    BY <1>1, <1>3 DEF Waiting, DeviceWaits, Kicks, NoneEmpty
  <2> QED
    BY <1>2, <2>1, <2>2 DEF Waiting
<1>4. ASSUME NEW flags \in SUBSET {"Qflow"},
             Adds(intr, flags, IF use = "print" THEN "kick" ELSE "rr")
      PROVE  Waiting'
  <2>1. PICK call \in {"rr", "kick"} : call = IF use = "print" THEN "kick" ELSE "rr"
    OBVIOUS
  <2>2. Adds(intr, flags, call) /\ intr \in Q!Thread
    BY <1>4, <2>1, Threads
  <2>3. ReaderWaits'
    <3>1. use \in {"pipe", "input"} => call = "rr"
      BY <2>1
    <3> QED
      BY <1>1, <2>2, <3>1, ReaderAdded
  <2>4. DeviceWaits'
    <3>1. use \in {"output", "print"} => call = "kick"
      BY <1>1, <2>1
    <3>2. use # "output"
      BY <1>1
    <3> QED
      BY <3>1, <3>2, <1>1, <2>2, DeviceAdded
  <2> QED
    BY <1>2, <2>3, <2>4 DEF Waiting
<1> QED
  BY <1>1, <1>3, <1>4

LEMMA ConsumerWaits ==
    ASSUME Q!QioAssumption, QInv, Waiting, use' = use, Q!consumer
    PROVE  Waiting'
<1>1. /\ QInv'
      /\ UNCHANGED <<limit, qpc, hand>>
      /\ use \in {"output", "print"} /\ hand = <<>> /\ due[intr] = <<>>
      /\ len' \in Nat /\ len' <= len
      /\ "Qkick" \in state \/ going
      /\ "Qmsg" \notin state /\ "Qkick" \notin state /\ NoneEmpty
           => NoneEmpty'
      /\ \/ /\ q' = <<>> /\ state' = state \cup {"Qstarve"}
            /\ due' = due /\ "Qkick" \notin state
            /\ "Qmsg" \in state \/ NoneEmpty => q = <<>>
         \/ /\ \/ Q!restart(intr, len', limit \div 2)
               \/ Q!restart(intr, len', limit)
            /\ going' = going
  BY ConsumerSteps
<1>2. ReaderWaits'
  BY <1>1, OthersOut
<1>3. /\ "Qkick" \in state' <=> "Qkick" \in state
      /\ "Qmsg" \in state' <=> "Qmsg" \in state
  BY <1>1 DEF Q!restart
<1>4. "Qkick" \notin state' /\ "Qmsg" \notin state' /\ use' = "output"
        => NoneEmpty'
  BY <1>1, <1>3 DEF Waiting, DeviceWaits
<1>5. CASE /\ q' = <<>> /\ state' = state \cup {"Qstarve"}
           /\ due' = due /\ "Qkick" \notin state
           /\ "Qmsg" \in state \/ NoneEmpty => q = <<>>
  <2>1. DeviceWaits'
    BY <1>4, <1>5 DEF DeviceWaits
  <2>2. WriterWaits'
    <3>1. CASE "Qmsg" \in state \/ NoneEmpty
      <4>1. q = <<>> /\ len = 0 /\ len' = 0
        <5>1. q = <<>>
          BY <1>5, <3>1
        <5>2. len = 0
          BY <5>1, LimitIs
        <5> QED
          BY <5>1, <5>2, <1>1
      <4> QED
        BY <4>1, <1>1, <1>5 DEF Waiting, WriterWaits, WakesWriter
    <3>2. CASE use = "print"
      BY <3>2 DEF WriterWaits
    <3>3. CASE "Qkick" \in state
      BY <3>3, <1>5
    <3> QED
      BY <3>1, <3>2, <3>3, <1>1 DEF Waiting, DeviceWaits
  <2> QED
    BY <1>2, <2>1, <2>2 DEF Waiting
<1>6. CASE /\ \/ Q!restart(intr, len', limit \div 2)
              \/ Q!restart(intr, len', limit)
           /\ going' = going
  <2>1. intr \in Q!Thread /\ Q!space(hand) = 0 /\ len \in Nat
    BY <1>1, Threads, NoBlocks, LimitIs
  <2>2. len' <= len + Q!space(hand)
    BY <2>1, <1>1
  <2>3. WriterWaits'
    BY <2>1, <2>2, <1>1, <1>6, RestartWaits
  <2>4. DeviceWaits'
    BY <1>1, <1>3, <1>4, <1>6 DEF DeviceWaits
  <2> QED
    BY <1>2, <2>3, <2>4 DEF Waiting
<1> QED
  BY <1>1, <1>5, <1>6

\* Whoever closes, hangs up or flushes the queue wakes those who wait, unless
\* the limit of an output queue is lowered under them.
LEMMA ControlWaits ==
    ASSUME Q!QioAssumption, QInv, Waiting, Hazards = {}, use' = use, Q!control
    PROVE  Waiting'
<1>1. /\ due[ctl] = <<>> /\ UNCHANGED <<qpc, hand, going>>
      /\ \/ Q!qclose \/ Q!qhangup \/ Q!qreopen \/ Q!qflush \/ Q!qsetlimit
         \/ Q!qnoblock
  BY DEF Q!control
<1>2. QInv' /\ ctl \in Q!Thread /\ due \in [Q!Thread -> Calls]
  BY ControlSteps, Threads DEF QInv, Shape
<1>3. ASSUME NEW d, due' = [due EXCEPT ![ctl] = d]
      PROVE  due'[ctl] = d /\ (Kicks => Kicks')
  <2>1. due'[ctl] = d /\ \A u \in Q!Thread : u # ctl => due'[u] = due[u]
    BY <1>2, <1>3
  <2> QED
    BY <2>1, <1>1, <1>2, OthersCall
<1>4. q' = <<>> => NoneEmpty'
  BY DEF NoneEmpty
<1>5. /\ limit \in Nat /\ limit >= 2 /\ len \in Nat /\ Q!space(hand) \in Nat
      /\ Q!space(<<>>) = 0
  BY LimitIs, SpaceNat, NoBlocks DEF QInv, Held
<1>6. CASE Q!qclose \/ Q!qhangup
  <2>1. /\ "Qclosed" \in state' /\ due' = [due EXCEPT ![ctl] = <<"rr", "wr">>]
        /\ \/ q' = <<>>
           \/ q' = q /\ state' = state \cup {"Qclosed"}
    BY <1>6 DEF Q!qclose, Q!qhangup, Q!empty, Q!qvars
  <2>2. due'[ctl] = <<"rr", "wr">> /\ (Kicks => Kicks')
    BY <2>1, <1>3
  <2>3. WakesReader' /\ WakesWriter'
    BY <2>2, <1>2 DEF WakesReader, WakesWriter
  <2>4. ReaderWaits' /\ WriterWaits'
    BY <2>1, <2>3 DEF ReaderWaits, WriterWaits
  <2>5. DeviceWaits'
    <3>1. CASE q' = <<>>
      BY <3>1, <2>1, <1>4 DEF DeviceWaits
    <3>2. CASE q' = q /\ state' = state \cup {"Qclosed"}
      BY <3>2, <2>1, <2>2, <1>1 DEF Waiting, DeviceWaits, NoneEmpty
    <3> QED
      BY <2>1, <3>1, <3>2
  <2> QED
    BY <2>4, <2>5 DEF Waiting
<1>7. CASE Q!qreopen
  <2>1. /\ Q!noReader /\ Q!noWriter /\ q' = q /\ due' = due
        /\ state' = (state \ {"Qclosed"}) \cup {"Qstarve"}
    BY <1>7 DEF Q!qreopen, Q!qvars
  <2>2. ReaderWaits' /\ WriterWaits'
    BY <2>1, <1>1 DEF ReaderWaits, WriterWaits, Q!noReader, Q!noWriter
  <2>3. DeviceWaits'
    BY <2>1, <1>1 DEF Waiting, DeviceWaits, NoneEmpty, Kicks
  <2> QED
    BY <2>2, <2>3 DEF Waiting
<1>8. CASE Q!qflush
  <2>1. /\ use = "output" \/ (use = "input" /\ Q!noReader)
        /\ q' = <<>> /\ len' = 0 /\ UNCHANGED <<limit, state>>
        /\ due' = [due EXCEPT ![ctl] = <<"wr">>]
    BY <1>8 DEF Q!qflush, Q!empty
  <2>2. ReaderWaits'
    <3>1. CASE use = "output"
      BY <3>1, <1>2, OthersOut
    <3>2. CASE Q!noReader
      BY <3>2, <1>1 DEF ReaderWaits, Q!noReader
    <3> QED
      BY <2>1, <3>1, <3>2
  <2>3. WakesWriter' /\ (Kicks => Kicks')
    <3>1. due'[ctl] = <<"wr">> /\ (Kicks => Kicks')
      BY <2>1, <1>3
    <3> QED
      BY <3>1, <1>2 DEF WakesWriter
  <2>4. WriterWaits'
    <3>1. hand = <<>>
      BY <2>1, NothingHeld
    <3>2. len' + Q!space(hand') < limit'
      BY <3>1, <2>1, <1>1, <1>5
    <3> QED
      BY <3>2, <2>3 DEF WriterWaits
  <2>5. DeviceWaits'
    BY <2>1, <2>3, <1>1, <1>4 DEF Waiting, DeviceWaits
  <2> QED
    BY <2>2, <2>4, <2>5 DEF Waiting
<1>9. CASE Q!qsetlimit \/ Q!qnoblock
  <2>1. /\ UNCHANGED <<q, len, state, due>>
        /\ limit' \in Limits /\ (limit' >= limit \/ limit' = limit)
    BY <1>9 DEF Q!qsetlimit, Q!qnoblock, Q!qvars, QInv, Shape
  <2>2. limit' \in Nat /\ limit' >= limit
    BY <2>1, <1>5 DEF Q!QioAssumption
  <2>3. len + Q!space(hand) < limit => len' + Q!space(hand') < limit'
    BY <2>1, <2>2, <1>1, <1>5
  <2>4. ReaderWaits'
    BY <2>1, <1>1 DEF Waiting, ReaderWaits, WakesReader
  <2>5. WriterWaits'
    BY <2>1, <2>3, <1>1 DEF Waiting, WriterWaits, WakesWriter
  <2>6. DeviceWaits'
    BY <2>1, <1>1 DEF Waiting, DeviceWaits, NoneEmpty, Kicks
  <2> QED
    BY <2>4, <2>5, <2>6 DEF Waiting
<1> QED
  BY <1>1, <1>6, <1>7, <1>8, <1>9

-----------------------------------------------------------------------------
\* All the steps, and the first state.
LEMMA QueueStep ==
    ASSUME Q!QioAssumption, QInv, Q!Next
    PROVE  QInv' /\ Q!BQ!Next /\ (Waiting /\ Hazards = {} => Waiting')
<1>1. use' = use
  BY DEF Q!Next, Q!writing, Q!reading
<1>2. ASSUME NEW t \in Q!Thread, Q!wake(t)
      PROVE  QInv' /\ Q!BQ!Next /\ (Waiting => Waiting')
  BY <1>1, <1>2, WakeStep, WakeWaits
<1>3. ASSUME NEW t \in Writer, use # "input", Q!qbwrite(t)
      PROVE  QInv' /\ Q!BQ!Next /\ (Waiting /\ Hazards = {} => Waiting')
  BY <1>1, <1>3, WriteSteps, WriteWaits
<1>4. ASSUME NEW t \in Writer, use # "input",
             \/ Q!qlockw(t) \/ Q!qfullWait(t) \/ Q!sleepw(t)
             \/ Q!interruptedw(t)
      PROVE  QInv' /\ Q!BQ!Next /\ (Waiting => Waiting')
  <2>1. QInv' /\ Q!BQ!Next
    BY <1>1, <1>4, QuietWriterSteps
  <2> QED
    BY <2>1, <1>1, <1>4, QuietWriterWaits
<1>5. ASSUME NEW t \in Reader, use \in {"pipe", "input"},
             \/ Q!qlockr(t) \/ Q!qwait(t) \/ Q!sleepr(t) \/ Q!interruptedr(t)
             \/ Q!qunlockr(t)
      PROVE  QInv' /\ Q!BQ!Next /\ (Waiting => Waiting')
  <2>1. QInv' /\ Q!BQ!Next
    BY <1>1, <1>5, QuietReaderSteps
  <2> QED
    BY <2>1, <1>1, <1>5, QuietReaderWaits
<1>6. ASSUME NEW t \in Reader, use \in {"pipe", "input"},
             Q!qread(t) \/ Q!qputback(t) \/ Q!qbread(t)
      PROVE  QInv' /\ Q!BQ!Next /\ (Waiting => Waiting')
  <2>1. CASE Q!qread(t)
    BY <2>1, <1>1, <1>6, ReadSteps, ReadWaits
  <2>2. CASE Q!qputback(t) \/ Q!qbread(t)
    BY <2>2, <1>1, <1>6, DoneSteps, DoneWaits
  <2> QED
    BY <2>1, <2>2, <1>6
<1>7. ASSUME Q!producer \/ Q!consumer
      PROVE  QInv' /\ Q!BQ!Next /\ (Waiting => Waiting')
  <2>1. CASE Q!producer
    BY <2>1, <1>1, ProducerSteps, ProducerWaits
  <2>2. CASE Q!consumer
    BY <2>2, <1>1, ConsumerSteps, ConsumerWaits
  <2> QED
    BY <2>1, <2>2, <1>7
<1>8. ASSUME Q!control
      PROVE  QInv' /\ Q!BQ!Next /\ (Waiting /\ Hazards = {} => Waiting')
  BY <1>1, <1>8, ControlSteps, ControlWaits
<1> QED
  BY <1>2, <1>3, <1>4, <1>5, <1>6, <1>7, <1>8 DEF Q!Next, Q!writing, Q!reading

\* Nothing happens to the queue.
LEMMA QueueStill ==
    ASSUME UNCHANGED qvars
    PROVE  (QInv => QInv') /\ (Waiting => Waiting')
           /\ UNCHANGED Q!BQ!vars
<1>1. UNCHANGED <<use, q, len, dlen, limit, noblock, state, rlock, wlock, qpc,
                  want, hand, last, due, going, next>>
  BY DEF qvars
<1>2. QInv => QInv'
  BY <1>1 DEF QInv, Counted, Kinds, Shape, Places, Owing, Held
<1>3. Waiting => Waiting'
  BY <1>1 DEF Waiting, ReaderWaits, WriterWaits, DeviceWaits, WakesReader,
     WakesWriter, Kicks, NoneEmpty
<1>4. UNCHANGED Q!BQ!vars
  BY <1>1, ItemsAre DEF Q!BQ!vars, Whole
<1> QED
  BY <1>2, <1>3, <1>4

LEMMA NobodyWaitsFirst ==
    ASSUME Q!Init
    PROVE  Waiting
<1>1. /\ q = <<>> /\ qpc = [t \in Reader \cup Writer |-> "out"]
  BY DEF Q!Init
<1>2. "Qstarve" \in state
  BY DEF Q!Init
<1> QED
  BY <1>1, <1>2 DEF Waiting, ReaderWaits, WriterWaits, DeviceWaits, NoneEmpty

LEMMA InvBooks ==
    ASSUME QInv
    PROVE  Q!QioOK
<1>1. hand # <<>> <=> \E t \in Reader : qpc[t] = "copy"
  BY DEF QInv, Held
<1> QED
  BY <1>1 DEF QInv, Counted, Kinds, Shape, Places, Q!QioOK

-----------------------------------------------------------------------------
\* A behaviour is one of the mount driver or one of a queue.
LEMMA Alone ==
    /\ MCInit => Init /\ Q!Init
    /\ [MCNext]_all => \/ [Next]_vars /\ UNCHANGED qvars
                       \/ Q!Next /\ UNCHANGED vars
<1>1. MCInit => Init /\ Q!Init
  BY DEF MCInit
<1>2. [MCNext]_all => \/ [Next]_vars /\ UNCHANGED qvars
                      \/ Q!Next /\ UNCHANGED vars
  BY DEF MCNext, OnMount, OnQueue, all
<1> QED
  BY <1>1, <1>2

LEMMA OfMount == MCSpec => Spec
<1>1. MCInit => Init
  BY Alone
<1>2. [MCNext]_all => [Next]_vars
  BY Alone
<1> QED
  BY <1>1, <1>2, PTL DEF MCSpec, Spec

LEMMA OfQueue == MCSpec => []QInv
<1>1. MCInit => QInv
  BY Alone, QueueAssumption, QueueBegins
<1>2. QInv /\ [MCNext]_all => QInv'
  BY Alone, QueueAssumption, QueueStep, QueueStill
<1> QED
  BY <1>1, <1>2, PTL DEF MCSpec

\* The lengths of a queue are those of its blocks, across partial reads,
\* blocks put back and blocks thrown away, and the Mntrpcs are each in one
\* place.
THEOREM BooksKept == MCSpec => []BooksOK
<1>1. QInv /\ MountOK => BooksOK
  BY InvBooks DEF BooksOK
<1> QED
  BY <1>1, OfQueue, OfMount, MountSound, PTL

\* What is written to a queue is read in order and once, by whichever of the
\* routines of qio.c it is put in and taken out, for blocks of every size.
THEOREM QueueIsByteQueue == MCSpec => ImplementsByteQueue
<1>1. MCInit => Q!BQ!Init
  BY Alone, QueueAssumption, QueueBegins
<1>2. QInv /\ [MCNext]_all => [Q!BQ!Next]_(Q!BQ!vars)
  BY Alone, QueueAssumption, QueueStep, QueueStill
<1> QED
  BY <1>1, <1>2, OfQueue, PTL DEF MCSpec, ImplementsByteQueue,
     Q!ImplementsByteQueue, Q!BQ!Spec

\* No wakeup is lost: who sleeps on a queue, on an answer of a server or in a
\* device has somebody who will wake him.  For the queues this needs that no
\* empty blocks are written to serial lines and that the limit of a queue is
\* not lowered under a writer, the two hazards that the runs of MCIo show to
\* break it; for the mount driver, see BatonPassed.
THEOREM NobodyIsForgotten ==
    ASSUME Hazards = {},
           \A w \in Worlds : ~({"note", "hangup"} \subseteq w)
    PROVE  MCSpec => []NobodyForgotten
<1>1. MCInit => Waiting
  BY Alone, NobodyWaitsFirst
<1>2. QInv /\ Waiting /\ [MCNext]_all => Waiting'
  BY Alone, QueueAssumption, QueueStep, QueueStill
<1>3. BatonKept /\ QInv /\ Waiting => NobodyForgotten
  BY NobodyWaits DEF NobodyForgotten
<1>4. Spec => []BatonKept
  BY BatonPassed
<1> QED
  BY <1>1, <1>2, <1>3, <1>4, OfQueue, OfMount, PTL DEF MCSpec
=============================================================================
