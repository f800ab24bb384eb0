---------------------------- MODULE QueueTheorems ----------------------------
(***************************************************************************)
(* Facts about natural numbers and queues that the proofs share.           *)
(***************************************************************************)
EXTENDS Integers, Sequences, FiniteSets, SequencesExt, Positions,
        FiniteSetTheorems, SequenceTheorems, FunctionTheorems,
        WellFoundedInduction, TLAPS

\* Element e is on queue s.
On(e, s) == \E i \in DOMAIN s : s[i] = e

\* No element is on queue s twice.
Once(s) == \A i, j \in DOMAIN s : s[i] = s[j] => i = j

\* a is before b on queue s.
Before(a, b, s) == \E i, j \in DOMAIN s : i < j /\ s[i] = a /\ s[j] = b

-----------------------------------------------------------------------------
\* A set of natural numbers has a least element: in the order of the sets
\* 0 .. n, which is that of their inclusion, there is a minimal one.
LEMMA Least ==
    ASSUME NEW S \in SUBSET Nat, S # {}
    PROVE  \E n \in S : \A m \in S : n <= m
<1> DEFINE R == StrictSubsetOrdering(Nat)
           F == FiniteSubsetsOf(Nat)
           T == {0 .. n : n \in S}
<1>1. IsWellFoundedOn(R, F)
  BY FS_StrictSubsetOrderingWellFounded
<1>2. T \subseteq F
  <2>1. \A n \in S : 0 .. n \subseteq Nat /\ IsFiniteSet(0 .. n)
    BY FS_Interval
  <2> QED
    BY <2>1 DEF FiniteSubsetsOf
<1>3. PICK t \in T : \A u \in T : <<u, t>> \notin R
  <2>1. T # {}
    OBVIOUS
  <2> HIDE DEF R, F, T
  <2> QED
    BY <1>1, <1>2, <2>1, WFMin
<1>4. PICK n \in S : t = 0 .. n
  OBVIOUS
<1>5. ASSUME NEW m \in S, m < n PROVE FALSE
  <2>1. <<0 .. m, 0 .. n>> \in R
    BY <1>5 DEF StrictSubsetOrdering
  <2> QED
    BY <2>1, <1>3, <1>4
<1> QED
  BY <1>5

\* Induction over the natural numbers, for a property given by the set of
\* those that have it.
LEMMA SetInduction ==
    ASSUME NEW S, 0 \in S, \A n \in Nat : n \in S => n + 1 \in S
    PROVE  \A n \in Nat : n \in S
<1> SUFFICES ASSUME Nat \ S # {} PROVE FALSE
  OBVIOUS
<1>1. PICK n \in Nat \ S : \A m \in Nat \ S : n <= m
  BY Least
<1>2. n # 0 /\ n - 1 \in Nat /\ n - 1 \notin Nat \ S
  BY <1>1
<1> QED
  BY <1>2

-----------------------------------------------------------------------------
\* A queue after an element was put at its tail.
LEMMA AppendQueue ==
    ASSUME NEW S, NEW s \in Seq(S), NEW e \in S
    PROVE  /\ Append(s, e) \in Seq(S) /\ Append(s, e) # <<>>
           /\ \A q : On(q, Append(s, e)) <=> On(q, s) \/ q = e
           /\ Once(s) /\ ~On(e, s) => Once(Append(s, e))
           /\ Head(Append(s, e)) = IF s = <<>> THEN e ELSE Head(s)
<1> DEFINE t == Append(s, e)
<1>1. /\ t \in Seq(S) /\ t # <<>> /\ Len(t) = Len(s) + 1
      /\ \A i \in 1 .. Len(s) : t[i] = s[i]
      /\ t[Len(s) + 1] = e
  BY AppendProperties
<1>2. DOMAIN t = 1 .. Len(s) + 1 /\ DOMAIN s = 1 .. Len(s) /\ Len(s) \in Nat
  BY <1>1, LenProperties
<1>3. Head(t) = IF s = <<>> THEN e ELSE Head(s)
  BY HeadTailAppend
<1> HIDE DEF t
<1>4. \A q : On(q, t) <=> On(q, s) \/ q = e
  BY <1>1, <1>2 DEF On
<1>5. Once(s) /\ ~On(e, s) => Once(t)
  BY <1>1, <1>2 DEF Once, On
<1> QED
  BY <1>1, <1>3, <1>4, <1>5 DEF t

\* Queue r is s without its first n elements.
Rest(r, s, n) ==
    Len(r) = Len(s) - n /\ \A i \in 1 .. Len(r) : r[i] = s[n + i]

LEMMA RestQueue ==
    ASSUME NEW S, NEW s \in Seq(S), NEW n \in 0 .. Len(s), NEW r \in Seq(S),
           Rest(r, s, n)
    PROVE  /\ \A q : On(q, r) => On(q, s)
           /\ \A q : On(q, s) => On(q, r) \/ \E i \in 1 .. n : s[i] = q
           /\ Once(s) =>
                /\ Once(r)
                /\ \A q : On(q, r) => ~\E i \in 1 .. n : s[i] = q
<1>1. Len(s) \in Nat /\ DOMAIN s = 1 .. Len(s) /\ s \in [1 .. Len(s) -> S]
  BY LenProperties
<1>2. Len(r) = Len(s) - n /\ DOMAIN r = 1 .. Len(s) - n
  BY <1>1, LenProperties DEF Rest
<1>3. \A i \in DOMAIN r : n + i \in DOMAIN s /\ r[i] = s[n + i]
  BY <1>1, <1>2 DEF Rest
<1>4. ASSUME NEW q, On(q, s), ~\E i \in 1 .. n : s[i] = q PROVE On(q, r)
  <2>1. PICK i \in 1 .. Len(s) : s[i] = q
    BY <1>4, <1>1 DEF On
  <2>2. i - n \in 1 .. Len(r) /\ n + (i - n) = i
    BY <2>1, <1>4, <1>1, <1>2
  <2> QED
    BY <2>1, <2>2, <1>2, <1>3 DEF On
<1>5. \A q : On(q, r) => On(q, s)
  BY <1>3 DEF On
<1>6. ASSUME Once(s) PROVE Once(r)
  <2> SUFFICES ASSUME NEW i \in DOMAIN r, NEW j \in DOMAIN r, r[i] = r[j]
               PROVE  i = j
    BY DEF Once
  <2>1. n + i = n + j
    BY <1>3, <1>6 DEF Once
  <2> QED
    BY <2>1, <1>2, <1>1
<1>7. ASSUME Once(s), NEW q, On(q, r), NEW i \in 1 .. n, s[i] = q
      PROVE  FALSE
  <2>1. PICK j \in DOMAIN r : r[j] = q
    BY <1>7 DEF On
  <2>2. n + j = i
    <3>1. n + j \in DOMAIN s /\ s[n + j] = q /\ i \in DOMAIN s
      BY <2>1, <1>1, <1>3
    <3> QED
      BY <3>1, <1>7 DEF Once
  <2> QED
    BY <2>2, <1>2, <1>1
<1> QED
  BY <1>4, <1>5, <1>6, <1>7

\* A queue without its head.
LEMMA TailQueue ==
    ASSUME NEW S, NEW s \in Seq(S), s # <<>>
    PROVE  /\ Head(s) \in S /\ Tail(s) \in Seq(S)
           /\ On(Head(s), s) /\ Head(s) = s[1]
           /\ Len(s) \in Nat \ {0} /\ Len(Tail(s)) = Len(s) - 1
           /\ \A q : On(q, s) <=> On(q, Tail(s)) \/ q = Head(s)
           /\ Once(s) => Once(Tail(s)) /\ ~On(Head(s), Tail(s))
           /\ \A a, b : Before(a, b, Tail(s)) => Before(a, b, s)
           /\ \A b : On(b, s) /\ b # Head(s) => Before(Head(s), b, s)
<1>1. Len(s) \in Nat \ {0} /\ DOMAIN s = 1 .. Len(s)
  BY EmptySeq, LenProperties
<1>2. /\ Head(s) \in S /\ Tail(s) \in Seq(S) /\ Len(Tail(s)) = Len(s) - 1
      /\ \A i \in 1 .. Len(Tail(s)) : Tail(s)[i] = s[i + 1]
  BY HeadTailProperties
<1>3. DOMAIN Tail(s) = 1 .. Len(s) - 1
  BY <1>2, LenProperties
<1>4. Head(s) = s[1]
  OBVIOUS
<1>5. \A q : On(q, Tail(s)) => On(q, s)
  BY <1>1, <1>2, <1>3 DEF On
<1>6. ASSUME NEW q, On(q, s), q # Head(s) PROVE On(q, Tail(s))
  <2>1. PICK i \in 1 .. Len(s) : s[i] = q
    BY <1>6, <1>1 DEF On
  <2>2. i - 1 \in 1 .. Len(Tail(s)) /\ (i - 1) + 1 = i
    BY <2>1, <1>6, <1>4, <1>1, <1>2
  <2> QED
    BY <2>1, <2>2, <1>2, <1>3 DEF On
<1>7. Once(s) => Once(Tail(s)) /\ ~On(Head(s), Tail(s))
  BY <1>1, <1>2, <1>3, <1>4 DEF Once, On
<1>8. On(Head(s), s)
  BY <1>1, <1>4 DEF On
<1>9. ASSUME NEW a, NEW b, Before(a, b, Tail(s)) PROVE Before(a, b, s)
  <2>1. PICK i, j \in 1 .. Len(Tail(s)) : i < j /\ Tail(s)[i] = a /\ Tail(s)[j] = b
    BY <1>2, <1>3, <1>9 DEF Before
  <2>2. i + 1 \in DOMAIN s /\ j + 1 \in DOMAIN s /\ i + 1 < j + 1
    BY <2>1, <1>1, <1>2
  <2> QED
    BY <2>1, <2>2, <1>2 DEF Before
<1>10. ASSUME NEW b, On(b, s), b # Head(s) PROVE Before(Head(s), b, s)
  <2>1. PICK j \in 1 .. Len(s) : s[j] = b
    BY <1>10, <1>1 DEF On
  <2>2. 1 \in DOMAIN s /\ 1 < j
    BY <2>1, <1>10, <1>4, <1>1
  <2> QED
    BY <2>1, <2>2, <1>1, <1>4 DEF Before
<1> QED
  BY <1>1, <1>2, <1>4, <1>5, <1>6, <1>7, <1>8, <1>9, <1>10

\* There are as many elements among the first n of a queue as that.
LEMMA FirstsCounted ==
    ASSUME NEW S, NEW s \in Seq(S), NEW n \in 0 .. Len(s), Once(s),
           NEW T, T = {q \in S : \E i \in 1 .. n : s[i] = q}
    PROVE  IsFiniteSet(T) /\ Cardinality(T) = n
<1> DEFINE f == [i \in 1 .. n |-> s[i]]
<1>1. Len(s) \in Nat /\ DOMAIN s = 1 .. Len(s) /\ s \in [1 .. Len(s) -> S]
  BY LenProperties
<1>2. f \in [1 .. n -> T]
  BY <1>1
<1>3. \A a, b \in 1 .. n : f[a] = f[b] => a = b
  BY <1>1 DEF Once
<1>4. \A q \in T : \E i \in 1 .. n : f[i] = q
  OBVIOUS
<1>5. f \in Bijection(1 .. n, T)
  <2> HIDE DEF f
  <2> QED
    BY <1>2, <1>3, <1>4, Fun_IsBij
<1>6. IsFiniteSet(1 .. n) /\ Cardinality(1 .. n) = n
  BY FS_Interval
<1> QED
  BY <1>5, <1>6, FS_Bijection DEF ExistsBijection

\* A queue without one of its elements: those behind it move up.
LEMMA RemovePlace ==
    ASSUME NEW S, NEW s \in Seq(S), Once(s), NEW k \in 1 .. Len(s),
           NEW e, e = s[k]
    PROVE  /\ RemoveFirst(s, e) \in Seq(S)
           /\ Len(RemoveFirst(s, e)) = Len(s) - 1
           /\ \A i \in 1 .. k - 1 : RemoveFirst(s, e)[i] = s[i]
           /\ \A i \in k .. Len(s) - 1 : RemoveFirst(s, e)[i] = s[i + 1]
<1>1. DOMAIN s = 1 .. Len(s) /\ Len(s) \in Nat
  BY LenProperties
<1>2. s[k] = e
  OBVIOUS
<1>3. PICK t : t = RemoveFirst(s, e)
  OBVIOUS
<1>4. t = SubSeq(s, 1, k - 1) \o SubSeq(s, k + 1, Len(s))
  <2> DEFINE I == {i \in 1 .. Len(s) : s[i] = e}
  <2>1. I = {k}
    BY <1>1, <1>2 DEF Once
  <2>2. (CHOOSE x \in I : \A y \in I : x <= y) = k
    BY <2>1
  <2>3. SelectInSeq(s, LAMBDA v : v = e) = k
    <3> SUFFICES (IF I # {} THEN Min(I) ELSE 0) = k
      BY DEF SelectInSeq
    <3> QED
      BY <2>1, <2>2 DEF Min
  <2> QED
    BY <1>2, <1>3, <2>3 DEF RemoveFirst, RemoveAt
<1>5. /\ SubSeq(s, 1, k - 1) \in Seq(S) /\ SubSeq(s, k + 1, Len(s)) \in Seq(S)
      /\ Len(SubSeq(s, 1, k - 1)) = k - 1
      /\ Len(SubSeq(s, k + 1, Len(s))) = Len(s) - k
      /\ \A i \in 1 .. k - 1 : SubSeq(s, 1, k - 1)[i] = s[i]
      /\ \A i \in 1 .. Len(s) - k : SubSeq(s, k + 1, Len(s))[i] = s[k + i]
  <2>1. \A i \in 1 .. Len(s) : s[i] \in S
    BY <1>1
  <2>2. PICK a \in Int : a = k - 1
    OBVIOUS
  <2>3. /\ SubSeq(s, 1, a) \in Seq(S)
        /\ Len(SubSeq(s, 1, a)) = IF 1 <= a THEN a - 1 + 1 ELSE 0
        /\ \A i \in 1 .. a - 1 + 1 : SubSeq(s, 1, a)[i] = s[1 + i - 1]
    <3>1. \A i \in 1 .. a : s[i] \in S
      BY <2>1, <2>2, <1>1
    <3> QED
      BY <3>1, SubSeqProperties
  <2>4. PICK b \in Int, n \in Int : b = k + 1 /\ n = Len(s)
    <3>1. k + 1 \in Int /\ Len(s) \in Int
      BY <1>1
    <3> QED
      BY <3>1
  <2>5. /\ SubSeq(s, b, n) \in Seq(S)
        /\ Len(SubSeq(s, b, n)) = IF b <= n THEN n - b + 1 ELSE 0
        /\ \A i \in 1 .. n - b + 1 : SubSeq(s, b, n)[i] = s[b + i - 1]
    <3>1. \A i \in b .. n : s[i] \in S
      BY <2>1, <2>4, <1>1
    <3> QED
      BY <3>1, SubSeqProperties
  <2>6. \A i \in 1 .. k - 1 : i \in 1 .. a - 1 + 1 /\ 1 + i - 1 = i
    BY <2>2
  <2>7. \A i \in 1 .. Len(s) - k : i \in 1 .. n - b + 1 /\ b + i - 1 = k + i
    BY <2>4, <1>1
  <2> QED
    BY <2>2, <2>3, <2>4, <2>5, <2>6, <2>7, <1>1
<1>6. /\ t \in Seq(S) /\ Len(t) = Len(s) - 1
      /\ \A i \in 1 .. k - 1 : t[i] = s[i]
      /\ \A i \in k .. Len(s) - 1 : t[i] = s[i + 1]
  <2> DEFINE a == SubSeq(s, 1, k - 1)
             b == SubSeq(s, k + 1, Len(s))
  <2> HIDE DEF a, b
  <2>1. /\ a \in Seq(S) /\ b \in Seq(S) /\ t = a \o b
        /\ Len(a) = k - 1 /\ Len(b) = Len(s) - k
        /\ \A i \in 1 .. k - 1 : a[i] = s[i]
        /\ \A i \in 1 .. Len(s) - k : b[i] = s[k + i]
    BY <1>4, <1>5 DEF a, b
  <2>2. /\ a \o b \in Seq(S) /\ Len(a \o b) = Len(a) + Len(b)
        /\ \A i \in 1 .. Len(a) + Len(b) :
             (a \o b)[i] = IF i <= Len(a) THEN a[i] ELSE b[i - Len(a)]
    BY <2>1, ConcatProperties
  <2>3. ASSUME NEW i \in k .. Len(s) - 1 PROVE t[i] = s[i + 1]
    <3>1. PICK j \in 1 .. Len(s) - k : j = i - (k - 1) /\ k + j = i + 1
      <4>1. i - (k - 1) \in 1 .. Len(s) - k /\ k + (i - (k - 1)) = i + 1
        BY <1>1
      <4> QED
        BY <4>1
    <3>2. t[i] = b[i - Len(a)]
      BY <2>1, <2>2, <1>1
    <3> QED
      BY <2>1, <3>1, <3>2
  <2> QED
    BY <2>1, <2>2, <2>3, <1>1
<1> QED
  BY <1>3, <1>6

-----------------------------------------------------------------------------
\* A queue without an element that is on it once.
LEMMA RemoveQueue ==
    ASSUME NEW S, NEW s \in Seq(S), NEW e \in S, Once(s), On(e, s)
    PROVE  /\ RemoveFirst(s, e) \in Seq(S)
           /\ Len(RemoveFirst(s, e)) = Len(s) - 1
           /\ \A q : On(q, RemoveFirst(s, e)) <=> On(q, s) /\ q # e
           /\ Once(RemoveFirst(s, e))
           /\ \A a, b : Before(a, b, RemoveFirst(s, e)) => Before(a, b, s)
<1>1. DOMAIN s = 1 .. Len(s) /\ Len(s) \in Nat
  BY LenProperties
<1>2. PICK k \in 1 .. Len(s) : s[k] = e
  BY <1>1 DEF On
<1>3. PICK t : t = RemoveFirst(s, e)
  OBVIOUS
<1>6. /\ t \in Seq(S) /\ Len(t) = Len(s) - 1
      /\ \A i \in 1 .. k - 1 : t[i] = s[i]
      /\ \A i \in k .. Len(s) - 1 : t[i] = s[i + 1]
  BY <1>2, <1>3, RemovePlace
<1> HIDE DEF On
<1>7. DOMAIN t = 1 .. Len(s) - 1
  BY <1>6, <1>1, LenProperties
<1>8. ASSUME NEW q, On(q, t) PROVE On(q, s) /\ q # e
  <2>1. PICK i \in 1 .. Len(s) - 1 : t[i] = q
    BY <1>8, <1>7 DEF On
  <2>2. CASE i < k
    <3>1. q = s[i] /\ i \in DOMAIN s /\ i # k
      BY SMTT(30), <2>1, <2>2, <1>1, <1>6
    <3> QED
      BY <3>1, <1>1, <1>2 DEF On, Once
  <2>3. CASE i >= k
    <3>1. q = s[i + 1] /\ i + 1 \in DOMAIN s /\ i + 1 # k
      BY <2>1, <2>3, <1>1, <1>6
    <3> QED
      BY <3>1, <1>1, <1>2 DEF On, Once
  <2> QED
    BY <2>2, <2>3, <1>1
<1>9. ASSUME NEW q, On(q, s), q # e PROVE On(q, t)
  <2>1. PICK i \in 1 .. Len(s) : s[i] = q
    BY <1>9, <1>1 DEF On
  <2>2. CASE i < k
    BY <2>1, <2>2, <1>1, <1>6, <1>7 DEF On
  <2>3. CASE i > k
    <3>1. i - 1 \in k .. Len(s) - 1 /\ (i - 1) + 1 = i
      BY <2>3, <1>1
    <3>2. t[i - 1] = q /\ i - 1 \in DOMAIN t
      BY <2>1, <3>1, <1>1, <1>6, <1>7
    <3> QED
      BY <3>2 DEF On
  <2> QED
    BY <2>1, <2>2, <2>3, <1>1, <1>2, <1>9
<1>10. Once(t)
  <2> SUFFICES ASSUME NEW i \in 1 .. Len(s) - 1, NEW j \in 1 .. Len(s) - 1,
                      t[i] = t[j]
               PROVE  i = j
    BY <1>7 DEF Once
  <2>1. PICK a \in 1 .. Len(s) : t[i] = s[a] /\ a = IF i < k THEN i ELSE i + 1
    BY <1>1, <1>6
  <2>2. PICK b \in 1 .. Len(s) : t[j] = s[b] /\ b = IF j < k THEN j ELSE j + 1
    BY <1>1, <1>6
  <2>3. a = b
    BY <2>1, <2>2, <1>1 DEF Once
  <2> QED
    BY <2>1, <2>2, <2>3, <1>1
<1>11. ASSUME NEW a, NEW b, Before(a, b, t) PROVE Before(a, b, s)
  <2>1. PICK i, j \in 1 .. Len(s) - 1 : i < j /\ t[i] = a /\ t[j] = b
    BY <1>7, <1>11 DEF Before
  <2>2. PICK m \in 1 .. Len(s) : t[i] = s[m] /\ m = IF i < k THEN i ELSE i + 1
    BY <1>1, <1>6
  <2>3. PICK n \in 1 .. Len(s) : t[j] = s[n] /\ n = IF j < k THEN j ELSE j + 1
    BY <1>1, <1>6
  <2> QED
    BY <2>1, <2>2, <2>3, <1>1 DEF Before
<1> QED
  BY <1>3, <1>6, <1>8, <1>9, <1>10, <1>11

\* A queue with an element put in at a place: those from there on move back.
LEMMA InsertPlace ==
    ASSUME NEW S, NEW s \in Seq(S), NEW e \in S, NEW k \in 1 .. Len(s) + 1
    PROVE  /\ InsertAt(s, k, e) \in Seq(S)
           /\ Len(InsertAt(s, k, e)) = Len(s) + 1
           /\ \A i \in 1 .. k - 1 : InsertAt(s, k, e)[i] = s[i]
           /\ InsertAt(s, k, e)[k] = e
           /\ \A i \in k .. Len(s) : InsertAt(s, k, e)[i + 1] = s[i]
<1>1. DOMAIN s = 1 .. Len(s) /\ Len(s) \in Nat
  BY LenProperties
<1>2. PICK n \in Int, p \in Int : n = Len(s) /\ p = k - 1 /\ k \in Int
  <2>1. Len(s) \in Int /\ k - 1 \in Int /\ k \in Int
    BY <1>1
  <2> QED
    BY <2>1
<1>3. PICK a : a = SubSeq(s, 1, p)
  OBVIOUS
<1>4. PICK b : b = SubSeq(s, k, n)
  OBVIOUS
<1>5. a \in Seq(S) /\ Len(a) = p /\ \A i \in 1 .. p : a[i] = s[i]
  <2>1. \A i \in 1 .. p : s[i] \in S
    BY <1>1, <1>2
  <2>2. /\ SubSeq(s, 1, p) \in Seq(S)
        /\ Len(SubSeq(s, 1, p)) = IF 1 <= p THEN p - 1 + 1 ELSE 0
        /\ \A i \in 1 .. p - 1 + 1 : SubSeq(s, 1, p)[i] = s[1 + i - 1]
    BY <2>1, SubSeqProperties
  <2>3. \A i \in 1 .. p : i \in 1 .. p - 1 + 1 /\ 1 + i - 1 = i
    BY <1>2
  <2>4. (IF 1 <= p THEN p - 1 + 1 ELSE 0) = p
    BY <1>2
  <2> QED
    BY <2>2, <2>3, <2>4, <1>3
<1>6. b \in Seq(S) /\ Len(b) = n - p /\ \A i \in k .. n : b[i - p] = s[i]
  <2>1. \A i \in k .. n : s[i] \in S
    BY <1>1, <1>2
  <2>2. /\ SubSeq(s, k, n) \in Seq(S)
        /\ Len(SubSeq(s, k, n)) = IF k <= n THEN n - k + 1 ELSE 0
        /\ \A i \in 1 .. n - k + 1 : SubSeq(s, k, n)[i] = s[k + i - 1]
    BY <2>1, <1>2, SubSeqProperties
  <2>3. \A i \in k .. n : i - p \in 1 .. n - k + 1 /\ k + (i - p) - 1 = i
    BY <1>2
  <2>4. (IF k <= n THEN n - k + 1 ELSE 0) = n - p
    BY <1>1, <1>2
  <2> QED
    BY <2>2, <2>3, <2>4, <1>4
<1>7. PICK c : c = a \o <<e>>
  OBVIOUS
<1>8. /\ c \in Seq(S) /\ Len(c) = k /\ \A i \in 1 .. p : c[i] = s[i]
      /\ c[k] = e
  <2>1. <<e>> \in Seq(S) /\ Len(<<e>>) = 1 /\ <<e>>[1] = e
    OBVIOUS
  <2>2. /\ c \in Seq(S) /\ Len(c) = Len(a) + 1
        /\ \A i \in 1 .. Len(a) + 1 :
             c[i] = IF i <= Len(a) THEN a[i] ELSE <<e>>[i - Len(a)]
    BY <1>5, <1>7, <2>1, ConcatProperties
  <2>3. k \in 1 .. p + 1 /\ ~(k <= p) /\ k - p = 1 /\ p + 1 = k
    BY <1>2
  <2>4. \A i \in 1 .. p : i \in 1 .. p + 1 /\ i <= p
    BY <1>2
  <2>5. Len(a) = p
    BY <1>5
  <2> QED
    BY <2>1, <2>2, <2>3, <2>4, <2>5, <1>5
<1>9. PICK t : t = c \o b
  OBVIOUS
<1>10. InsertAt(s, k, e) = t
  <2>1. InsertAt(s, k, e) = SubSeq(s, 1, k - 1) \o <<e>> \o SubSeq(s, k, Len(s))
    BY DEF InsertAt
  <2> QED
    BY <2>1, <1>2, <1>3, <1>4, <1>7, <1>9
<1>11. /\ t \in Seq(S) /\ Len(t) = Len(c) + Len(b)
       /\ \A i \in 1 .. Len(c) + Len(b) :
            t[i] = IF i <= Len(c) THEN c[i] ELSE b[i - Len(c)]
  BY <1>6, <1>8, <1>9, ConcatProperties
<1>12. Len(c) + Len(b) = n + 1 /\ Len(c) = k
  BY <1>6, <1>8, <1>2
<1>13. \A i \in 1 .. n + 1 : t[i] = IF i <= k THEN c[i] ELSE b[i - k]
  BY <1>11, <1>12
<1>14. ASSUME NEW i \in 1 .. p PROVE t[i] = s[i]
  <2>1. i \in 1 .. n + 1 /\ i <= k
    BY <1>2, <1>1
  <2> QED
    BY <2>1, <1>13, <1>8
<1>15. t[k] = e
  BY <1>13, <1>8, <1>2
<1>16. ASSUME NEW i \in k .. n PROVE t[i + 1] = s[i]
  <2>1. i + 1 \in 1 .. n + 1 /\ ~(i + 1 <= k) /\ (i + 1) - k = i - p
    BY <1>2, <1>1
  <2> QED
    BY <2>1, <1>13, <1>6
<1> QED
  BY <1>2, <1>10, <1>11, <1>12, <1>14, <1>15, <1>16

\* Who is on such a queue, and before whom.
LEMMA InsertQueue ==
    ASSUME NEW S, NEW s \in Seq(S), NEW e \in S, NEW k \in 1 .. Len(s) + 1
    PROVE  /\ InsertAt(s, k, e) \in Seq(S) /\ InsertAt(s, k, e) # <<>>
           /\ \A q : On(q, InsertAt(s, k, e)) <=> On(q, s) \/ q = e
           /\ Once(s) /\ ~On(e, s) => Once(InsertAt(s, k, e))
           /\ \A a, b : Before(a, b, InsertAt(s, k, e)) =>
                \/ Before(a, b, s)
                \/ a = e /\ \E j \in DOMAIN s : k <= j /\ s[j] = b
                \/ b = e /\ \E i \in DOMAIN s : i < k /\ s[i] = a
           /\ Head(InsertAt(s, k, e)) = IF k = 1 THEN e ELSE s[1]
<1>1. PICK n \in Nat : n = Len(s) /\ DOMAIN s = 1 .. n /\ k \in 1 .. n + 1
  BY LenProperties
<1>2. PICK t : t = InsertAt(s, k, e)
  OBVIOUS
<1>3. /\ t \in Seq(S) /\ Len(t) = n + 1
      /\ \A i \in 1 .. k - 1 : t[i] = s[i]
      /\ t[k] = e
      /\ \A i \in k .. n : t[i + 1] = s[i]
  <2>1. /\ InsertAt(s, k, e) \in Seq(S)
        /\ Len(InsertAt(s, k, e)) = Len(s) + 1
        /\ \A i \in 1 .. k - 1 : InsertAt(s, k, e)[i] = s[i]
        /\ InsertAt(s, k, e)[k] = e
        /\ \A i \in k .. Len(s) : InsertAt(s, k, e)[i + 1] = s[i]
    BY InsertPlace
  <2> QED
    BY <2>1, <1>1, <1>2
<1>4. DOMAIN t = 1 .. n + 1 /\ t # <<>>
  BY <1>3, <1>1, LenProperties
<1> DEFINE old(i) == IF i < k THEN i ELSE i - 1
<1>5. ASSUME NEW i \in 1 .. n + 1, i # k
      PROVE  old(i) \in 1 .. n /\ t[i] = s[old(i)]
  <2>1. CASE i < k
    BY <2>1, <1>3, <1>1
  <2>2. CASE i > k
    <3>1. i - 1 \in k .. n /\ (i - 1) + 1 = i /\ i - 1 \in 1 .. n
      BY <2>2, <1>1
    <3> QED
      BY <3>1, <2>2, <1>3
  <2> QED
    BY <2>1, <2>2, <1>5, <1>1
<1>6. ASSUME NEW i \in 1 .. n + 1, NEW j \in 1 .. n + 1, i # k, j # k
      PROVE  /\ old(i) = old(j) => i = j
             /\ i < j => old(i) < old(j)
  BY <1>6, <1>1
<1>7. \A i \in 1 .. n : \E j \in 1 .. n + 1 : t[j] = s[i]
  <2> TAKE i \in 1 .. n
  <2>1. CASE i < k
    BY <2>1, <1>3, <1>1
  <2>2. CASE i >= k
    <3>1. i \in k .. n /\ i + 1 \in 1 .. n + 1
      BY <2>2, <1>1
    <3> QED
      BY <3>1, <1>3
  <2> QED
    BY <2>1, <2>2, <1>1
<1> HIDE DEF old
<1>8. \A q : On(q, t) <=> On(q, s) \/ q = e
  <2>1. ASSUME NEW q, On(q, t) PROVE On(q, s) \/ q = e
    <3>1. PICK i \in 1 .. n + 1 : t[i] = q
      BY <2>1, <1>4 DEF On
    <3>2. CASE i = k
      BY <3>1, <3>2, <1>3
    <3>3. CASE i # k
      BY <3>1, <3>3, <1>5, <1>1 DEF On
    <3> QED
      BY <3>2, <3>3
  <2>2. ASSUME NEW q, On(q, s) PROVE On(q, t)
    <3>1. PICK i \in 1 .. n : s[i] = q
      BY <2>2, <1>1 DEF On
    <3> QED
      BY <3>1, <1>7, <1>4 DEF On
  <2>3. On(e, t)
    BY <1>1, <1>3, <1>4 DEF On
  <2> QED
    BY <2>1, <2>2, <2>3
<1>9. Once(s) /\ ~On(e, s) => Once(t)
  <2> SUFFICES ASSUME Once(s), ~On(e, s),
                      NEW i \in 1 .. n + 1, NEW j \in 1 .. n + 1, t[i] = t[j]
               PROVE  i = j
    BY <1>4 DEF Once
  <2>1. CASE i # k /\ j # k
    <3>1. s[old(i)] = s[old(j)] /\ old(i) \in DOMAIN s /\ old(j) \in DOMAIN s
      BY <2>1, <1>5, <1>1
    <3>2. old(i) = old(j)
      BY <3>1 DEF Once
    <3> QED
      BY <2>1, <3>2, <1>6
  <2>2. \A l \in 1 .. n + 1 : l # k => t[l] # e
    BY <1>5, <1>1 DEF On
  <2> QED
    BY <2>1, <2>2, <1>3
<1>10. ASSUME NEW a, NEW b, Before(a, b, t)
       PROVE  \/ Before(a, b, s)
              \/ a = e /\ \E j \in DOMAIN s : k <= j /\ s[j] = b
              \/ b = e /\ \E i \in DOMAIN s : i < k /\ s[i] = a
  <2>1. PICK i, j \in 1 .. n + 1 : i < j /\ t[i] = a /\ t[j] = b
    BY <1>4, <1>10 DEF Before
  <2>2. CASE i # k /\ j # k
    <3>1. old(i) < old(j)
      BY <2>1, <2>2, <1>6
    <3>2. /\ old(i) \in DOMAIN s /\ old(j) \in DOMAIN s
          /\ s[old(i)] = a /\ s[old(j)] = b
      BY <2>1, <2>2, <1>5, <1>1
    <3> QED
      BY <3>1, <3>2 DEF Before
  <2>3. CASE i = k
    <3>1. j - 1 \in k .. n /\ (j - 1) + 1 = j /\ j - 1 \in DOMAIN s
      BY <2>1, <2>3, <1>1
    <3> QED
      BY <3>1, <2>1, <2>3, <1>3
  <2>4. CASE j = k
    <3>1. i \in 1 .. k - 1 /\ i \in DOMAIN s
      BY <2>1, <2>4, <1>1
    <3> QED
      BY <3>1, <2>1, <2>4, <1>3
  <2> QED
    BY <2>2, <2>3, <2>4
<1>11. Head(t) = IF k = 1 THEN e ELSE s[1]
  <2>1. Head(t) = t[1]
    BY <1>4, <1>3
  <2>2. k # 1 => 1 \in 1 .. k - 1
    BY <1>1
  <2> QED
    BY <2>1, <2>2, <1>3
<1> QED
  BY <1>2, <1>3, <1>4, <1>8, <1>9, <1>10, <1>11

\* A queue with an element put at its head.
LEMMA PushQueue ==
    ASSUME NEW S, NEW s \in Seq(S), NEW e \in S
    PROVE  /\ <<e>> \o s \in Seq(S)
           /\ Len(<<e>> \o s) = Len(s) + 1
           /\ \A q : On(q, <<e>> \o s) <=> On(q, s) \/ q = e
           /\ Once(s) /\ ~On(e, s) => Once(<<e>> \o s)
<1>1. PICK t : t = <<e>> \o s
  OBVIOUS
<1>2. /\ t \in Seq(S) /\ Len(t) = Len(s) + 1 /\ t[1] = e
      /\ \A i \in 1 .. Len(s) : t[i + 1] = s[i]
      /\ Len(s) \in Nat /\ DOMAIN s = 1 .. Len(s) /\ DOMAIN t = 1 .. Len(s) + 1
  BY <1>1
<1>3. \A i \in DOMAIN t : i = 1 \/ (i - 1 \in DOMAIN s /\ t[i] = s[i - 1])
  <2> TAKE i \in DOMAIN t
  <2>1. i = 1 \/ (i - 1 \in 1 .. Len(s) /\ (i - 1) + 1 = i)
    BY <1>2
  <2> QED
    BY <2>1, <1>2
<1>4. ASSUME NEW q PROVE On(q, t) <=> On(q, s) \/ q = e
  <2>1. On(q, t) => On(q, s) \/ q = e
    BY <1>2, <1>3 DEF On
  <2>2. ASSUME On(q, s) PROVE On(q, t)
    <3>1. PICK i \in 1 .. Len(s) : s[i] = q
      BY <2>2, <1>2 DEF On
    <3>2. i + 1 \in DOMAIN t /\ t[i + 1] = q
      BY <3>1, <1>2
    <3> QED
      BY <3>2 DEF On
  <2> QED
    BY <2>1, <2>2, <1>2 DEF On
<1>5. Once(s) /\ ~On(e, s) => Once(t)
  BY <1>2, <1>3 DEF On, Once
<1> QED
  BY <1>1, <1>2, <1>4, <1>5

\* An order of a finite set is a queue of its members.
LEMMA OrderQueue ==
    ASSUME NEW S, IsFiniteSet(S), NEW s \in SetToSeqs(S)
    PROVE  /\ s \in Seq(S) /\ Once(s)
           /\ \A q : On(q, s) <=> q \in S
           /\ Len(s) = Cardinality(S)
<1>1. PICK n \in Nat : n = Cardinality(S)
  BY FS_CardinalityType
<1>2. /\ s \in [1 .. n -> S]
      /\ \A i, j \in 1 .. n : i # j => s[i] # s[j]
  BY <1>1 DEF SetToSeqs
<1>3. s \in Seq(S) /\ Len(s) = n /\ DOMAIN s = 1 .. n
  BY <1>1, <1>2
<1>4. Once(s)
  BY <1>2, <1>3 DEF Once
<1>5. s \in Injection(1 .. n, S)
  BY <1>2, Fun_IsInj
<1>6. IsFiniteSet(1 .. n) /\ Cardinality(1 .. n) = n
  BY FS_Interval
<1>7. s \in Surjection(1 .. n, S)
  BY <1>1, <1>5, <1>6, FS_Injection DEF Bijection
<1>8. \A q \in S : On(q, s)
  BY <1>7, <1>3 DEF Surjection, On
<1> QED
  BY <1>1, <1>2, <1>3, <1>4, <1>8 DEF On

-----------------------------------------------------------------------------
\* The set of what is on a queue.
LEMMA OnToSet == \A s, e : e \in ToSet(s) <=> On(e, s)
  BY DEF ToSet, On

\* The first and the last element of a queue.
LEMMA Ends ==
    ASSUME NEW S, NEW s \in Seq(S), s # <<>>
    PROVE  /\ Len(s) \in Nat \ {0} /\ DOMAIN s = 1 .. Len(s)
           /\ 1 \in 1 .. Len(s) /\ Len(s) \in 1 .. Len(s)
           /\ Head(s) = s[1] /\ s[1] \in S /\ On(s[1], s)
           /\ Last(s) = s[Len(s)] /\ s[Len(s)] \in S
<1>1. Len(s) \in Nat \ {0} /\ DOMAIN s = 1 .. Len(s)
  BY LenProperties, EmptySeq
<1>2. 1 \in 1 .. Len(s) /\ Len(s) \in 1 .. Len(s)
  BY <1>1
<1>3. s[1] \in S /\ s[Len(s)] \in S
  BY <1>2, ElementOfSeq
<1> QED
  BY <1>1, <1>2, <1>3 DEF On, Last

\* t has the elements of s at the positions in I up to n, in their order: h says
\* where each comes from.
From(t, s, I, n, h) ==
    /\ h \in [1 .. Len(t) -> I \cap (1 .. n)]
    /\ \A k \in 1 .. Len(t) : t[k] = s[h[k]]
    /\ \A k, l \in 1 .. Len(t) : k < l => h[k] < h[l]
    /\ \A i \in I \cap (1 .. n) : \E k \in 1 .. Len(t) : h[k] = i

\* One more position.
LEMMA FromNext ==
    ASSUME NEW S, NEW s \in Seq(S), NEW I, NEW n \in 0 .. Len(s), n + 1 <= Len(s),
           NEW t \in Seq(S), NEW h, From(t, s, I, n, h)
    PROVE  \E g : From(IF n + 1 \in I THEN Append(t, s[n + 1]) ELSE t,
                       s, I, n + 1, g)
<1>1. Len(s) \in Nat /\ Len(t) \in Nat /\ n \in Nat /\ n + 1 \in 1 .. Len(s)
  BY LenProperties
<1>2. PICK m \in Nat : m = Len(t)
  BY <1>1
<1>3. /\ h \in [1 .. m -> I \cap (1 .. n)]
      /\ \A k \in 1 .. m : t[k] = s[h[k]]
      /\ \A k, l \in 1 .. m : k < l => h[k] < h[l]
      /\ \A i \in I \cap (1 .. n) : \E k \in 1 .. m : h[k] = i
  BY <1>2 DEF From
<1>4. CASE n + 1 \notin I
  <2>1. I \cap (1 .. n + 1) = I \cap (1 .. n)
    BY <1>4, <1>1
  <2>2. From(t, s, I, n + 1, h)
    BY <1>2, <1>3, <2>1 DEF From
  <2> QED
    BY <2>2, <1>4
<1>5. CASE n + 1 \in I
  <2>1. PICK u : u = Append(t, s[n + 1])
    OBVIOUS
  <2>2. s[n + 1] \in S
    BY <1>1, ElementOfSeq
  <2>3. /\ Len(u) = m + 1 /\ u[m + 1] = s[n + 1]
        /\ \A k \in 1 .. m : u[k] = t[k]
    BY <2>1, <2>2, <1>2, AppendProperties
  <2>4. PICK g : g = [k \in 1 .. m + 1 |-> IF k = m + 1 THEN n + 1 ELSE h[k]]
    OBVIOUS
  <2>5. /\ g[m + 1] = n + 1 /\ \A k \in 1 .. m : g[k] = h[k] /\ g[k] \in 1 .. n
    BY <2>4, <1>2, <1>3
  <2>6. g \in [1 .. m + 1 -> I \cap (1 .. n + 1)]
    <3>1. \A k \in 1 .. m + 1 : k = m + 1 \/ k \in 1 .. m
      BY <1>2
    <3>2. \A k \in 1 .. m : h[k] \in I /\ h[k] \in 1 .. n + 1
      BY <1>3, <1>1
    <3>3. n + 1 \in 1 .. n + 1
      BY <1>1
    <3> QED
      BY <2>4, <1>5, <3>1, <3>2, <3>3
  <2>7. \A k \in 1 .. m + 1 : u[k] = s[g[k]]
    BY SMTT(30), <2>3, <2>5, <1>2, <1>3
  <2>8. \A k, l \in 1 .. m + 1 : k < l => g[k] < g[l]
    <3> SUFFICES ASSUME NEW k \in 1 .. m + 1, NEW l \in 1 .. m + 1, k < l
                 PROVE  g[k] < g[l]
      OBVIOUS
    <3>1. k \in 1 .. m
      BY <1>2
    <3>2. CASE l = m + 1
      BY <3>1, <3>2, <2>5, <1>1
    <3>3. CASE l \in 1 .. m
      BY <3>1, <3>3, <2>5, <1>3
    <3> QED
      BY <3>2, <3>3, <1>2
  <2>9. \A i \in I \cap (1 .. n + 1) : \E k \in 1 .. m + 1 : g[k] = i
    <3> SUFFICES ASSUME NEW i \in I \cap (1 .. n + 1)
                 PROVE  \E k \in 1 .. m + 1 : g[k] = i
      OBVIOUS
    <3>1. CASE i = n + 1
      BY <3>1, <2>5, <1>2
    <3>2. CASE i \in 1 .. n
      <4>1. PICK k \in 1 .. m : h[k] = i
        BY <3>2, <1>3
      <4>2. k \in 1 .. m + 1
        BY <1>2
      <4> QED
        BY <4>1, <4>2, <2>5
    <3> QED
      BY <3>1, <3>2, <1>1
  <2>10. From(u, s, I, n + 1, g)
    BY <2>3, <2>6, <2>7, <2>8, <2>9 DEF From
  <2> QED
    BY <2>10, <2>1, <1>5
<1> QED
  BY <1>4, <1>5

\* At picks the elements at the given positions, which its recursive definition
\* does not say.
LEMMA AtQueue ==
    ASSUME NEW S, NEW s \in Seq(S), NEW I
    PROVE  At(s, I) \in Seq(S) /\ \E h : From(At(s, I), s, I, Len(s), h)
<1>0. PICK L \in Nat : L = Len(s)
  BY LenProperties
<1> DEFINE Step(t, n) == IF n \in I THEN Append(t, s[n]) ELSE t
           Kept(f, n) == /\ f \in [0 .. n -> Seq(S)] /\ f[0] = <<>>
                         /\ \A i \in 1 .. n : f[i] = Step(f[i - 1], i)
           Good(t, n) == t \in Seq(S) /\ \E h : From(t, s, I, n, h)
           P == {n \in Nat : n <= L => \E f : Kept(f, n)}
           Q == {n \in Nat : \A f : n <= L /\ Kept(f, L) => Good(f[n], n)}
<1>1. \A n \in Nat : n \in P
  <2>1. 0 \in P
    <3>1. PICK f : f = [i \in 0 .. 0 |-> <<>>]
      OBVIOUS
    <3>2. <<>> \in Seq(S)
      OBVIOUS
    <3>3. f \in [0 .. 0 -> Seq(S)] /\ f[0] = <<>> /\ 1 .. 0 = {}
      BY <3>1, <3>2
    <3> QED
      BY <3>3
  <2>2. ASSUME NEW n \in Nat, n \in P PROVE n + 1 \in P
    <3> SUFFICES ASSUME n + 1 <= L PROVE \E f : Kept(f, n + 1)
      BY SMTT(30)
    <3>0. n <= L
      BY <1>0
    <3>1. PICK f : Kept(f, n)
      BY <2>2, <3>0
    <3>2. PICK t : t = Step(f[n], n + 1)
      OBVIOUS
    <3>3. t \in Seq(S)
      <4>1. f[n] \in Seq(S) /\ s[n + 1] \in S
        BY <3>1, <1>0, ElementOfSeq
      <4> QED
        BY <4>1, <3>2, AppendProperties
    <3>4. PICK g : g = [i \in 0 .. n + 1 |-> IF i = n + 1 THEN t ELSE f[i]]
      OBVIOUS
    <3>5. \A i \in 0 .. n + 1 : i = n + 1 \/ i \in 0 .. n
      OBVIOUS
    <3>6. g \in [0 .. n + 1 -> Seq(S)]
      BY <3>1, <3>3, <3>4, <3>5
    <3>7. g[0] = <<>> /\ g[n + 1] = t /\ \A i \in 0 .. n : g[i] = f[i]
      BY <3>1, <3>4
    <3>8. ASSUME NEW i \in 1 .. n + 1 PROVE g[i] = Step(g[i - 1], i)
      <4>1. i - 1 \in 0 .. n /\ (i = n + 1 \/ i \in 1 .. n)
        OBVIOUS
      <4>2. i = n + 1 => i - 1 = n
        OBVIOUS
      <4>3. i \in 1 .. n => i \in 0 .. n
        OBVIOUS
      <4> QED
        BY <4>1, <4>2, <4>3, <3>1, <3>2, <3>7
    <3> QED
      BY <3>6, <3>7, <3>8
  <2> HIDE DEF P
  <2> QED
    BY <2>1, <2>2, SetInduction
<1>2. \A n \in Nat : n \in Q
  <2>1. 0 \in Q
    <3>1. PICK h : h = [i \in {} |-> i]
      OBVIOUS
    <3>2. From(<<>>, s, I, 0, h)
      <4>1. 1 .. 0 = {} /\ Len(<<>>) = 0
        OBVIOUS
      <4> QED
        BY <3>1, <4>1 DEF From
    <3>3. <<>> \in Seq(S)
      OBVIOUS
    <3> QED
      BY <3>2, <3>3
  <2>2. ASSUME NEW n \in Nat, n \in Q PROVE n + 1 \in Q
    <3> HIDE DEF Kept, Good
    <3> SUFFICES ASSUME NEW f, n + 1 <= L, Kept(f, L)
                 PROVE  Good(f[n + 1], n + 1)
      OBVIOUS
    <3> USE DEF Kept, Good
    <3>1. n <= L /\ n \in 0 .. L /\ n + 1 \in 1 .. L /\ n + 1 \in 0 .. L
          /\ (n + 1) - 1 = n
      BY <1>0
    <3>2. Good(f[n], n)
      BY <2>2, <3>1
    <3>3. f[n + 1] = Step(f[n], n + 1) /\ f[n + 1] \in Seq(S)
      BY <3>1
    <3>4. PICK t, h : t = f[n] /\ t \in Seq(S) /\ From(t, s, I, n, h)
      BY <3>2
    <3>5. \E g : From(Step(t, n + 1), s, I, n + 1, g)
      BY <3>1, <3>4, <1>0, FromNext
    <3> QED
      BY <3>3, <3>4, <3>5
  <2> HIDE DEF Q
  <2> QED
    BY <2>1, <2>2, SetInduction
<1> DEFINE Eq(f) == f = [n \in 0 .. L |-> IF n = 0 THEN <<>>
                                          ELSE IF n \in I THEN Append(f[n - 1], s[n])
                                          ELSE f[n - 1]]
<1>3. \E f : Eq(f)
  <2>0. L <= L /\ L \in P
    <3> HIDE DEF P
    <3> QED
      BY <1>0, <1>1
  <2>1. PICK f : Kept(f, L)
    BY <2>0
  <2>2. PICK g : g = [n \in 0 .. L |-> IF n = 0 THEN <<>>
                                       ELSE IF n \in I THEN Append(f[n - 1], s[n])
                                       ELSE f[n - 1]]
    OBVIOUS
  <2>3. \A n \in 0 .. L : g[n] = f[n]
    <3>1. \A n \in 0 .. L : n = 0 \/ n \in 1 .. L
      BY <1>0
    <3> QED
      BY <3>1, <2>1, <2>2
  <2>4. DOMAIN f = 0 .. L /\ DOMAIN g = 0 .. L
    BY <2>1, <2>2
  <2>5. f = [n \in 0 .. L |-> f[n]] /\ g = [n \in 0 .. L |-> g[n]]
    BY <2>1, <2>2
  <2>6. f = g
    BY <2>3, <2>5
  <2> QED
    BY <2>2, <2>6
<1>4. PICK f : Eq(f) /\ At(s, I) = f[L]
  <2>1. At(s, I) = (CHOOSE f : Eq(f))[L]
    BY <1>0 DEF At
  <2> QED
    BY <1>3, <2>1
<1>5. \A n \in 0 .. L : f[n] = IF n = 0 THEN <<>> ELSE Step(f[n - 1], n)
  BY <1>4
<1> DEFINE R == {n \in Nat : n <= L => f[n] \in Seq(S)}
<1>6. \A n \in Nat : n \in R
  <2>1. 0 \in R
    <3>1. 0 \in 0 .. L
      BY <1>0
    <3>2. f[0] = <<>> /\ <<>> \in Seq(S)
      BY <3>1, <1>5
    <3>3. f[0] \in Seq(S)
      BY <3>2
    <3> QED
      BY <3>3
  <2>2. ASSUME NEW n \in Nat, n \in R PROVE n + 1 \in R
    <3> SUFFICES ASSUME n + 1 <= L PROVE f[n + 1] \in Seq(S)
      OBVIOUS
    <3>1. n + 1 \in 0 .. L /\ n + 1 # 0 /\ (n + 1) - 1 = n /\ n + 1 \in 1 .. L
      BY <1>0
    <3>2. f[n + 1] = Step(f[n], n + 1) /\ f[n] \in Seq(S)
      BY <3>1, <1>5, <2>2, <1>0
    <3>3. s[n + 1] \in S
      BY <3>1, <1>0, ElementOfSeq
    <3> QED
      BY <3>2, <3>3, AppendProperties
  <2> HIDE DEF R
  <2> QED
    BY <2>1, <2>2, SetInduction
<1>7. Kept(f, L)
  <2>1. f \in [0 .. L -> Seq(S)]
    <3>1. \A n \in 0 .. L : f[n] \in Seq(S)
      BY <1>6, <1>0
    <3> HIDE DEF Eq, R
    <3>2. f = [n \in 0 .. L |-> f[n]]
      BY <1>4 DEF Eq
    <3> QED
      BY <3>1, <3>2
  <2>2. \A i \in 1 .. L : i \in 0 .. L /\ i # 0
    BY <1>0
  <2>3. f[0] = <<>>
    BY <1>5, <1>0
  <2> QED
    BY <2>1, <2>2, <2>3, <1>5
<1>8. Good(f[L], L)
  <2>1. L <= L /\ L \in Q
    BY <1>0, <1>2
  <2> HIDE DEF Kept, Good
  <2> QED
    BY <2>1, <1>7
<1> QED
  BY <1>4, <1>8, <1>0

\* What stays on a queue when it is cut down to the positions in I.
LEMMA Filtered ==
    ASSUME NEW S, NEW s \in Seq(S), NEW I, I \subseteq DOMAIN s
    PROVE  /\ At(s, I) \in Seq(S)
           /\ \A e : On(e, At(s, I)) <=> \E i \in I : s[i] = e
           /\ Once(s) => Once(At(s, I))
<1>0. PICK r : r = At(s, I)
  OBVIOUS
<1>1. PICK h : r \in Seq(S) /\ From(r, s, I, Len(s), h)
  BY <1>0, AtQueue
<1>2. DOMAIN r = 1 .. Len(r) /\ DOMAIN s = 1 .. Len(s)
      /\ Len(r) \in Nat /\ Len(s) \in Nat
  BY <1>1, LenProperties
<1>3. /\ \A k \in DOMAIN r : h[k] \in I /\ r[k] = s[h[k]]
      /\ \A k, l \in DOMAIN r : k < l => h[k] < h[l]
      /\ \A i \in I : \E k \in DOMAIN r : h[k] = i
  BY <1>1, <1>2 DEF From
<1>4. ASSUME NEW e PROVE On(e, r) <=> \E i \in I : s[i] = e
  <2>1. ASSUME NEW k \in DOMAIN r, r[k] = e PROVE \E i \in I : s[i] = e
    BY <2>1, <1>3
  <2>2. ASSUME NEW i \in I, s[i] = e PROVE On(e, r)
    <3>1. PICK k \in DOMAIN r : h[k] = i
      BY <1>3
    <3> QED
      BY <3>1, <2>2, <1>3 DEF On
  <2> QED
    BY <2>1, <2>2 DEF On
<1>5. ASSUME Once(s) PROVE Once(r)
  <2> SUFFICES ASSUME NEW k \in DOMAIN r, NEW l \in DOMAIN r, r[k] = r[l], k # l
               PROVE  FALSE
    BY DEF Once
  <2>1. h[k] = h[l]
    BY <1>3, <1>5 DEF Once
  <2>2. \A i \in DOMAIN s : ~(i < i)
    BY <1>2
  <2>3. k < l \/ l < k
    BY <1>2
  <2> QED
    BY <1>3, <2>1, <2>2, <2>3
<1> QED
  BY <1>0, <1>1, <1>4, <1>5
=============================================================================
