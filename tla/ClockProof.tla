----------------------------- MODULE ClockProof -----------------------------
(***************************************************************************)
(* The lists of alarm.c and portclock.c: whoever waits for a time is on    *)
(* its list, in the order of the times, so that it is enough for a clock   *)
(* interrupt to look at the heads of the lists.                            *)
(***************************************************************************)
EXTENDS MCClock, QueueTheorems

(***************************************************************************)
(* tsleep.                                                                 *)
(***************************************************************************)

\* Where a process is in tsleep, and what it has there.
SleeperOK(p) ==
    /\ pc[p] \in {"idle", "lock", "insert", "sleep", "asleep", "return"}
    /\ pc[p] = "idle" <=> r0[p] = nil
    /\ pc[p] # "idle" => when[p] # 0
    /\ \A q \in Proc : r0[p] # nil /\ r0[p] = r0[q] => p = q
    /\ pc[p] = "insert" <=> talarm = p
    /\ pc[p] \in {"sleep", "asleep"} => twhen[p] = when[p]
    /\ pc[p] = "asleep" => trend[p] = r0[p] /\ rp[r0[p]] = p
    \* It may be taken off the list before it sleeps, and then will not.
    /\ pc[p] = "sleep" => trend[p] = r0[p] \/ ticks >= twhen[p]

\* Where a clock interrupt is, and what it knows.
InterruptOK(m) ==
    /\ pc[m] \in {"idle", "canlock", "loop", "wakeup"}
    /\ pc[m] \in {"loop", "wakeup"} <=> talarm = m
    /\ now[m] <= ticks
    /\ pc[m] = "wakeup" => list # <<>> /\ twhen[Head(list)] <= now[m]

RendOK(r) == rp[r] # nil => r0[rp[r]] = r /\ pc[rp[r]] = "asleep"

\* The list: who is on it, once, and in which order.
OnList == \A p \in Proc : trend[p] # nil <=> On(p, list)
InOrder ==
    \A p, q \in Proc :
        Before(p, q, list) /\ twhen[q] # 0 => twhen[p] <= twhen[q]

SleepInv ==
    /\ TypeOK
    /\ \A p \in Proc : SleeperOK(p)
    /\ \A m \in Mach : InterruptOK(m)
    /\ \A r \in Rend : RendOK(r)
    /\ Once(list) /\ OnList /\ InOrder

-----------------------------------------------------------------------------
\* What checkalarms goes by, said of positions.
LEMMA SleepListOK ==
    ASSUME TSleepAssumption, SleepInv
    PROVE  TalarmOK /\ TimeoutKept /\ DueFirst
<1>1. TalarmOK
  BY DEF SleepInv, TalarmOK, TrendTells, IsInjective, Once, OnList, On
<1>2. TimeoutKept
  BY DEF SleepInv, TimeoutKept, SleeperOK
<1>3. DueFirst
  <2> SUFFICES ASSUME NEW i \in DOMAIN list, NEW j \in DOMAIN list, i < j,
                      twhen[list[j]] # 0
               PROVE  twhen[list[i]] <= twhen[list[j]]
    BY DEF DueFirst
  <2>1. list[i] \in Proc /\ list[j] \in Proc
    BY DEF SleepInv, TypeOK
  <2>2. Before(list[i], list[j], list)
    BY DEF Before
  <2> QED
    BY <2>1, <2>2 DEF SleepInv, InOrder
<1> QED
  BY <1>1, <1>2, <1>3

\* Where a time belongs in a list that is in order.
LEMMA SleepPosition ==
    ASSUME TypeOK, NEW l \in Seq(Proc), NEW t \in Nat,
           \A p, q \in Proc :
               Before(p, q, l) /\ twhen[q] # 0 => twhen[p] <= twhen[q]
    PROVE  /\ position(l, t) \in 1 .. Len(l) + 1
           /\ \A i \in DOMAIN l : i < position(l, t) => twhen[l[i]] < t
           /\ \A i \in DOMAIN l :
                position(l, t) <= i /\ twhen[l[i]] # 0 => t <= twhen[l[i]]
<1>1. DOMAIN l = 1 .. Len(l) /\ Len(l) \in Nat /\ \A i \in DOMAIN l : l[i] \in Proc
  BY LenProperties
<1>2. \A p \in Proc : twhen[p] \in Nat
  BY DEF TypeOK
<1> DEFINE later == {i \in DOMAIN l : twhen[l[i]] >= t}
<1>3. CASE later = {}
  <2>1. position(l, t) = Len(l) + 1
    BY <1>3 DEF position
  <2> QED
    BY <2>1, <1>1, <1>2, <1>3
<1>4. CASE later # {}
  <2>1. PICK k \in later : \A j \in later : k <= j
    <3>1. later \in SUBSET Nat
      BY <1>1
    <3> QED
      BY <3>1, <1>4, Least
  <2>2. position(l, t) \in later /\ \A j \in later : position(l, t) <= j
    <3>1. position(l, t) = CHOOSE i \in later : \A j \in later : i <= j
      BY <1>4 DEF position
    <3> QED
      BY <3>1, <2>1
  <2>3. PICK k0 : k0 = position(l, t)
    OBVIOUS
  <2>4. ASSUME NEW i \in DOMAIN l, i < k0 PROVE twhen[l[i]] < t
    BY <2>2, <2>3, <2>4, <1>1, <1>2
  <2>5. ASSUME NEW i \in DOMAIN l, k0 <= i, twhen[l[i]] # 0 PROVE t <= twhen[l[i]]
    <3>1. twhen[l[k0]] >= t /\ k0 \in DOMAIN l
      BY <2>2, <2>3
    <3>2. CASE k0 < i
      <4>1. Before(l[k0], l[i], l) /\ l[k0] \in Proc /\ l[i] \in Proc
        BY <3>1, <3>2, <1>1 DEF Before
      <4>2. twhen[l[k0]] <= twhen[l[i]]
        BY <4>1, <2>5
      <4> QED
        BY <4>1, <4>2, <3>1, <1>2
    <3>3. CASE k0 = i
      BY <3>1, <3>3, <1>1, <1>2
    <3> QED
      BY <3>1, <3>2, <3>3, <2>5, <1>1
  <2> QED
    BY <2>2, <2>3, <2>4, <2>5, <1>1
<1> QED
  BY <1>3, <1>4

-----------------------------------------------------------------------------
LEMMA SleepStarts == TSleepAssumption /\ Init => SleepInv
<1> SUFFICES ASSUME TSleepAssumption, Init PROVE SleepInv
  OBVIOUS
<1>1. TypeOK
  <2>1. 0 \in 0 .. MaxTick /\ 1 \in 1 .. MaxTick
    BY DEF TSleepAssumption
  <2> QED
    BY <2>1 DEF Init, TypeOK
<1>2. \A p \in Proc : SleeperOK(p)
  BY DEF Init, SleeperOK, TSleepAssumption
<1>3. \A m \in Mach : InterruptOK(m)
  BY DEF Init, InterruptOK, TSleepAssumption
<1>4. \A r \in Rend : RendOK(r)
  BY DEF Init, RendOK
<1>5. Once(list) /\ OnList /\ InOrder
  BY DEF Init, Once, OnList, InOrder, On, Before
<1> QED
  BY <1>1, <1>2, <1>3, <1>4, <1>5 DEF SleepInv

\* A process on its way into tsleep or out of it does not touch the list.
LEMMA TsleepSteps ==
    ASSUME TSleepAssumption, SleepInv, NEW p \in Proc,
           \/ \E r \in Rend, d \in Delay : tsleep(p, r, d)
           \/ tsleepLock(p) \/ tsleepSleep(p) \/ tsleepNote(p) \/ tsleepReturn(p)
    PROVE  SleepInv'
<1>0. /\ \A q \in Proc : q \in Proc \cup Mach /\ q # nil /\ q \notin Mach
      /\ \A m \in Mach : m \in Proc \cup Mach /\ m # nil
      /\ nil \notin Rend
  BY DEF TSleepAssumption
<1> USE DEF Goto, shared, locals
<1>1. ASSUME NEW r \in Rend, NEW d \in Delay, tsleep(p, r, d) PROVE SleepInv'
  <2> PICK t \in Nat : t = ticks + d /\ t # 0 /\ t <= MaxTick
    BY <1>1 DEF tsleep, TSleepAssumption, SleepInv, TypeOK
  <2>1. TypeOK'
    BY <1>0, <1>1 DEF SleepInv, TypeOK, tsleep, TSleepAssumption
  <2>2. \A q \in Proc : SleeperOK(q)'
    BY <1>0, <1>1 DEF SleepInv, TypeOK, SleeperOK, tsleep
  <2>3. \A m \in Mach : InterruptOK(m)'
    BY <1>0, <1>1 DEF SleepInv, TypeOK, InterruptOK, tsleep
  <2>4. \A s \in Rend : RendOK(s)'
    BY <1>0, <1>1 DEF SleepInv, TypeOK, RendOK, SleeperOK, tsleep
  <2>5. (Once(list) /\ OnList /\ InOrder)'
    BY <1>1 DEF SleepInv, OnList, InOrder, tsleep
  <2> QED
    BY <2>1, <2>2, <2>3, <2>4, <2>5 DEF SleepInv
<1>2. CASE tsleepLock(p)
  <2>1. TypeOK'
    BY <1>0, <1>2 DEF SleepInv, TypeOK, tsleepLock
  <2>2. \A q \in Proc : SleeperOK(q)'
    BY <1>0, <1>2 DEF SleepInv, TypeOK, SleeperOK, tsleepLock
  <2>3. \A m \in Mach : InterruptOK(m)'
    BY <1>0, <1>2 DEF SleepInv, TypeOK, InterruptOK, tsleepLock
  <2>4. \A s \in Rend : RendOK(s)'
    BY <1>0, <1>2 DEF SleepInv, TypeOK, RendOK, SleeperOK, tsleepLock
  <2>5. (Once(list) /\ OnList /\ InOrder)'
    BY <1>2 DEF SleepInv, OnList, InOrder, tsleepLock
  <2> QED
    BY <2>1, <2>2, <2>3, <2>4, <2>5 DEF SleepInv
<1>3. CASE tsleepSleep(p)
  <2>1. TypeOK'
    BY <1>0, <1>3 DEF SleepInv, TypeOK, tsleepSleep
  <2>0. r0[p] \in Rend /\ pc[p] = "sleep" /\ rp[r0[p]] = nil
    BY <1>0, <1>3 DEF SleepInv, TypeOK, SleeperOK, RendOK, tsleepSleep
  <2>2. \A q \in Proc : SleeperOK(q)'
    <3>1. ASSUME NEW q \in Proc, q # p PROVE SleeperOK(q)'
      BY <1>0, <1>3, <2>0, <3>1 DEF SleepInv, TypeOK, SleeperOK, tsleepSleep
    <3>2. SleeperOK(p)'
      BY <1>0, <1>3, <2>0 DEF SleepInv, TypeOK, SleeperOK, tsleepSleep, tfn
    <3> QED
      BY <3>1, <3>2
  <2>3. \A m \in Mach : InterruptOK(m)'
    BY <1>0, <1>3 DEF SleepInv, TypeOK, InterruptOK, tsleepSleep
  <2>4. \A s \in Rend : RendOK(s)'
    BY <1>0, <1>3, <2>0 DEF SleepInv, TypeOK, RendOK, SleeperOK, tsleepSleep
  <2>5. (Once(list) /\ OnList /\ InOrder)'
    BY <1>3 DEF SleepInv, OnList, InOrder, tsleepSleep
  <2> QED
    BY <2>1, <2>2, <2>3, <2>4, <2>5 DEF SleepInv
<1>4. CASE tsleepNote(p)
  <2>0. r0[p] \in Rend /\ pc[p] \in {"sleep", "asleep"}
    BY <1>0, <1>4 DEF SleepInv, TypeOK, SleeperOK, tsleepNote
  <2>1. TypeOK'
    BY <1>0, <1>4 DEF SleepInv, TypeOK, tsleepNote
  <2>2. \A q \in Proc : SleeperOK(q)'
    BY <1>0, <1>4, <2>0 DEF SleepInv, TypeOK, SleeperOK, tsleepNote
  <2>3. \A m \in Mach : InterruptOK(m)'
    BY <1>0, <1>4 DEF SleepInv, TypeOK, InterruptOK, tsleepNote
  <2>4. \A s \in Rend : RendOK(s)'
    BY <1>0, <1>4, <2>0 DEF SleepInv, TypeOK, RendOK, SleeperOK, tsleepNote
  <2>5. (Once(list) /\ OnList /\ InOrder)'
    BY <1>4 DEF SleepInv, OnList, InOrder, tsleepNote
  <2> QED
    BY <2>1, <2>2, <2>3, <2>4, <2>5 DEF SleepInv
<1>5. CASE tsleepReturn(p)
  <2>0. r0[p] \in Rend /\ pc[p] = "return"
    BY <1>0, <1>5 DEF SleepInv, TypeOK, SleeperOK, tsleepReturn
  <2>1. TypeOK'
    <3>1. 0 \in 0 .. MaxTick
      BY DEF TSleepAssumption
    <3> QED
      BY <1>0, <1>5, <2>0, <3>1 DEF SleepInv, TypeOK, tsleepReturn
  <2>2. \A q \in Proc : SleeperOK(q)'
    BY <1>0, <1>5, <2>0 DEF SleepInv, TypeOK, SleeperOK, tsleepReturn
  <2>3. \A m \in Mach : InterruptOK(m)'
    <3>1. list # <<>> => Head(list) \in Proc
      BY TailQueue DEF SleepInv, TypeOK
    <3> QED
      BY <1>0, <1>5, <3>1 DEF SleepInv, TypeOK, InterruptOK, tsleepReturn
  <2>4. \A s \in Rend : RendOK(s)'
    BY <1>0, <1>5, <2>0 DEF SleepInv, TypeOK, RendOK, SleeperOK, tsleepReturn
  <2>5. (Once(list) /\ OnList /\ InOrder)'
    BY <1>5 DEF SleepInv, TypeOK, OnList, InOrder, tsleepReturn
  <2> QED
    BY <2>1, <2>2, <2>3, <2>4, <2>5 DEF SleepInv
<1> QED
  BY <1>1, <1>2, <1>3, <1>4, <1>5

\* Out of the list and in again.
LEMMA TsleepInsertStep ==
    ASSUME TSleepAssumption, SleepInv, NEW p \in Proc, tsleepInsert(p)
    PROVE  SleepInv'
<1>0. /\ \A q \in Proc : q \in Proc \cup Mach /\ q # nil /\ q \notin Mach
      /\ \A m \in Mach : m \in Proc \cup Mach /\ m # nil
      /\ nil \notin Rend
  BY DEF TSleepAssumption
<1>1. /\ pc[p] = "insert" /\ talarm = p /\ r0[p] \in Rend
      /\ when[p] \in Nat \ {0} /\ when[p] \in 0 .. MaxTick
  BY <1>0 DEF tsleepInsert, Goto, SleepInv, TypeOK, SleeperOK
<1>2. PICK l : /\ l = IF trend[p] # nil THEN RemoveFirst(list, p) ELSE list
               /\ list' = InsertAt(l, position(l, when[p]), p)
  BY DEF tsleepInsert
<1>3. /\ l \in Seq(Proc) /\ Once(l)
      /\ \A q : On(q, l) <=> On(q, list) /\ q # p
      /\ \A q, s : Before(q, s, l) => Before(q, s, list)
  <2>1. CASE trend[p] # nil
    <3>1. On(p, list) /\ Once(list) /\ list \in Seq(Proc)
      BY <2>1 DEF SleepInv, OnList, TypeOK
    <3>2. /\ RemoveFirst(list, p) \in Seq(Proc)
          /\ \A q : On(q, RemoveFirst(list, p)) <=> On(q, list) /\ q # p
          /\ Once(RemoveFirst(list, p))
          /\ \A q, s : Before(q, s, RemoveFirst(list, p)) => Before(q, s, list)
      BY <3>1, RemoveQueue
    <3> QED
      BY <2>1, <3>2, <1>2
  <2>2. CASE trend[p] = nil
    BY <2>2, <1>2 DEF SleepInv, OnList, TypeOK
  <2> QED
    BY <2>1, <2>2
<1>4. PICK k : k = position(l, when[p])
  OBVIOUS
<1>5. /\ k \in 1 .. Len(l) + 1
      /\ \A i \in DOMAIN l : i < k => twhen[l[i]] < when[p]
      /\ \A i \in DOMAIN l : k <= i /\ twhen[l[i]] # 0 => when[p] <= twhen[l[i]]
  <2>1. \A q, s \in Proc :
          Before(q, s, l) /\ twhen[s] # 0 => twhen[q] <= twhen[s]
    BY <1>3 DEF SleepInv, InOrder
  <2> QED
    BY <1>1, <1>3, <1>4, <2>1, SleepPosition DEF SleepInv
<1>6. /\ list' \in Seq(Proc) /\ Once(list')
      /\ \A q : On(q, list') <=> On(q, list) \/ q = p
      /\ \A q, s : Before(q, s, list') =>
           \/ Before(q, s, l)
           \/ q = p /\ \E j \in DOMAIN l : k <= j /\ l[j] = s
           \/ s = p /\ \E i \in DOMAIN l : i < k /\ l[i] = q
  <2>1. /\ InsertAt(l, k, p) \in Seq(Proc)
        /\ \A q : On(q, InsertAt(l, k, p)) <=> On(q, l) \/ q = p
        /\ Once(l) /\ ~On(p, l) => Once(InsertAt(l, k, p))
        /\ \A q, s : Before(q, s, InsertAt(l, k, p)) =>
             \/ Before(q, s, l)
             \/ q = p /\ \E j \in DOMAIN l : k <= j /\ l[j] = s
             \/ s = p /\ \E i \in DOMAIN l : i < k /\ l[i] = q
    BY <1>3, <1>5, InsertQueue
  <2>2. list' = InsertAt(l, k, p)
    BY <1>2, <1>4
  <2> QED
    BY <2>1, <2>2, <1>3
<1>7. /\ trend' = [trend EXCEPT ![p] = r0[p]]
      /\ twhen' = [twhen EXCEPT ![p] = when[p]]
      /\ pc' = [pc EXCEPT ![p] = "sleep"] /\ talarm' = nil
      /\ UNCHANGED <<ticks, rp, cond, r0, when, now>>
  BY DEF tsleepInsert, Goto, locals
<1>8. TypeOK'
  BY <1>0, <1>1, <1>6, <1>7 DEF SleepInv, TypeOK
<1>9. \A q \in Proc : SleeperOK(q)'
  BY <1>0, <1>1, <1>7 DEF SleepInv, TypeOK, SleeperOK
<1>10. \A m \in Mach : InterruptOK(m)'
  BY <1>0, <1>1, <1>7 DEF SleepInv, TypeOK, InterruptOK
<1>11. \A r \in Rend : RendOK(r)'
  BY <1>0, <1>1, <1>7 DEF SleepInv, TypeOK, RendOK
<1>12. OnList'
  BY <1>0, <1>1, <1>6, <1>7 DEF SleepInv, TypeOK, OnList
<1>13. InOrder'
  <2> SUFFICES ASSUME NEW q \in Proc, NEW s \in Proc,
                      Before(q, s, list'), twhen'[s] # 0
               PROVE  twhen'[q] <= twhen'[s]
    BY DEF InOrder
  <2>0. twhen \in [Proc -> Nat]
    BY DEF SleepInv, TypeOK
  <2>1. CASE Before(q, s, l)
    <3>1. On(q, l) /\ On(s, l)
      BY <2>1 DEF On, Before
    <3>2. q # p /\ s # p /\ Before(q, s, list)
      BY <3>1, <2>1, <1>3
    <3> QED
      BY <3>2, <1>7, <2>0 DEF SleepInv, InOrder
  <2>2. CASE q = p /\ \E j \in DOMAIN l : k <= j /\ l[j] = s
    <3>1. On(s, l)
      BY <2>2 DEF On
    <3>2. s # p /\ twhen'[s] = twhen[s] /\ twhen'[p] = when[p]
      BY <3>1, <1>3, <1>7, <2>0
    <3> QED
      BY <3>2, <2>2, <1>5
  <2>3. CASE s = p /\ \E i \in DOMAIN l : i < k /\ l[i] = q
    <3>1. On(q, l)
      BY <2>3 DEF On
    <3>2. q # p /\ twhen'[q] = twhen[q] /\ twhen'[p] = when[p]
      BY <3>1, <1>3, <1>7, <2>0
    <3>3. twhen[q] < when[p]
      BY <2>3, <1>5
    <3> QED
      BY <3>2, <3>3, <2>3, <2>0, <1>1
  <2> QED
    BY <2>1, <2>2, <2>3, <1>6
<1> QED
  BY <1>6, <1>8, <1>9, <1>10, <1>11, <1>12, <1>13 DEF SleepInv

\* A condition comes true, and a clock interrupt up to the lock.
LEMMA InterruptStarts ==
    ASSUME TSleepAssumption, SleepInv,
           \/ \E r \in Rend : event(r)
           \/ \E m \in Mach : hzclock(m) \/ checkalarms(m) \/ checkalarmsBusy(m)
    PROVE  SleepInv'
<1>0. /\ \A q \in Proc : q \in Proc \cup Mach /\ q # nil /\ q \notin Mach
      /\ \A m \in Mach : m \in Proc \cup Mach /\ m # nil /\ m \notin Proc
      /\ nil \notin Rend
      /\ 0 \in 0 .. MaxTick
  BY DEF TSleepAssumption
<1>l. list # <<>> => Head(list) \in Proc
  BY TailQueue DEF SleepInv, TypeOK
<1> USE DEF Goto, shared, locals
<1>1. ASSUME NEW r \in Rend, event(r) PROVE SleepInv'
  <2>0. /\ pc' = [b \in Proc \cup Mach |-> IF b = rp[r] THEN "return" ELSE pc[b]]
        /\ rp' = [rp EXCEPT ![r] = nil] /\ cond' = [cond EXCEPT ![r] = TRUE]
        /\ UNCHANGED <<ticks, twhen, trend, list, talarm, r0, when, now>>
    BY <1>0, <1>1 DEF event, wakeup, SleepInv, TypeOK
  <2>1. TypeOK'
    BY <1>0, <2>0 DEF SleepInv, TypeOK
  <2>2. \A q \in Proc : SleeperOK(q)'
    BY <1>0, <2>0 DEF SleepInv, TypeOK, SleeperOK, RendOK
  <2>3. \A m \in Mach : InterruptOK(m)'
    BY <1>0, <2>0 DEF SleepInv, TypeOK, InterruptOK
  <2>4. \A s \in Rend : RendOK(s)'
    BY <1>0, <2>0 DEF SleepInv, TypeOK, RendOK
  <2>5. (Once(list) /\ OnList /\ InOrder)'
    BY <2>0 DEF SleepInv, OnList, InOrder
  <2> QED
    BY <2>1, <2>2, <2>3, <2>4, <2>5 DEF SleepInv
<1>2. ASSUME NEW m \in Mach, hzclock(m) PROVE SleepInv'
  <2>0. ticks' \in 1 .. MaxTick /\ ticks <= ticks' /\ ticks' \in 0 .. MaxTick
    BY <1>2 DEF hzclock, SleepInv, TypeOK, TSleepAssumption
  <2>1. TypeOK'
    BY <1>0, <1>2, <2>0 DEF SleepInv, TypeOK, hzclock
  <2>2. \A q \in Proc : SleeperOK(q)'
    BY <1>0, <1>2, <2>0 DEF SleepInv, TypeOK, SleeperOK, hzclock
  <2>3. \A n \in Mach : InterruptOK(n)'
    BY <1>0, <1>2, <2>0 DEF SleepInv, TypeOK, InterruptOK, hzclock
  <2>4. \A s \in Rend : RendOK(s)'
    BY <1>0, <1>2 DEF SleepInv, TypeOK, RendOK, hzclock
  <2>5. (Once(list) /\ OnList /\ InOrder)'
    BY <1>2 DEF SleepInv, OnList, InOrder, hzclock
  <2> QED
    BY <2>1, <2>2, <2>3, <2>4, <2>5 DEF SleepInv
<1>3. ASSUME NEW m \in Mach, checkalarms(m) PROVE SleepInv'
  <2>1. TypeOK'
    BY <1>0, <1>3 DEF SleepInv, TypeOK, checkalarms
  <2>2. \A q \in Proc : SleeperOK(q)'
    BY <1>0, <1>3 DEF SleepInv, TypeOK, SleeperOK, checkalarms
  <2>3. \A n \in Mach : InterruptOK(n)'
    BY <1>0, <1>3 DEF SleepInv, TypeOK, InterruptOK, checkalarms
  <2>4. \A s \in Rend : RendOK(s)'
    BY <1>0, <1>3 DEF SleepInv, TypeOK, RendOK, checkalarms
  <2>5. (Once(list) /\ OnList /\ InOrder)'
    BY <1>3 DEF SleepInv, OnList, InOrder, checkalarms
  <2> QED
    BY <2>1, <2>2, <2>3, <2>4, <2>5 DEF SleepInv
<1>4. ASSUME NEW m \in Mach, checkalarmsBusy(m) PROVE SleepInv'
  <2>1. TypeOK'
    BY <1>0, <1>4 DEF SleepInv, TypeOK, checkalarmsBusy
  <2>2. \A q \in Proc : SleeperOK(q)'
    BY <1>0, <1>4 DEF SleepInv, TypeOK, SleeperOK, checkalarmsBusy
  <2>3. \A n \in Mach : InterruptOK(n)'
    BY <1>0, <1>4 DEF SleepInv, TypeOK, InterruptOK, checkalarmsBusy
  <2>4. \A s \in Rend : RendOK(s)'
    BY <1>0, <1>4 DEF SleepInv, TypeOK, RendOK, checkalarmsBusy
  <2>5. (Once(list) /\ OnList /\ InOrder)'
    BY <1>4 DEF SleepInv, OnList, InOrder, checkalarmsBusy
  <2> QED
    BY <2>1, <2>2, <2>3, <2>4, <2>5 DEF SleepInv
<1> QED
  BY <1>1, <1>2, <1>3, <1>4

\* The head of the list leaves it.
LEMMA Beheaded ==
    ASSUME TypeOK, Once(list), OnList, InOrder, list # <<>>, behead, twhen' = twhen
    PROVE  /\ Head(list) \in Proc /\ trend[Head(list)] # nil
           /\ list' \in Seq(Proc) /\ Once(list') /\ OnList' /\ InOrder'
           /\ trend' = [trend EXCEPT ![Head(list)] = nil]
<1>1. /\ Head(list) \in Proc /\ Tail(list) \in Seq(Proc)
      /\ On(Head(list), list)
      /\ \A q : On(q, list) <=> On(q, Tail(list)) \/ q = Head(list)
      /\ Once(Tail(list)) /\ ~On(Head(list), Tail(list))
      /\ \A a, b : Before(a, b, Tail(list)) => Before(a, b, list)
  BY TailQueue DEF TypeOK
<1>2. list' = Tail(list) /\ trend' = [trend EXCEPT ![Head(list)] = nil]
  BY DEF behead
<1>3. OnList'
  BY <1>1, <1>2 DEF OnList, TypeOK
<1>4. InOrder'
  BY <1>1, <1>2 DEF InOrder
<1> QED
  BY <1>1, <1>2, <1>3, <1>4 DEF OnList

\* The loop of checkalarms.
LEMMA CheckalarmsLoop ==
    ASSUME TSleepAssumption, SleepInv, NEW m \in Mach,
           \/ checkalarmsReturned(m) \/ checkalarmsDone(m)
           \/ checkalarmsDue(m) \/ checkalarmsWakeup(m)
    PROVE  SleepInv'
<1>0. /\ \A q \in Proc : q \in Proc \cup Mach /\ q # nil /\ q \notin Mach
      /\ \A n \in Mach : n \in Proc \cup Mach /\ n # nil /\ n \notin Proc
      /\ nil \notin Rend
      /\ 0 \in 0 .. MaxTick
  BY DEF TSleepAssumption
<1>l. list # <<>> => Head(list) \in Proc
  BY TailQueue DEF SleepInv, TypeOK
<1> USE DEF Goto, shared, locals
<1>1. CASE checkalarmsReturned(m)
  <2>0. /\ Head(list) \in Proc /\ trend[Head(list)] # nil
        /\ list' \in Seq(Proc) /\ Once(list') /\ OnList' /\ InOrder'
        /\ trend' = [trend EXCEPT ![Head(list)] = nil]
    BY <1>1, Beheaded DEF SleepInv, checkalarmsReturned
  <2>1. TypeOK'
    BY <1>0, <1>1, <2>0 DEF SleepInv, TypeOK, checkalarmsReturned
  <2>2. \A q \in Proc : SleeperOK(q)'
    BY <1>0, <1>1, <2>0 DEF SleepInv, TypeOK, SleeperOK, checkalarmsReturned
  <2>3. \A n \in Mach : InterruptOK(n)'
    BY <1>0, <1>1, <2>0 DEF SleepInv, TypeOK, InterruptOK, checkalarmsReturned
  <2>4. \A s \in Rend : RendOK(s)'
    BY <1>1 DEF SleepInv, RendOK, checkalarmsReturned
  <2> QED
    BY <2>0, <2>1, <2>2, <2>3, <2>4 DEF SleepInv
<1>2. CASE checkalarmsDone(m)
  <2>1. TypeOK'
    BY <1>0, <1>2 DEF SleepInv, TypeOK, checkalarmsDone
  <2>2. \A q \in Proc : SleeperOK(q)'
    BY <1>0, <1>2 DEF SleepInv, TypeOK, SleeperOK, InterruptOK, checkalarmsDone
  <2>3. \A n \in Mach : InterruptOK(n)'
    BY <1>0, <1>2 DEF SleepInv, TypeOK, InterruptOK, checkalarmsDone
  <2>4. \A s \in Rend : RendOK(s)'
    BY <1>0, <1>2 DEF SleepInv, TypeOK, RendOK, checkalarmsDone
  <2>5. (Once(list) /\ OnList /\ InOrder)'
    BY <1>2 DEF SleepInv, OnList, InOrder, checkalarmsDone
  <2> QED
    BY <2>1, <2>2, <2>3, <2>4, <2>5 DEF SleepInv
<1>3. CASE checkalarmsDue(m)
  <2>1. TypeOK'
    BY <1>0, <1>3 DEF SleepInv, TypeOK, checkalarmsDue
  <2>2. \A q \in Proc : SleeperOK(q)'
    BY <1>0, <1>3 DEF SleepInv, TypeOK, SleeperOK, checkalarmsDue
  <2>3. \A n \in Mach : InterruptOK(n)'
    BY <1>0, <1>l, <1>3 DEF SleepInv, TypeOK, InterruptOK, checkalarmsDue
  <2>4. \A s \in Rend : RendOK(s)'
    BY <1>0, <1>3 DEF SleepInv, TypeOK, RendOK, checkalarmsDue
  <2>5. (Once(list) /\ OnList /\ InOrder)'
    BY <1>3 DEF SleepInv, OnList, InOrder, checkalarmsDue
  <2> QED
    BY <2>1, <2>2, <2>3, <2>4, <2>5 DEF SleepInv
<1>4. CASE checkalarmsWakeup(m)
  <2>0. /\ Head(list) \in Proc /\ trend[Head(list)] # nil
        /\ list' \in Seq(Proc) /\ Once(list') /\ OnList' /\ InOrder'
        /\ trend' = [trend EXCEPT ![Head(list)] = nil]
    BY <1>4, Beheaded DEF SleepInv, InterruptOK, checkalarmsWakeup
  <2>00. PICK p \in Proc, r \in Rend : p = Head(list) /\ r = trend[p]
    BY <2>0 DEF SleepInv, TypeOK
  <2>01. /\ rp' = [rp EXCEPT ![r] = nil]
         /\ pc' = [b \in Proc \cup Mach |->
                     IF b = m THEN "loop" ELSE IF b = rp[r] THEN "return" ELSE pc[b]]
         /\ pc[m] = "wakeup"
         /\ UNCHANGED <<ticks, twhen, talarm, cond, r0, when, now>>
    BY <1>4, <2>00 DEF checkalarmsWakeup, wakeup, SleepInv, TypeOK
  <2>02. ticks >= twhen[p] /\ talarm = m
    BY <2>00, <2>01 DEF SleepInv, InterruptOK, TypeOK
  <2>1. TypeOK'
    BY <1>0, <2>0, <2>00, <2>01 DEF SleepInv, TypeOK
  <2>2. ASSUME NEW q \in Proc PROVE SleeperOK(q)'
    <3>1. CASE q = p
      BY <1>0, <2>0, <2>00, <2>01, <2>02, <3>1 DEF SleepInv, TypeOK, SleeperOK, RendOK
    <3>2. CASE q # p
      BY SMTT(30), <1>0, <2>0, <2>00, <2>01, <2>02, <3>2 DEF SleepInv, TypeOK, SleeperOK, RendOK
    <3> QED
      BY <3>1, <3>2
  <2>3. \A n \in Mach : InterruptOK(n)'
    BY <1>0, <2>00, <2>01, <2>02 DEF SleepInv, TypeOK, InterruptOK
  <2>4. \A s \in Rend : RendOK(s)'
    BY <1>0, <2>00, <2>01, <2>02 DEF SleepInv, TypeOK, RendOK, SleeperOK
  <2> QED
    BY <2>0, <2>1, <2>2, <2>3, <2>4 DEF SleepInv
<1> QED
  BY <1>1, <1>2, <1>3, <1>4

LEMMA SleepStep == TSleepAssumption /\ SleepInv /\ [Next]_vars => SleepInv'
<1> SUFFICES ASSUME TSleepAssumption, SleepInv, [Next]_vars PROVE SleepInv'
  OBVIOUS
<1>1. CASE UNCHANGED vars
  BY <1>1 DEF vars, shared, locals, SleepInv, TypeOK, SleeperOK, InterruptOK,
              RendOK, OnList, InOrder
<1>2. CASE Next
  BY <1>2, TsleepSteps, TsleepInsertStep, InterruptStarts, CheckalarmsLoop
     DEF Next, Running, Interrupt
<1> QED
  BY <1>1, <1>2

LEMMA SleepInvariant ==
    ASSUME TSleepAssumption PROVE Spec => []SleepInv
<1>1. Init => SleepInv
  BY SleepStarts
<1>2. SleepInv /\ [Next]_vars => SleepInv'
  BY SleepStep
<1> QED
  BY <1>1, <1>2, PTL DEF Spec

(***************************************************************************)
(* procalarm and alarmkproc.                                               *)
(***************************************************************************)

\* Who changes alarms.head holds its QLock.
AlarmerOK(p) ==
    /\ apc[p] \in {"idle", "qlock", "set"}
    /\ apc[p] = "set" <=> qalarms = p
    /\ apc[p] # "idle" => awhen[p] # 0
    /\ apc[p] = "set" => On(p, alist)
    /\ alarm[p] # 0 => On(p, alist)

\* What alarmkproc found out about the head.
KprocOK ==
    /\ apc[kproc] \in {"start", "qlock", "loop", "try", "post", "sleep", "asleep"}
    /\ apc[kproc] \in {"loop", "try", "post"} <=> qalarms = kproc
    /\ apc[kproc] \in {"try", "post"} => alist # <<>> /\ alarm[Head(alist)] <= anow

\* The list is in the order of the times, that of a process which is just
\* setting its alarm being the new one.
due(p) == IF apc[p] = "set" THEN awhen[p] ELSE alarm[p]
AlarmsInOrder ==
    \A p, q \in Proc : Before(p, q, alist) /\ due(q) # 0 => due(p) <= due(q)

AlarmInv ==
    /\ A!TypeOK
    /\ \A p \in Proc : AlarmerOK(p)
    /\ KprocOK
    /\ Once(alist) /\ AlarmsInOrder

LEMMA AlarmListOK ==
    ASSUME A!AlarmsAssumption, AlarmInv
    PROVE  A!AlarmsOK /\ A!DueIsSeen /\ A!PostsDue
<1>0. alist \in Seq(Proc) /\ alarm \in [Proc -> Nat] /\ aticks \in Nat
  BY DEF AlarmInv, A!TypeOK, A!AlarmsAssumption
<1>1. A!AlarmsOK
  <2>1. \A p \in Proc : On(p, alist) => A!Contains(alist, p)
    BY <1>0, LenProperties DEF On, A!Contains
  <2> QED
    BY <2>1 DEF AlarmInv, A!AlarmsOK, A!SetIsListed, A!IsInjective, Once, AlarmerOK
<1>2. A!DueIsSeen
  <2> SUFFICES ASSUME qalarms = nil, NEW p \in Proc, alarm[p] \in 1 .. aticks
               PROVE  alarm[Head(alist)] <= aticks
    BY DEF A!DueIsSeen
  <2>1. On(p, alist) /\ alist # <<>>
    BY DEF AlarmInv, AlarmerOK, On
  <2>2. /\ Head(alist) \in Proc
        /\ p # Head(alist) => Before(Head(alist), p, alist)
    BY <1>0, <2>1, TailQueue
  <2>3. \A q \in Proc : due(q) = alarm[q]
    BY DEF AlarmInv, AlarmerOK, due, A!AlarmsAssumption
  <2>4. p # Head(alist) => alarm[Head(alist)] <= alarm[p]
    BY <2>2, <2>3 DEF AlarmInv, AlarmsInOrder
  <2> QED
    BY <2>2, <2>4, <1>0
<1>3. A!PostsDue
  BY DEF AlarmInv, KprocOK, A!PostsDue
<1> QED
  BY <1>1, <1>2, <1>3

\* Where a time belongs in a list that is in order.
LEMMA AlarmPosition ==
    ASSUME A!TypeOK, NEW l \in Seq(Proc), NEW t \in Nat,
           \A p, q \in Proc :
               Before(p, q, l) /\ alarm[q] # 0 => alarm[p] <= alarm[q]
    PROVE  /\ A!position(l, t) \in 1 .. Len(l) + 1
           /\ \A i \in DOMAIN l : i < A!position(l, t) => alarm[l[i]] <= t
           /\ \A i \in DOMAIN l :
                A!position(l, t) <= i /\ alarm[l[i]] # 0 => t <= alarm[l[i]]
<1>1. DOMAIN l = 1 .. Len(l) /\ Len(l) \in Nat /\ \A i \in DOMAIN l : l[i] \in Proc
  BY LenProperties
<1>2. \A p \in Proc : alarm[p] \in Nat
  BY DEF A!TypeOK
<1> DEFINE later == {i \in DOMAIN l : alarm[l[i]] > t}
<1>3. CASE later = {}
  <2>1. A!position(l, t) = Len(l) + 1
    BY <1>3 DEF A!position
  <2> QED
    BY <2>1, <1>1, <1>2, <1>3
<1>4. CASE later # {}
  <2>1. PICK k \in later : \A j \in later : k <= j
    <3>1. later \in SUBSET Nat
      BY <1>1
    <3> QED
      BY <3>1, <1>4, Least
  <2>2. A!position(l, t) \in later /\ \A j \in later : A!position(l, t) <= j
    <3>1. A!position(l, t) = CHOOSE i \in later : \A j \in later : i <= j
      BY <1>4 DEF A!position
    <3> QED
      BY <3>1, <2>1
  <2>3. PICK k0 : k0 = A!position(l, t)
    OBVIOUS
  <2>4. ASSUME NEW i \in DOMAIN l, i < k0 PROVE alarm[l[i]] <= t
    BY <2>2, <2>3, <2>4, <1>1, <1>2
  <2>5. ASSUME NEW i \in DOMAIN l, k0 <= i, alarm[l[i]] # 0 PROVE t <= alarm[l[i]]
    <3>1. alarm[l[k0]] > t /\ k0 \in DOMAIN l
      BY <2>2, <2>3
    <3>2. CASE k0 < i
      <4>1. Before(l[k0], l[i], l) /\ l[k0] \in Proc /\ l[i] \in Proc
        BY <3>1, <3>2, <1>1 DEF Before
      <4>2. alarm[l[k0]] <= alarm[l[i]]
        BY <4>1, <2>5
      <4> QED
        BY <4>1, <4>2, <3>1, <1>2
    <3>3. CASE k0 = i
      BY <3>1, <3>3, <1>1, <1>2
    <3> QED
      BY <3>1, <3>2, <3>3, <2>5, <1>1
  <2> QED
    BY <2>2, <2>3, <2>4, <2>5, <1>1
<1> QED
  BY <1>3, <1>4

LEMMA AlarmStarts ==
    ASSUME A!AlarmsAssumption, A!Init PROVE AlarmInv
<1>1. A!TypeOK
  <2>1. 0 \in 0 .. MaxAlarmTick /\ 1 \in 1 .. MaxAlarmTick
    BY DEF A!AlarmsAssumption
  <2> QED
    BY <2>1 DEF A!Init, A!TypeOK
<1>2. \A p \in Proc : AlarmerOK(p)
  BY DEF A!Init, AlarmerOK, A!AlarmsAssumption
<1>3. KprocOK
  BY DEF A!Init, KprocOK, A!AlarmsAssumption
<1>4. Once(alist) /\ AlarmsInOrder
  BY DEF A!Init, Once, AlarmsInOrder, On, Before
<1> QED
  BY <1>1, <1>2, <1>3, <1>4 DEF AlarmInv

\* procalarm up to the lock, a cancelled alarm, a debugger and a tick: the
\* list stays, and a time on it becomes 0 at the most.
LEMMA AlarmQuietSteps ==
    ASSUME A!AlarmsAssumption, AlarmInv,
           \/ \E p \in Proc : \/ A!cancel(p) \/ (\E d \in Delay : A!procalarm(p, d))
                             \/ A!debugger(p)
           \/ A!checkalarms
    PROVE  AlarmInv'
<1>0. /\ \A q \in Proc : q \in Proc \cup {kproc} /\ q # nil /\ q # kproc
      /\ kproc # nil /\ kproc \in Proc \cup {kproc}
      /\ 0 \in 0 .. MaxAlarmTick
  BY DEF A!AlarmsAssumption
<1>l. alist # <<>> => Head(alist) \in Proc
  BY TailQueue DEF AlarmInv, A!TypeOK
<1> USE DEF A!Goto
<1>1. ASSUME NEW p \in Proc, A!cancel(p) PROVE AlarmInv'
  <2>1. A!TypeOK'
    BY <1>0, <1>1 DEF AlarmInv, A!TypeOK, A!cancel
  <2>2. \A q \in Proc : AlarmerOK(q)'
    BY <1>0, <1>1 DEF AlarmInv, A!TypeOK, AlarmerOK, A!cancel
  <2>3. KprocOK'
    BY <1>0, <1>l, <1>1 DEF AlarmInv, A!TypeOK, KprocOK, A!cancel
  <2>4. (Once(alist) /\ AlarmsInOrder)'
    BY <1>1 DEF AlarmInv, A!TypeOK, AlarmsInOrder, A!cancel, due
  <2> QED
    BY <2>1, <2>2, <2>3, <2>4 DEF AlarmInv
<1>2. ASSUME NEW p \in Proc, NEW d \in Delay, A!procalarm(p, d) PROVE AlarmInv'
  <2> PICK t \in Nat : t = aticks + d /\ t # 0 /\ t <= MaxAlarmTick
    BY <1>2 DEF A!procalarm, A!AlarmsAssumption, AlarmInv, A!TypeOK
  <2>1. A!TypeOK'
    BY <1>0, <1>2 DEF AlarmInv, A!TypeOK, A!procalarm, A!AlarmsAssumption
  <2>2. \A q \in Proc : AlarmerOK(q)'
    BY <1>0, <1>2 DEF AlarmInv, A!TypeOK, AlarmerOK, A!procalarm
  <2>3. KprocOK'
    BY <1>0, <1>2 DEF AlarmInv, A!TypeOK, KprocOK, A!procalarm
  <2>4. (Once(alist) /\ AlarmsInOrder)'
    BY <1>0, <1>2 DEF AlarmInv, A!TypeOK, AlarmsInOrder, A!procalarm, due
  <2> QED
    BY <2>1, <2>2, <2>3, <2>4 DEF AlarmInv
<1>3. ASSUME NEW p \in Proc, A!debugger(p) PROVE AlarmInv'
  <2>1. A!TypeOK'
    BY <1>0, <1>3 DEF AlarmInv, A!TypeOK, A!debugger
  <2>2. /\ \A q \in Proc : AlarmerOK(q)'
        /\ KprocOK' /\ Once(alist)' /\ AlarmsInOrder'
    BY <1>3 DEF AlarmInv, AlarmerOK, KprocOK, AlarmsInOrder, due, A!debugger
  <2> QED
    BY <2>1, <2>2 DEF AlarmInv
<1>4. CASE A!checkalarms
  <2>1. A!TypeOK'
    <3>1. aticks' \in 1 .. MaxAlarmTick
      BY <1>4 DEF A!checkalarms, AlarmInv, A!TypeOK, A!AlarmsAssumption
    <3> QED
      BY <1>0, <1>4, <3>1 DEF AlarmInv, A!TypeOK, A!checkalarms
  <2>2. \A q \in Proc : AlarmerOK(q)'
    BY <1>0, <1>4 DEF AlarmInv, A!TypeOK, AlarmerOK, A!checkalarms
  <2>3. KprocOK'
    BY <1>0, <1>4 DEF AlarmInv, A!TypeOK, KprocOK, A!checkalarms
  <2>4. (Once(alist) /\ AlarmsInOrder)'
    BY <1>0, <1>4 DEF AlarmInv, A!TypeOK, AlarmsInOrder, A!checkalarms, due
  <2> QED
    BY <2>1, <2>2, <2>3, <2>4 DEF AlarmInv
<1> QED
  BY <1>1, <1>2, <1>3, <1>4

\* Out of the list and in again, under the QLock, and the time.
LEMMA AlarmSetting ==
    ASSUME A!AlarmsAssumption, AlarmInv, NEW p \in Proc,
           A!procalarmLink(p) \/ A!procalarmSet(p)
    PROVE  AlarmInv'
<1>0. /\ \A q \in Proc : q \in Proc \cup {kproc} /\ q # nil /\ q # kproc
      /\ kproc # nil /\ kproc \in Proc \cup {kproc}
      /\ 0 \in 0 .. MaxAlarmTick
  BY DEF A!AlarmsAssumption
<1> USE DEF A!Goto
<1>1. CASE A!procalarmSet(p)
  <2>1. A!TypeOK'
    BY <1>0, <1>1 DEF AlarmInv, A!TypeOK, A!procalarmSet
  <2>2. \A q \in Proc : AlarmerOK(q)'
    BY <1>0, <1>1 DEF AlarmInv, A!TypeOK, AlarmerOK, A!procalarmSet
  <2>3. KprocOK'
    BY <1>0, <1>1 DEF AlarmInv, A!TypeOK, AlarmerOK, KprocOK, A!procalarmSet
  <2>4. (Once(alist) /\ AlarmsInOrder)'
    BY <1>0, <1>1 DEF AlarmInv, A!TypeOK, AlarmsInOrder, A!procalarmSet, due
  <2> QED
    BY <2>1, <2>2, <2>3, <2>4 DEF AlarmInv
<1>2. CASE A!procalarmLink(p)
  <2>1. /\ apc[p] = "qlock" /\ qalarms = nil /\ qalarms' = p
        /\ awhen[p] \in Nat \ {0}
        /\ apc' = [apc EXCEPT ![p] = "set"]
        /\ UNCHANGED <<aticks, alarm, debug, awhen, anow>>
    BY <1>0, <1>2 DEF A!procalarmLink, AlarmInv, A!TypeOK, AlarmerOK
  <2>2. PICK l : /\ l = RemoveFirst(alist, p)
                 /\ alist' = InsertAt(l, A!position(l, awhen[p]), p)
    <3>1. A!RemoveFirst(alist, p) = RemoveFirst(alist, p)
      BY DEF A!RemoveFirst, RemoveFirst, A!RemoveAt, RemoveAt, A!SelectInSeq,
             SelectInSeq, A!Min, Min
    <3>2. \A l, k : A!InsertAt(l, k, p) = InsertAt(l, k, p)
      BY DEF A!InsertAt, InsertAt
    <3> QED
      BY <1>2, <3>1, <3>2 DEF A!procalarmLink
  <2>3. /\ l \in Seq(Proc) /\ Once(l)
        /\ \A q : On(q, l) <=> On(q, alist) /\ q # p
        /\ \A q, s : Before(q, s, l) => Before(q, s, alist)
    <3>0. Once(alist) /\ alist \in Seq(Proc)
      BY DEF AlarmInv, A!TypeOK
    <3>1. CASE On(p, alist)
      <4>1. /\ RemoveFirst(alist, p) \in Seq(Proc)
            /\ \A q : On(q, RemoveFirst(alist, p)) <=> On(q, alist) /\ q # p
            /\ Once(RemoveFirst(alist, p))
            /\ \A q, s : Before(q, s, RemoveFirst(alist, p)) => Before(q, s, alist)
        BY <3>0, <3>1, RemoveQueue
      <4> QED
        BY <4>1, <2>2
    <3>2. CASE ~On(p, alist)
      <4>1. ~\E i \in 1 .. Len(alist) : alist[i] = p
        BY <3>0, <3>2, LenProperties DEF On
      <4>2. l = alist
        BY <4>1, <2>2 DEF RemoveFirst
      <4> QED
        BY <3>0, <3>2, <4>2
    <3> QED
      BY <3>1, <3>2
  <2>4. \A q \in Proc : apc[q] # "set"
    BY <1>0, <2>1 DEF AlarmInv, AlarmerOK
  <2>5. PICK k : k = A!position(l, awhen[p])
    OBVIOUS
  <2>6. /\ k \in 1 .. Len(l) + 1
        /\ \A i \in DOMAIN l : i < k => alarm[l[i]] <= awhen[p]
        /\ \A i \in DOMAIN l : k <= i /\ alarm[l[i]] # 0 => awhen[p] <= alarm[l[i]]
    <3>1. \A q, s \in Proc :
            Before(q, s, l) /\ alarm[s] # 0 => alarm[q] <= alarm[s]
      BY <2>3, <2>4 DEF AlarmInv, AlarmsInOrder, due
    <3> QED
      BY <2>1, <2>3, <2>5, <3>1, AlarmPosition DEF AlarmInv
  <2>7. /\ alist' \in Seq(Proc) /\ Once(alist')
        /\ \A q : On(q, alist') <=> On(q, alist) \/ q = p
        /\ \A q, s : Before(q, s, alist') =>
             \/ Before(q, s, l)
             \/ q = p /\ \E j \in DOMAIN l : k <= j /\ l[j] = s
             \/ s = p /\ \E i \in DOMAIN l : i < k /\ l[i] = q
    <3>1. /\ InsertAt(l, k, p) \in Seq(Proc)
          /\ \A q : On(q, InsertAt(l, k, p)) <=> On(q, l) \/ q = p
          /\ Once(l) /\ ~On(p, l) => Once(InsertAt(l, k, p))
          /\ \A q, s : Before(q, s, InsertAt(l, k, p)) =>
               \/ Before(q, s, l)
               \/ q = p /\ \E j \in DOMAIN l : k <= j /\ l[j] = s
               \/ s = p /\ \E i \in DOMAIN l : i < k /\ l[i] = q
      BY <2>3, <2>6, InsertQueue
    <3>2. alist' = InsertAt(l, k, p)
      BY <2>2, <2>5
    <3> QED
      BY <3>1, <3>2, <2>3
  <2>8. A!TypeOK'
    BY <1>0, <2>1, <2>7 DEF AlarmInv, A!TypeOK
  <2>9. \A q \in Proc : AlarmerOK(q)'
    BY <1>0, <2>1, <2>4, <2>7 DEF AlarmInv, A!TypeOK, AlarmerOK
  <2>10. KprocOK'
    BY <1>0, <2>1 DEF AlarmInv, A!TypeOK, KprocOK
  <2>11. AlarmsInOrder'
    <3> SUFFICES ASSUME NEW q \in Proc, NEW s \in Proc,
                        Before(q, s, alist'), due(s)' # 0
                 PROVE  due(q)' <= due(s)'
      BY DEF AlarmsInOrder
    <3>0. /\ alarm \in [Proc -> Nat]
          /\ \A r \in Proc : due(r)' = IF r = p THEN awhen[p] ELSE alarm[r]
          /\ \A r \in Proc : due(r) = alarm[r]
      BY <1>0, <2>1, <2>4 DEF AlarmInv, A!TypeOK, due
    <3>1. CASE Before(q, s, l)
      <4>1. On(q, l) /\ On(s, l)
        BY <3>1 DEF On, Before
      <4>2. q # p /\ s # p /\ Before(q, s, alist)
        BY <4>1, <3>1, <2>3
      <4> QED
        BY <4>2, <3>0 DEF AlarmInv, AlarmsInOrder
    <3>2. CASE q = p /\ \E j \in DOMAIN l : k <= j /\ l[j] = s
      <4>1. On(s, l)
        BY <3>2 DEF On
      <4>2. s # p /\ due(s)' = alarm[s] /\ due(q)' = awhen[p]
        BY <4>1, <3>2, <2>3, <3>0
      <4> QED
        BY <4>2, <3>2, <2>6
    <3>3. CASE s = p /\ \E i \in DOMAIN l : i < k /\ l[i] = q
      <4>1. On(q, l)
        BY <3>3 DEF On
      <4>2. q # p /\ due(q)' = alarm[q] /\ due(s)' = awhen[p]
        BY <4>1, <3>3, <2>3, <3>0
      <4> QED
        BY <4>2, <3>3, <2>6
    <3> QED
      BY <3>1, <3>2, <3>3, <2>7
  <2> QED
    BY <2>7, <2>8, <2>9, <2>10, <2>11 DEF AlarmInv
<1> QED
  BY <1>1, <1>2

\* alarmkproc.
LEMMA AlarmKprocSteps ==
    ASSUME A!AlarmsAssumption, AlarmInv, A!Kproc
    PROVE  AlarmInv'
<1>0. /\ \A q \in Proc : q \in Proc \cup {kproc} /\ q # nil /\ q # kproc
      /\ kproc # nil /\ kproc \in Proc \cup {kproc}
      /\ 0 \in 0 .. MaxAlarmTick
  BY DEF A!AlarmsAssumption
<1>l. alist # <<>> =>
        /\ Head(alist) \in Proc /\ Tail(alist) \in Seq(Proc)
        /\ \A q : On(q, alist) <=> On(q, Tail(alist)) \/ q = Head(alist)
        /\ Once(Tail(alist))
        /\ \A a, b : Before(a, b, Tail(alist)) => Before(a, b, alist)
  BY TailQueue DEF AlarmInv, A!TypeOK
<1> USE DEF A!Goto
<1>1. CASE \/ A!alarmkproc \/ A!alarmkprocLock \/ A!alarmkprocDue
           \/ A!alarmkprocTry \/ A!alarmkprocBusy \/ A!alarmkprocDone
           \/ A!alarmkprocSleep
  <2>0. /\ UNCHANGED <<aticks, alarm, alist, debug, awhen>>
        /\ apc' = [apc EXCEPT ![kproc] = apc'[kproc]]
        /\ apc[kproc] \notin {"idle", "set"}
    BY <1>0, <1>1
       DEF AlarmInv, A!TypeOK, KprocOK, A!alarmkproc, A!alarmkprocLock, A!alarmkprocDue,
           A!alarmkprocTry, A!alarmkprocBusy, A!alarmkprocDone, A!alarmkprocSleep
  <2>1. A!TypeOK'
    <3>1. anow' \in 0 .. MaxAlarmTick
      BY <1>0, <1>1
         DEF AlarmInv, A!TypeOK, A!alarmkproc, A!alarmkprocLock, A!alarmkprocDue,
             A!alarmkprocTry, A!alarmkprocBusy, A!alarmkprocDone, A!alarmkprocSleep
    <3>2. apc' \in [Proc \cup {kproc} ->
                 {"idle", "qlock", "set", "start", "loop", "try", "post",
                  "sleep", "asleep"}]
      BY <1>0, <1>1
         DEF AlarmInv, A!TypeOK, A!alarmkproc, A!alarmkprocLock, A!alarmkprocDue,
             A!alarmkprocTry, A!alarmkprocBusy, A!alarmkprocDone, A!alarmkprocSleep
    <3>3. qalarms' \in Proc \cup {kproc, nil}
      BY <1>0, <1>1
         DEF AlarmInv, A!TypeOK, A!alarmkproc, A!alarmkprocLock, A!alarmkprocDue,
             A!alarmkprocTry, A!alarmkprocBusy, A!alarmkprocDone, A!alarmkprocSleep
    <3> QED
      BY <2>0, <3>1, <3>2, <3>3 DEF AlarmInv, A!TypeOK
  <2>2. ASSUME NEW q \in Proc PROVE AlarmerOK(q)' /\ due(q)' = due(q)
    <3>1. apc'[q] = apc[q]
      BY <2>0, <1>0 DEF AlarmInv, A!TypeOK
    <3>2. qalarms' = q <=> qalarms = q
      BY <1>0, <1>1
         DEF AlarmInv, A!TypeOK, KprocOK, A!alarmkproc, A!alarmkprocLock, A!alarmkprocDue,
             A!alarmkprocTry, A!alarmkprocBusy, A!alarmkprocDone, A!alarmkprocSleep
    <3> QED
      BY <2>0, <3>1, <3>2 DEF AlarmInv, AlarmerOK, due
  <2>3. KprocOK'
    BY <1>0, <1>1, <1>l
       DEF AlarmInv, A!TypeOK, KprocOK, A!alarmkproc, A!alarmkprocLock, A!alarmkprocDue,
           A!alarmkprocTry, A!alarmkprocBusy, A!alarmkprocDone, A!alarmkprocSleep
  <2>4. (Once(alist) /\ AlarmsInOrder)'
    BY <2>0, <2>2 DEF AlarmInv, AlarmsInOrder
  <2> QED
    BY <2>1, <2>2, <2>3, <2>4 DEF AlarmInv
<1>2. CASE A!alarmkprocCancelled
  <2>1. A!TypeOK'
    BY <1>l, <1>2 DEF AlarmInv, A!TypeOK, A!alarmkprocCancelled
  <2>2. \A q \in Proc : AlarmerOK(q)'
    BY <1>0, <1>l, <1>2 DEF AlarmInv, A!TypeOK, AlarmerOK, KprocOK, A!alarmkprocCancelled
  <2>3. KprocOK'
    BY <1>2 DEF AlarmInv, KprocOK, A!alarmkprocCancelled
  <2>4. (Once(alist) /\ AlarmsInOrder)'
    BY <1>l, <1>2 DEF AlarmInv, AlarmsInOrder, due, A!alarmkprocCancelled
  <2> QED
    BY <2>1, <2>2, <2>3, <2>4 DEF AlarmInv
<1>3. CASE A!alarmkprocPost
  <2>0. alist # <<>> /\ qalarms = kproc
    BY <1>3 DEF AlarmInv, KprocOK, A!alarmkprocPost
  <2>1. A!TypeOK'
    BY <1>0, <1>l, <1>3, <2>0 DEF AlarmInv, A!TypeOK, A!alarmkprocPost
  <2>2. \A q \in Proc : AlarmerOK(q)'
    BY <1>0, <1>l, <1>3, <2>0 DEF AlarmInv, A!TypeOK, AlarmerOK, A!alarmkprocPost
  <2>3. KprocOK'
    BY <1>0, <1>3, <2>0 DEF AlarmInv, A!TypeOK, KprocOK, A!alarmkprocPost
  <2>4. (Once(alist) /\ AlarmsInOrder)'
    BY <1>0, <1>l, <1>3, <2>0 DEF AlarmInv, A!TypeOK, AlarmerOK, AlarmsInOrder, due, A!alarmkprocPost
  <2> QED
    BY <2>1, <2>2, <2>3, <2>4 DEF AlarmInv
<1> QED
  BY <1>1, <1>2, <1>3 DEF A!Kproc

LEMMA AlarmInvariant ==
    ASSUME A!AlarmsAssumption PROVE A!Spec => []AlarmInv
<1>1. A!Init => AlarmInv
  BY AlarmStarts
<1>2. AlarmInv /\ [A!Next]_A!vars => AlarmInv'
  <2> SUFFICES ASSUME AlarmInv, [A!Next]_A!vars PROVE AlarmInv'
    OBVIOUS
  <2>1. CASE UNCHANGED A!vars
    BY <2>1 DEF A!vars, AlarmInv, A!TypeOK, AlarmerOK, KprocOK, AlarmsInOrder, due
  <2>2. CASE A!Next
    BY <2>2, AlarmQuietSteps, AlarmSetting, AlarmKprocSteps DEF A!Next, A!Setting
  <2> QED
    BY <2>1, <2>2
<1> QED
  BY <1>1, <1>2, PTL DEF A!Spec

(***************************************************************************)
(* The list of Timers of a Mach.                                           *)
(***************************************************************************)

\* s is the list that begins at the head of l, and ends.
Chain(l, s) ==
    /\ Once(s)
    /\ l[mach0] = IF s = <<>> THEN nil ELSE s[1]
    /\ \A i \in 1 .. Len(s) : l[s[i]] = IF i = Len(s) THEN nil ELSE s[i + 1]

Links == [{mach0} \cup T!Timer -> T!Timer \cup {nil}]
Times == [T!Timer -> Int \cup {nil}]

period(t) == IF t = hztimer THEN hzPeriod ELSE clock0Period

LEMMA TimerFacts ==
    ASSUME T!TimersAssumption
    PROVE  /\ IsFiniteSet(T!Timer)
           /\ mach0 \notin T!Timer /\ nil \notin T!Timer /\ nil # mach0 /\ nil \notin Int
           /\ ci \in T!Timer /\ hztimer \in T!Timer /\ hztimer # ci
           /\ T!Timer = {hztimer} \cup Clock0 \cup {ci} /\ ci \notin {hztimer} \cup Clock0
           /\ \A t \in {hztimer} \cup Clock0 :
                period(t) \in Nat \ {0} /\ period(t) >= hzPeriod
           /\ hzPeriod \in Nat \ {0} /\ Late \in Nat
           /\ \A d \in Ahead : d \in Nat \ {0}
<1>1. IsFiniteSet(T!Timer)
  <2>1. IsFiniteSet({hztimer} \cup Clock0)
    BY DEF T!TimersAssumption, T!IsFiniteSet, IsFiniteSet
  <2>2. IsFiniteSet(({hztimer} \cup Clock0) \cup {ci})
    BY <2>1, FS_AddElement
  <2> QED
    BY <2>2 DEF T!Timer
<1>2. \A t \in {hztimer} \cup Clock0 : period(t) \in Nat \ {0} /\ period(t) >= hzPeriod
  BY DEF T!TimersAssumption, period
<1> QED
  BY <1>1, <1>2 DEF T!TimersAssumption, T!Timer, period

LEMMA SameCardinality == \A S : T!Cardinality(S) = Cardinality(S)
BY DEF T!Cardinality, Cardinality

\* What one finds on following the links of a chain is the chain.
LEMMA ChainList ==
    ASSUME T!TimersAssumption, NEW l, NEW s \in Seq(T!Timer), Chain(l, s)
    PROVE  T!list(l, mach0) = s
<1>0. /\ nil \notin T!Timer /\ IsFiniteSet(T!Timer)
      /\ Len(s) \in Nat /\ DOMAIN s = 1 .. Len(s) /\ s \in [1 .. Len(s) -> T!Timer]
  BY TimerFacts, LenProperties
<1> DEFINE Lines == UNION {[1 .. n -> T!Timer] : n \in 0 .. Cardinality(T!Timer)}
<1>1. s \in Lines
  <2>1. PICK X : X = {q \in T!Timer : \E i \in 1 .. Len(s) : s[i] = q}
    OBVIOUS
  <2>2. IsFiniteSet(X) /\ Cardinality(X) = Len(s)
    BY <1>0, <2>1, FirstsCounted DEF Chain
  <2>3. Cardinality(X) <= Cardinality(T!Timer) /\ Cardinality(T!Timer) \in Nat
    BY <1>0, <2>1, FS_Subset, FS_CardinalityType
  <2>4. Len(s) \in 0 .. Cardinality(T!Timer)
    BY <2>2, <2>3, <1>0
  <2> QED
    BY <2>4, <1>0
<1>2. T!Follows(l, mach0, s)
  <2>1. \A i \in 1 .. Len(s) : s[i] = IF i - 1 = 0 THEN l[mach0] ELSE l[s[i - 1]]
    <3> TAKE i \in 1 .. Len(s)
    <3>1. CASE i = 1
      <4>1. s # <<>>
        BY <3>1, <1>0
      <4> QED
        BY <3>1, <4>1 DEF Chain
    <3>2. CASE i # 1
      <4>1. i - 1 \in 1 .. Len(s) /\ i - 1 # Len(s) /\ (i - 1) + 1 = i /\ i - 1 # 0
        BY <3>2, <1>0
      <4> QED
        BY <4>1 DEF Chain
    <3> QED
      BY <3>1, <3>2
  <2>2. (IF Len(s) = 0 THEN l[mach0] ELSE l[s[Len(s)]]) = nil
    <3>1. CASE Len(s) = 0
      <4>1. s = <<>>
        BY <3>1, <1>0, EmptySeq
      <4> QED
        BY <3>1, <4>1 DEF Chain
    <3>2. CASE Len(s) # 0
      <4>1. Len(s) \in 1 .. Len(s)
        BY <3>2, <1>0
      <4> QED
        BY <3>2, <4>1 DEF Chain
    <3> QED
      BY <3>1, <3>2
  <2> QED
    BY <2>1, <2>2, <1>0 DEF Chain, T!Follows, T!IsInjective, Once
<1>3. ASSUME NEW r \in Lines, T!Follows(l, mach0, r) PROVE r = s
  <2>1. PICK n \in Nat : r \in [1 .. n -> T!Timer] /\ Len(r) = n
    BY <1>0, FS_CardinalityType
  <2>2. /\ \A i \in 1 .. n : r[i] = IF i - 1 = 0 THEN l[mach0] ELSE l[r[i - 1]]
        /\ (IF n = 0 THEN l[mach0] ELSE l[r[n]]) \in {r[i] : i \in 1 .. n} \cup {nil}
    <3>1. T!ToSet(r) = {r[i] : i \in 1 .. n}
      BY <2>1 DEF T!ToSet
    <3> QED
      BY <1>3, <2>1, <3>1 DEF T!Follows
  <2> DEFINE P == {i \in Nat : i <= n => i <= Len(s) /\ \A j \in 1 .. i : r[j] = s[j]}
             next(i) == IF i = 0 THEN l[mach0] ELSE l[s[i]]
  <2>3. \A i \in 0 .. Len(s) : next(i) = IF i = Len(s) THEN nil ELSE s[i + 1]
    <3> TAKE i \in 0 .. Len(s)
    <3>1. CASE i = 0
      <4>1. s = <<>> <=> i = Len(s)
        BY <3>1, <1>0, EmptySeq
      <4> QED
        BY <3>1, <4>1 DEF Chain
    <3>2. CASE i # 0
      <4>1. i \in 1 .. Len(s)
        BY <3>2
      <4> QED
        BY <3>2, <4>1 DEF Chain
    <3> QED
      BY <3>1, <3>2
  <2>4. 0 \in P
    BY <1>0
  <2>5. ASSUME NEW i \in Nat, i \in P PROVE i + 1 \in P
    <3> SUFFICES ASSUME i + 1 <= n
                 PROVE  i + 1 <= Len(s) /\ r[i + 1] = s[i + 1]
      <4>1. i <= n => \A j \in 1 .. i : r[j] = s[j]
        BY <2>5
      <4>2. \A j \in 1 .. i + 1 : j \in 1 .. i \/ j = i + 1
        OBVIOUS
      <4> QED
        BY <4>1, <4>2
    <3>1. i <= Len(s) /\ \A j \in 1 .. i : r[j] = s[j]
      BY <2>5, <2>1
    <3>2. i + 1 \in 1 .. n /\ (i + 1) - 1 = i /\ (i # 0 => i \in 1 .. i)
      BY <2>1
    <3>3. r[i + 1] = next(i)
      BY <2>2, <3>1, <3>2
    <3>4. r[i + 1] \in T!Timer
      BY <2>1, <3>2
    <3>5. i \in 0 .. Len(s)
      BY <3>1, <1>0
    <3> HIDE DEF next, P
    <3>6. i # Len(s) /\ r[i + 1] = s[i + 1]
      BY <3>3, <3>4, <3>5, <2>3, <1>0
    <3>7. i <= Len(s) /\ Len(s) \in Nat
      BY <3>1, <1>0
    <3>8. i + 1 <= Len(s)
      BY <3>6, <3>7
    <3> QED
      BY <3>6, <3>8
  <2>6. n <= Len(s) /\ \A j \in 1 .. n : r[j] = s[j]
    <3>1. n \in P
      <4> HIDE DEF P
      <4> QED
        BY <2>4, <2>5, SetInduction, <2>1
    <3> QED
      BY <3>1, <2>1
  <2>7. n = Len(s)
    <3> SUFFICES ASSUME n # Len(s) PROVE FALSE
      OBVIOUS
    <3>1. n \in 0 .. Len(s) /\ n + 1 \in 1 .. Len(s)
      BY <2>1, <2>6, <1>0
    <3>2. next(n) = s[n + 1] /\ next(n) \in T!Timer
      BY <2>3, <3>1, <1>0
    <3>3. n # 0 => n \in 1 .. n
      BY <2>1
    <3>4. next(n) \in {r[i] : i \in 1 .. n} \cup {nil}
      BY <2>2, <2>6, <3>3
    <3> HIDE DEF next
    <3>5. PICK i \in 1 .. n : s[n + 1] = r[i]
      BY <3>2, <3>4, <1>0
    <3>6. s[n + 1] = s[i] /\ i \in DOMAIN s /\ n + 1 \in DOMAIN s /\ i # n + 1
      BY <3>1, <3>5, <2>1, <2>6, <1>0
    <3> QED
      BY <3>6 DEF Chain, Once
  <2> QED
    BY <2>1, <2>6, <2>7, <1>0
<1>4. T!list(l, mach0) = CHOOSE r \in Lines : T!Follows(l, mach0, r)
  BY SameCardinality DEF T!list
<1> HIDE DEF Lines
<1> QED
  BY <1>1, <1>2, <1>3, <1>4

\* A Timer put behind the last that is not later.
LEMMA ChainInsert ==
    ASSUME T!TimersAssumption, NEW l \in Links, NEW s \in Seq(T!Timer), Chain(l, s),
           NEW t \in T!Timer, ~On(t, s), NEW k \in 1 .. Len(s) + 1,
           NEW last, last = IF k = 1 THEN mach0 ELSE s[k - 1]
    PROVE  /\ T!insert(l, last, t) \in Links
           /\ Chain(T!insert(l, last, t), InsertAt(s, k, t))
<1>0. /\ nil \notin T!Timer /\ mach0 \notin T!Timer
      /\ Len(s) \in Nat /\ DOMAIN s = 1 .. Len(s) /\ s \in [1 .. Len(s) -> T!Timer]
  BY TimerFacts, LenProperties
<1>1. PICK r : r = InsertAt(s, k, t)
  OBVIOUS
<1>2. /\ r \in Seq(T!Timer) /\ Len(r) = Len(s) + 1
      /\ \A i \in 1 .. k - 1 : r[i] = s[i]
      /\ r[k] = t
      /\ \A i \in k .. Len(s) : r[i + 1] = s[i]
  <2>1. /\ InsertAt(s, k, t) \in Seq(T!Timer)
        /\ Len(InsertAt(s, k, t)) = Len(s) + 1
        /\ \A i \in 1 .. k - 1 : InsertAt(s, k, t)[i] = s[i]
        /\ InsertAt(s, k, t)[k] = t
        /\ \A i \in k .. Len(s) : InsertAt(s, k, t)[i + 1] = s[i]
    BY InsertPlace
  <2> QED
    BY <1>1, <2>1
<1>3. Once(r)
  BY <1>1, InsertQueue DEF Chain
<1>4. /\ last \in {mach0} \cup T!Timer /\ last # t
      /\ \A i \in 1 .. Len(s) : last = s[i] <=> i = k - 1
      /\ last = mach0 <=> k = 1
  <2>1. CASE k = 1
    BY <2>1, <1>0
  <2>2. CASE k # 1
    <3>1. k - 1 \in 1 .. Len(s)
      BY <2>2, <1>0
    <3>2. last = s[k - 1] /\ last \in T!Timer /\ last # mach0
      BY <2>2, <3>1, <1>0
    <3>3. last # t
      BY <3>1, <3>2, <1>0 DEF On
    <3>4. \A i \in 1 .. Len(s) : last = s[i] <=> i = k - 1
      BY <3>1, <3>2, <1>0 DEF Chain, Once
    <3> QED
      BY <2>2, <3>2, <3>3, <3>4
  <2> QED
    BY <2>1, <2>2
<1>5. PICK m : m = T!insert(l, last, t)
  OBVIOUS
<1>6. /\ m \in Links /\ m[t] = l[last] /\ m[last] = t
      /\ \A x \in {mach0} \cup T!Timer : x # t /\ x # last => m[x] = l[x]
  BY <1>0, <1>4, <1>5 DEF T!insert, Links
<1>7. l[last] = IF k = Len(s) + 1 THEN nil ELSE s[k]
  <2>1. CASE k = 1
    <3>1. s = <<>> <=> k = Len(s) + 1
      BY <2>1, <1>0, EmptySeq
    <3> QED
      BY <2>1, <3>1 DEF Chain
  <2>2. CASE k # 1
    <3>1. k - 1 \in 1 .. Len(s) /\ (k - 1) + 1 = k /\ (k - 1 = Len(s) <=> k = Len(s) + 1)
      BY <2>2, <1>0
    <3> QED
      BY <2>2, <3>1 DEF Chain
  <2> QED
    BY <2>1, <2>2
<1>8. r # <<>> /\ m[mach0] = r[1]
  <2>1. r # <<>>
    BY <1>2, <1>0
  <2>2. CASE k = 1
    BY <2>1, <2>2, <1>2, <1>4, <1>6
  <2>3. CASE k # 1
    <3>1. s # <<>> /\ 1 \in 1 .. k - 1
      BY <2>3, <1>0
    <3> QED
      BY <2>1, <2>3, <3>1, <1>0, <1>2, <1>4, <1>6 DEF Chain
  <2> QED
    BY <2>2, <2>3
<1>9. ASSUME NEW i \in 1 .. Len(r)
      PROVE  m[r[i]] = IF i = Len(r) THEN nil ELSE r[i + 1]
  <2>1. CASE i = k
    <3>1. i = Len(r) <=> k = Len(s) + 1
      BY <2>1, <1>2, <1>0
    <3>2. k # Len(s) + 1 => k \in k .. Len(s)
      BY <1>0
    <3> QED
      BY <2>1, <3>1, <3>2, <1>2, <1>6, <1>7
  <2>2. CASE i < k
    <3>1. i \in 1 .. k - 1 /\ i \in 1 .. Len(s) /\ i # Len(r) /\ r[i] = s[i]
      BY <2>2, <1>0, <1>2
    <3>2. CASE i = k - 1
      <4>1. s[i] = last /\ i + 1 = k
        BY <3>1, <3>2, <1>4
      <4> QED
        BY <3>1, <4>1, <1>2, <1>6
    <3>3. CASE i # k - 1
      <4>1. s[i] # last /\ s[i] # t /\ s[i] \in T!Timer
        BY <3>1, <3>3, <1>0, <1>4 DEF On
      <4>2. i + 1 \in 1 .. k - 1 /\ i # Len(s)
        BY <3>1, <3>3, <1>0
      <4> QED
        BY <3>1, <4>1, <4>2, <1>2, <1>6 DEF Chain
    <3> QED
      BY <3>2, <3>3
  <2>3. CASE i > k
    <3>1. PICK j \in k .. Len(s) : i = j + 1 /\ j \in 1 .. Len(s)
      <4>1. i - 1 \in k .. Len(s) /\ i = (i - 1) + 1 /\ i - 1 \in 1 .. Len(s)
        BY <2>3, <1>0, <1>2
      <4> QED
        BY <4>1
    <3>2. r[i] = s[j] /\ s[j] # t /\ s[j] # last /\ s[j] \in T!Timer
      BY <3>1, <1>0, <1>2, <1>4 DEF On
    <3>3. m[r[i]] = IF j = Len(s) THEN nil ELSE s[j + 1]
      BY <3>1, <3>2, <1>6 DEF Chain
    <3>4. i = Len(r) <=> j = Len(s)
      <4>1. Len(r) = Len(s) + 1 /\ j \in Nat /\ i = j + 1
        BY <3>1, <1>2, <1>0
      <4> QED
        BY <4>1, <1>0
    <3>5. j # Len(s) => j + 1 \in k .. Len(s)
      BY <3>1, <1>0
    <3> QED
      BY <3>1, <3>3, <3>4, <3>5, <1>2
  <2> QED
    BY <2>1, <2>2, <2>3, <1>2, <1>0
<1> QED
  BY <1>1, <1>3, <1>5, <1>6, <1>8, <1>9 DEF Chain

\* r is s without its element k.
Without(S, s, k, r) ==
    /\ r \in Seq(S) /\ Len(r) = Len(s) - 1
    /\ \A i \in 1 .. k - 1 : r[i] = s[i]
    /\ \A i \in k .. Len(s) - 1 : r[i] = s[i + 1]

LEMMA WithoutAt ==
    ASSUME NEW S, NEW s \in Seq(S), Once(s), NEW k \in 1 .. Len(s),
           NEW e, e = s[k], NEW r, r = RemoveFirst(s, e)
    PROVE  Without(S, s, k, r)
<1>1. /\ RemoveFirst(s, e) \in Seq(S)
      /\ Len(RemoveFirst(s, e)) = Len(s) - 1
      /\ \A i \in 1 .. k - 1 : RemoveFirst(s, e)[i] = s[i]
      /\ \A i \in k .. Len(s) - 1 : RemoveFirst(s, e)[i] = s[i + 1]
  BY RemovePlace
<1> QED
  BY <1>1 DEF Without

\* A Timer taken off.
LEMMA ChainRemove ==
    ASSUME T!TimersAssumption, NEW l \in Links, NEW s \in Seq(T!Timer), Chain(l, s),
           NEW t \in T!Timer
    PROVE  /\ T!remove(l, mach0, t) \in Links
           /\ IF On(t, s) THEN Chain(T!remove(l, mach0, t), RemoveFirst(s, t))
                          ELSE T!remove(l, mach0, t) = l
<1>0. /\ nil \notin T!Timer /\ mach0 \notin T!Timer
      /\ Len(s) \in Nat /\ DOMAIN s = 1 .. Len(s) /\ s \in [1 .. Len(s) -> T!Timer]
  BY TimerFacts, LenProperties
<1>1. T!list(l, mach0) = s
  BY ChainList
<1>2. T!Contains(s, t) <=> On(t, s)
  BY <1>0 DEF T!Contains, On
<1>3. CASE ~On(t, s)
  BY <1>1, <1>2, <1>3 DEF T!remove
<1>4. CASE On(t, s)
  <2>1. PICK k \in 1 .. Len(s) : s[k] = t
    BY <1>4, <1>0 DEF On
  <2>2. PICK last : last = IF k = 1 THEN mach0 ELSE s[k - 1]
    OBVIOUS
  <2>3. /\ last \in {mach0} \cup T!ToSet(s) /\ last \in {mach0} \cup T!Timer
        /\ last = mach0 <=> k = 1
        /\ \A i \in 1 .. Len(s) : s[i] = last <=> i = k - 1
        /\ l[last] = t
    <3>1. CASE k = 1
      <4>1. s # <<>>
        BY <1>0, <3>1
      <4> QED
        BY <3>1, <4>1, <2>1, <2>2, <1>0 DEF Chain
    <3>2. CASE k # 1
      <4>1. k - 1 \in 1 .. Len(s) /\ (k - 1) + 1 = k /\ k - 1 # Len(s)
        BY <3>2, <1>0
      <4>2. l[s[k - 1]] = s[k]
        BY <4>1 DEF Chain
      <4>3. s[k - 1] \in T!ToSet(s)
        BY <4>1, <1>0 DEF T!ToSet
      <4>4. last = s[k - 1] /\ last \in T!Timer /\ last # mach0
        BY <3>2, <4>1, <2>2, <1>0
      <4>5. \A i \in 1 .. Len(s) : s[i] = last <=> i = k - 1
        BY <4>1, <4>4, <1>0 DEF Chain, Once
      <4> QED
        BY <3>2, <4>2, <4>3, <4>4, <4>5, <2>1
    <3> QED
      BY <3>1, <3>2
  <2>4. ASSUME NEW x \in {mach0} \cup T!ToSet(s), l[x] = t PROVE x = last
    <3>1. CASE x = mach0
      <4>1. s # <<>> /\ s[1] = t
        BY <3>1, <2>4, <1>0 DEF Chain
      <4>2. k = 1
        <5>1. 1 \in DOMAIN s /\ k \in DOMAIN s /\ s[1] = s[k]
          BY <4>1, <2>1, <1>0
        <5> QED
          BY <5>1 DEF Chain, Once
      <4> QED
        BY <3>1, <4>2, <2>2
    <3>2. CASE x \in T!ToSet(s)
      <4>1. PICK i \in 1 .. Len(s) : x = s[i]
        BY <3>2, <1>0 DEF T!ToSet
      <4>2. i # Len(s) /\ s[i + 1] = t
        BY <4>1, <2>4, <1>0 DEF Chain
      <4>3. i + 1 = k
        <5>1. i + 1 \in DOMAIN s /\ k \in DOMAIN s /\ s[i + 1] = s[k]
          BY <4>1, <4>2, <2>1, <1>0
        <5> QED
          BY <5>1 DEF Chain, Once
      <4>4. k # 1 /\ k - 1 = i
        BY <4>1, <4>3, <1>0
      <4> QED
        BY <4>1, <4>4, <2>2
    <3> QED
      BY <3>1, <3>2
  <2>5. PICK m : m = T!remove(l, mach0, t)
    OBVIOUS
  <2>6. m = [l EXCEPT ![last] = l[t]]
    <3>1. (CHOOSE x \in {mach0} \cup T!ToSet(s) : l[x] = t) = last
      BY <2>3, <2>4
    <3> QED
      BY <2>5, <3>1, <1>1, <1>2, <1>4 DEF T!remove
  <2>7. /\ m \in Links /\ m[last] = l[t]
        /\ \A x \in {mach0} \cup T!Timer : x # last => m[x] = l[x]
    BY <2>3, <2>6 DEF Links
  <2>8. PICK r : r = RemoveFirst(s, t)
    OBVIOUS
  <2>9. /\ r \in Seq(T!Timer) /\ Len(r) = Len(s) - 1
        /\ \A i \in 1 .. k - 1 : r[i] = s[i]
        /\ \A i \in k .. Len(s) - 1 : r[i] = s[i + 1]
    <3>1. Once(s) /\ k \in 1 .. Len(s) /\ t = s[k]
      BY <2>1 DEF Chain
    <3>2. Without(T!Timer, s, k, r)
      BY <2>8, <3>1, WithoutAt
    <3> QED
      BY <3>2 DEF Without
  <2>10. Once(r)
    BY <1>4, <2>8, RemoveQueue DEF Chain
  <2>11. l[t] = IF k = Len(s) THEN nil ELSE s[k + 1]
    BY <2>1 DEF Chain
  <2>12. m[mach0] = IF r = <<>> THEN nil ELSE r[1]
    <3>0. r = <<>> <=> Len(s) = 1
      <4>1. r = <<>> <=> Len(r) = 0
        BY <2>9, EmptySeq
      <4>2. Len(r) = 0 <=> Len(s) = 1
        BY <2>9, <1>0
      <4> QED
        BY <4>1, <4>2
    <3>1. CASE k = 1
      <4>1. k # Len(s) => 1 \in k .. Len(s) - 1
        BY <3>1, <1>0
      <4> QED
        BY <3>0, <3>1, <4>1, <2>3, <2>7, <2>9, <2>11
    <3>2. CASE k # 1
      <4>1. 1 \in 1 .. k - 1 /\ Len(s) # 1 /\ s # <<>>
        BY <3>2, <1>0
      <4> QED
        BY <3>0, <3>2, <4>1, <2>3, <2>7, <2>9 DEF Chain
    <3> QED
      BY <3>1, <3>2
  <2>13. ASSUME NEW i \in 1 .. Len(r)
         PROVE  m[r[i]] = IF i = Len(r) THEN nil ELSE r[i + 1]
    <3>1. CASE i = k - 1
      <4>1. i \in 1 .. k - 1 /\ i \in 1 .. Len(s) /\ i + 1 = k
        BY <3>1, <2>9, <1>0
      <4>2. m[r[i]] = l[t]
        BY <4>1, <3>1, <2>3, <2>7, <2>9
      <4>3. i = Len(r) <=> k = Len(s)
        BY <4>1, <2>9, <1>0
      <4>4. k # Len(s) => k \in k .. Len(s) - 1
        BY <2>1, <1>0
      <4> QED
        BY <4>1, <4>2, <4>3, <4>4, <2>9, <2>11
    <3>2. CASE i < k - 1
      <4>1. i \in 1 .. k - 1 /\ i + 1 \in 1 .. k - 1 /\ i \in 1 .. Len(s)
            /\ i # Len(s) /\ i # Len(r)
        BY <3>2, <2>9, <1>0
      <4>2. m[r[i]] = l[s[i]]
        BY <4>1, <3>2, <2>3, <2>7, <2>9, <1>0
      <4> QED
        BY <4>1, <4>2, <2>9 DEF Chain
    <3>3. CASE i >= k
      <4>1. PICK j \in 1 .. Len(s) : j = i + 1 /\ j # k - 1
        <5>1. i + 1 \in 1 .. Len(s) /\ i + 1 # k - 1
          BY <3>3, <2>9, <1>0
        <5> QED
          BY <5>1
      <4>2. r[i] = s[j] /\ s[j] # last /\ s[j] \in T!Timer
        BY <4>1, <3>3, <2>3, <2>9, <1>0
      <4>3. m[r[i]] = IF j = Len(s) THEN nil ELSE s[j + 1]
        BY <4>1, <4>2, <2>7 DEF Chain
      <4>4. i = Len(r) <=> j = Len(s)
        BY <4>1, <2>9, <1>0
      <4>5. j # Len(s) => j \in k .. Len(s) - 1
        BY <4>1, <3>3, <2>1, <1>0
      <4> QED
        BY <4>1, <4>3, <4>4, <4>5, <2>9
    <3> QED
      BY <3>1, <3>2, <3>3, <2>9, <1>0
  <2> QED
    BY <1>4, <2>5, <2>7, <2>8, <2>10, <2>12, <2>13 DEF Chain
<1> QED
  BY <1>3, <1>4

\* The head taken off.
LEMMA ChainTail ==
    ASSUME T!TimersAssumption, NEW l \in Links, NEW s \in Seq(T!Timer), Chain(l, s),
           s # <<>>
    PROVE  /\ [l EXCEPT ![mach0] = l[l[mach0]]] \in Links
           /\ Chain([l EXCEPT ![mach0] = l[l[mach0]]], Tail(s))
<1>0. /\ nil \notin T!Timer /\ mach0 \notin T!Timer
      /\ Len(s) \in Nat \ {0} /\ DOMAIN s = 1 .. Len(s) /\ s \in [1 .. Len(s) -> T!Timer]
  BY TimerFacts, LenProperties, EmptySeq
<1>1. PICK m : m = [l EXCEPT ![mach0] = l[l[mach0]]]
  OBVIOUS
<1>2. l[mach0] = s[1] /\ s[1] \in T!Timer
  BY <1>0 DEF Chain
<1>3. /\ m \in Links /\ m[mach0] = l[s[1]]
      /\ \A x \in T!Timer : m[x] = l[x]
  BY <1>0, <1>1, <1>2 DEF Links
<1>4. PICK r : r = Tail(s)
  OBVIOUS
<1>5. /\ r \in Seq(T!Timer) /\ Len(r) = Len(s) - 1
      /\ \A i \in 1 .. Len(r) : r[i] = s[i + 1]
  <2>1. /\ Tail(s) \in Seq(T!Timer) /\ Len(Tail(s)) = Len(s) - 1
        /\ \A i \in 1 .. Len(Tail(s)) : Tail(s)[i] = s[i + 1]
    BY HeadTailProperties
  <2> QED
    BY <1>4, <2>1
<1>6. Once(r)
  BY <1>4, TailQueue DEF Chain
<1>7. m[mach0] = IF r = <<>> THEN nil ELSE r[1]
  <2>1. r = <<>> <=> Len(s) = 1
    <3>1. r = <<>> <=> Len(r) = 0
      BY <1>5, EmptySeq
    <3>2. Len(r) = 0 <=> Len(s) = 1
      BY <1>0, <1>5
    <3> QED
      BY <3>1, <3>2
  <2>2. 1 \in 1 .. Len(s) /\ l[s[1]] = IF Len(s) = 1 THEN nil ELSE s[2]
    <3>1. 1 \in 1 .. Len(s)
      BY <1>0
    <3>2. l[s[1]] = IF 1 = Len(s) THEN nil ELSE s[1 + 1]
      BY <3>1 DEF Chain
    <3> QED
      BY <3>1, <3>2
  <2>3. Len(s) # 1 => 1 \in 1 .. Len(r)
    BY <1>0, <1>5
  <2>4. Len(s) # 1 => r[1] = s[2]
    BY <2>3, <1>5
  <2> QED
    BY <2>1, <2>2, <2>4, <1>3
<1>8. ASSUME NEW i \in 1 .. Len(r)
      PROVE  m[r[i]] = IF i = Len(r) THEN nil ELSE r[i + 1]
  <2>1. /\ i + 1 \in 1 .. Len(s) /\ r[i] = s[i + 1] /\ i \in Nat
        /\ i = Len(r) <=> i + 1 = Len(s)
        /\ i # Len(r) => i + 1 \in 1 .. Len(r)
    <3>1. Len(r) = Len(s) - 1 /\ r[i] = s[i + 1] /\ i \in Nat /\ 1 <= i /\ i <= Len(r)
      BY <1>0, <1>5
    <3>2. Len(s) \in Nat
      BY <1>0
    <3> QED
      BY <3>1, <3>2
  <2>2. s[i + 1] \in T!Timer
    BY <2>1, <1>0
  <2>3. l[s[i + 1]] = IF i + 1 = Len(s) THEN nil ELSE s[(i + 1) + 1]
    BY <2>1 DEF Chain
  <2>4. i # Len(r) => r[i + 1] = s[(i + 1) + 1]
    BY <2>1, <1>5
  <2> QED
    BY <2>1, <2>2, <2>3, <2>4, <1>3
<1> QED
  BY <1>1, <1>3, <1>4, <1>6, <1>7, <1>8 DEF Chain

InTime(w, s) ==
    /\ \A t \in T!Timer : On(t, s) => w[t] \in Int
    /\ \A a, b \in T!Timer : Before(a, b, s) => w[a] <= w[b]

\* t, with a time in w, may be put on the list s.
Addable(l, s, w, t) ==
    /\ l \in Links /\ s \in Seq(T!Timer) /\ Chain(l, s) /\ InTime(w, s)
    /\ t \in T!Timer /\ ~On(t, s) /\ w[t] \in Int

\* A Timer put where its time belongs.
LEMMA ChainAdd ==
    ASSUME T!TimersAssumption, NEW l, NEW s, NEW w, NEW t, Addable(l, s, w, t)
    PROVE  \E r \in Seq(T!Timer) :
             /\ T!tadd(l, w, mach0, t) \in Links
             /\ Chain(T!tadd(l, w, mach0, t), r)
             /\ \A q : On(q, r) <=> On(q, s) \/ q = t
             /\ InTime(w, r)
             /\ r # <<>>
             /\ r[1] = IF s # <<>> /\ w[s[1]] <= w[t] THEN s[1] ELSE t
             /\ T!tadd(l, w, mach0, t)[mach0] = r[1]
<1>a. /\ l \in Links /\ s \in Seq(T!Timer) /\ Chain(l, s) /\ InTime(w, s)
      /\ t \in T!Timer /\ ~On(t, s) /\ w[t] \in Int
  BY DEF Addable
<1>0. /\ Len(s) \in Nat /\ DOMAIN s = 1 .. Len(s) /\ s \in [1 .. Len(s) -> T!Timer]
  BY <1>a, LenProperties
<1>1. T!list(l, mach0) = s
  BY <1>a, ChainList
<1>2. T!RemoveFirst(s, t) = s
  BY <1>a, <1>0 DEF T!RemoveFirst, On
<1>3. T!remove(l, mach0, t) = l
  BY <1>a, ChainRemove
<1> DEFINE later == {i \in DOMAIN s : w[s[i]] > w[t]}
<1>4. \A i \in DOMAIN s : w[s[i]] \in Int
  BY <1>a, <1>0 DEF InTime, On
<1>5. PICK k : k = IF later = {} THEN Len(s) + 1 ELSE T!Min(later)
  BY <1>a
<1>6. /\ k \in 1 .. Len(s) + 1
      /\ \A i \in DOMAIN s : i < k => w[s[i]] <= w[t]
      /\ \A i \in DOMAIN s : k <= i => w[t] <= w[s[i]]
      /\ k \in DOMAIN s => w[s[k]] > w[t]
  <2>1. CASE later = {}
    <3>1. k = Len(s) + 1
      BY <1>a, <2>1, <1>5
    <3>2. \A i \in DOMAIN s : ~(w[s[i]] > w[t])
      BY <1>a, <2>1
    <3> HIDE DEF later
    <3> QED
      BY <1>a, <3>1, <3>2, <1>0, <1>4
  <2>2. CASE later # {}
    <3>1. PICK j \in later : \A i \in later : j <= i
      <4>1. later \in SUBSET Nat
        BY <1>a, <1>0
      <4> QED
        BY <1>a, <4>1, <2>2, Least
    <3>2. k \in later /\ \A i \in later : k <= i
      <4>1. k = CHOOSE x \in later : \A y \in later : x <= y
        BY <1>a, <1>5, <2>2 DEF T!Min
      <4> QED
        BY <1>a, <4>1, <3>1
    <3>3. k \in DOMAIN s /\ w[s[k]] > w[t]
      BY <1>a, <3>2
    <3>4. \A i \in DOMAIN s : i < k => w[s[i]] <= w[t]
      <4> TAKE i \in DOMAIN s
      <4> HAVE i < k
      <4>1. ~(k <= i)
        BY <1>a, <3>3, <1>0
      <4>2. ~(w[s[i]] > w[t])
        BY <1>a, <4>1, <3>2
      <4> HIDE DEF later
      <4> QED
        BY <1>a, <4>2, <1>4
    <3>5. ASSUME NEW i \in DOMAIN s, k <= i PROVE w[t] <= w[s[i]]
      <4> HIDE DEF later
      <4>1. CASE i = k
        BY <1>a, <4>1, <3>3, <1>4
      <4>2. CASE i # k
        <5>1. k < i
          BY <1>a, <4>2, <3>3, <3>5, <1>0
        <5>2. Before(s[k], s[i], s) /\ s[k] \in T!Timer /\ s[i] \in T!Timer
          BY <1>a, <5>1, <3>3, <1>0 DEF Before
        <5>3. w[s[k]] <= w[s[i]]
          BY <1>a, <5>2 DEF InTime
        <5> QED
          BY <1>a, <5>3, <3>3, <1>4
      <4> QED
        BY <1>a, <4>1, <4>2
    <3> HIDE DEF later
    <3> QED
      BY <1>a, <3>3, <3>4, <3>5, <1>0
  <2> QED
    BY <1>a, <2>1, <2>2
<1>7. PICK last : last = IF k = 1 THEN mach0 ELSE s[k - 1]
  BY <1>a
<1>8. T!tadd(l, w, mach0, t) = T!insert(l, last, t)
  BY <1>a, <1>1, <1>2, <1>3, <1>5, <1>7 DEF T!tadd
<1> HIDE DEF later
<1>9. PICK m : m = T!insert(l, last, t)
  BY <1>a
<1>10. PICK r : r = InsertAt(s, k, t)
  BY <1>a
<1>11. m \in Links /\ Chain(m, r)
  <2>1. /\ T!insert(l, last, t) \in Links
        /\ Chain(T!insert(l, last, t), InsertAt(s, k, t))
    BY <1>a, <1>6, <1>7, ChainInsert
  <2> QED
    BY <1>a, <2>1, <1>9, <1>10
<1>12. /\ r \in Seq(T!Timer) /\ r # <<>>
       /\ \A q : On(q, r) <=> On(q, s) \/ q = t
       /\ \A a, b : Before(a, b, r) =>
            \/ Before(a, b, s)
            \/ a = t /\ \E j \in DOMAIN s : k <= j /\ s[j] = b
            \/ b = t /\ \E i \in DOMAIN s : i < k /\ s[i] = a
       /\ Head(r) = IF k = 1 THEN t ELSE s[1]
  <2>1. /\ InsertAt(s, k, t) \in Seq(T!Timer) /\ InsertAt(s, k, t) # <<>>
        /\ \A q : On(q, InsertAt(s, k, t)) <=> On(q, s) \/ q = t
        /\ \A a, b : Before(a, b, InsertAt(s, k, t)) =>
             \/ Before(a, b, s)
             \/ a = t /\ \E j \in DOMAIN s : k <= j /\ s[j] = b
             \/ b = t /\ \E i \in DOMAIN s : i < k /\ s[i] = a
        /\ Head(InsertAt(s, k, t)) = IF k = 1 THEN t ELSE s[1]
    <3>1. s \in Seq(T!Timer) /\ t \in T!Timer /\ k \in 1 .. Len(s) + 1
      BY <1>a, <1>6
    <3> QED
      BY <3>1, InsertQueue
  <2> QED
    BY <1>a, <2>1, <1>10
<1>13. InTime(w, r)
  <2>1. \A q \in T!Timer : On(q, r) => w[q] \in Int
    BY <1>a, <1>12 DEF InTime
  <2>2. ASSUME NEW a \in T!Timer, NEW b \in T!Timer, Before(a, b, r)
        PROVE  w[a] <= w[b]
    <3>1. CASE Before(a, b, s)
      BY <1>a, <3>1 DEF InTime
    <3>2. CASE a = t /\ \E j \in DOMAIN s : k <= j /\ s[j] = b
      BY <1>a, <3>2, <1>6
    <3>3. CASE b = t /\ \E i \in DOMAIN s : i < k /\ s[i] = a
      BY <1>a, <3>3, <1>6
    <3> QED
      BY <1>a, <2>2, <3>1, <3>2, <3>3, <1>12
  <2> QED
    BY <1>a, <2>1, <2>2 DEF InTime
<1>14. r[1] = IF s # <<>> /\ w[s[1]] <= w[t] THEN s[1] ELSE t
  <2>1. Head(r) = r[1]
    BY <1>a, <1>12, Ends
  <2>2. CASE s = <<>>
    <3>1. Len(s) = 0
      BY <1>a, <2>2
    <3>2. k = 1
      BY <1>a, <3>1, <1>6
    <3> QED
      BY <1>a, <2>1, <2>2, <3>2, <1>12
  <2>3. CASE s # <<>>
    <3>1. 1 \in DOMAIN s
      BY <1>a, <2>3, <1>0, EmptySeq
    <3>2. k = 1 <=> ~(w[s[1]] <= w[t])
      <4>1. w[s[1]] \in Int
        BY <1>a, <3>1, <1>4
      <4>2. k # 1 => 1 < k
        BY <1>a, <1>6, <1>0
      <4>3. k = 1 => w[s[1]] > w[t]
        BY <1>a, <3>1, <1>6
      <4> QED
        BY <1>a, <3>1, <4>1, <4>2, <4>3, <1>6
    <3> QED
      BY <1>a, <2>1, <2>3, <3>2, <1>12
  <2> QED
    BY <1>a, <2>2, <2>3
<1>15. m[mach0] = r[1]
  BY <1>a, <1>11, <1>12 DEF Chain
<1> QED
  BY <1>a, <1>8, <1>9, <1>11, <1>12, <1>13, <1>14, <1>15

\* t has been put on the list s, whose times were w, for the time x; r is the
\* list now.
Added(s, w, t, x, l, v, r) ==
    /\ l \in Links /\ Chain(l, r)
    /\ \A q : On(q, r) <=> On(q, s) \/ q = t
    /\ InTime(v, r) /\ r # <<>>
    /\ r[1] = IF s # <<>> /\ w[s[1]] <= x THEN s[1] ELSE t
    /\ l[mach0] = r[1]

\* t may be put on the list s, whose times are w, for the time x.
Addition(l, s, w, t, x, v) ==
    /\ l \in Links /\ s \in Seq(T!Timer) /\ Chain(l, s)
    /\ w \in Times /\ InTime(w, s)
    /\ t \in T!Timer /\ ~On(t, s) /\ x \in Int /\ v = [w EXCEPT ![t] = x]

LEMMA ChainNew ==
    ASSUME T!TimersAssumption, NEW l, NEW s, NEW w, NEW t, NEW x, NEW v,
           Addition(l, s, w, t, x, v)
    PROVE  /\ v \in Times /\ v[t] = x
           /\ \A q \in T!Timer : q # t => v[q] = w[q]
           /\ \E r \in Seq(T!Timer) :
                Added(s, w, t, x, T!tadd(l, v, mach0, t), v, r)
<1>a. /\ l \in Links /\ s \in Seq(T!Timer) /\ Chain(l, s)
      /\ w \in Times /\ InTime(w, s)
      /\ t \in T!Timer /\ ~On(t, s) /\ x \in Int /\ v = [w EXCEPT ![t] = x]
  BY DEF Addition
<1>1. /\ v \in Times /\ v[t] = x
      /\ \A q \in T!Timer : q # t => v[q] = w[q]
  BY <1>a DEF Times
<1>2. InTime(v, s)
  <2>1. \A a, b \in T!Timer : Before(a, b, s) => On(a, s) /\ On(b, s)
    BY DEF Before, On
  <2>2. \A a \in T!Timer : On(a, s) => v[a] = w[a]
    BY <1>a, <1>1
  <2> QED
    BY <1>a, <2>1, <2>2 DEF InTime
<1>3. \E r \in Seq(T!Timer) :
        /\ T!tadd(l, v, mach0, t) \in Links
        /\ Chain(T!tadd(l, v, mach0, t), r)
        /\ \A q : On(q, r) <=> On(q, s) \/ q = t
        /\ InTime(v, r)
        /\ r # <<>>
        /\ r[1] = IF s # <<>> /\ v[s[1]] <= v[t] THEN s[1] ELSE t
        /\ T!tadd(l, v, mach0, t)[mach0] = r[1]
  <2>1. Addable(l, s, v, t)
    BY <1>a, <1>1, <1>2 DEF Addable
  <2> QED
    BY <2>1, ChainAdd
<1>4. s # <<>> => v[s[1]] = w[s[1]]
  <2>1. s # <<>> => s[1] \in T!Timer /\ On(s[1], s)
    BY <1>a, Ends
  <2> QED
    BY <2>1, <1>a, <1>1
<1> QED
  BY <1>a, <1>1, <1>3, <1>4 DEF Added

-----------------------------------------------------------------------------
Regular == {hztimer} \cup Clock0

TimerTypes ==
    /\ clink \in Links /\ cwhen \in Times
    /\ cset \in [{mach0} -> Int \cup {nil}]
    /\ cpc \in [{mach0} -> {"run", "push", "next", "call", "pushintr"}]
    /\ ccur \in [{mach0} -> T!Timer \cup {nil}]
    /\ cnow \in [{mach0} -> -Late .. 0]

\* The list s: who is on it, and what is known of their times.
FiledOK(s) ==
    /\ Chain(clink, s) /\ InTime(cwhen, s)
    /\ \A t \in Regular :
         cwhen[t] # nil => cwhen[t] <= period(t) /\ (On(t, s) \/ ccur[mach0] = t)
    /\ cpc[mach0] \in {"push", "pushintr"} => ~On(ci, s)

\* The Timer that timerintr has taken off.
TakenOK(s) ==
    /\ ccur[mach0] # nil =>
         /\ cpc[mach0] \in {"call", "pushintr", "next"}
         /\ cwhen[ccur[mach0]] \in Int
         /\ ccur[mach0] # ci => ~On(ccur[mach0], s)
         /\ cpc[mach0] = "call" \/ ccur[mach0] # ci =>
              cwhen[ccur[mach0]] <= cnow[mach0]
    /\ cpc[mach0] = "call" => ccur[mach0] # nil
    /\ cpc[mach0] = "pushintr" => ccur[mach0] = ci

\* Outside of timerintr the clock is set for the head.
ClockSet(s) ==
    cpc[mach0] \in {"run", "push"} /\ s # <<>> =>
        cset[mach0] # nil /\ cset[mach0] <= cwhen[s[1]]

TimerInv ==
    /\ TimerTypes
    /\ \E s \in Seq(T!Timer) : FiledOK(s) /\ TakenOK(s) /\ ClockSet(s)

LEMMA TimerListOK ==
    ASSUME T!TimersAssumption, TimerInv
    PROVE  T!TimersOK
<1>1. PICK s \in Seq(T!Timer) : FiledOK(s) /\ TakenOK(s) /\ ClockSet(s)
  BY DEF TimerInv
<1>2. T!list(clink, mach0) = s
  BY <1>1, ChainList DEF FiledOK, TimerInv, TimerTypes
<1>3. /\ DOMAIN s = 1 .. Len(s) /\ Len(s) \in Nat /\ \A i \in 1 .. Len(s) : s[i] \in T!Timer
  BY LenProperties
<1>4. T!IsInjective(s)
  BY <1>1 DEF T!IsInjective, FiledOK, Chain, Once
<1>5. ASSUME NEW i \in 1 .. Len(s) - 1 PROVE cwhen[s[i]] <= cwhen[s[i + 1]]
  <2>1. i \in 1 .. Len(s) /\ i + 1 \in 1 .. Len(s) /\ i < i + 1
    BY <1>3
  <2>2. Before(s[i], s[i + 1], s) /\ s[i] \in T!Timer /\ s[i + 1] \in T!Timer
    BY <2>1, <1>3 DEF Before
  <2> QED
    BY <2>2, <1>1 DEF FiledOK, InTime
<1>6. ccur[mach0] \in Regular => ~T!Contains(s, ccur[mach0])
  <2>1. ccur[mach0] \in Regular => ccur[mach0] # nil /\ ccur[mach0] # ci
    BY TimerFacts DEF Regular
  <2> QED
    BY <1>1, <1>3, <2>1 DEF TakenOK, T!Contains, On
<1>7. cpc[mach0] = "run" /\ s # <<>> => cset[mach0] # nil /\ cset[mach0] <= cwhen[s[1]]
  BY <1>1 DEF ClockSet
<1>8. cpc[mach0] = "call" => cwhen[ccur[mach0]] <= cnow[mach0]
  BY <1>1 DEF TakenOK
<1> QED
  BY <1>2, <1>4, <1>5, <1>6, <1>7, <1>8 DEF T!TimersOK, Regular

LEMMA TimersStart ==
    ASSUME T!TimersAssumption, T!Init
    PROVE  TimerInv
<1>1. /\ Late \in Nat /\ nil \notin T!Timer /\ nil \notin Int
  BY TimerFacts
<1>2. TimerTypes
  BY <1>1 DEF T!Init, TimerTypes, Links, Times
<1>3. PICK s : s = <<>>
  OBVIOUS
<1>4. s \in Seq(T!Timer) /\ Len(s) = 0 /\ DOMAIN s = {}
  BY <1>3
<1>5. FiledOK(s)
  <2>1. \A t \in Regular : cwhen[t] = nil
    BY DEF T!Init, T!Timer, Regular
  <2>2. clink[mach0] = nil /\ cpc[mach0] = "run"
    BY DEF T!Init
  <2> QED
    BY <1>3, <1>4, <2>1, <2>2 DEF FiledOK, Chain, Once, InTime, On, Before
<1>6. TakenOK(s)
  BY DEF T!Init, TakenOK
<1>7. ClockSet(s)
  BY <1>3 DEF ClockSet
<1> QED
  BY <1>2, <1>4, <1>5, <1>6, <1>7 DEF TimerInv

\* The time that a periodic Timer begins with.
LEMMA FirstTime ==
    ASSUME T!TimersAssumption, TimerTypes, NEW s \in Seq(T!Timer), FiledOK(s),
           NEW t \in Regular
    PROVE  /\ T!first(mach0, t) \in Int /\ T!first(mach0, t) <= period(t)
           /\ \/ T!first(mach0, t) = period(t)
              \/ s # <<>> /\ cwhen[s[1]] <= T!first(mach0, t)
<1>0. /\ DOMAIN s = 1 .. Len(s) /\ Len(s) \in Nat /\ \A i \in 1 .. Len(s) : s[i] \in T!Timer
  BY LenProperties
<1>1. T!list(clink, mach0) = s
  BY ChainList DEF FiledOK
<1>2. period(t) \in Nat \ {0}
  BY TimerFacts DEF Regular
<1> DEFINE same == {i \in DOMAIN s : s[i] \in Regular \ {t} /\ period(s[i]) = period(t)}
<1>3. T!first(mach0, t) = IF same = {} THEN period(t) ELSE cwhen[s[T!Max(same)]]
  BY <1>1 DEF T!first, Regular, period
<1>4. CASE same = {}
  BY <1>2, <1>3, <1>4
<1>5. CASE same # {}
  <2>1. PICK i \in same : \A j \in same : i >= j
    <3>1. PICK F : F = {Len(s) - j : j \in same}
      OBVIOUS
    <3>2. F \in SUBSET Nat /\ F # {}
      BY <3>1, <1>0, <1>5
    <3>3. PICK n \in F : \A m \in F : n <= m
      BY <3>2, Least
    <3>4. PICK i \in same : n = Len(s) - i
      BY <3>1, <3>3
    <3>5. \A j \in same : Len(s) - i <= Len(s) - j
      BY <3>1, <3>3, <3>4
    <3>6. \A j \in same : i >= j
      BY <3>4, <3>5, <1>0
    <3> QED
      BY <3>4, <3>6
  <2>2. T!Max(same) \in same
    <3>1. T!Max(same) = CHOOSE x \in same : \A y \in same : x >= y
      BY DEF T!Max
    <3> HIDE DEF same
    <3> QED
      BY <2>1, <3>1
  <2>3. PICK k \in DOMAIN s : /\ T!first(mach0, t) = cwhen[s[k]]
                              /\ s[k] \in Regular /\ period(s[k]) = period(t)
    BY <1>3, <1>5, <2>2
  <2> HIDE DEF same
  <2>4. On(s[k], s) /\ s[k] \in T!Timer
    BY <2>3, <1>0 DEF On
  <2>5. cwhen[s[k]] \in Int
    BY <2>4 DEF FiledOK, InTime
  <2>6. cwhen[s[k]] <= period(t)
    BY <2>3, <2>5, TimerFacts DEF FiledOK
  <2>7. s # <<>> /\ 1 \in DOMAIN s
    BY <2>3, <1>0
  <2>8. cwhen[s[1]] <= cwhen[s[k]]
    <3>1. CASE k = 1
      BY <3>1, <2>5
    <3>2. CASE k # 1
      <4>1. Before(s[1], s[k], s) /\ s[1] \in T!Timer
        BY <3>2, <2>3, <2>7, <1>0 DEF Before
      <4> QED
        BY <4>1, <2>4 DEF FiledOK, InTime
    <3> QED
      BY <3>1, <3>2
  <2> QED
    BY <2>3, <2>5, <2>6, <2>7, <2>8
<1> QED
  BY <1>4, <1>5

-----------------------------------------------------------------------------
LEMMA TimerTimersinit ==
    ASSUME T!TimersAssumption, TimerInv, T!timersinit(mach0)
    PROVE  TimerInv'
<1>0. /\ nil \notin T!Timer /\ nil \notin Int /\ hztimer \in T!Timer /\ hztimer # ci
      /\ hztimer \in Regular
  BY TimerFacts DEF Regular
<1>1. PICK s \in Seq(T!Timer) : TimerTypes /\ FiledOK(s) /\ TakenOK(s) /\ ClockSet(s)
  BY DEF TimerInv
<1>2. PICK x : x = T!first(mach0, hztimer)
  OBVIOUS
<1>3. /\ cpc[mach0] = "run" /\ cwhen[hztimer] = nil
      /\ cwhen' = [cwhen EXCEPT ![hztimer] = x]
      /\ clink' = T!tadd(clink, cwhen', mach0, hztimer)
      /\ cset' = IF clink'[mach0] = hztimer
                 THEN [cset EXCEPT ![mach0] = cwhen'[hztimer]] ELSE cset
      /\ UNCHANGED <<cpc, ccur, cnow>>
  BY <1>2 DEF T!timersinit, T!setFor
<1>4. x \in Int /\ x <= period(hztimer)
  BY <1>0, <1>1, <1>2, FirstTime
<1>5. ~On(hztimer, s)
  BY <1>0, <1>1, <1>3 DEF FiledOK, InTime
<1>6. PICK v, l : v = cwhen' /\ l = clink'
  OBVIOUS
<1>7. /\ v \in Times /\ v[hztimer] = x
      /\ \A q \in T!Timer : q # hztimer => v[q] = cwhen[q]
      /\ \E r \in Seq(T!Timer) :
           Added(s, cwhen, hztimer, x, l, v, r)
  <2>1. Addition(clink, s, cwhen, hztimer, x, v) /\ l = T!tadd(clink, v, mach0, hztimer)
    BY <1>1, <1>3, <1>6, <1>0, <1>4, <1>5 DEF TimerTypes, FiledOK, Addition
  <2>2. /\ v \in Times /\ v[hztimer] = x
        /\ \A q \in T!Timer : q # hztimer => v[q] = cwhen[q]
        /\ \E r \in Seq(T!Timer) :
             Added(s, cwhen, hztimer, x, T!tadd(clink, v, mach0, hztimer), v, r)
    BY <2>1, ChainNew
  <2> QED
    BY <2>1, <2>2
<1>8. PICK r \in Seq(T!Timer) :
           /\ l \in Links /\ Chain(l, r)
           /\ \A q : On(q, r) <=> On(q, s) \/ q = hztimer
           /\ InTime(v, r) /\ r # <<>>
           /\ r[1] = IF s # <<>> /\ cwhen[s[1]] <= x THEN s[1] ELSE hztimer
           /\ l[mach0] = r[1]
  BY <1>7 DEF Added
<1>9. TimerTypes'
  <2>1. cset' \in [{mach0} -> Int \cup {nil}]
    BY <1>1, <1>3, <1>4, <1>6, <1>7 DEF TimerTypes
  <2> QED
    BY <2>1, <1>1, <1>3, <1>6, <1>7, <1>8 DEF TimerTypes
<1>10. ccur[mach0] = nil
  BY <1>1, <1>3 DEF TakenOK
<1>11. FiledOK(r)'
  <2>1. ASSUME NEW t \in Regular, v[t] # nil
        PROVE  v[t] <= period(t) /\ (On(t, r) \/ ccur[mach0] = t)
    <3>1. CASE t = hztimer
      BY <3>1, <1>4, <1>7, <1>8
    <3>2. CASE t # hztimer
      <4>1. v[t] = cwhen[t]
        BY <3>2, <1>7 DEF Regular, T!Timer
      <4> QED
        BY <4>1, <2>1, <1>1, <1>8 DEF FiledOK
    <3> QED
      BY <3>1, <3>2
  <2> QED
    BY <2>1, <1>3, <1>6, <1>8 DEF FiledOK
<1>12. TakenOK(r)'
  BY <1>1, <1>3, <1>10 DEF TakenOK
<1>13. ClockSet(r)'
  <2>1. s # <<>> => s[1] \in T!Timer /\ On(s[1], s) /\ cwhen[s[1]] \in Int
    BY <1>1, Ends DEF FiledOK, InTime
  <2>2. CASE r[1] = hztimer
    <3>1. cset'[mach0] = x /\ v[r[1]] = x
      BY <2>2, <1>1, <1>3, <1>6, <1>7, <1>8 DEF TimerTypes
    <3> QED
      BY <3>1, <1>0, <1>4, <1>6 DEF ClockSet
  <2>3. CASE r[1] # hztimer
    <3>1. s # <<>> /\ r[1] = s[1] /\ v[s[1]] = cwhen[s[1]]
      BY <2>1, <2>3, <1>7, <1>8
    <3>2. cset' = cset
      BY <2>3, <1>3, <1>6, <1>8
    <3> QED
      BY <3>1, <3>2, <1>1, <1>3, <1>6 DEF ClockSet
  <2> QED
    BY <2>2, <2>3
<1> QED
  BY <1>9, <1>11, <1>12, <1>13 DEF TimerInv

\* addclock0link does not set the clock; it need not, since the new Timer is
\* not the first.
LEMMA TimerAddclock0link ==
    ASSUME T!TimersAssumption, TimerInv, NEW t \in Regular, T!addclock0link(t)
    PROVE  TimerInv'
<1>0. /\ nil \notin T!Timer /\ nil \notin Int /\ t \in T!Timer /\ t # ci
      /\ hztimer \in Regular /\ hztimer \in T!Timer
      /\ period(hztimer) = hzPeriod /\ hzPeriod <= period(t)
      /\ hzPeriod \in Nat /\ period(t) \in Nat
  BY TimerFacts DEF Regular, period
<1>1. PICK s \in Seq(T!Timer) : TimerTypes /\ FiledOK(s) /\ TakenOK(s) /\ ClockSet(s)
  BY DEF TimerInv
<1>2. PICK x : x = T!first(mach0, t)
  OBVIOUS
<1>3. /\ cwhen[t] = nil /\ cwhen[hztimer] # nil
      /\ cwhen' = [cwhen EXCEPT ![t] = x]
      /\ clink' = T!tadd(clink, cwhen', mach0, t)
      /\ UNCHANGED <<cset, cpc, ccur, cnow>>
  BY <1>2 DEF T!addclock0link, Regular
<1>4. /\ x \in Int /\ x <= period(t)
      /\ x = period(t) \/ (s # <<>> /\ cwhen[s[1]] <= x)
  BY <1>1, <1>2, FirstTime
<1>5. ~On(t, s) /\ ccur[mach0] # t
  <2>1. ~On(t, s)
    BY <1>0, <1>1, <1>3 DEF FiledOK, InTime
  <2>2. ccur[mach0] # t
    BY <1>0, <1>1, <1>3 DEF TakenOK
  <2> QED
    BY <2>1, <2>2
<1>6. PICK v, l : v = cwhen' /\ l = clink'
  OBVIOUS
<1>7. /\ v \in Times /\ v[t] = x
      /\ \A q \in T!Timer : q # t => v[q] = cwhen[q]
      /\ \E r \in Seq(T!Timer) :
           Added(s, cwhen, t, x, l, v, r)
  <2>1. Addition(clink, s, cwhen, t, x, v) /\ l = T!tadd(clink, v, mach0, t)
    BY <1>1, <1>3, <1>6, <1>0, <1>4, <1>5 DEF TimerTypes, FiledOK, Addition
  <2>2. /\ v \in Times /\ v[t] = x
        /\ \A q \in T!Timer : q # t => v[q] = cwhen[q]
        /\ \E r \in Seq(T!Timer) :
             Added(s, cwhen, t, x, T!tadd(clink, v, mach0, t), v, r)
    BY <2>1, ChainNew
  <2> QED
    BY <2>1, <2>2
<1>8. PICK r \in Seq(T!Timer) :
           /\ l \in Links /\ Chain(l, r)
           /\ \A q : On(q, r) <=> On(q, s) \/ q = t
           /\ InTime(v, r) /\ r # <<>>
           /\ r[1] = IF s # <<>> /\ cwhen[s[1]] <= x THEN s[1] ELSE t
           /\ l[mach0] = r[1]
  BY <1>7 DEF Added
<1>9. TimerTypes'
  BY <1>1, <1>3, <1>6, <1>7, <1>8 DEF TimerTypes
<1>10. FiledOK(r)'
  <2>1. ASSUME NEW q \in Regular, v[q] # nil
        PROVE  v[q] <= period(q) /\ (On(q, r) \/ ccur[mach0] = q)
    <3>1. CASE q = t
      BY <3>1, <1>4, <1>7, <1>8
    <3>2. CASE q # t
      <4>1. v[q] = cwhen[q]
        BY <3>2, <1>7 DEF Regular, T!Timer
      <4> QED
        BY <4>1, <2>1, <1>1, <1>8 DEF FiledOK
    <3> QED
      BY <3>1, <3>2
  <2> QED
    BY <2>1, <1>0, <1>1, <1>3, <1>6, <1>8 DEF FiledOK
<1>11. TakenOK(r)'
  <2>1. ccur[mach0] # nil =>
          /\ v[ccur[mach0]] = cwhen[ccur[mach0]]
          /\ On(ccur[mach0], r) <=> On(ccur[mach0], s)
    BY <1>1, <1>5, <1>7, <1>8 DEF TimerTypes
  <2> QED
    BY <2>1, <1>1, <1>3, <1>6 DEF TakenOK
<1>12. ClockSet(r)'
  <2> SUFFICES ASSUME cpc[mach0] \in {"run", "push"}
               PROVE  cset[mach0] # nil /\ cset[mach0] <= v[r[1]]
    BY <1>3, <1>6 DEF ClockSet
  <2>1. s # <<>> /\ cwhen[s[1]] <= x
    <3>1. CASE x = period(t)
      <4>1. ccur[mach0] = nil
        BY <1>1, <1>0 DEF TakenOK, TimerTypes
      <4>2. cwhen[hztimer] <= hzPeriod /\ On(hztimer, s)
        BY <4>1, <1>0, <1>1, <1>3 DEF FiledOK
      <4>3. s # <<>>
        BY <4>2 DEF On
      <4>4. hztimer # s[1] => Before(s[1], hztimer, s)
        BY <4>2, <4>3, TailQueue
      <4>5. s[1] \in T!Timer /\ On(s[1], s)
        BY <4>3, Ends
      <4>6. /\ cwhen[s[1]] \in Int /\ cwhen[hztimer] \in Int
            /\ cwhen[s[1]] <= cwhen[hztimer]
        BY <4>2, <4>4, <4>5, <1>0, <1>1 DEF FiledOK, InTime
      <4> QED
        BY <3>1, <4>2, <4>3, <4>6, <1>0
    <3> QED
      BY <3>1, <1>4
  <2>2. r[1] = s[1] /\ v[s[1]] = cwhen[s[1]]
    <3>1. s[1] \in T!Timer /\ On(s[1], s)
      BY <2>1, Ends
    <3> QED
      BY <2>1, <3>1, <1>5, <1>7, <1>8
  <2> QED
    BY <2>1, <2>2, <1>1 DEF ClockSet
<1> QED
  BY <1>9, <1>10, <1>11, <1>12 DEF TimerInv

\* timerdel.
LEMMA TimerDeleted ==
    ASSUME T!TimersAssumption, TimerTypes, NEW s \in Seq(T!Timer), FiledOK(s),
           T!delete(mach0)
    PROVE  /\ clink' \in Links /\ cset' \in [{mach0} -> Int \cup {nil}]
           /\ UNCHANGED <<cwhen, ccur, cnow>>
           /\ \E r \in Seq(T!Timer) :
                /\ Chain(clink', r)
                /\ \A q : On(q, r) <=> On(q, s) /\ q # ci
                /\ InTime(cwhen, r)
                /\ r # <<>> =>
                     /\ s # <<>>
                     /\ \/ cset'[mach0] = cwhen[r[1]] /\ cset'[mach0] # nil
                        \/ cset' = cset /\ r[1] = s[1]
<1>0. /\ ci \in T!Timer /\ nil \notin T!Timer /\ nil \notin Int
      /\ DOMAIN s = 1 .. Len(s) /\ Len(s) \in Nat /\ \A i \in 1 .. Len(s) : s[i] \in T!Timer
  BY TimerFacts, LenProperties
<1>1. PICK l : l = clink'
  OBVIOUS
<1>2. /\ l = T!remove(clink, mach0, ci)
      /\ cset' = IF l[mach0] # nil /\ clink[mach0] = ci
                 THEN [cset EXCEPT ![mach0] = cwhen[l[mach0]]] ELSE cset
      /\ UNCHANGED <<cwhen, ccur, cnow>>
  BY <1>1 DEF T!delete
<1>3. /\ l \in Links
      /\ IF On(ci, s) THEN Chain(l, RemoveFirst(s, ci)) ELSE l = clink
  <2>1. /\ T!remove(clink, mach0, ci) \in Links
        /\ IF On(ci, s) THEN Chain(T!remove(clink, mach0, ci), RemoveFirst(s, ci))
                        ELSE T!remove(clink, mach0, ci) = clink
    BY <1>0, ChainRemove DEF TimerTypes, FiledOK
  <2> QED
    BY <2>1, <1>2
<1>4. clink[mach0] = IF s = <<>> THEN nil ELSE s[1]
  BY DEF FiledOK, Chain
<1>5. CASE ~On(ci, s)
  <2>1. clink[mach0] # ci
    <3>1. s # <<>> => On(s[1], s)
      BY Ends
    <3> QED
      BY <3>1, <1>0, <1>4, <1>5
  <2>2. cset' = cset
    BY <2>1, <1>2
  <2> QED
    BY <2>2, <1>1, <1>2, <1>3, <1>5 DEF FiledOK, TimerTypes
<1>6. CASE On(ci, s)
  <2>1. PICK k \in 1 .. Len(s) : s[k] = ci
    BY <1>6, <1>0 DEF On
  <2>2. PICK r : r = RemoveFirst(s, ci)
    OBVIOUS
  <2>3. Once(s)
    BY DEF FiledOK, Chain
  <2>4. /\ r \in Seq(T!Timer)
        /\ \A q : On(q, r) <=> On(q, s) /\ q # ci
        /\ \A a, b : Before(a, b, r) => Before(a, b, s)
    BY <1>0, <1>6, <2>2, <2>3, RemoveQueue
  <2>5. Len(r) = Len(s) - 1 /\ \A i \in 1 .. k - 1 : r[i] = s[i]
    <3>1. /\ Len(RemoveFirst(s, ci)) = Len(s) - 1
          /\ \A i \in 1 .. k - 1 : RemoveFirst(s, ci)[i] = s[i]
      BY <2>1, <2>3, RemovePlace
    <3> QED
      BY <3>1, <2>2
  <2>6. Chain(l, r)
    BY <1>3, <1>6, <2>2
  <2>7. InTime(cwhen, r)
    BY <2>4 DEF FiledOK, InTime
  <2>8. l[mach0] = IF r = <<>> THEN nil ELSE r[1]
    BY <2>6 DEF Chain
  <2>9. s # <<>> /\ 1 \in 1 .. Len(s)
    BY <2>1, <1>0
  <2>10. r # <<>> => r[1] \in T!Timer /\ On(r[1], r) /\ cwhen[r[1]] \in Int
    <3>1. r # <<>> => r[1] \in T!Timer /\ On(r[1], r)
      BY <2>4, Ends
    <3> QED
      BY <3>1, <2>7 DEF InTime
  <2>11. ASSUME r # <<>>
         PROVE  \/ cset'[mach0] = cwhen[r[1]] /\ cset'[mach0] # nil
                \/ cset' = cset /\ r[1] = s[1]
    <3>1. CASE k = 1
      <4>1. l[mach0] = r[1] /\ l[mach0] # nil /\ clink[mach0] = ci
        BY <3>1, <2>1, <2>8, <2>9, <2>10, <2>11, <1>0, <1>4
      <4> QED
        BY <4>1, <2>10, <2>11, <1>0, <1>2 DEF TimerTypes
    <3>2. CASE k # 1
      <4>1. 1 \in 1 .. k - 1 /\ s[1] # s[k]
        BY <3>2, <2>1, <2>3, <2>9, <1>0 DEF Once
      <4> QED
        BY <4>1, <2>1, <2>5, <2>9, <1>2, <1>4
    <3> QED
      BY <3>1, <3>2
  <2>12. cset' \in [{mach0} -> Int \cup {nil}]
    BY <2>8, <2>10, <1>2 DEF TimerTypes
  <2> QED
    BY <2>4, <2>6, <2>7, <2>9, <2>11, <2>12, <1>1, <1>2, <1>3
<1> QED
  BY <1>5, <1>6

LEMMA TimerPushlink ==
    ASSUME T!TimersAssumption, TimerInv,
           T!pushlink(mach0) \/ T!linkintr(mach0)
    PROVE  TimerInv'
<1>1. PICK s \in Seq(T!Timer) : TimerTypes /\ FiledOK(s) /\ TakenOK(s) /\ ClockSet(s)
  BY DEF TimerInv
<1>2. T!delete(mach0)
  BY DEF T!pushlink, T!linkintr
<1>3. /\ clink' \in Links /\ cset' \in [{mach0} -> Int \cup {nil}]
      /\ UNCHANGED <<cwhen, ccur, cnow>>
  BY <1>1, <1>2, TimerDeleted
<1>4. PICK r \in Seq(T!Timer) :
        /\ Chain(clink', r)
        /\ \A q : On(q, r) <=> On(q, s) /\ q # ci
        /\ InTime(cwhen, r)
        /\ r # <<>> =>
             /\ s # <<>>
             /\ \/ cset'[mach0] = cwhen[r[1]] /\ cset'[mach0] # nil
                \/ cset' = cset /\ r[1] = s[1]
  BY <1>1, <1>2, TimerDeleted
<1>5. \/ cpc[mach0] = "run" /\ cpc' = [cpc EXCEPT ![mach0] = "push"]
      \/ cpc[mach0] = "call" /\ cpc' = [cpc EXCEPT ![mach0] = "pushintr"]
         /\ ccur[mach0] = ci
  BY DEF T!pushlink, T!linkintr, T!Goto
<1>6. /\ cpc' \in [{mach0} -> {"run", "push", "next", "call", "pushintr"}]
      /\ \/ cpc[mach0] = "run" /\ cpc'[mach0] = "push"
         \/ cpc[mach0] = "call" /\ cpc'[mach0] = "pushintr" /\ ccur[mach0] = ci
  BY <1>1, <1>5 DEF TimerTypes
<1>7. TimerTypes'
  BY <1>1, <1>3, <1>6 DEF TimerTypes
<1>8. FiledOK(r)'
  <2>1. \A t \in Regular : t # ci
    BY TimerFacts DEF Regular
  <2> QED
    BY <2>1, <1>1, <1>3, <1>4 DEF FiledOK
<1>9. TakenOK(r)'
  BY <1>1, <1>3, <1>4, <1>6 DEF TakenOK
<1>10. ClockSet(r)'
  <2> SUFFICES ASSUME cpc'[mach0] \in {"run", "push"}, r # <<>>
               PROVE  cset'[mach0] # nil /\ cset'[mach0] <= cwhen[r[1]]
    BY <1>3 DEF ClockSet
  <2>1. cwhen[r[1]] \in Int
    <3>1. r[1] \in T!Timer /\ On(r[1], r)
      BY Ends
    <3> QED
      BY <3>1, <1>4 DEF InTime
  <2> QED
    BY <2>1, <1>1, <1>4, <1>6 DEF ClockSet
<1> QED
  BY <1>7, <1>8, <1>9, <1>10 DEF TimerInv

\* Steps that change neither the list nor a time.
LEMMA TimerQuiet ==
    ASSUME T!TimersAssumption, TimerInv,
           T!pushlinkNot(mach0) \/ T!timerintr(mach0) \/ T!timerintrSet(mach0)
           \/ T!timerintrEmpty(mach0) \/ T!periodic(mach0)
    PROVE  TimerInv'
<1>0. /\ nil \notin T!Timer /\ nil \notin Int /\ Late \in Nat /\ 0 \in -Late .. 0
      /\ ci \notin Regular
  BY TimerFacts DEF Regular
<1>1. PICK s \in Seq(T!Timer) : TimerTypes /\ FiledOK(s) /\ TakenOK(s) /\ ClockSet(s)
  BY DEF TimerInv
<1>2. UNCHANGED <<clink, cwhen, ccur>>
  BY DEF T!pushlinkNot, T!leave, T!timerintr, T!timerintrSet, T!timerintrEmpty, T!periodic
<1>3. FiledOK(s)' /\ TakenOK(s)' /\ ClockSet(s)' /\ TimerTypes'
  <2>1. CASE T!pushlinkNot(mach0)
    <3>1. /\ cset' = cset
          /\ \/ /\ cpc[mach0] = "push" /\ cpc' = [cpc EXCEPT ![mach0] = "run"]
                /\ cnow' = [cnow EXCEPT ![mach0] = 0]
             \/ /\ cpc[mach0] = "pushintr" /\ cpc' = [cpc EXCEPT ![mach0] = "next"]
                /\ cnow' = cnow
      BY <2>1 DEF T!pushlinkNot, T!leave, T!Goto
    <3>2. TimerTypes' /\ (\/ cpc[mach0] = "push" /\ cpc'[mach0] = "run"
                          \/ /\ cpc[mach0] = "pushintr" /\ cpc'[mach0] = "next"
                             /\ cnow' = cnow)
      BY <3>1, <1>0, <1>1, <1>2 DEF TimerTypes
    <3>3. FiledOK(s)'
      BY <3>2, <1>1, <1>2 DEF FiledOK
    <3>4. TakenOK(s)'
      BY <3>2, <1>1, <1>2 DEF TakenOK
    <3> QED
      BY <3>1, <3>2, <3>3, <3>4, <1>1, <1>2 DEF ClockSet
  <2>2. CASE T!timerintr(mach0)
    <3>1. /\ cset' = [cset EXCEPT ![mach0] = nil]
          /\ cpc[mach0] = "run" /\ cpc' = [cpc EXCEPT ![mach0] = "next"]
          /\ cnow' = [cnow EXCEPT ![mach0] = 0]
      BY <2>2 DEF T!timerintr, T!Goto
    <3>2. TimerTypes' /\ cpc[mach0] = "run" /\ cpc'[mach0] = "next"
      BY <3>1, <1>0, <1>1, <1>2 DEF TimerTypes
    <3>3. FiledOK(s)'
      BY <3>2, <1>1, <1>2 DEF FiledOK
    <3>4. TakenOK(s)'
      BY <3>2, <1>1, <1>2 DEF TakenOK
    <3> QED
      BY <3>2, <3>3, <3>4 DEF ClockSet
  <2>3. CASE T!timerintrSet(mach0)
    <3>1. /\ clink[mach0] # nil
          /\ cset' = [cset EXCEPT ![mach0] = cwhen[clink[mach0]]]
          /\ cpc[mach0] = "next" /\ cpc' = [cpc EXCEPT ![mach0] = "run"]
          /\ cnow' = [cnow EXCEPT ![mach0] = 0] /\ ccur[mach0] = nil
      BY <2>3 DEF T!timerintrSet, T!Goto
    <3>2. /\ s # <<>> /\ clink[mach0] = s[1] /\ cwhen[s[1]] \in Int
      <4>1. s # <<>> /\ clink[mach0] = s[1]
        BY <3>1, <1>1 DEF FiledOK, Chain
      <4>2. s[1] \in T!Timer /\ On(s[1], s)
        BY <4>1, Ends
      <4> QED
        BY <4>1, <4>2, <1>1 DEF FiledOK, InTime
    <3>3. /\ TimerTypes' /\ cpc[mach0] = "next" /\ cpc'[mach0] = "run"
          /\ cset'[mach0] = cwhen[s[1]]
      BY <3>1, <3>2, <1>0, <1>1, <1>2 DEF TimerTypes
    <3>4. FiledOK(s)'
      BY <3>3, <1>1, <1>2 DEF FiledOK
    <3>5. TakenOK(s)'
      BY <3>1, <3>3, <1>1, <1>2 DEF TakenOK
    <3> QED
      BY <3>2, <3>3, <3>4, <3>5, <1>0, <1>2 DEF ClockSet
  <2>4. CASE T!timerintrEmpty(mach0)
    <3>1. /\ clink[mach0] = nil /\ cset' = cset
          /\ cpc[mach0] = "next" /\ cpc' = [cpc EXCEPT ![mach0] = "run"]
          /\ cnow' = [cnow EXCEPT ![mach0] = 0] /\ ccur[mach0] = nil
      BY <2>4 DEF T!timerintrEmpty, T!Goto
    <3>2. s = <<>>
      <4>1. s # <<>> => clink[mach0] = s[1]
        BY <1>1 DEF FiledOK, Chain
      <4>2. s # <<>> => s[1] \in T!Timer
        BY Ends
      <4> QED
        BY <3>1, <4>1, <4>2, <1>0
    <3>3. TimerTypes' /\ cpc[mach0] = "next" /\ cpc'[mach0] = "run"
      BY <3>1, <1>0, <1>1, <1>2 DEF TimerTypes
    <3>4. FiledOK(s)'
      BY <3>3, <1>1, <1>2 DEF FiledOK
    <3>5. TakenOK(s)'
      BY <3>1, <3>3, <1>1, <1>2 DEF TakenOK
    <3> QED
      BY <3>2, <3>3, <3>4, <3>5 DEF ClockSet
  <2>5. CASE T!periodic(mach0)
    <3>1. /\ cset' = cset /\ cnow' = cnow
          /\ cpc[mach0] = "call" /\ cpc' = [cpc EXCEPT ![mach0] = "next"]
          /\ ccur[mach0] \in Regular
      BY <2>5 DEF T!periodic, T!Goto, Regular
    <3>2. TimerTypes' /\ cpc[mach0] = "call" /\ cpc'[mach0] = "next"
      BY <3>1, <1>1, <1>2 DEF TimerTypes
    <3>3. FiledOK(s)'
      BY <3>2, <1>1, <1>2 DEF FiledOK
    <3>4. TakenOK(s)'
      BY <3>1, <3>2, <1>0, <1>1, <1>2 DEF TakenOK
    <3> QED
      BY <3>2, <3>3, <3>4 DEF ClockSet
  <2> QED
    BY <2>1, <2>2, <2>3, <2>4, <2>5
<1> QED
  BY <1>3 DEF TimerInv

LEMMA TimerTake ==
    ASSUME T!TimersAssumption, TimerInv, T!timerintrTake(mach0)
    PROVE  TimerInv'
<1>0. nil \notin T!Timer /\ nil \notin Int /\ Late \in Nat
  BY TimerFacts
<1>1. PICK s \in Seq(T!Timer) : TimerTypes /\ FiledOK(s) /\ TakenOK(s) /\ ClockSet(s)
  BY DEF TimerInv
<1>2. PICK t : t = clink[mach0]
  OBVIOUS
<1>3. /\ t # nil /\ cwhen[t] <= cnow[mach0]
      /\ ccur' = [ccur EXCEPT ![mach0] = t]
      /\ clink' = [clink EXCEPT ![mach0] = clink[clink[mach0]]]
      /\ cpc' = [cpc EXCEPT ![mach0] = "call"]
      /\ UNCHANGED <<cwhen, cset, cnow>>
      /\ cpc[mach0] = "next" /\ ccur[mach0] = nil
  BY <1>2 DEF T!timerintrTake
<1>4. /\ s # <<>> /\ t = s[1]
  BY <1>1, <1>2, <1>3 DEF FiledOK, Chain
<1>5. s[1] \in T!Timer /\ On(s[1], s) /\ Head(s) = s[1]
  BY <1>4, Ends
<1>6. t \in T!Timer /\ cwhen[t] \in Int
  BY <1>1, <1>4, <1>5 DEF FiledOK, InTime
<1>7. PICK r : r = Tail(s)
  OBVIOUS
<1>8. /\ clink' \in Links /\ Chain(clink', r)
  <2>1. /\ [clink EXCEPT ![mach0] = clink[clink[mach0]]] \in Links
        /\ Chain([clink EXCEPT ![mach0] = clink[clink[mach0]]], Tail(s))
    BY <1>1, <1>4, ChainTail DEF TimerTypes, FiledOK
  <2> QED
    BY <2>1, <1>3, <1>7
<1>9. /\ r \in Seq(T!Timer)
      /\ \A q : On(q, s) <=> On(q, r) \/ q = t
      /\ ~On(t, r)
      /\ \A a, b : Before(a, b, r) => Before(a, b, s)
  <2>1. Once(s)
    BY <1>1 DEF FiledOK, Chain
  <2> QED
    BY <2>1, <1>4, <1>5, <1>7, TailQueue
<1>10. TimerTypes' /\ cpc'[mach0] = "call" /\ ccur'[mach0] = t
  BY <1>1, <1>3, <1>6, <1>8 DEF TimerTypes
<1>11. FiledOK(r)'
  <2>1. InTime(cwhen, r)
    BY <1>1, <1>9 DEF FiledOK, InTime
  <2>2. \A q \in Regular : cwhen[q] # nil => cwhen[q] <= period(q) /\ (On(q, r) \/ q = t)
    BY <1>0, <1>1, <1>3, <1>9, TimerFacts DEF FiledOK, Regular, T!Timer
  <2> QED
    BY <2>1, <2>2, <1>3, <1>8, <1>10 DEF FiledOK
<1>12. TakenOK(r)'
  BY <1>3, <1>6, <1>9, <1>10 DEF TakenOK
<1>13. ClockSet(r)'
  BY <1>10 DEF ClockSet
<1> QED
  BY <1>9, <1>10, <1>11, <1>12, <1>13 DEF TimerInv

\* timeradd.
LEMMA TimerPushlinkAdd ==
    ASSUME T!TimersAssumption, TimerInv, T!pushlinkAdd(mach0)
    PROVE  TimerInv'
<1>0. /\ nil \notin T!Timer /\ nil \notin Int /\ Late \in Nat /\ 0 \in -Late .. 0
      /\ ci \in T!Timer /\ ci \notin Regular
  BY TimerFacts DEF Regular
<1>1. PICK s \in Seq(T!Timer) : TimerTypes /\ FiledOK(s) /\ TakenOK(s) /\ ClockSet(s)
  BY DEF TimerInv
<1>2. PICK d \in Ahead :
        cwhen' = [cwhen EXCEPT ![ci] = d + IF cpc[mach0] = "push" THEN cnow[mach0] ELSE @]
  BY DEF T!pushlinkAdd
<1>3. PICK x : x = d + IF cpc[mach0] = "push" THEN cnow[mach0] ELSE cwhen[ci]
  OBVIOUS
<1>4. /\ clink' = T!tadd(clink, cwhen', mach0, ci)
      /\ cset' = IF clink'[mach0] = ci
                 THEN [cset EXCEPT ![mach0] = cwhen'[ci]] ELSE cset
      /\ ccur' = ccur
      /\ \/ /\ cpc[mach0] = "push" /\ cpc' = [cpc EXCEPT ![mach0] = "run"]
            /\ cnow' = [cnow EXCEPT ![mach0] = 0]
         \/ /\ cpc[mach0] = "pushintr" /\ cpc' = [cpc EXCEPT ![mach0] = "next"]
            /\ cnow' = cnow
  BY DEF T!pushlinkAdd, T!leave, T!Goto, T!setFor
<1>5. /\ x \in Int /\ cwhen' = [cwhen EXCEPT ![ci] = x]
  <2>1. cwhen' = [cwhen EXCEPT ![ci] = x]
    BY <1>0, <1>1, <1>2, <1>3 DEF TimerTypes, Times
  <2>2. cnow[mach0] \in Int /\ d \in Int
    BY <1>0, <1>1, TimerFacts DEF TimerTypes
  <2>3. cpc[mach0] # "push" => cwhen[ci] \in Int
    BY <1>0, <1>1, <1>4 DEF TakenOK
  <2> QED
    BY <2>1, <2>2, <2>3, <1>3
<1>6. ~On(ci, s)
  BY <1>1, <1>4 DEF FiledOK
<1>7. PICK v, l : v = cwhen' /\ l = clink'
  OBVIOUS
<1>8. /\ v \in Times /\ v[ci] = x
      /\ \A q \in T!Timer : q # ci => v[q] = cwhen[q]
      /\ \E r \in Seq(T!Timer) :
           Added(s, cwhen, ci, x, l, v, r)
  <2>1. Addition(clink, s, cwhen, ci, x, v) /\ l = T!tadd(clink, v, mach0, ci)
    BY <1>1, <1>4, <1>5, <1>7, <1>0, <1>5, <1>6 DEF TimerTypes, FiledOK, Addition
  <2>2. /\ v \in Times /\ v[ci] = x
        /\ \A q \in T!Timer : q # ci => v[q] = cwhen[q]
        /\ \E r \in Seq(T!Timer) :
             Added(s, cwhen, ci, x, T!tadd(clink, v, mach0, ci), v, r)
    BY <2>1, ChainNew
  <2> QED
    BY <2>1, <2>2
<1>9. PICK r \in Seq(T!Timer) :
           /\ l \in Links /\ Chain(l, r)
           /\ \A q : On(q, r) <=> On(q, s) \/ q = ci
           /\ InTime(v, r) /\ r # <<>>
           /\ r[1] = IF s # <<>> /\ cwhen[s[1]] <= x THEN s[1] ELSE ci
           /\ l[mach0] = r[1]
  BY <1>8 DEF Added
<1>10. /\ cpc' \in [{mach0} -> {"run", "push", "next", "call", "pushintr"}]
       /\ cnow' \in [{mach0} -> -Late .. 0]
       /\ \/ cpc[mach0] = "push" /\ cpc'[mach0] = "run"
          \/ cpc[mach0] = "pushintr" /\ cpc'[mach0] = "next" /\ cnow' = cnow
  BY <1>0, <1>1, <1>4 DEF TimerTypes
<1>11. TimerTypes'
  <2>1. cset' \in [{mach0} -> Int \cup {nil}]
    BY <1>1, <1>4, <1>5, <1>7, <1>8 DEF TimerTypes
  <2> QED
    BY <2>1, <1>1, <1>4, <1>7, <1>8, <1>9, <1>10 DEF TimerTypes
<1>12. FiledOK(r)'
  <2>1. \A t \in Regular : v[t] = cwhen[t]
    BY <1>0, <1>8 DEF Regular, T!Timer
  <2> QED
    BY <2>1, <1>1, <1>4, <1>7, <1>9, <1>10 DEF FiledOK
<1>13. TakenOK(r)'
  <2>1. ccur[mach0] # nil /\ ccur[mach0] # ci => v[ccur[mach0]] = cwhen[ccur[mach0]]
    BY <1>1, <1>8 DEF TimerTypes
  <2> QED
    BY <2>1, <1>1, <1>4, <1>5, <1>7, <1>8, <1>9, <1>10 DEF TakenOK
<1>14. ClockSet(r)'
  <2>1. s # <<>> => s[1] \in T!Timer /\ On(s[1], s) /\ cwhen[s[1]] \in Int
    BY <1>1, Ends DEF FiledOK, InTime
  <2>2. CASE r[1] = ci
    <3>1. cset'[mach0] = x /\ v[r[1]] = x
      BY <2>2, <1>1, <1>4, <1>7, <1>8, <1>9 DEF TimerTypes
    <3> QED
      BY <3>1, <1>0, <1>5, <1>7 DEF ClockSet
  <2>3. CASE r[1] # ci
    <3>1. s # <<>> /\ r[1] = s[1] /\ v[s[1]] = cwhen[s[1]]
      BY <2>1, <2>3, <1>8, <1>9
    <3>2. cset' = cset
      BY <2>3, <1>4, <1>7, <1>9
    <3> QED
      BY <3>1, <3>2, <1>1, <1>7, <1>10 DEF ClockSet
  <2> QED
    BY <2>2, <2>3
<1> QED
  BY <1>11, <1>12, <1>13, <1>14 DEF TimerInv

LEMMA TimerAgain ==
    ASSUME T!TimersAssumption, TimerInv, T!timerintrAgain(mach0)
    PROVE  TimerInv'
<1>0. /\ nil \notin T!Timer /\ nil \notin Int /\ Late \in Nat
      /\ T!Timer = Regular \cup {ci} /\ ci \notin Regular
      /\ \A t \in Regular : period(t) \in Nat
  BY TimerFacts DEF Regular
<1>1. PICK s \in Seq(T!Timer) : TimerTypes /\ FiledOK(s) /\ TakenOK(s) /\ ClockSet(s)
  BY DEF TimerInv
<1>2. PICK t : t = ccur[mach0]
  OBVIOUS
<1>3. /\ cpc[mach0] = "next" /\ t # nil
      /\ ccur' = [ccur EXCEPT ![mach0] = nil]
      /\ UNCHANGED <<cset, cpc, cnow>>
  BY <1>2 DEF T!timerintrAgain
<1>4. t \in T!Timer /\ cwhen[t] \in Int /\ ccur'[mach0] = nil
      /\ ccur' \in [{mach0} -> T!Timer \cup {nil}]
  BY <1>1, <1>2, <1>3 DEF TimerTypes, TakenOK
<1>5. CASE t = ci
  <2>1. UNCHANGED <<clink, cwhen>>
    BY <1>2, <1>5 DEF T!timerintrAgain
  <2>2. TimerTypes'
    BY <2>1, <1>1, <1>3, <1>4 DEF TimerTypes
  <2>3. FiledOK(s)'
    BY <2>1, <1>0, <1>1, <1>2, <1>3, <1>4, <1>5 DEF FiledOK
  <2>4. TakenOK(s)'
    BY <1>3, <1>4 DEF TakenOK
  <2>5. ClockSet(s)'
    BY <1>3 DEF ClockSet
  <2> QED
    BY <2>2, <2>3, <2>4, <2>5 DEF TimerInv
<1>6. CASE t # ci
  <2>1. t \in Regular
    BY <1>0, <1>4, <1>6
  <2>2. PICK x : x = cwhen[t] + period(t)
    OBVIOUS
  <2>3. /\ cwhen' = [cwhen EXCEPT ![t] = x]
        /\ clink' = T!tadd(clink, cwhen', mach0, t)
    BY <2>1, <2>2, <1>1, <1>2, <1>4, <1>6
       DEF T!timerintrAgain, period, Regular, TimerTypes, Times
  <2>4. x \in Int /\ x <= period(t)
    <3>1. cwhen[t] <= cnow[mach0] /\ cnow[mach0] \in Int /\ cnow[mach0] <= 0
      BY <1>0, <1>1, <1>2, <1>3, <1>6 DEF TakenOK, TimerTypes
    <3> QED
      BY <3>1, <2>1, <2>2, <1>0, <1>4
  <2>5. ~On(t, s)
    BY <1>1, <1>2, <1>3, <1>6 DEF TakenOK
  <2>6. PICK v, l : v = cwhen' /\ l = clink'
    OBVIOUS
  <2>7. /\ v \in Times /\ v[t] = x
        /\ \A q \in T!Timer : q # t => v[q] = cwhen[q]
        /\ \E r \in Seq(T!Timer) :
             Added(s, cwhen, t, x, l, v, r)
    <3>1. Addition(clink, s, cwhen, t, x, v) /\ l = T!tadd(clink, v, mach0, t)
      BY <1>1, <2>3, <2>6, <1>4, <2>4, <2>5 DEF TimerTypes, FiledOK, Addition
    <3>2. /\ v \in Times /\ v[t] = x
          /\ \A q \in T!Timer : q # t => v[q] = cwhen[q]
          /\ \E r \in Seq(T!Timer) :
               Added(s, cwhen, t, x, T!tadd(clink, v, mach0, t), v, r)
      BY <3>1, ChainNew
    <3> QED
      BY <3>1, <3>2
  <2>8. PICK r \in Seq(T!Timer) :
             /\ l \in Links /\ Chain(l, r)
             /\ \A q : On(q, r) <=> On(q, s) \/ q = t
             /\ InTime(v, r)
    BY <2>7 DEF Added
  <2>9. TimerTypes'
    BY <1>1, <1>3, <1>4, <2>6, <2>7, <2>8 DEF TimerTypes
  <2>10. FiledOK(r)'
    <3>1. ASSUME NEW q \in Regular, v[q] # nil
          PROVE  v[q] <= period(q) /\ On(q, r)
      <4>1. CASE q = t
        BY <4>1, <2>4, <2>7, <2>8
      <4>2. CASE q # t
        <5>1. v[q] = cwhen[q]
          BY <4>2, <2>7, <1>0
        <5> QED
          BY <4>2, <5>1, <3>1, <1>1, <1>2, <2>8 DEF FiledOK
      <4> QED
        BY <4>1, <4>2
    <3> QED
      BY <3>1, <1>3, <2>6, <2>8 DEF FiledOK
  <2>11. TakenOK(r)'
    BY <1>3, <1>4 DEF TakenOK
  <2>12. ClockSet(r)'
    BY <1>3 DEF ClockSet
  <2> QED
    BY <2>9, <2>10, <2>11, <2>12 DEF TimerInv
<1> QED
  BY <1>5, <1>6

\* Time goes on for all, and so leaves them in their order.
LEMMA TimerTick ==
    ASSUME T!TimersAssumption, TimerInv, T!tick
    PROVE  TimerInv'
<1>0. /\ nil \notin T!Timer /\ nil \notin Int /\ Late \in Nat /\ 0 \in -Late .. 0
      /\ Regular \subseteq T!Timer
      /\ \A t \in Regular : period(t) \in Nat
  BY TimerFacts DEF Regular
<1>1. PICK s \in Seq(T!Timer) : TimerTypes /\ FiledOK(s) /\ TakenOK(s) /\ ClockSet(s)
  BY DEF TimerInv
<1>2. /\ cset[mach0] # nil => cset[mach0] > -Late
      /\ cpc[mach0] = "run" \/ cnow[mach0] > -Late
      /\ cwhen' = [t \in T!Timer |-> T!earlier(cwhen[t])]
      /\ cset' = [m \in {mach0} |-> T!earlier(cset[m])]
      /\ cnow' = [m \in {mach0} |-> IF cpc[m] = "run" THEN 0 ELSE cnow[m] - 1]
      /\ UNCHANGED <<clink, cpc, ccur>>
  BY DEF T!tick
<1>3. /\ T!earlier(nil) = nil
      /\ \A x \in Int : T!earlier(x) \in Int /\ T!earlier(x) <= x
      /\ \A x, y \in Int : x <= y => T!earlier(x) <= T!earlier(y)
      /\ \A x \in Int, y \in -Late + 1 .. 0 : x <= y => T!earlier(x) <= y - 1
  BY <1>0 DEF T!earlier
<1>4. PICK v : v = cwhen'
  OBVIOUS
<1>5. /\ v \in Times
      /\ \A t \in T!Timer : v[t] = T!earlier(cwhen[t])
      /\ \A t \in T!Timer : cwhen[t] \in Int \cup {nil}
  BY <1>1, <1>2, <1>3, <1>4 DEF TimerTypes, Times
<1>6. TimerTypes'
  <2>1. cset' \in [{mach0} -> Int \cup {nil}]
    BY <1>1, <1>2, <1>3 DEF TimerTypes
  <2>2. cnow' \in [{mach0} -> -Late .. 0]
    BY <1>0, <1>1, <1>2 DEF TimerTypes
  <2> QED
    BY <2>1, <2>2, <1>1, <1>2, <1>4, <1>5 DEF TimerTypes
<1>7. InTime(v, s)
  <2>1. \A a, b \in T!Timer : Before(a, b, s) => On(a, s) /\ On(b, s)
    BY DEF Before, On
  <2> QED
    BY <2>1, <1>1, <1>3, <1>5 DEF FiledOK, InTime
<1>8. FiledOK(s)'
  <2>1. ASSUME NEW t \in Regular, v[t] # nil
        PROVE  v[t] <= period(t) /\ (On(t, s) \/ ccur[mach0] = t)
    <3>1. cwhen[t] \in Int
      BY <2>1, <1>0, <1>3, <1>5
    <3>2. cwhen[t] <= period(t) /\ (On(t, s) \/ ccur[mach0] = t)
      BY <3>1, <1>0, <1>1 DEF FiledOK
    <3>3. v[t] \in Int /\ v[t] <= cwhen[t] /\ period(t) \in Int
      <4>1. v[t] = T!earlier(cwhen[t]) /\ period(t) \in Nat
        BY <1>0, <1>5
      <4> QED
        BY SMTT(30), <3>1, <4>1, <1>3
    <3> QED
      BY <3>1, <3>2, <3>3
  <2> QED
    BY <2>1, <1>1, <1>2, <1>4, <1>7 DEF FiledOK
<1>9. TakenOK(s)'
  <2> SUFFICES ASSUME ccur[mach0] # nil
               PROVE  /\ v[ccur[mach0]] \in Int
                      /\ cpc[mach0] = "call" \/ ccur[mach0] # ci =>
                           v[ccur[mach0]] <= cnow'[mach0]
    BY <1>1, <1>2, <1>4 DEF TakenOK
  <2>1. PICK t \in T!Timer : t = ccur[mach0]
    BY <1>1 DEF TimerTypes
  <2>2. /\ cwhen[t] \in Int /\ v[t] = T!earlier(cwhen[t])
        /\ cpc[mach0] = "call" \/ t # ci => cwhen[t] <= cnow[mach0]
        /\ cpc[mach0] # "run"
    BY <2>1, <1>1, <1>5 DEF TakenOK
  <2>3. cnow[mach0] \in -Late + 1 .. 0 /\ cnow'[mach0] = cnow[mach0] - 1
    BY <2>2, <1>0, <1>1, <1>2 DEF TimerTypes
  <2> QED
    BY <2>1, <2>2, <2>3, <1>3
<1>10. ClockSet(s)'
  <2> SUFFICES ASSUME cpc[mach0] \in {"run", "push"}, s # <<>>
               PROVE  cset'[mach0] # nil /\ cset'[mach0] <= v[s[1]]
    BY <1>2, <1>4 DEF ClockSet
  <2>1. s[1] \in T!Timer /\ On(s[1], s)
    BY Ends
  <2>2. cwhen[s[1]] \in Int /\ v[s[1]] = T!earlier(cwhen[s[1]])
    BY <2>1, <1>1, <1>5 DEF FiledOK, InTime
  <2>3. cset[mach0] \in Int /\ cset[mach0] <= cwhen[s[1]]
    BY <1>1 DEF ClockSet, TimerTypes
  <2>4. cset'[mach0] = T!earlier(cset[mach0])
    BY <1>2
  <2> QED
    BY <2>2, <2>3, <2>4, <1>0, <1>3
<1> QED
  BY <1>6, <1>8, <1>9, <1>10 DEF TimerInv

LEMMA TimerInvariant ==
    ASSUME T!TimersAssumption PROVE T!Spec => []TimerInv
<1>1. T!Init => TimerInv
  BY TimersStart
<1>2. TimerInv /\ [T!Next]_T!vars => TimerInv'
  <2> SUFFICES ASSUME TimerInv, [T!Next]_T!vars PROVE TimerInv'
    OBVIOUS
  <2>1. CASE UNCHANGED T!vars
    BY <2>1 DEF T!vars, TimerInv, TimerTypes, FiledOK, TakenOK, ClockSet
  <2>2. CASE T!tick
    BY <2>2, TimerTick
  <2>3. ASSUME NEW t \in Regular, T!addclock0link(t) PROVE TimerInv'
    BY <2>3, TimerAddclock0link
  <2>4. CASE T!timersinit(mach0)
    BY <2>4, TimerTimersinit
  <2>5. CASE T!pushlink(mach0) \/ T!linkintr(mach0)
    BY <2>5, TimerPushlink
  <2>6. CASE T!pushlinkNot(mach0) \/ T!timerintr(mach0) \/ T!timerintrSet(mach0)
             \/ T!timerintrEmpty(mach0) \/ T!periodic(mach0)
    BY <2>6, TimerQuiet
  <2>7. CASE T!pushlinkAdd(mach0)
    BY <2>7, TimerPushlinkAdd
  <2>8. CASE T!timerintrTake(mach0)
    BY <2>8, TimerTake
  <2>9. CASE T!timerintrAgain(mach0)
    BY <2>9, TimerAgain
  <2> QED
    BY <2>1, <2>2, <2>3, <2>4, <2>5, <2>6, <2>7, <2>8, <2>9 DEF T!Next, Regular
<1> QED
  BY <1>1, <1>2, PTL DEF T!Spec

-----------------------------------------------------------------------------
\* The lists of alarm.c and portclock.c are sound: talarm holds, once and in
\* order, whoever sleeps in tsleep; alarms, whoever has an alarm set; and the
\* Timers of a Mach, every periodic one but the one being called, in the order
\* of their times, with the clock set for the first of them.  They are kept by
\* tsleep and checkalarms, by procalarm and alarmkproc, and by tadd, timerdel
\* and timerintr; addclock0link need not set the clock.
THEOREM ListsSound ==
    ASSUME TSleepAssumption, A!AlarmsAssumption, T!TimersAssumption
    PROVE  Spec /\ A!Spec /\ T!Spec => []ListsOK
<1>1. SleepInv /\ AlarmInv /\ TimerInv => ListsOK
  BY SleepListOK, AlarmListOK, TimerListOK DEF ListsOK
<1> QED
  BY <1>1, SleepInvariant, AlarmInvariant, TimerInvariant, PTL

\* It is enough that checkalarms and alarmkproc look at the heads of their
\* lists: nobody behind the head is due before it, and alarmkproc posts to
\* nobody whose time has not come.
THEOREM HeadsTell ==
    ASSUME TSleepAssumption, A!AlarmsAssumption
    PROVE  Spec /\ A!Spec => []DueAtHead
<1>1. SleepInv /\ AlarmInv => DueAtHead
  BY SleepListOK, AlarmListOK DEF DueAtHead
<1> QED
  BY <1>1, SleepInvariant, AlarmInvariant, PTL

\* Every behaviour that MCClock checks is one of TSleep, of Alarms and of
\* Timers, of which it moves one.
THEOREM Behaviours == MCSpec => Spec /\ A!Spec /\ T!Spec
<1>1. MCInit => Init /\ A!Init /\ T!Init
  BY DEF MCInit
<1>2. [MCNext]_all => [Next]_vars /\ [A!Next]_(A!vars) /\ [T!Next]_(T!vars)
  BY DEF MCNext, OnSleep, OnAlarm, OnTimer, all, avars, cvars, vars, A!vars, T!vars
<1> QED
  BY <1>1, <1>2, PTL DEF MCSpec, Spec, A!Spec, T!Spec

=============================================================================
