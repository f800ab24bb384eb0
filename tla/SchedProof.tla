----------------------------- MODULE SchedProof -----------------------------
(***************************************************************************)
(* The scheduler of port/proc.c on any number of processors: a process is  *)
(* on one stack at a time, and on one queue at most, because p->mach is    *)
(* cleared only after the stack was left, and dequeueproc looks at it.     *)
(* At the end, sleep, wakeup and postnote: no panic, and nothing is lost.  *)
(***************************************************************************)
EXTENDS MCSched, QueueTheorems

\* Where a Mach runs the process up, and where it has a process in tp that
\* nobody else can get at.
inUp == {"run", "fork", "switch", "clear"}
inTp == {"fork", "moved", "picked", "resume"}

\* What each Mach holds, from one label to the next.
MachOK(m) ==
    /\ pc[m] \in inUp =>
         /\ up[m] \in Proc /\ mach[up[m]] = m
         /\ pc[m] \in {"run", "fork"} => state[up[m]] = "Running"
         /\ pc[m] = "switch" =>
              state[up[m]] \in {"Running", "Wakeme", "Moribund", "Ready"}
         /\ pc[m] = "clear" =>
              \/ state[up[m]] \in {"Wakeme", "Ready"}
              \/ state[up[m]] = "Running" /\ rdy[m] = up[m]
    /\ pc[m] \notin inUp => up[m] = nil
    /\ pc[m] \in inTp =>
         /\ tp[m] \in Proc /\ mach[tp[m]] = nil
         /\ pc[m] \in {"fork", "resume"} => state[tp[m]] = "Scheding"
         /\ pc[m] \in {"moved", "picked"} =>
              state[tp[m]] = "Ready" /\ tp[m] \notin queued
    /\ pc[m] \in {"moveup", "found"} => tp[m] \in Proc

\* No two of them hold the same.
Apart(m) ==
    \A n \in Mach : pc[m] \in inTp /\ pc[n] \in inTp /\ tp[n] = tp[m] => n = m

\* What ready may have picked for p.
Picked(p, pri) ==
    IF fixedpri[p] THEN pri = basepri[p]
    ELSE \/ pri = priority[p]
         \/ state[p] = "Running" /\ pri = priority[p] - 1
         \/ state[p] # "Running" /\ pri = priority[p] + 1 /\ pri <= basepri[p]
         \/ state[p] # "Running" /\ pri = basepri[p] /\ basepri[p] < priority[p]

\* A process that ready has yet to queue is nowhere else, nobody else readies
\* it, and nobody runs it but the Mach that is leaving its stack.
CallOK(m) ==
    rdy[m] # nil =>
        /\ rdy[m] \in Proc /\ rdy[m] \notin queued
        /\ \A n \in Mach : /\ rdy[n] = rdy[m] => n = m
                           /\ pc[n] \in inTp => tp[n] # rdy[m]
        /\ \/ state[rdy[m]] = "Wakeme"
           \/ state[rdy[m]] = "Running" /\ up[m] = rdy[m] /\ pc[m] = "clear"
           \/ state[rdy[m]] \in {"Scheding", "Ready"} /\ mach[rdy[m]] = nil
        /\ rdy[m] \notin overtaken => Picked(rdy[m], rdypri[m])

\* p->mach is the processor that runs p, and who is ready is queued, or was
\* just taken off.
ProcOK(p) ==
    /\ \A m \in Mach : mach[p] = m => up[m] = p
    /\ p \in queued => state[p] = "Ready"
    /\ state[p] = "Ready" =>
         \/ p \in queued
         \/ \E m \in Mach : tp[m] = p /\ pc[m] \in {"moved", "picked"}
         \/ \E m \in Mach : rdy[m] = p
    /\ state[p] = "Dead" <=> On(p, free)

\* Nobody is queued twice.
Queues ==
    /\ \A i \in Pri : Once(runq[i])
    /\ \A i, j \in Pri : \A p \in Proc :
         On(p, runq[i]) /\ On(p, runq[j]) => i = j
    /\ Once(free)

IInv ==
    /\ TypeOK
    /\ \A m \in Mach : MachOK(m) /\ Apart(m) /\ CallOK(m)
    /\ \A p \in Proc : ProcOK(p)
    /\ Queues
    /\ Counters

-----------------------------------------------------------------------------
\* What is queued, and that it is finitely many processes.
LEMMA QueuedFinite ==
    ASSUME SchedAssumption, TypeOK
    PROVE  /\ \A q : q \in queued <=> \E i \in Pri : On(q, runq[i])
           /\ queued \subseteq Proc
           /\ IsFiniteSet(queued) /\ Cardinality(queued) \in Nat
<1>1. \A q : q \in queued <=> \E i \in Pri : On(q, runq[i])
  BY DEF queued, ToSet, On
<1>2. queued \subseteq Proc
  BY <1>1, LenProperties DEF TypeOK, On
<1> QED
  BY <1>1, <1>2, FS_Subset, FS_CardinalityType DEF SchedAssumption

\* What ready picks.
LEMMA Picks ==
    ASSUME SchedAssumption, TypeOK, NEW p \in Proc, NEW used \in Nat
    PROVE  /\ newPriority(p, used) \in Pri
           /\ Picked(p, newPriority(p, used))
<1>1. PICK pri : pri = newPriority(p, used)
  OBVIOUS
<1>2. basepri[p] \in 0 .. Nrq - 1 /\ priority[p] \in 0 .. Nrq - 1 /\ Nrq \in Nat
  BY DEF Pri, SchedAssumption, TypeOK
<1>3. /\ fixedpri[p] => pri = basepri[p]
      /\ ~fixedpri[p] =>
           \/ pri = priority[p]
           \/ state[p] = "Running" /\ pri = priority[p] - 1 /\ priority[p] > 0
           \/ /\ state[p] # "Running" /\ pri = priority[p] + 1
              /\ ~(priority[p] + 1 > basepri[p])
           \/ /\ state[p] # "Running" /\ pri = basepri[p]
              /\ priority[p] + 1 > basepri[p]
  BY <1>1 DEF newPriority
<1>4. pri \in 0 .. Nrq - 1
  BY <1>2, <1>3
<1>5. Picked(p, pri)
  BY <1>2, <1>3 DEF Picked
<1> QED
  BY <1>1, <1>4, <1>5 DEF Pri

\* ready puts a process that is on no queue on one.
LEMMA QueueStep ==
    ASSUME SchedAssumption, TypeOK, Queues, Counters,
           NEW m \in Mach, NEW p \in Proc, p = rdy[m], p \notin queued,
           readyQueue(m)
    PROVE  /\ runq' \in [Pri -> Seq(Proc)]
           /\ \A q : q \in queued' <=> q \in queued \/ q = p
           /\ \A i \in Pri : Once(runq'[i])
           /\ \A i, j \in Pri : \A q \in Proc :
                On(q, runq'[i]) /\ On(q, runq'[j]) => i = j
           /\ runvec' \subseteq Pri /\ nrdy' \in Nat
           /\ Counters'
<1> USE SchedAssumption
<1>1. PICK pri \in Pri : pri = rdypri[m]
  BY DEF TypeOK
<1>2. runq \in [Pri -> Seq(Proc)] /\ runvec \subseteq Pri /\ nrdy \in Nat
  BY DEF TypeOK
<1>4. /\ runq' = [runq EXCEPT ![pri] = Append(@, p)]
      /\ runvec' = runvec \cup {pri}
      /\ nrdy' = nrdy + 1
  BY <1>1 DEF readyQueue
<1>6. PICK s : s = runq[pri]
  OBVIOUS
<1>7. PICK t : t = Append(s, p)
  OBVIOUS
<1>8. s \in Seq(Proc) /\ Once(s) /\ ~On(p, s)
  BY <1>1, <1>2, <1>6, QueuedFinite DEF Queues
<1>9. /\ t \in Seq(Proc) /\ t # <<>> /\ Once(t)
      /\ \A q : On(q, t) <=> On(q, s) \/ q = p
  BY <1>7, <1>8, AppendQueue
<1>10. /\ runq' \in [Pri -> Seq(Proc)] /\ runq'[pri] = t
       /\ \A i \in Pri \ {pri} : runq'[i] = runq[i]
  BY <1>1, <1>2, <1>4, <1>6, <1>7, <1>9
<1>11. \A q : \A i \in Pri :
         On(q, runq'[i]) <=> On(q, runq[i]) \/ (q = p /\ i = pri)
  BY <1>6, <1>9, <1>10
<1>12. \A q : q \in queued' <=> q \in queued \/ q = p
  <2>1. \A q : q \in queued' <=> \E i \in Pri : On(q, runq'[i])
    BY DEF queued, ToSet, On
  <2> QED
    BY <2>1, <1>1, <1>11, QueuedFinite
<1>13. \A i, j \in Pri : \A q \in Proc :
         On(q, runq'[i]) /\ On(q, runq'[j]) => i = j
  <2>1. \A i \in Pri : ~On(p, runq[i])
    BY QueuedFinite
  <2> QED
    BY SMTT(30), <1>11, <2>1 DEF Queues
<1>14. Cardinality(queued') = nrdy + 1
  <2>1. queued' = queued \cup {p}
    BY <1>12
  <2> QED
    BY <2>1, QueuedFinite, FS_AddElement DEF Counters
<1>15. runvec' = {i \in Pri : runq'[i] # <<>>}
  BY <1>1, <1>4, <1>9, <1>10 DEF Counters
<1>16. \A i \in Pri : Once(runq'[i])
  BY <1>9, <1>10 DEF Queues
<1>17. Counters'
  BY <1>4, <1>14, <1>15 DEF Counters
<1> QED
  BY <1>1, <1>2, <1>4, <1>10, <1>12, <1>13, <1>16, <1>17

\* dequeueproc takes one that is on a queue off it.
LEMMA DequeueStep ==
    ASSUME SchedAssumption, TypeOK, Queues, Counters,
           NEW m \in Mach, tp[m] \in Proc, canDequeue(m), dequeueproc(m)
    PROVE  /\ runq' \in [Pri -> Seq(Proc)]
           /\ tp[m] \in queued
           /\ \A q : q \in queued' <=> q \in queued /\ q # tp[m]
           /\ \A i \in Pri : Once(runq'[i])
           /\ \A i, j \in Pri : \A q \in Proc :
                On(q, runq'[i]) /\ On(q, runq'[j]) => i = j
           /\ runvec' \subseteq Pri /\ nrdy' \in Nat
           /\ Counters'
<1> USE SchedAssumption
<1>1. PICK p \in Proc : p = tp[m]
  OBVIOUS
<1>2. PICK pri \in Pri : pri = rq[m]
  BY DEF TypeOK
<1>3. PICK s : s = runq[pri]
  OBVIOUS
<1>4. PICK t : t = RemoveFirst(s, p)
  OBVIOUS
<1>5. /\ runq \in [Pri -> Seq(Proc)] /\ runvec \subseteq Pri /\ nrdy \in Nat
  BY DEF TypeOK
<1>6. s \in Seq(Proc) /\ Once(s) /\ On(p, s)
  BY <1>1, <1>2, <1>3, <1>5 DEF Queues, canDequeue, ToSet, On
<1>7. /\ t \in Seq(Proc) /\ Once(t)
      /\ \A q : On(q, t) <=> On(q, s) /\ q # p
  BY <1>4, <1>6, RemoveQueue
<1>8. /\ runq' = [runq EXCEPT ![pri] = t]
      /\ runvec' = IF t = <<>> THEN runvec \ {pri} ELSE runvec
      /\ nrdy' = nrdy - 1
  BY <1>1, <1>2, <1>3, <1>4 DEF dequeueproc
<1>9. /\ runq' \in [Pri -> Seq(Proc)] /\ runq'[pri] = t
      /\ \A i \in Pri \ {pri} : runq'[i] = runq[i]
  BY <1>5, <1>7, <1>8
<1>10. \A q \in Proc : \A i \in Pri :
         On(q, runq'[i]) <=> On(q, runq[i]) /\ q # p
  BY <1>3, <1>6, <1>7, <1>9 DEF Queues
<1>11. p \in queued
  BY <1>3, <1>6, QueuedFinite
<1>12. \A q : q \in queued' <=> q \in queued /\ q # p
  <2>1. \A q : q \in queued' <=> \E i \in Pri : On(q, runq'[i])
    BY DEF queued, ToSet, On
  <2>2. \A q : q \in queued' => q \in Proc
    BY <2>1, <1>9, LenProperties DEF On
  <2> QED
    BY <2>1, <2>2, <1>10, QueuedFinite
<1>13. \A i, j \in Pri : \A q \in Proc :
         On(q, runq'[i]) /\ On(q, runq'[j]) => i = j
  BY <1>10 DEF Queues
<1>14. Cardinality(queued') = nrdy - 1 /\ nrdy - 1 \in Nat
  <2>1. queued' = queued \ {p}
    BY <1>12
  <2>2. IsFiniteSet(queued \ {p}) /\ Cardinality(queued \ {p}) = nrdy - 1
    BY <1>11, QueuedFinite, FS_RemoveElement DEF Counters
  <2> QED
    BY <2>1, <2>2, FS_CardinalityType
<1>15. runvec' = {i \in Pri : runq'[i] # <<>>}
  <2>1. s # <<>>
    BY <1>6, LenProperties, EmptySeq DEF On
  <2>2. \A i \in Pri : i \in runvec <=> runq[i] # <<>>
    BY DEF Counters
  <2>3. \A i \in Pri : i \in runvec' <=> runq'[i] # <<>>
    BY <2>1, <2>2, <1>3, <1>8, <1>9
  <2> QED
    BY <2>3, <1>5, <1>8
<1>16. \A i \in Pri : Once(runq'[i])
  BY <1>7, <1>9 DEF Queues
<1>17. Counters'
  BY <1>8, <1>14, <1>15 DEF Counters
<1> QED
  BY <1>1, <1>5, <1>8, <1>9, <1>11, <1>12, <1>13, <1>14, <1>16, <1>17


-----------------------------------------------------------------------------
(***************************************************************************)
(* Each step preserves the invariant: first those that leave the run queue *)
(* alone.                                                                  *)
(***************************************************************************)
LEMMA Resting ==
    ASSUME Queues, Counters, UNCHANGED <<queueVars, free>>
    PROVE  Queues' /\ Counters' /\ queued' = queued
<1>1. queued' = queued
  BY DEF queued, queueVars
<1> QED
  BY <1>1 DEF Queues, Counters, queueVars, Once, On

\* What ready has in hand on other processors than m.
LEMMA Elsewhere ==
    ASSUME SchedAssumption, IInv, NEW m \in Mach, rdy[m] = nil,
           NEW n \in Mach, rdy[n] # nil
    PROVE  /\ n # m /\ rdy[n] \in Proc
           /\ state[rdy[n]] \in {"Wakeme", "Running", "Scheding", "Ready"}
           /\ pc[m] \in inUp /\ state[up[m]] \in {"Running", "Moribund"} =>
                up[m] # rdy[n]
           /\ pc[m] \in inTp => tp[m] # rdy[n]
<1>1. CallOK(n) /\ MachOK(n) /\ MachOK(m)
  BY DEF IInv
<1>2. /\ n # m /\ rdy[n] \in Proc
      /\ state[rdy[n]] \in {"Wakeme", "Running", "Scheding", "Ready"}
      /\ pc[m] \in inTp => tp[m] # rdy[n]
  BY <1>1 DEF CallOK
<1>3. ASSUME pc[m] \in inUp, up[m] = rdy[n] PROVE state[up[m]] = "Wakeme"
                                                  \/ state[up[m]] \in {"Scheding", "Ready"}
  <2>1. mach[up[m]] = m
    BY <1>1, <1>3 DEF MachOK
  <2>2. CASE up[n] = rdy[n] /\ pc[n] = "clear"
    BY <2>1, <2>2, <1>1, <1>2, <1>3 DEF MachOK, inUp
  <2> QED
    BY <2>2, <1>1, <1>3 DEF CallOK
<1> QED
  BY <1>2, <1>3

\* ready's hold on a process outlasts the steps of others.
LEMMA CallKept ==
    ASSUME NEW n \in Mach, CallOK(n),
           UNCHANGED calls,
           rdy[n] \in queued' => rdy[n] \in queued,
           rdy[n] # nil =>
               /\ state'[rdy[n]] = state[rdy[n]]
               /\ priority'[rdy[n]] = priority[rdy[n]]
               /\ basepri'[rdy[n]] = basepri[rdy[n]]
               /\ fixedpri'[rdy[n]] = fixedpri[rdy[n]]
               /\ mach'[rdy[n]] = mach[rdy[n]] \/ mach'[rdy[n]] = nil
               /\ up'[n] = up[n] /\ pc'[n] = pc[n]
               /\ \A k \in Mach : pc'[k] \in inTp /\ tp'[k] = rdy[n] =>
                                    pc[k] \in inTp /\ tp[k] = rdy[n]
    PROVE  CallOK(n)'
<1>1. rdy' = rdy /\ rdypri' = rdypri /\ overtaken' = overtaken
  BY DEF calls
<1>2. ASSUME rdy[n] # nil, Picked(rdy[n], rdypri[n])
      PROVE  Picked(rdy[n], rdypri[n])'
  BY <1>1, <1>2 DEF Picked
<1> QED
  BY <1>1, <1>2 DEF CallOK

\* So it does when Mach m, which is not in ready, takes a step about p.
LEMMA CallsKept ==
    ASSUME SchedAssumption, IInv, NEW m \in Mach, rdy[m] = nil,
           UNCHANGED calls, \A q \in queued' : q \in queued,
           NEW p, \A n \in Mach : rdy[n] # nil => rdy[n] # p,
           \A q \in Proc \ {p} :
               /\ state'[q] = state[q] /\ mach'[q] = mach[q]
               /\ priority'[q] = priority[q] /\ basepri'[q] = basepri[q]
               /\ fixedpri'[q] = fixedpri[q],
           \A n \in Mach \ {m} :
               up'[n] = up[n] /\ pc'[n] = pc[n] /\ tp'[n] = tp[n],
           pc'[m] \in inTp => tp'[m] = p \/ (pc[m] \in inTp /\ tp'[m] = tp[m])
    PROVE  \A n \in Mach : CallOK(n)'
<1>1. SUFFICES ASSUME NEW n \in Mach PROVE CallOK(n)'
  OBVIOUS
<1>2. CallOK(n)
  BY DEF IInv
<1>3. ASSUME rdy[n] # nil
      PROVE  /\ n # m /\ rdy[n] \in Proc \ {p}
             /\ \A k \in Mach : pc'[k] \in inTp /\ tp'[k] = rdy[n] =>
                                  pc[k] \in inTp /\ tp[k] = rdy[n]
  <2>1. n # m /\ rdy[n] \in Proc \ {p}
    BY <1>3, Elsewhere
  <2> QED
    BY <2>1
<1> QED
  BY <1>2, <1>3, CallKept

\* The clock, preempted, yield, block: up goes on running or leaves for
\* schedinit.
LEMMA LeaveStep ==
    ASSUME SchedAssumption, IInv, NEW m \in Mach,
           hzsched(m) \/ preempted(m) \/ yield(m) \/ block(m)
    PROVE  IInv'
<1> USE DEF IInv
<1>1. /\ UNCHANGED <<mach, mp, wired, priority, params, queueVars,
                     allocVars, up, tp, rq, calls>>
      /\ pc[m] = "run" /\ rdy[m] = nil
      /\ pc' = pc \/ pc' = [pc EXCEPT ![m] = "switch"]
      /\ \/ UNCHANGED state
         \/ pc'[m] = "switch" /\ state' = [state EXCEPT ![up[m]] = "Wakeme"]
      /\ quanta' \in [Proc -> Nat]
  <2>1. CASE hzsched(m)
    <3>1. PICK u \in Proc : u = up[m]
      BY <2>1 DEF hzsched, at, MachOK, inUp
    <3>2. PICK k \in Nat : k = IF quanta[u] > 0 THEN quanta[u] - 1 ELSE 0
      <4>1. quanta[u] \in Nat
        BY DEF TypeOK
      <4> QED
        BY <4>1
    <3>3. quanta' = [quanta EXCEPT ![u] = k]
      BY <2>1, <3>1, <3>2 DEF hzsched
    <3>4. quanta' \in [Proc -> Nat]
      BY <3>3 DEF TypeOK
    <3>5. at(m, "run") /\ (pc' = pc \/ pc' = [pc EXCEPT ![m] = "switch"])
      BY <2>1 DEF hzsched, sched, Goto
    <3>6. /\ UNCHANGED state
          /\ UNCHANGED <<mach, mp, wired, priority, params, queueVars,
                         allocVars, up, tp, rq, calls>>
      BY <2>1 DEF hzsched
    <3> QED
      BY <3>4, <3>5, <3>6 DEF at
  <2>2. CASE preempted(m)
    BY <2>2 DEF preempted, sched, Goto, at, procVars, params, TypeOK
  <2>3. CASE yield(m)
    BY <2>3 DEF yield, sched, Goto, at, TypeOK
  <2>4. CASE block(m)
    BY <2>4 DEF block, sched, Goto, at, TypeOK
  <2> QED
    BY <2>1, <2>2, <2>3, <2>4
<1>2. Queues' /\ Counters' /\ queued' = queued
  BY <1>1, Resting DEF allocVars
<1>3. PICK u \in Proc : u = up[m] /\ mach[u] = m /\ state[u] = "Running"
  BY <1>1 DEF MachOK, inUp
<1>4. TypeOK'
  <2>1. state' \in [Proc -> ProcState]
    <3>1. state' = state \/ state' = [state EXCEPT ![u] = "Wakeme"]
      BY <1>1, <1>3
    <3> QED
      BY <3>1 DEF TypeOK, ProcState
  <2>2. pc' \in [Mach -> {"run", "fork", "switch", "clear", "loop", "moveup",
                         "moved", "found", "picked", "resume"}]
    BY ZenonT(40), <1>1 DEF TypeOK
  <2> QED
    BY <2>1, <2>2, <1>1 DEF TypeOK, params, queueVars, allocVars, calls
<1>5. ASSUME NEW n \in Mach PROVE MachOK(n)' /\ Apart(n)' /\ CallOK(n)'
  <2>1. /\ up' = up /\ tp' = tp /\ mach' = mach /\ rdy' = rdy
        /\ pc[n] \in inTp => tp[n] # u
    BY <1>1, <1>3 DEF MachOK, calls
  <2>2. pc'[n] = pc[n] \/ (n = m /\ pc'[n] = "switch")
    BY <1>1 DEF TypeOK
  <2>3. state'[u] \in {"Running", "Wakeme"} /\ (state'[u] = "Wakeme" => pc'[m] = "switch")
        /\ \A p \in Proc \ {u} : state'[p] = state[p]
    BY <1>1, <1>3 DEF TypeOK
  <2>4. n # m /\ pc[n] \in inUp => up[n] # u
    BY <1>3 DEF MachOK
  <2>5. MachOK(n)'
    BY <2>1, <2>2, <2>3, <2>4, <1>1, <1>2, <1>3 DEF MachOK, inUp, inTp
  <2>6. Apart(n)'
    <3>1. \A k \in Mach : pc'[k] \in inTp => pc[k] \in inTp
      BY <1>1 DEF TypeOK, inTp
    <3> QED
      BY <3>1, <2>1 DEF Apart
  <2>7. CallOK(n)'
    <3>1. pc'[m] \notin inTp /\ \A k \in Mach \ {m} : pc'[k] = pc[k]
      BY <1>1 DEF TypeOK, inTp
    <3>2. \A k \in Mach : rdy[k] # nil => rdy[k] # u
      BY <1>1, <1>3, Elsewhere DEF inUp
    <3>3. /\ UNCHANGED calls /\ rdy[m] = nil
          /\ priority' = priority /\ basepri' = basepri
          /\ fixedpri' = fixedpri
      BY <1>1 DEF params
    <3> QED
      BY <3>1, <3>2, <3>3, <2>1, <2>3, <1>2, CallsKept
  <2> QED
    BY <2>5, <2>6, <2>7
<1>6. ASSUME NEW p \in Proc PROVE ProcOK(p)'
  <2>1. ProcOK(p) /\ ProcOK(u)
    OBVIOUS
  <2>2. state'[p] = state[p] \/ (p = u /\ state'[p] = "Wakeme")
    BY <1>1, <1>3 DEF TypeOK
  <2>3. \A n \in Mach : pc[n] \in {"moved", "picked"} => pc'[n] = pc[n]
    BY <1>1 DEF TypeOK
  <2> QED
    BY <2>1, <2>2, <2>3, <1>1, <1>2, <1>3
    DEF ProcOK, allocVars, params, calls, On
<1> QED
  BY <1>2, <1>4, <1>5, <1>6

LEMMA PexitStep ==
    ASSUME SchedAssumption, IInv, NEW m \in Mach, pexit(m)
    PROVE  IInv'
<1> USE DEF IInv
<1>1. /\ UNCHANGED <<mach, mp, wired, priority, params, quanta, queueVars,
                     free, up, tp, rq, calls>>
      /\ pc[m] = "run" /\ rdy[m] = nil /\ pc' = [pc EXCEPT ![m] = "switch"]
      /\ state' = [state EXCEPT ![up[m]] = "Moribund"]
      /\ palock' = m
  BY DEF pexit, sched, Goto, at
<1>2. Queues' /\ Counters' /\ queued' = queued
  BY <1>1, Resting
<1>3. PICK u \in Proc : u = up[m] /\ mach[u] = m /\ state[u] = "Running"
  BY <1>1 DEF MachOK, inUp
<1>4. TypeOK'
  BY <1>1, <1>3 DEF TypeOK, ProcState, params, queueVars, calls
<1>5. ASSUME NEW n \in Mach PROVE MachOK(n)' /\ Apart(n)' /\ CallOK(n)'
  <2>1. /\ up' = up /\ tp' = tp /\ mach' = mach /\ rdy' = rdy
        /\ pc[n] \in inTp => tp[n] # u
    BY <1>1, <1>3 DEF MachOK, calls
  <2>2. (n # m /\ pc'[n] = pc[n]) \/ (n = m /\ pc'[n] = "switch")
    BY <1>1 DEF TypeOK
  <2>3. state'[u] = "Moribund" /\ \A p \in Proc \ {u} : state'[p] = state[p]
    BY <1>1, <1>3 DEF TypeOK
  <2>4. n # m /\ pc[n] \in inUp => up[n] # u
    BY <1>3 DEF MachOK
  <2>5. MachOK(n)'
    BY <2>1, <2>2, <2>3, <2>4, <1>1, <1>2, <1>3 DEF MachOK, inUp, inTp
  <2>6. Apart(n)'
    <3>1. \A k \in Mach : pc'[k] \in inTp => pc[k] \in inTp
      BY <1>1 DEF TypeOK, inTp
    <3> QED
      BY <3>1, <2>1 DEF Apart
  <2>7. CallOK(n)'
    <3>1. pc'[m] \notin inTp /\ \A k \in Mach \ {m} : pc'[k] = pc[k]
      BY <1>1 DEF TypeOK, inTp
    <3>2. \A k \in Mach : rdy[k] # nil => rdy[k] # u
      BY <1>1, <1>3, Elsewhere DEF inUp
    <3>3. /\ UNCHANGED calls /\ rdy[m] = nil
          /\ priority' = priority /\ basepri' = basepri
          /\ fixedpri' = fixedpri
      BY <1>1 DEF params
    <3> QED
      BY <3>1, <3>2, <3>3, <2>1, <2>3, <1>2, CallsKept
  <2> QED
    BY <2>5, <2>6, <2>7
<1>6. ASSUME NEW p \in Proc PROVE ProcOK(p)'
  <2>1. ProcOK(p) /\ ProcOK(u)
    OBVIOUS
  <2>2. state'[p] = state[p] \/ (p = u /\ state'[p] = "Moribund")
    BY <1>1, <1>3 DEF TypeOK
  <2>3. \A n \in Mach : pc[n] \in {"moved", "picked"} => pc'[n] = pc[n]
    BY <1>1 DEF TypeOK
  <2> QED
    BY <2>1, <2>2, <2>3, <1>1, <1>2, <1>3 DEF ProcOK, params, calls, On
<1> QED
  BY <1>2, <1>4, <1>5, <1>6

\* Wirings and priorities.
LEMMA ControlStep ==
    ASSUME SchedAssumption, IInv, NEW m \in Mach, control(m)
    PROVE  IInv'
<1> USE DEF IInv
<1>1. /\ UNCHANGED <<state, mach, queueVars, allocVars, pc, up, tp, rq>>
      /\ rdy' = rdy /\ rdypri' = rdypri
      /\ mp' \in [Proc -> Mach \cup {nil}] /\ wired' \in [Proc -> Mach \cup {nil}]
      /\ priority' \in [Proc -> Pri] /\ basepri' \in [Proc -> Pri]
      /\ fixedpri' \in [Proc -> BOOLEAN] /\ quanta' \in [Proc -> Nat]
      /\ overtaken' \subseteq Proc
      /\ \A n \in Mach : rdy[n] \in Proc /\ rdy[n] \notin overtaken' =>
           /\ rdy[n] \notin overtaken
           /\ priority'[rdy[n]] = priority[rdy[n]]
           /\ basepri'[rdy[n]] = basepri[rdy[n]]
           /\ fixedpri'[rdy[n]] = fixedpri[rdy[n]]
  <2>1. PICK p \in Ctl : \/ \E wm \in Mach : procwired(m, p, wm)
                         \/ \E pri \in Pri, fixed \in BOOLEAN :
                              procpriority(m, p, pri, fixed)
    BY DEF control
  <2>2. p \in Proc
    BY DEF SchedAssumption
  <2>3. ASSUME NEW wm \in Mach, procwired(m, p, wm) PROVE <1>1
    BY <2>2, <2>3 DEF procwired, params, calls, TypeOK
  <2>4. ASSUME NEW pri \in Pri, NEW fixed \in BOOLEAN,
               procpriority(m, p, pri, fixed)
        PROVE  <1>1
    <3>1. Quanta[pri] \in Nat
      BY DEF SchedAssumption
    <3>2. /\ basepri' = [basepri EXCEPT ![p] = pri]
          /\ priority' = [priority EXCEPT ![p] = pri]
          /\ fixedpri' = [fixedpri EXCEPT ![p] = fixed]
          /\ quanta' = [quanta EXCEPT ![p] = Quanta[pri]]
          /\ overtaken' = overtaken \cup {q \in {p} : \E n \in Mach : rdy[n] = q}
          /\ UNCHANGED <<state, mach, mp, wired, queueVars,
                         allocVars, pc, up, tp, rq, rdy, rdypri>>
      BY <2>4 DEF procpriority
    <3>3. /\ priority' \in [Proc -> Pri] /\ basepri' \in [Proc -> Pri]
          /\ fixedpri' \in [Proc -> BOOLEAN] /\ quanta' \in [Proc -> Nat]
          /\ overtaken' \subseteq Proc
      BY <2>2, <3>1, <3>2 DEF TypeOK
    <3>4. ASSUME NEW n \in Mach, rdy[n] \in Proc, rdy[n] \notin overtaken'
          PROVE  rdy[n] # p /\ rdy[n] \notin overtaken
      BY <3>2, <3>4
    <3>5. \A q \in Proc \ {p} : /\ priority'[q] = priority[q]
                                /\ basepri'[q] = basepri[q]
                                /\ fixedpri'[q] = fixedpri[q]
      BY <2>2, <3>2 DEF TypeOK
    <3> QED
      BY <3>2, <3>3, <3>4, <3>5 DEF TypeOK
  <2> QED
    BY <2>1, <2>3, <2>4
<1>2. Queues' /\ Counters' /\ queued' = queued
  BY <1>1, Resting DEF allocVars
<1>3. TypeOK'
  BY <1>1 DEF TypeOK, queueVars, allocVars
<1>4. ASSUME NEW n \in Mach PROVE MachOK(n)' /\ Apart(n)' /\ CallOK(n)'
  <2>1. MachOK(n)' /\ Apart(n)'
    BY <1>1, <1>2 DEF MachOK, Apart
  <2>2. ASSUME rdy[n] \in Proc, rdy[n] \notin overtaken', CallOK(n)
        PROVE  Picked(rdy[n], rdypri[n])'
    <3>1. Picked(rdy[n], rdypri[n]) /\ rdy'[n] = rdy[n] /\ rdypri'[n] = rdypri[n]
      BY <2>2, <1>1 DEF CallOK, SchedAssumption
    <3> QED
      BY <3>1, <2>2, <1>1 DEF Picked
  <2>3. CallOK(n)'
    BY <2>2, <1>1, <1>2 DEF CallOK
  <2> QED
    BY <2>1, <2>3
<1>5. \A p \in Proc : ProcOK(p)'
  BY <1>1, <1>2 DEF ProcOK, allocVars, On
<1> QED
  BY <1>2, <1>3, <1>4, <1>5


-----------------------------------------------------------------------------
(***************************************************************************)
(* The four places that call ready, and its second step; and the two that  *)
(* call dequeueproc.                                                       *)
(***************************************************************************)
\* Where Mach m is when it readies p.
Readies(m, p) ==
    /\ rdy[m] = nil
    /\ \/ /\ state[p] = "Wakeme" /\ pc' = pc /\ tp' = tp
          /\ pc[m] # "clear" /\ \A n \in Mach : rdy[n] # p
       \/ /\ pc[m] = "switch" /\ pc' = [pc EXCEPT ![m] = "clear"]
          /\ up[m] = p /\ state[p] = "Running" /\ tp' = tp
       \/ /\ \/ pc[m] = "fork" /\ pc' = [pc EXCEPT ![m] = "switch"]
             \/ pc[m] = "moved" /\ pc' = [pc EXCEPT ![m] = "loop"]
          /\ tp[m] = p /\ tp' = [tp EXCEPT ![m] = nil]

LEMMA Readied ==
    ASSUME SchedAssumption, IInv, NEW m \in Mach, NEW p \in Proc,
           NEW used \in Nat, ready(m, p, used), Readies(m, p),
           UNCHANGED <<mach, mp, wired, params, allocVars, up, rq>>
    PROVE  IInv'
<1>1. /\ TypeOK /\ Queues /\ Counters
      /\ \A n \in Mach : MachOK(n) /\ Apart(n) /\ CallOK(n)
      /\ \A q \in Proc : ProcOK(q)
  BY DEF IInv
<1>2. p \notin queued /\ rdy[m] = nil
  BY <1>1 DEF Readies, MachOK, ProcOK, inTp
<1>3. PICK pri \in Pri : pri = newPriority(p, used) /\ Picked(p, pri)
  BY <1>1, Picks
<1>4. /\ rdy' = [rdy EXCEPT ![m] = p] /\ rdypri' = [rdypri EXCEPT ![m] = pri]
      /\ UNCHANGED queueVars
      /\ state' = state /\ priority' = priority /\ overtaken' = overtaken
      /\ free' = free /\ palock' = palock /\ mach' = mach /\ up' = up
      /\ rq' = rq /\ basepri' = basepri /\ fixedpri' = fixedpri
      /\ mp' = mp /\ wired' = wired
  BY <1>3 DEF ready, params, allocVars
<1>5. quanta' \in [Proc -> Nat]
  <2>1. newQuanta(p, used, pri) \in Nat
    BY <1>1 DEF newQuanta, SchedAssumption
  <2>2. quanta' = [quanta EXCEPT ![p] = newQuanta(p, used, pri)]
    BY <1>3 DEF ready
  <2> QED
    BY <2>1, <2>2, <1>1 DEF TypeOK
<1>6. Queues' /\ Counters' /\ queued' = queued
  BY <1>1, <1>4, Resting
<1>7. TypeOK'
  <2>1. /\ pc' \in [Mach -> {"run", "fork", "switch", "clear", "loop", "moveup",
                             "moved", "found", "picked", "resume"}]
        /\ tp' \in [Mach -> Proc \cup {nil}]
    BY <1>1 DEF TypeOK, Readies
  <2>2. rdy' \in [Mach -> Proc \cup {nil}] /\ rdypri' \in [Mach -> Pri]
    BY <1>1, <1>3, <1>4 DEF TypeOK
  <2> QED
    BY <2>1, <2>2, <1>1, <1>4, <1>5 DEF TypeOK, queueVars
\* Nobody else holds p, so that nobody but m moves.
<1>8. ASSUME NEW n \in Mach
      PROVE  /\ pc'[n] \in inTp => pc'[n] = pc[n] /\ tp'[n] = tp[n] /\ tp[n] # p
             /\ pc[n] \in {"moved", "picked"} /\ tp[n] # p =>
                  pc'[n] = pc[n] /\ tp'[n] = tp[n]
             /\ pc'[n] \in {"moveup", "found"} =>
                  pc'[n] = pc[n] /\ tp'[n] = tp[n]
             /\ n # m => pc'[n] = pc[n] /\ tp'[n] = tp[n]
             /\ \/ pc'[n] = pc[n]
                \/ /\ n = m /\ up[n] = p /\ state[p] = "Running"
                   /\ pc[n] = "switch" /\ pc'[n] = "clear"
                \/ n = m /\ pc[n] = "fork" /\ pc'[n] = "switch"
                \/ n = m /\ pc[n] = "moved" /\ pc'[n] = "loop"
             /\ pc'[n] = "clear" =>
                  \/ pc[n] = "clear" /\ n # m
                  \/ n = m /\ up[n] = p /\ state[p] = "Running"
  <2>1. MachOK(n) /\ MachOK(m) /\ Apart(m)
    BY <1>1
  <2>2. pc \in [Mach -> {"run", "fork", "switch", "clear", "loop", "moveup",
                         "moved", "found", "picked", "resume"}]
        /\ tp \in [Mach -> Proc \cup {nil}]
    BY <1>1 DEF TypeOK
  <2>3. CASE state[p] = "Wakeme" /\ pc' = pc /\ tp' = tp /\ pc[m] # "clear"
    BY <2>1, <2>2, <2>3 DEF MachOK, inTp
  <2>4. CASE /\ pc[m] = "switch" /\ pc' = [pc EXCEPT ![m] = "clear"]
             /\ up[m] = p /\ state[p] = "Running" /\ tp' = tp
    BY <2>1, <2>2, <2>4 DEF MachOK, inTp
  <2>5. CASE /\ pc[m] = "fork" /\ pc' = [pc EXCEPT ![m] = "switch"]
             /\ tp[m] = p /\ tp' = [tp EXCEPT ![m] = nil]
    BY <2>1, <2>2, <2>5 DEF Apart, inTp
  <2>6. CASE /\ pc[m] = "moved" /\ pc' = [pc EXCEPT ![m] = "loop"]
             /\ tp[m] = p /\ tp' = [tp EXCEPT ![m] = nil]
    BY <2>1, <2>2, <2>6 DEF Apart, inTp
  <2> QED
    BY <2>3, <2>4, <2>5, <2>6 DEF Readies
<1>9. rdy'[m] = p /\ rdypri'[m] = pri
      /\ \A n \in Mach \ {m} : rdy'[n] = rdy[n] /\ rdypri'[n] = rdypri[n]
  BY <1>1, <1>4 DEF TypeOK
\* Nor does anybody else ready it.
<1>10. \A n \in Mach : rdy[n] # p
  <2>1. SUFFICES ASSUME NEW n \in Mach, rdy[n] = p PROVE FALSE
    OBVIOUS
  <2>2. rdy[n] # nil
    BY <2>1 DEF SchedAssumption
  <2>3. pc[m] \in inTp => tp[m] # p
    BY <2>1, <2>2, <1>2, Elsewhere
  <2>4. pc[m] \in inUp /\ state[up[m]] = "Running" => up[m] # p
    BY <2>1, <2>2, <1>2, Elsewhere
  <2> QED
    BY <2>1, <2>3, <2>4 DEF Readies, inUp, inTp
<1>11. ASSUME NEW n \in Mach PROVE MachOK(n)'
  <2>1. MachOK(n)
    BY <1>1
  <2>2. ASSUME pc'[n] \in inUp
        PROVE  /\ up'[n] \in Proc /\ mach'[up'[n]] = n
               /\ pc'[n] \in {"run", "fork"} => state'[up'[n]] = "Running"
               /\ pc'[n] = "switch" => state'[up'[n]] \in
                    {"Running", "Wakeme", "Moribund", "Ready"}
               /\ pc'[n] = "clear" =>
                    \/ state'[up'[n]] \in {"Wakeme", "Ready"}
                    \/ state'[up'[n]] = "Running" /\ rdy'[n] = up'[n]
    <3>1. pc[n] \in inUp /\ up[n] \in Proc /\ mach[up[n]] = n
      BY <2>1, <2>2, <1>8 DEF MachOK, inUp
    <3>2. pc'[n] \in {"run", "fork", "switch"} => pc'[n] = pc[n] \/ pc[n] = "fork"
      BY <1>8
    <3>3. /\ pc'[n] \in {"run", "fork"} => state[up[n]] = "Running"
          /\ pc'[n] = "switch" => state[up[n]] \in
                    {"Running", "Wakeme", "Moribund", "Ready"}
      BY <2>1, <3>1, <3>2, <1>8 DEF MachOK
    <3>4. pc'[n] = "clear" =>
            \/ state[up[n]] \in {"Wakeme", "Ready"}
            \/ state[up[n]] = "Running" /\ rdy'[n] = up[n]
      BY <2>1, <3>1, <1>8, <1>9 DEF MachOK
    <3> QED
      BY <3>1, <3>3, <3>4, <1>4
  <2>3. pc'[n] \notin inUp => up'[n] = nil
    BY <2>1, <1>4, <1>8 DEF MachOK, inUp
  <2>4. pc'[n] \in inTp =>
         /\ tp'[n] \in Proc /\ mach'[tp'[n]] = nil
         /\ pc'[n] \in {"fork", "resume"} => state'[tp'[n]] = "Scheding"
         /\ pc'[n] \in {"moved", "picked"} =>
              state'[tp'[n]] = "Ready" /\ tp'[n] \notin queued'
    BY <2>1, <1>4, <1>6, <1>8 DEF MachOK
  <2>5. pc'[n] \in {"moveup", "found"} => tp'[n] \in Proc
    BY <2>1, <1>8 DEF MachOK
  <2> QED
    BY <2>2, <2>3, <2>4, <2>5 DEF MachOK
<1>12. ASSUME NEW n \in Mach PROVE Apart(n)'
  BY <1>1, <1>8 DEF Apart
<1>13. ASSUME NEW n \in Mach PROVE CallOK(n)'
  <2>1. CallOK(n) /\ MachOK(m)
    BY <1>1
  <2>2. CASE n = m
    <3>1. /\ p \notin queued'
          /\ \A k \in Mach : /\ rdy'[k] = p => k = m
                             /\ pc'[k] \in inTp => tp'[k] # p
      BY <1>2, <1>6, <1>8, <1>9, <1>10
    <3>2. \/ state'[p] = "Wakeme"
          \/ state'[p] = "Running" /\ up'[m] = p /\ pc'[m] = "clear"
          \/ state'[p] \in {"Scheding", "Ready"} /\ mach'[p] = nil
      <4>1. CASE /\ \/ pc[m] = "fork" /\ pc' = [pc EXCEPT ![m] = "switch"]
                    \/ pc[m] = "moved" /\ pc' = [pc EXCEPT ![m] = "loop"]
                 /\ tp[m] = p
        BY <4>1, <2>1, <1>4 DEF MachOK, inTp
      <4>2. CASE /\ pc[m] = "switch" /\ pc' = [pc EXCEPT ![m] = "clear"]
                 /\ up[m] = p /\ state[p] = "Running"
        BY <4>2, <1>1, <1>4 DEF TypeOK
      <4> QED
        BY <4>1, <4>2, <1>4 DEF Readies
    <3>3. Picked(rdy[m], rdypri[m])'
      BY <1>3, <1>4, <1>9 DEF Picked
    <3>4. /\ rdy'[m] \in Proc /\ rdy'[m] \notin queued'
          /\ \A k \in Mach : /\ rdy'[k] = rdy'[m] => k = m
                             /\ pc'[k] \in inTp => tp'[k] # rdy'[m]
      BY <3>1, <1>9
    <3>5. \/ state'[rdy'[m]] = "Wakeme"
          \/ state'[rdy'[m]] = "Running" /\ up'[m] = rdy'[m] /\ pc'[m] = "clear"
          \/ state'[rdy'[m]] \in {"Scheding", "Ready"} /\ mach'[rdy'[m]] = nil
      BY <3>2, <1>9
    <3>6. CallOK(m)'
      BY <3>3, <3>4, <3>5 DEF CallOK
    <3> QED
      BY <2>2, <3>6
  <2>3. CASE n # m
    <3>1. rdy'[n] = rdy[n] /\ rdypri'[n] = rdypri[n] /\ pc'[n] = pc[n]
      BY <2>3, <1>8, <1>9
    <3>2. rdy[n] # nil /\ Picked(rdy[n], rdypri[n]) => Picked(rdy[n], rdypri[n])'
      BY <3>1, <1>4 DEF Picked
    <3>3. rdy[n] # nil => \A k \in Mach : /\ rdy'[k] = rdy[n] => k = n
                                          /\ pc'[k] \in inTp => tp'[k] # rdy[n]
      BY <2>1, <1>8, <1>9, <1>10 DEF CallOK
    <3> QED
      BY <2>1, <3>1, <3>2, <3>3, <1>4, <1>6 DEF CallOK
  <2> QED
    BY <2>2, <2>3
<1>14. ASSUME NEW q \in Proc PROVE ProcOK(q)'
  <2>1. ProcOK(q)
    BY <1>1
  <2>2. state'[q] = "Ready" =>
          \/ q \in queued'
          \/ \E n \in Mach : tp'[n] = q /\ pc'[n] \in {"moved", "picked"}
          \/ \E n \in Mach : rdy'[n] = q
    <3>1. CASE q = p
      BY <3>1, <1>9
    <3>2. CASE q # p
      <4>1. ASSUME NEW n \in Mach, rdy[n] = q PROVE rdy'[n] = q
        BY <4>1, <1>2, <1>9 DEF SchedAssumption
      <4> QED
        BY <3>2, <4>1, <2>1, <1>4, <1>6, <1>8 DEF ProcOK
    <3> QED
      BY <3>1, <3>2
  <2> QED
    BY <2>1, <2>2, <1>4, <1>6 DEF ProcOK
<1> QED
  BY <1>6, <1>7, <1>11, <1>12, <1>13, <1>14 DEF IInv

\* The second step of ready: p is queued, and where it is is another's care.
LEMMA ReadyQueueStep ==
    ASSUME SchedAssumption, IInv, NEW m \in Mach, readyQueue(m)
    PROVE  IInv'
<1>1. /\ TypeOK /\ Queues /\ Counters
      /\ \A n \in Mach : MachOK(n) /\ Apart(n) /\ CallOK(n)
      /\ \A q \in Proc : ProcOK(q)
  BY DEF IInv
<1>2. PICK p \in Proc : p = rdy[m] /\ rdy[m] # nil
  BY <1>1 DEF readyQueue, CallOK
<1>3. /\ p \notin queued
      /\ \A n \in Mach : /\ rdy[n] = p => n = m
                         /\ pc[n] \in inTp => tp[n] # p
      /\ \/ state[p] = "Wakeme"
         \/ state[p] = "Running" /\ up[m] = p /\ pc[m] = "clear"
         \/ state[p] \in {"Scheding", "Ready"} /\ mach[p] = nil
  BY <1>1, <1>2 DEF CallOK
<1>4. /\ runq' \in [Pri -> Seq(Proc)]
      /\ \A q : q \in queued' <=> q \in queued \/ q = p
      /\ \A i \in Pri : Once(runq'[i])
      /\ \A i, j \in Pri : \A q \in Proc :
           On(q, runq'[i]) /\ On(q, runq'[j]) => i = j
      /\ runvec' \subseteq Pri /\ nrdy' \in Nat
      /\ Counters'
  BY <1>1, <1>2, <1>3, QueueStep
<1>5. /\ state' = [state EXCEPT ![p] = "Ready"]
      /\ priority' = [priority EXCEPT ![p] = rdypri[m]]
      /\ rdy' = [rdy EXCEPT ![m] = nil] /\ rdypri' = [rdypri EXCEPT ![m] = 0]
      /\ overtaken' = overtaken \ {p}
      /\ free' = free /\ palock' = palock /\ mach' = mach /\ up' = up
      /\ rq' = rq /\ basepri' = basepri /\ fixedpri' = fixedpri
      /\ mp' = mp /\ wired' = wired /\ quanta' = quanta /\ pc' = pc /\ tp' = tp
  BY <1>2 DEF readyQueue, params, allocVars
<1>6. /\ state'[p] = "Ready" /\ \A q \in Proc \ {p} : state'[q] = state[q]
      /\ \A q \in Proc \ {p} : priority'[q] = priority[q]
      /\ rdy'[m] = nil
      /\ \A n \in Mach \ {m} : rdy'[n] = rdy[n] /\ rdypri'[n] = rdypri[n]
  BY <1>1, <1>5 DEF TypeOK
<1>7. Queues'
  BY <1>1, <1>4, <1>5 DEF Queues
<1>8. TypeOK'
  <2>1. 0 \in Pri
    BY DEF Pri, SchedAssumption
  <2>2. /\ state' \in [Proc -> ProcState] /\ priority' \in [Proc -> Pri]
        /\ rdy' \in [Mach -> Proc \cup {nil}] /\ rdypri' \in [Mach -> Pri]
        /\ overtaken' \subseteq Proc
    BY <2>1, <1>1, <1>5 DEF TypeOK, ProcState
  <2> QED
    BY <2>2, <1>1, <1>4, <1>5 DEF TypeOK
<1>9. ASSUME NEW n \in Mach PROVE MachOK(n)' /\ Apart(n)' /\ CallOK(n)'
  <2>1. MachOK(n) /\ Apart(n) /\ CallOK(n)
    BY <1>1
  <2>2. pc[n] \in inUp /\ up[n] = p =>
          \/ state[p] = "Wakeme" /\ pc[n] \notin {"run", "fork"}
          \/ pc[n] = "clear"
    <3>1. mach[p] = nil => ~(pc[n] \in inUp /\ up[n] = p)
      BY <2>1 DEF MachOK, SchedAssumption
    <3>2. pc[n] \in inUp /\ up[n] = p /\ up[m] = p /\ pc[m] = "clear" => n = m
      BY <1>1, <2>1 DEF MachOK, inUp
    <3>3. pc[n] \in inUp /\ up[n] = p /\ pc[n] \in {"run", "fork"} =>
            state[p] = "Running"
      BY <2>1 DEF MachOK
    <3> QED
      BY <3>1, <3>2, <3>3, <1>3
  <2>3. MachOK(n)'
    <3>1. ASSUME pc[n] \in inUp
          PROVE  /\ up[n] \in Proc /\ mach[up[n]] = n
                 /\ pc[n] \in {"run", "fork"} => state'[up[n]] = "Running"
                 /\ pc[n] = "switch" => state'[up[n]] \in
                      {"Running", "Wakeme", "Moribund", "Ready"}
                 /\ pc[n] = "clear" =>
                      \/ state'[up[n]] \in {"Wakeme", "Ready"}
                      \/ state'[up[n]] = "Running" /\ rdy'[n] = up[n]
      <4>1. CASE up[n] = p
        BY <4>1, <3>1, <2>1, <2>2, <1>6 DEF MachOK
      <4>2. CASE up[n] # p
        <5>1. rdy[n] = up[n] => n # m
          BY <4>2, <1>2
        <5> QED
          BY <4>2, <5>1, <3>1, <2>1, <1>6 DEF MachOK
      <4> QED
        BY <4>1, <4>2
    <3>2. pc[n] \in inTp =>
           /\ tp[n] \in Proc /\ mach[tp[n]] = nil
           /\ pc[n] \in {"fork", "resume"} => state'[tp[n]] = "Scheding"
           /\ pc[n] \in {"moved", "picked"} =>
                state'[tp[n]] = "Ready" /\ tp[n] \notin queued'
      BY <2>1, <1>3, <1>4, <1>6 DEF MachOK
    <3> QED
      BY <3>1, <3>2, <2>1, <1>5 DEF MachOK
  <2>4. Apart(n)'
    BY <2>1, <1>5 DEF Apart
  <2>5. CallOK(n)'
    <3>1. CASE n = m
      BY <3>1, <1>6 DEF CallOK
    <3>2. CASE n # m /\ rdy[n] # nil
      <4>1. rdy[n] \in Proc /\ rdy[n] # p /\ rdy[n] \notin queued'
        BY <3>2, <2>1, <1>3, <1>4 DEF CallOK
      <4>2. /\ state'[rdy[n]] = state[rdy[n]]
            /\ priority'[rdy[n]] = priority[rdy[n]]
            /\ rdy[n] \notin overtaken' => rdy[n] \notin overtaken
        BY <4>1, <1>5, <1>6
      <4>3. Picked(rdy[n], rdypri[n]) => Picked(rdy[n], rdypri[n])'
        BY <3>2, <4>2, <1>5, <1>6 DEF Picked
      <4>4. \A k \in Mach : /\ rdy'[k] = rdy[n] => k = n
                            /\ pc[k] \in inTp => tp[k] # rdy[n]
        BY <3>2, <2>1, <1>6 DEF CallOK
      <4>5. rdy'[n] = rdy[n]
        BY <3>2, <1>6
      <4> QED
        BY <3>2, <4>1, <4>2, <4>3, <4>4, <4>5, <2>1, <1>5 DEF CallOK
    <3>3. CASE n # m /\ rdy[n] = nil
      BY <3>3, <1>6 DEF CallOK
    <3> QED
      BY <3>1, <3>2, <3>3
  <2> QED
    BY <2>3, <2>4, <2>5
<1>10. ASSUME NEW q \in Proc PROVE ProcOK(q)'
  <2>1. ProcOK(q) /\ ProcOK(p)
    BY <1>1
  <2>2. state[p] # "Dead"
    BY <1>3
  <2>3. state'[q] = "Ready" =>
          \/ q \in queued'
          \/ \E n \in Mach : tp[n] = q /\ pc[n] \in {"moved", "picked"}
          \/ \E n \in Mach : rdy'[n] = q
    <3>1. q # p /\ (\E n \in Mach : rdy[n] = q) => \E n \in Mach : rdy'[n] = q
      BY <1>2, <1>6
    <3> QED
      BY <3>1, <2>1, <1>4, <1>6 DEF ProcOK
  <2> QED
    BY <2>1, <2>2, <2>3, <1>4, <1>5, <1>6 DEF ProcOK
<1> QED
  BY <1>4, <1>7, <1>8, <1>9, <1>10 DEF IInv

LEMMA ReadySteps ==
    ASSUME SchedAssumption, IInv, NEW m \in Mach,
           \/ \E q \in Proc : wake(m, q)
           \/ sysrfork(m) \/ schedinitReady(m) \/ rebalanceReady(m)
    PROVE  IInv'
<1>1. TypeOK /\ MachOK(m)
  BY DEF IInv
<1>2. ASSUME NEW q \in Proc, wake(m, q) PROVE IInv'
  <2>1. PICK used \in Nat : used = quanta[q]
    BY <1>1 DEF TypeOK
  <2>2. ready(m, q, used) /\ Readies(m, q)
    BY <1>2, <2>1 DEF wake, at, Readies, ready
  <2>3. UNCHANGED <<mach, mp, wired, params, allocVars, up, rq>>
    BY <1>2 DEF wake
  <2> QED
    BY <2>2, <2>3, Readied
<1>3. CASE sysrfork(m)
  <2>1. PICK q \in Proc : q = tp[m]
    BY <1>1, <1>3 DEF sysrfork, Goto, at, MachOK, inTp
  <2>2. PICK used \in Nat : used = quanta[q]
    BY <1>1 DEF TypeOK
  <2>3. ready(m, q, used) /\ Readies(m, q)
    BY <1>3, <2>1, <2>2 DEF sysrfork, Goto, at, Readies, ready
  <2>4. UNCHANGED <<mach, mp, wired, params, allocVars, up, rq>>
    BY <1>3 DEF sysrfork
  <2> QED
    BY <2>3, <2>4, Readied
<1>4. CASE schedinitReady(m)
  <2>1. PICK q \in Proc : q = up[m]
    BY <1>1, <1>4 DEF schedinitReady, Goto, at, MachOK, inUp
  <2>2. PICK used \in Nat : used = quanta[q]
    BY <1>1 DEF TypeOK
  <2>3. ready(m, q, used) /\ Readies(m, q)
    BY <1>4, <2>1, <2>2 DEF schedinitReady, Goto, at, Readies, ready
  <2>4. UNCHANGED <<mach, mp, wired, params, allocVars, up, rq>>
    BY <1>4 DEF schedinitReady
  <2> QED
    BY <2>3, <2>4, Readied
<1>5. CASE rebalanceReady(m)
  <2>1. PICK q \in Proc : q = tp[m]
    BY <1>1, <1>5 DEF rebalanceReady, Goto, at, MachOK, inTp
  <2>2. PICK used \in Nat : used = Quanta[priority[q]]
    BY <1>1 DEF TypeOK, SchedAssumption
  <2>3. ready(m, q, used) /\ Readies(m, q)
    BY <1>5, <2>1, <2>2 DEF rebalanceReady, Goto, at, Readies, ready
  <2>4. UNCHANGED <<mach, mp, wired, params, allocVars, up, rq>>
    BY <1>5 DEF rebalanceReady
  <2> QED
    BY <2>3, <2>4, Readied
<1> QED
  BY <1>2, <1>3, <1>4, <1>5


\* What a call of dequeueproc leaves, whether it finds the process or not.
LEMMA DequeueSteps ==
    ASSUME SchedAssumption, IInv, NEW m \in Mach,
           rebalanceDequeue(m) \/ runprocDequeue(m)
    PROVE  IInv'
<1>1. /\ TypeOK /\ Queues /\ Counters
      /\ \A n \in Mach : MachOK(n) /\ Apart(n) /\ CallOK(n)
      /\ \A q \in Proc : ProcOK(q)
  BY DEF IInv
<1>2. /\ UNCHANGED <<procVars, allocVars, up, rq, calls>>
      /\ pc[m] \in {"moveup", "found"} /\ rdy[m] = nil
  BY DEF rebalanceDequeue, runprocDequeue, Goto, at
<1>3. PICK p \in Proc : p = tp[m]
  BY <1>1, <1>2 DEF MachOK
<1>4. /\ state' = state /\ free' = free /\ palock' = palock /\ mach' = mach
      /\ up' = up /\ rq' = rq /\ basepri' = basepri /\ fixedpri' = fixedpri
      /\ mp' = mp /\ wired' = wired /\ priority' = priority
      /\ quanta' = quanta
      /\ rdy' = rdy /\ rdypri' = rdypri /\ overtaken' = overtaken
  BY <1>2 DEF procVars, params, allocVars, calls
<1>5. ASSUME canDequeue(m), dequeueproc(m),
             \/ pc[m] = "moveup" /\ pc' = [pc EXCEPT ![m] = "moved"]
             \/ pc[m] = "found" /\ pc' = [pc EXCEPT ![m] = "picked"],
             tp' = tp
      PROVE  IInv'
  <2>1. /\ runq' \in [Pri -> Seq(Proc)]
        /\ p \in queued
        /\ \A q : q \in queued' <=> q \in queued /\ q # p
        /\ \A i \in Pri : Once(runq'[i])
        /\ \A i, j \in Pri : \A q \in Proc :
             On(q, runq'[i]) /\ On(q, runq'[j]) => i = j
        /\ runvec' \subseteq Pri /\ nrdy' \in Nat
        /\ Counters'
    BY <1>1, <1>3, <1>5, DequeueStep
  <2>2. mach[p] = nil /\ state[p] = "Ready"
    BY <1>1, <1>3, <1>5, <2>1 DEF canDequeue, ProcOK
  <2>3. pc'[m] \in {"moved", "picked"} /\ \A n \in Mach \ {m} : pc'[n] = pc[n]
    BY <1>1, <1>5 DEF TypeOK
  <2>4. ASSUME NEW n \in Mach PROVE MachOK(n)' /\ Apart(n)' /\ CallOK(n)'
    <3>1. pc[n] \in inTp => tp[n] # p
      BY <1>1, <2>1, <2>2 DEF MachOK, inTp
    <3>2. MachOK(n)'
      <4>1. CASE n = m
        BY <4>1, <1>1, <1>2, <1>3, <1>4, <1>5, <2>1, <2>2, <2>3
        DEF MachOK, inUp, inTp
      <4>2. CASE n # m
        BY <4>2, <1>1, <1>4, <1>5, <2>1, <2>3, <3>1 DEF MachOK
      <4> QED
        BY <4>1, <4>2
    <3>3. \A k \in Mach : k # m /\ pc'[k] \in inTp => tp'[k] # p
      BY <1>1, <1>5, <2>1, <2>2, <2>3 DEF MachOK, inTp
    <3>4. Apart(n)'
      BY <3>3, <1>1, <1>3, <1>5, <2>3 DEF Apart
    <3>5. CallOK(n)'
      <4>1. \A k \in Mach : rdy[k] # nil => rdy[k] # p
        BY <1>1, <2>1 DEF CallOK
      <4>2. UNCHANGED calls /\ rdy[m] = nil /\ tp' = tp /\ tp[m] = p
        BY <1>2, <1>3, <1>5
      <4> QED
        BY <4>1, <4>2, <1>4, <2>1, <2>3, CallsKept
    <3> QED
      BY <3>2, <3>4, <3>5
  <2>5. ASSUME NEW q \in Proc PROVE ProcOK(q)'
    <3>1. ProcOK(q)
      BY <1>1
    <3>2. state'[q] = "Ready" =>
           \/ q \in queued'
           \/ \E n \in Mach : tp'[n] = q /\ pc'[n] \in {"moved", "picked"}
           \/ \E n \in Mach : rdy'[n] = q
      BY <3>1, <1>3, <1>2, <1>4, <1>5, <2>1, <2>3 DEF ProcOK
    <3> QED
      BY <3>1, <3>2, <1>4, <2>1 DEF ProcOK
  <2>6. TypeOK'
    <3>1. pc' \in [Mach -> {"run", "fork", "switch", "clear", "loop", "moveup",
                           "moved", "found", "picked", "resume"}]
      BY <1>1, <1>5 DEF TypeOK
    <3> QED
      BY <3>1, <1>1, <1>4, <1>5, <2>1 DEF TypeOK
  <2>7. Queues'
    BY <2>1, <1>1, <1>4 DEF Queues
  <2> QED
    BY <2>1, <2>4, <2>5, <2>6, <2>7 DEF IInv
<1>6. ASSUME UNCHANGED queueVars, pc' = [pc EXCEPT ![m] = "loop"],
             tp' = [tp EXCEPT ![m] = nil]
      PROVE  IInv'
  <2>1. Queues' /\ Counters' /\ queued' = queued
    BY <1>1, <1>4, <1>6, Resting
  <2>2. pc'[m] = "loop" /\ \A n \in Mach \ {m} : pc'[n] = pc[n] /\ tp'[n] = tp[n]
    BY <1>1, <1>6 DEF TypeOK
  <2>3. TypeOK'
    BY <1>1, <1>4, <1>6 DEF TypeOK, queueVars
  <2>4. ASSUME NEW n \in Mach PROVE MachOK(n)' /\ Apart(n)' /\ CallOK(n)'
    <3>1. MachOK(n) /\ MachOK(m) /\ Apart(n)
      BY <1>1
    <3>2. MachOK(n)'
      BY <3>1, <1>2, <1>4, <2>1, <2>2 DEF MachOK, inUp, inTp
    <3>3. Apart(n)'
      BY <3>1, <2>2 DEF Apart, inTp
    <3>4. CallOK(n)'
      <4>1. UNCHANGED calls /\ rdy[m] = nil /\ pc'[m] \notin inTp
        BY <1>2, <2>2 DEF inTp
      <4> QED
        BY <4>1, <1>4, <2>1, <2>2, CallsKept
    <3> QED
      BY <3>2, <3>3, <3>4
  <2>5. ASSUME NEW q \in Proc PROVE ProcOK(q)'
    <3>1. ProcOK(q)
      BY <1>1
    <3>2. \A n \in Mach : pc[n] \in {"moved", "picked"} =>
            pc'[n] = pc[n] /\ tp'[n] = tp[n]
      BY <1>2, <2>2
    <3> QED
      BY <3>1, <3>2, <1>4, <2>1 DEF ProcOK
  <2> QED
    BY <2>1, <2>3, <2>4, <2>5 DEF IInv
<1> QED
  BY <1>5, <1>6 DEF rebalanceDequeue, runprocDequeue, Goto, at

\* rebalance and runproc take note of a process without the lock.
LEMMA FindSteps ==
    ASSUME SchedAssumption, IInv, NEW m \in Mach,
           (\E i \in Pri : rebalance(m, i)) \/ runprocFind(m)
    PROVE  IInv'
<1>1. /\ TypeOK /\ Queues /\ Counters
      /\ \A n \in Mach : MachOK(n) /\ Apart(n) /\ CallOK(n)
      /\ \A q \in Proc : ProcOK(q)
  BY DEF IInv
<1>2. /\ UNCHANGED <<procVars, queueVars, allocVars, up, calls>>
      /\ pc[m] = "loop" /\ rdy[m] = nil
      /\ pc' = [pc EXCEPT ![m] = "moveup"] \/ pc' = [pc EXCEPT ![m] = "found"]
      /\ \E p \in Proc : tp' = [tp EXCEPT ![m] = p]
      /\ \E i \in Pri : rq' = [rq EXCEPT ![m] = i]
  <2>1. ASSUME NEW i \in Pri, rebalance(m, i) PROVE <1>2
    <3>1. runq[i] \in Seq(Proc) /\ runq[i] # <<>>
      BY <2>1, <1>1 DEF rebalance, TypeOK
    <3>2. Head(runq[i]) \in Proc
      BY <3>1, HeadTailProperties
    <3> QED
      BY <2>1, <3>2 DEF rebalance, Goto, at
  <2>2. CASE runprocFind(m)
    <3>1. PICK i \in Pri : \E k \in DOMAIN runq[i] :
            /\ Goto(m, "loop", "found")
            /\ tp' = [tp EXCEPT ![m] = runq[i][k]]
            /\ rq' = [rq EXCEPT ![m] = i]
            /\ UNCHANGED <<procVars, queueVars, allocVars, up, calls>>
      BY <2>2 DEF runprocFind
    <3>2. PICK s \in Seq(Proc) : s = runq[i]
      BY <1>1 DEF TypeOK
    <3>3. \A k \in DOMAIN s : s[k] \in Proc
      BY LenProperties
    <3> QED
      BY <3>1, <3>2, <3>3 DEF Goto, at
  <2> QED
    BY <2>1, <2>2
<1>3. PICK p \in Proc : tp' = [tp EXCEPT ![m] = p]
  BY <1>2
<1>4. PICK i \in Pri : rq' = [rq EXCEPT ![m] = i]
  BY <1>2
<1>5. /\ state' = state /\ free' = free /\ palock' = palock /\ mach' = mach
      /\ up' = up /\ basepri' = basepri /\ fixedpri' = fixedpri
      /\ mp' = mp /\ wired' = wired /\ priority' = priority
      /\ quanta' = quanta /\ runq' = runq /\ runvec' = runvec /\ nrdy' = nrdy
      /\ rdy' = rdy /\ rdypri' = rdypri /\ overtaken' = overtaken
  BY <1>2 DEF procVars, params, allocVars, queueVars, calls
<1>6. Queues' /\ Counters' /\ queued' = queued
  BY <1>1, <1>5, Resting DEF queueVars
<1>7. TypeOK'
  <2>1. pc' \in [Mach -> {"run", "fork", "switch", "clear", "loop", "moveup",
                         "moved", "found", "picked", "resume"}]
    BY <1>1, <1>2 DEF TypeOK
  <2>2. tp' \in [Mach -> Proc \cup {nil}] /\ rq' \in [Mach -> Pri]
    BY <1>1, <1>3, <1>4 DEF TypeOK
  <2> QED
    BY <2>1, <2>2, <1>1, <1>5 DEF TypeOK
<1>8. /\ pc'[m] \in {"moveup", "found"} /\ tp'[m] = p
      /\ \A n \in Mach \ {m} : pc'[n] = pc[n] /\ tp'[n] = tp[n]
  BY <1>1, <1>2, <1>3 DEF TypeOK
<1>9. ASSUME NEW n \in Mach PROVE MachOK(n)' /\ Apart(n)' /\ CallOK(n)'
  <2>1. MachOK(n) /\ MachOK(m) /\ Apart(n)
    BY <1>1
  <2>2. MachOK(n)'
    BY <2>1, <1>2, <1>5, <1>6, <1>8 DEF MachOK, inUp, inTp
  <2>3. Apart(n)'
    BY <2>1, <1>8 DEF Apart, inTp
  <2>4. CallOK(n)'
    <3>1. pc'[m] \notin inTp
      BY <1>8 DEF inTp
    <3> QED
      BY <3>1, <1>2, <1>5, <1>6, <1>8, CallsKept
  <2> QED
    BY <2>2, <2>3, <2>4
<1>10. ASSUME NEW q \in Proc PROVE ProcOK(q)'
  <2>1. ProcOK(q)
    BY <1>1
  <2>2. \A n \in Mach : pc[n] \in {"moved", "picked"} =>
          pc'[n] = pc[n] /\ tp'[n] = tp[n]
    BY <1>2, <1>8
  <2> QED
    BY <2>1, <2>2, <1>5, <1>6 DEF ProcOK
<1> QED
  BY <1>6, <1>7, <1>9, <1>10 DEF IInv

\* runproc makes it Scheding, sched makes it Running on m.
LEMMA TakeSteps ==
    ASSUME SchedAssumption, IInv, NEW m \in Mach,
           runprocTake(m) \/ schedResume(m)
    PROVE  IInv'
<1>1. /\ TypeOK /\ Queues /\ Counters
      /\ \A n \in Mach : MachOK(n) /\ Apart(n) /\ CallOK(n)
      /\ \A q \in Proc : ProcOK(q)
  BY DEF IInv
<1>2. UNCHANGED <<wired, priority, params, quanta, queueVars, allocVars, rq, calls>>
  BY DEF runprocTake, schedResume
<1>3. pc[m] \in {"picked", "resume"} /\ rdy[m] = nil
  BY DEF runprocTake, schedResume, Goto, at
<1>4. PICK p \in Proc : p = tp[m] /\ mach[p] = nil
                        /\ state[p] \in {"Ready", "Scheding"} /\ p \notin queued
  BY <1>1, <1>3 DEF MachOK, inTp, ProcOK
<1>5. /\ free' = free /\ palock' = palock /\ rq' = rq
      /\ basepri' = basepri /\ fixedpri' = fixedpri
      /\ wired' = wired /\ priority' = priority /\ quanta' = quanta
      /\ runq' = runq /\ runvec' = runvec /\ nrdy' = nrdy
      /\ rdy' = rdy /\ rdypri' = rdypri /\ overtaken' = overtaken
  BY <1>2 DEF params, allocVars, queueVars, calls
<1>6. Queues' /\ Counters' /\ queued' = queued
  BY <1>1, <1>5, Resting DEF queueVars
\* Nobody else has anything to do with p.
<1>7. \A n \in Mach \ {m} : /\ pc[n] \in inTp => tp[n] # p
                            /\ pc[n] \in inUp => up[n] # p
  <2>1. SUFFICES ASSUME NEW n \in Mach \ {m}
                 PROVE  /\ pc[n] \in inTp => tp[n] # p
                        /\ pc[n] \in inUp => up[n] # p
    OBVIOUS
  <2>2. MachOK(n) /\ Apart(m)
    BY <1>1
  <2>3. mach[p] # n
    BY <1>4 DEF SchedAssumption
  <2> QED
    BY <2>2, <2>3, <1>3, <1>4 DEF MachOK, Apart, inTp
<1>8. up[m] = nil /\ \A q \in Proc : mach[q] # m
  BY <1>1, <1>3 DEF MachOK, ProcOK, inUp, SchedAssumption
\* Nor is p being readied.
<1>9. \A n \in Mach : rdy[n] # nil => rdy[n] # p
  BY <1>3, <1>4, Elsewhere DEF inTp
<1>10. CASE runprocTake(m)
  <2>1. /\ state' = [state EXCEPT ![p] = "Scheding"]
        /\ mp' = [mp EXCEPT ![p] = m]
        /\ mach' = mach /\ up' = up /\ tp' = tp
        /\ pc[m] = "picked" /\ pc' = [pc EXCEPT ![m] = "resume"]
    BY <1>4, <1>10 DEF runprocTake, Goto, at
  <2>2. /\ state'[p] = "Scheding"
        /\ \A q \in Proc \ {p} : state'[q] = state[q]
        /\ pc'[m] = "resume" /\ \A n \in Mach \ {m} : pc'[n] = pc[n]
    BY <2>1, <1>1 DEF TypeOK
  <2>3. TypeOK'
    BY <2>1, <1>1, <1>5 DEF TypeOK, ProcState
  <2>4. ASSUME NEW n \in Mach PROVE MachOK(n)'
    <3>1. CASE n = m
      <4>1. pc'[m] = "resume" /\ tp'[m] = p /\ mach'[p] = nil
            /\ state'[p] = "Scheding" /\ up'[m] = nil
        BY <2>1, <2>2, <1>4, <1>8
      <4> QED
        BY <3>1, <4>1 DEF MachOK, inUp, inTp
    <3>2. CASE n # m
      BY <3>2, <2>1, <2>2, <1>1, <1>5, <1>6, <1>7 DEF MachOK
    <3> QED
      BY <3>1, <3>2
  <2>5. \A n \in Mach : Apart(n)'
    BY <2>1, <2>2, <1>1 DEF Apart, inTp
  <2>6. \A n \in Mach : CallOK(n)'
    <3>1. UNCHANGED calls /\ rdy[m] = nil /\ tp'[m] = p
      BY <2>1, <1>2, <1>3, <1>4
    <3> QED
      BY <3>1, <2>1, <2>2, <1>5, <1>6, <1>9, CallsKept
  <2>7. ASSUME NEW q \in Proc PROVE ProcOK(q)'
    <3>1. ProcOK(q)
      BY <1>1
    <3>2. q # p => \A n \in Mach : tp[n] = q /\ pc[n] \in {"moved", "picked"} =>
            pc'[n] = pc[n]
      BY <1>4, <2>2
    <3> QED
      BY <3>1, <3>2, <1>4, <1>5, <1>6, <2>1, <2>2 DEF ProcOK
  <2> QED
    BY <2>3, <2>4, <2>5, <2>7, <2>6, <1>6 DEF IInv
<1>11. CASE schedResume(m)
  <2>1. /\ state' = [state EXCEPT ![p] = "Running"]
        /\ mp' = mp /\ mach' = [mach EXCEPT ![p] = m]
        /\ up' = [up EXCEPT ![m] = p] /\ tp' = [tp EXCEPT ![m] = nil]
        /\ pc[m] = "resume" /\ pc' = [pc EXCEPT ![m] = "run"]
    BY <1>4, <1>11 DEF schedResume, Goto, at
  <2>2. /\ state'[p] = "Running" /\ mach'[p] = m
        /\ \A q \in Proc \ {p} : state'[q] = state[q] /\ mach'[q] = mach[q]
        /\ pc'[m] = "run" /\ up'[m] = p
        /\ \A n \in Mach \ {m} :
             pc'[n] = pc[n] /\ up'[n] = up[n] /\ tp'[n] = tp[n]
    BY <2>1, <1>1 DEF TypeOK
  <2>3. TypeOK'
    BY <2>1, <1>1, <1>5 DEF TypeOK, ProcState
  <2>4. ASSUME NEW n \in Mach PROVE MachOK(n)'
    <3>1. CASE n = m
      <4>1. pc'[m] = "run" /\ up'[m] = p /\ mach'[p] = m
            /\ state'[p] = "Running"
        BY <2>2
      <4> QED
        BY <3>1, <4>1 DEF MachOK, inUp, inTp
    <3>2. CASE n # m
      BY <3>2, <2>2, <1>1, <1>5, <1>6, <1>7 DEF MachOK
    <3> QED
      BY <3>1, <3>2
  <2>5. \A n \in Mach : Apart(n)'
    BY <2>2, <1>1 DEF Apart, inTp
  <2>6. \A n \in Mach : CallOK(n)'
    <3>1. UNCHANGED calls /\ rdy[m] = nil /\ pc'[m] \notin inTp
      BY <2>2, <1>2, <1>3 DEF inTp
    <3> QED
      BY <3>1, <2>2, <1>5, <1>6, <1>9, CallsKept
  <2>7. ASSUME NEW q \in Proc PROVE ProcOK(q)'
    <3>1. ProcOK(q) /\ MachOK(m)
      BY <1>1
    <3>2. \A n \in Mach : mach'[q] = n => up'[n] = q
      BY <3>1, <2>2, <1>8 DEF ProcOK
    <3>3. state'[q] = "Ready" =>
           \/ q \in queued' \/ \E n \in Mach : rdy'[n] = q
           \/ \E n \in Mach : tp'[n] = q /\ pc'[n] \in {"moved", "picked"}
      <4>1. SUFFICES ASSUME state'[q] = "Ready", q \notin queued,
                            ~\E n \in Mach : rdy[n] = q
                     PROVE \E n \in Mach : tp'[n] = q /\ pc'[n] \in {"moved", "picked"}
        BY <1>5, <1>6
      <4>2. PICK n \in Mach : tp[n] = q /\ pc[n] \in {"moved", "picked"}
        BY <4>1, <3>1, <2>2 DEF ProcOK
      <4>3. n # m
        BY <4>2, <2>1
      <4> QED
        BY <4>2, <4>3, <2>2
    <3> QED
      BY <3>1, <3>2, <3>3, <1>4, <1>5, <1>6, <2>2 DEF ProcOK
  <2> QED
    BY <2>3, <2>4, <2>5, <2>7, <2>6, <1>6 DEF IInv
<1> QED
  BY <1>10, <1>11


\* schedinit is done with the process it left: its stack is nobody's.
LEMMA LeftSteps ==
    ASSUME SchedAssumption, ~SlowBury, IInv, NEW m \in Mach,
           schedinitBury(m) \/ schedinitClear(m)
    PROVE  IInv'
<1>1. /\ TypeOK /\ Queues /\ Counters
      /\ \A n \in Mach : MachOK(n) /\ Apart(n) /\ CallOK(n)
      /\ \A q \in Proc : ProcOK(q)
  BY DEF IInv
<1>2. PICK u \in Proc : /\ u = up[m] /\ mach[u] = m
                        /\ pc[m] \in {"switch", "clear"} /\ rdy[m] = nil
  BY <1>1 DEF schedinitBury, schedinitClear, Goto, at, MachOK, inUp
<1>3. /\ mach' = [mach EXCEPT ![u] = nil] /\ up' = [up EXCEPT ![m] = nil]
      /\ pc' = [pc EXCEPT ![m] = "loop"]
      /\ UNCHANGED <<mp, wired, priority, params, quanta, queueVars, tp, rq,
                     calls>>
      /\ \/ /\ state[u] \in {"Wakeme", "Ready"}
            /\ UNCHANGED <<state, allocVars>>
         \/ /\ state[u] = "Moribund" /\ state' = [state EXCEPT ![u] = "Dead"]
            /\ free' = <<u>> \o free /\ palock' = nil
  <2>1. CASE schedinitBury(m)
    BY <2>1, <1>2 DEF schedinitBury, Goto, at
  <2>2. CASE schedinitClear(m)
    BY <2>2, <1>1, <1>2 DEF schedinitClear, Goto, at, MachOK, inUp, SchedAssumption
  <2> QED
    BY <2>1, <2>2
<1>4. /\ rq' = rq /\ basepri' = basepri /\ fixedpri' = fixedpri
      /\ wired' = wired /\ priority' = priority /\ quanta' = quanta
      /\ runq' = runq /\ runvec' = runvec /\ nrdy' = nrdy
      /\ mp' = mp /\ tp' = tp
      /\ rdy' = rdy /\ rdypri' = rdypri /\ overtaken' = overtaken
  BY <1>3 DEF params, queueVars, calls
<1>5. /\ mach'[u] = nil /\ up'[m] = nil /\ pc'[m] = "loop"
      /\ \A q \in Proc \ {u} : mach'[q] = mach[q]
      /\ \A n \in Mach \ {m} : pc'[n] = pc[n] /\ up'[n] = up[n]
  BY <1>1, <1>3 DEF TypeOK
<1>6. /\ \A q \in Proc \ {u} : state'[q] = state[q]
      /\ state'[u] # state[u] => state[u] = "Moribund" /\ state'[u] = "Dead"
  BY <1>1, <1>3 DEF TypeOK
<1>7. queued' = queued /\ Counters'
  BY <1>1, <1>4 DEF queued, Counters
<1>8. /\ free' \in Seq(Proc) /\ Once(free')
      /\ \A q \in Proc : On(q, free') <=> state'[q] = "Dead"
  <2>1. /\ free \in Seq(Proc) /\ Once(free)
        /\ \A q \in Proc : On(q, free) <=> state[q] = "Dead"
    BY <1>1 DEF TypeOK, Queues, ProcOK
  <2>2. CASE UNCHANGED <<state, allocVars>>
    BY <2>1, <2>2 DEF allocVars
  <2>3. CASE /\ state[u] = "Moribund" /\ state' = [state EXCEPT ![u] = "Dead"]
             /\ free' = <<u>> \o free
    <3>1. PICK t : t = <<u>> \o free
      OBVIOUS
    <3>2. /\ t \in Seq(Proc) /\ Once(t)
          /\ \A q : On(q, t) <=> On(q, free) \/ q = u
      BY <2>1, <2>3, <3>1, PushQueue
    <3>3. state'[u] = "Dead"
      BY <1>1, <2>3 DEF TypeOK
    <3> QED
      BY <3>1, <3>2, <3>3, <2>1, <2>3, <1>6
  <2> QED
    BY <2>2, <2>3, <1>3
<1>9. TypeOK'
  <2>1. palock' \in Mach \cup {nil} /\ state' \in [Proc -> ProcState]
    BY ZenonT(40), <1>1, <1>3 DEF TypeOK, ProcState, allocVars
  <2>2. pc' \in [Mach -> {"run", "fork", "switch", "clear", "loop", "moveup",
                         "moved", "found", "picked", "resume"}]
        /\ up' \in [Mach -> Proc \cup {nil}] /\ mach' \in [Proc -> Mach \cup {nil}]
    BY <1>1, <1>3 DEF TypeOK
  <2> QED
    BY <2>1, <2>2, <1>1, <1>4, <1>8 DEF TypeOK
<1>10. Queues'
  BY <1>1, <1>4, <1>8 DEF Queues
<1>11. ASSUME NEW n \in Mach PROVE MachOK(n)' /\ Apart(n)' /\ CallOK(n)'
  <2>1. MachOK(n) /\ Apart(n)
    BY <1>1
  <2>2. pc[n] \in inUp /\ n # m => up[n] # u
    BY <2>1, <1>2 DEF MachOK
  <2>3. pc[n] \in inTp => tp[n] # u
    BY <2>1, <1>2 DEF MachOK, SchedAssumption
  <2>4. MachOK(n)'
    <3>1. CASE n = m
      BY <3>1, <1>5 DEF MachOK, inUp, inTp
    <3>2. CASE n # m
      BY <3>2, <2>1, <2>2, <2>3, <1>4, <1>5, <1>6, <1>7 DEF MachOK
    <3> QED
      BY <3>1, <3>2
  <2>5. Apart(n)'
    BY <2>1, <1>4, <1>5 DEF Apart, inTp
  <2>6. CallOK(n)'
    <3>1. CallOK(n) /\ UNCHANGED calls
      BY <1>1, <1>3
    <3>2. ASSUME rdy[n] # nil
          PROVE  /\ n # m /\ rdy[n] \in Proc /\ state'[rdy[n]] = state[rdy[n]]
                 /\ mach'[rdy[n]] = mach[rdy[n]] \/ mach'[rdy[n]] = nil
      <4>1. n # m /\ rdy[n] \in Proc /\ (state[u] = "Moribund" => rdy[n] # u)
        BY <3>2, <1>2, Elsewhere DEF inUp
      <4> QED
        BY <4>1, <1>5, <1>6
    <3>3. \A k \in Mach : pc'[k] \in inTp => pc[k] \in inTp /\ tp'[k] = tp[k]
      BY <1>4, <1>5 DEF inTp
    <3> QED
      BY <3>1, <3>2, <3>3, <1>4, <1>5, <1>7, CallKept
  <2> QED
    BY <2>4, <2>5, <2>6
<1>12. ASSUME NEW q \in Proc PROVE ProcOK(q)'
  <2>1. ProcOK(q)
    BY <1>1
  <2>2. \A n \in Mach : mach'[q] = n => up'[n] = q
    BY <2>1, <1>2, <1>5 DEF ProcOK, SchedAssumption
  <2>3. \A n \in Mach : pc[n] \in {"moved", "picked"} => pc'[n] = pc[n]
    BY <1>2, <1>5
  <2>4. q \in queued' => state'[q] = "Ready"
    BY <2>1, <1>6, <1>7 DEF ProcOK
  <2>5. state'[q] = "Ready" =>
         \/ q \in queued' \/ \E n \in Mach : rdy'[n] = q
         \/ \E n \in Mach : tp'[n] = q /\ pc'[n] \in {"moved", "picked"}
    BY <2>1, <2>3, <1>4, <1>6, <1>7 DEF ProcOK
  <2> QED
    BY <2>1, <2>2, <2>4, <2>5, <1>4, <1>8 DEF ProcOK
<1> QED
  BY <1>7, <1>9, <1>10, <1>11, <1>12 DEF IInv

LEMMA SchedinitLeaveStep ==
    ASSUME SchedAssumption, IInv, NEW m \in Mach, schedinitLeave(m)
    PROVE  IInv'
<1>1. /\ TypeOK /\ Queues /\ Counters
      /\ \A n \in Mach : MachOK(n) /\ Apart(n) /\ CallOK(n)
      /\ \A q \in Proc : ProcOK(q)
  BY DEF IInv
<1>2. /\ pc[m] = "switch" /\ pc' = [pc EXCEPT ![m] = "clear"]
      /\ state[up[m]] \in {"Wakeme", "Ready"}
      /\ UNCHANGED <<procVars, queueVars, allocVars, up, tp, rq, calls>>
      /\ rdy[m] = nil
  BY <1>1 DEF schedinitLeave, Goto, at, MachOK, inUp
<1>3. /\ state' = state /\ free' = free /\ palock' = palock /\ mach' = mach
      /\ basepri' = basepri /\ fixedpri' = fixedpri
      /\ mp' = mp /\ wired' = wired /\ priority' = priority
      /\ quanta' = quanta /\ runq' = runq /\ runvec' = runvec /\ nrdy' = nrdy
      /\ up' = up /\ tp' = tp /\ rq' = rq
      /\ rdy' = rdy /\ rdypri' = rdypri /\ overtaken' = overtaken
  BY <1>2 DEF procVars, params, allocVars, queueVars, calls
<1>4. Queues' /\ Counters' /\ queued' = queued
  BY <1>1, <1>3, Resting DEF queueVars
<1>5. TypeOK'
  BY <1>1, <1>2, <1>3 DEF TypeOK
<1>6. pc'[m] = "clear" /\ \A n \in Mach \ {m} : pc'[n] = pc[n]
  BY <1>1, <1>2 DEF TypeOK
<1>7. ASSUME NEW n \in Mach PROVE MachOK(n)' /\ Apart(n)' /\ CallOK(n)'
  <2>1. MachOK(n) /\ Apart(n)
    BY <1>1
  <2>2. MachOK(n)'
    BY <2>1, <1>2, <1>3, <1>4, <1>6 DEF MachOK, inUp, inTp
  <2>3. Apart(n)'
    BY <2>1, <1>3, <1>6 DEF Apart, inTp
  <2>4. CallOK(n)'
    <3>1. pc'[m] \notin inTp
      BY <1>6 DEF inTp
    <3> QED
      BY <3>1, <1>2, <1>3, <1>4, <1>6, CallsKept
  <2> QED
    BY <2>2, <2>3, <2>4
<1>8. ASSUME NEW q \in Proc PROVE ProcOK(q)'
  <2>1. ProcOK(q)
    BY <1>1
  <2>2. \A n \in Mach : pc[n] \in {"moved", "picked"} => pc'[n] = pc[n]
    BY <1>2, <1>6
  <2> QED
    BY <2>1, <2>2, <1>3, <1>4 DEF ProcOK
<1> QED
  BY <1>4, <1>5, <1>7, <1>8 DEF IInv

\* sysrfork takes a Proc that nobody has off the free list.
LEMMA NewprocStep ==
    ASSUME SchedAssumption, IInv, NEW m \in Mach, newproc(m)
    PROVE  IInv'
<1>1. /\ TypeOK /\ Queues /\ Counters
      /\ \A n \in Mach : MachOK(n) /\ Apart(n) /\ CallOK(n)
      /\ \A q \in Proc : ProcOK(q)
  BY DEF IInv
<1>2. PICK p : p = Head(free)
  OBVIOUS
<1>3. PICK u \in Proc : u = up[m] /\ state[u] = "Running" /\ pc[m] = "run"
                        /\ rdy[m] = nil
  BY <1>1 DEF newproc, Goto, at, MachOK, inUp
<1>4. /\ p \in Proc /\ On(p, free) /\ free' \in Seq(Proc) /\ Once(free')
      /\ ~On(p, free')
      /\ \A q : On(q, free) <=> On(q, free') \/ q = p
  <2>1. PICK s \in Seq(Proc) : s = free /\ s # <<>> /\ Once(s)
    BY <1>1 DEF newproc, TypeOK, Queues
  <2>2. free' = Tail(s) /\ p = Head(s)
    BY <2>1, <1>2 DEF newproc
  <2> QED
    BY <2>1, <2>2, TailQueue
<1>5. state[p] = "Dead"
  BY <1>1, <1>4 DEF ProcOK
<1>6. /\ pc' = [pc EXCEPT ![m] = "fork"]
      /\ tp' = [tp EXCEPT ![m] = p]
      /\ state' = [state EXCEPT ![p] = "Scheding"]
      /\ mach' = [mach EXCEPT ![p] = nil]
      /\ basepri' = [basepri EXCEPT ![p] = basepri[u]]
      /\ priority' = [priority EXCEPT ![p] = basepri[u]]
      /\ fixedpri' = [fixedpri EXCEPT ![p] = fixedpri[u]]
      /\ quanta' = [quanta EXCEPT ![p] = Quanta[Nrq - 1]]
      /\ UNCHANGED <<queueVars, palock, up, rq, calls>>
  BY <1>2, <1>3 DEF newproc, Goto, at
<1>7. wired' \in [Proc -> Mach \cup {nil}] /\ mp' \in [Proc -> Mach \cup {nil}]
  <2>1. PICK w \in Mach \cup {nil} : w = wired[u]
    BY <1>1 DEF TypeOK
  <2>2. PICK v \in Mach \cup {nil} : v = IF w = nil THEN mp[u] ELSE w
    <3>1. (IF w = nil THEN mp[u] ELSE w) \in Mach \cup {nil}
      BY <1>1 DEF TypeOK
    <3> QED
      BY <3>1
  <2>3. wired' = [wired EXCEPT ![p] = w] /\ mp' = [mp EXCEPT ![p] = v]
    BY <2>1, <2>2, <1>2, <1>3 DEF newproc
  <2> QED
    BY <2>3, <1>1 DEF TypeOK
<1>8. /\ runq' = runq /\ runvec' = runvec /\ nrdy' = nrdy /\ palock' = palock
      /\ up' = up /\ rq' = rq
      /\ rdy' = rdy /\ rdypri' = rdypri /\ overtaken' = overtaken
  BY <1>6 DEF queueVars, calls
<1>9. queued' = queued /\ Counters' /\ Queues'
  BY <1>1, <1>4, <1>8 DEF queued, Counters, Queues
<1>10. TypeOK'
  <2>1. /\ state' \in [Proc -> ProcState] /\ mach' \in [Proc -> Mach \cup {nil}]
        /\ tp' \in [Mach -> Proc \cup {nil}]
    BY <1>1, <1>4, <1>6 DEF TypeOK, ProcState
  <2>2. pc' \in [Mach -> {"run", "fork", "switch", "clear", "loop", "moveup",
                         "moved", "found", "picked", "resume"}]
    BY <1>1, <1>6 DEF TypeOK
  <2>3. Quanta[Nrq - 1] \in Nat
    <3>1. Nrq - 1 \in Pri
      BY DEF SchedAssumption, Pri
    <3> QED
      BY <3>1 DEF SchedAssumption
  <2>4. /\ quanta' \in [Proc -> Nat] /\ basepri' \in [Proc -> Pri]
        /\ priority' \in [Proc -> Pri] /\ fixedpri' \in [Proc -> BOOLEAN]
    BY <2>3, <1>1, <1>6 DEF TypeOK
  <2> QED
    BY <2>1, <2>2, <2>4, <1>1, <1>4, <1>7, <1>8 DEF TypeOK
<1>11. /\ pc'[m] = "fork" /\ tp'[m] = p /\ state'[p] = "Scheding" /\ mach'[p] = nil
       /\ \A q \in Proc \ {p} : /\ state'[q] = state[q] /\ mach'[q] = mach[q]
                                /\ priority'[q] = priority[q]
                                /\ basepri'[q] = basepri[q]
                                /\ fixedpri'[q] = fixedpri[q]
       /\ \A n \in Mach \ {m} : pc'[n] = pc[n] /\ tp'[n] = tp[n]
  BY <1>1, <1>4, <1>6 DEF TypeOK
<1>12. ASSUME NEW n \in Mach PROVE MachOK(n)' /\ Apart(n)' /\ CallOK(n)'
  <2>1. MachOK(n) /\ Apart(n) /\ MachOK(m)
    BY <1>1
  <2>2. pc[n] \in inUp => up[n] # p
    BY <2>1, <1>5 DEF MachOK, inUp
  <2>3. \A k \in Mach : pc[k] \in inTp => tp[k] # p
    BY <1>1, <1>5 DEF MachOK, inTp
  <2>4. MachOK(n)'
    <3>1. CASE n = m
      BY <3>1, <2>1, <2>2, <1>3, <1>4, <1>8, <1>11 DEF MachOK, inUp, inTp
    <3>2. CASE n # m
      BY <3>2, <2>1, <2>2, <2>3, <1>8, <1>9, <1>11 DEF MachOK
    <3> QED
      BY <3>1, <3>2
  <2>5. Apart(n)'
    BY <2>1, <2>3, <1>11 DEF Apart
  <2>6. CallOK(n)'
    <3>1. \A k \in Mach : rdy[k] # nil => rdy[k] # p
      BY <1>3, <1>5, Elsewhere
    <3>2. UNCHANGED calls /\ rdy[m] = nil /\ up' = up
      BY <1>3, <1>6
    <3> QED
      BY <3>1, <3>2, <1>9, <1>11, CallsKept
  <2> QED
    BY <2>4, <2>5, <2>6
<1>13. ASSUME NEW q \in Proc PROVE ProcOK(q)'
  <2>1. ProcOK(q)
    BY <1>1
  <2>2. \A n \in Mach : mach'[q] = n => up'[n] = q
    BY <2>1, <1>8, <1>11 DEF ProcOK, SchedAssumption
  <2>3. \A n \in Mach : pc[n] \in {"moved", "picked"} =>
          pc'[n] = pc[n] /\ tp'[n] = tp[n]
    BY <1>3, <1>11
  <2>4. q \in queued' => state'[q] = "Ready"
    BY <2>1, <1>5, <1>9, <1>11 DEF ProcOK
  <2>5. state'[q] = "Ready" =>
         \/ q \in queued' \/ \E n \in Mach : rdy'[n] = q
         \/ \E n \in Mach : tp'[n] = q /\ pc'[n] \in {"moved", "picked"}
    BY <2>1, <2>3, <1>8, <1>9, <1>11 DEF ProcOK
  <2>6. state'[q] = "Dead" <=> On(q, free')
    BY <2>1, <1>4, <1>5, <1>11 DEF ProcOK
  <2> QED
    BY <2>2, <2>4, <2>5, <2>6 DEF ProcOK
<1> QED
  BY <1>9, <1>10, <1>12, <1>13 DEF IInv

-----------------------------------------------------------------------------
LEMMA Initially ==
    ASSUME SchedAssumption, Init PROVE IInv
<1>1. PICK order \in SetToSeqs(Kproc), frees \in SetToSeqs(Proc \ Kproc),
           b \in Pri :
        /\ state = [p \in Proc |-> IF p \in Kproc THEN "Ready" ELSE "Dead"]
        /\ mach = [p \in Proc |-> nil]
        /\ mp = [p \in Proc |-> nil]
        /\ wired = [p \in Proc |-> nil]
        /\ priority = [p \in Proc |-> b]
        /\ basepri = [p \in Proc |-> b]
        /\ fixedpri = [p \in Proc |-> FALSE]
        /\ quanta = [p \in Proc |-> Quanta[b]]
        /\ runq = [i \in Pri |-> IF i = b THEN order ELSE <<>>]
        /\ runvec = IF Kproc = {} THEN {} ELSE {b}
        /\ nrdy = Len(order)
        /\ free = frees
        /\ palock = nil
        /\ pc = [m \in Mach |-> "loop"]
        /\ up = [m \in Mach |-> nil]
        /\ tp = [m \in Mach |-> nil]
        /\ rq = [m \in Mach |-> 0]
        /\ rdy = [m \in Mach |-> nil]
        /\ rdypri = [m \in Mach |-> 0]
        /\ overtaken = {}
  BY DEF Init
<1>2. IsFiniteSet(Kproc) /\ IsFiniteSet(Proc \ Kproc)
  BY FS_Subset, FS_Difference DEF SchedAssumption
<1>3. /\ order \in Seq(Kproc) /\ Once(order)
      /\ \A q : On(q, order) <=> q \in Kproc
      /\ Len(order) = Cardinality(Kproc)
  BY <1>2, OrderQueue
<1>4. /\ frees \in Seq(Proc \ Kproc) /\ Once(frees)
      /\ \A q : On(q, frees) <=> q \in Proc \ Kproc
  BY <1>2, OrderQueue
<1>5. /\ order \in Seq(Proc) /\ frees \in Seq(Proc)
      /\ order = <<>> <=> Kproc = {}
  <2>1. Kproc \subseteq Proc
    BY DEF SchedAssumption
  <2>2. order \in Seq(Proc) /\ frees \in Seq(Proc)
    BY <2>1, <1>3, <1>4, SeqDef
  <2>3. order = <<>> <=> Kproc = {}
    <3>1. order = <<>> => \A q : ~On(q, order)
      BY DEF On
    <3>2. order # <<>> => On(Head(order), order)
      BY <1>3, TailQueue
    <3> QED
      BY <3>1, <3>2, <1>3
  <2> QED
    BY <2>2, <2>3
<1>6. \A q : ~On(q, <<>>)
  BY DEF On
<1>7. \A q : \A i \in Pri : On(q, runq[i]) <=> q \in Kproc /\ i = b
  BY <1>1, <1>3, <1>6
<1>8. queued = Kproc
  <2>1. \A q : q \in queued <=> \E i \in Pri : On(q, runq[i])
    BY DEF queued, ToSet, On
  <2> QED
    BY <2>1, <1>7
<1>9. TypeOK
  <2>1. Quanta[b] \in Nat /\ 0 \in Pri
    BY DEF SchedAssumption, Pri
  <2>2. nrdy \in Nat
    BY <1>1, <1>3, LenProperties
  <2> QED
    BY <2>1, <2>2, <1>1, <1>5 DEF TypeOK, ProcState
<1>10. Queues
  <2>1. Once(<<>>)
    BY DEF Once
  <2> QED
    BY <2>1, <1>1, <1>3, <1>4, <1>7 DEF Queues
<1>11. Counters
  BY <1>1, <1>3, <1>5, <1>8 DEF Counters
<1>12. \A m \in Mach : MachOK(m) /\ Apart(m) /\ CallOK(m)
  BY <1>1 DEF MachOK, Apart, CallOK, inUp, inTp
<1>13. \A p \in Proc : ProcOK(p)
  <2> TAKE p \in Proc
  <2>1. mach[p] = nil
    BY <1>1
  <2>2. state[p] = "Ready" <=> p \in Kproc
    BY <1>1
  <2>3. state[p] = "Dead" <=> p \in Proc \ Kproc
    BY <1>1
  <2> QED
    BY <2>1, <2>2, <2>3, <1>1, <1>4, <1>8 DEF ProcOK, SchedAssumption
<1> QED
  BY <1>9, <1>10, <1>11, <1>12, <1>13 DEF IInv

LEMMA Inductive ==
    ASSUME SchedAssumption, ~SlowBury, IInv, [Next]_vars PROVE IInv'
<1>1. CASE UNCHANGED vars
  <2>1. /\ UNCHANGED <<procVars, queueVars, allocVars>>
        /\ UNCHANGED <<pc, up, tp, rq, rdy, rdypri, overtaken>>
    BY <1>1 DEF vars, calls
  <2>2. queued' = queued
    BY <2>1 DEF queued, queueVars
  <2>3. TypeOK' /\ Queues' /\ Counters'
    BY <2>1, <2>2 DEF IInv, TypeOK, Queues, Counters, procVars, queueVars,
                      allocVars
  <2>4. \A m \in Mach : MachOK(m)' /\ Apart(m)' /\ CallOK(m)'
    BY <2>1, <2>2 DEF IInv, MachOK, Apart, CallOK, Picked, procVars
  <2>5. \A p \in Proc : ProcOK(p)'
    BY <2>1, <2>2 DEF IInv, ProcOK, procVars, allocVars
  <2> QED
    BY <2>3, <2>4, <2>5 DEF IInv
<1>2. ASSUME NEW m \in Mach, process(m) PROVE IInv'
  BY <1>2, LeaveStep, PexitStep, NewprocStep, ReadySteps DEF process
<1>3. ASSUME NEW m \in Mach, schedinit(m) PROVE IInv'
  BY <1>3, ReadySteps, LeftSteps, SchedinitLeaveStep, FindSteps, DequeueSteps,
     TakeSteps DEF schedinit
<1>4. ASSUME NEW m \in Mach, control(m) PROVE IInv'
  BY <1>4, ControlStep
<1>5. ASSUME NEW m \in Mach, readyQueue(m) PROVE IInv'
  BY <1>5, ReadyQueueStep
<1> QED
  BY <1>1, <1>2, <1>3, <1>4, <1>5 DEF Next

LEMMA Invariant ==
    ASSUME SchedAssumption, ~SlowBury PROVE Spec => []IInv
<1>1. Init => IInv
  BY Initially
<1>2. IInv /\ [Next]_vars => IInv'
  BY Inductive
<1> QED
  BY <1>1, <1>2, PTL DEF Spec


-----------------------------------------------------------------------------
(***************************************************************************)
(* What the invariant gives.                                               *)
(***************************************************************************)
\* Who is on the stack of p runs it, as p->mach tells, or is about to.
LEMMA Stacks ==
    ASSUME SchedAssumption, IInv, NEW p \in Proc, NEW m \in onStack(p)
    PROVE  \A n \in onStack(p) : n = m
<1>1. /\ \A n \in Mach : MachOK(n) /\ Apart(n)
      /\ ProcOK(p)
  BY DEF IInv
<1>2. \A n \in onStack(p) :
        \/ n \in Mach /\ mach[p] = n
        \/ n \in Mach /\ mach[p] = nil /\ tp[n] = p /\ pc[n] \in {"picked", "resume"}
  BY <1>1 DEF onStack, MachOK, inUp, inTp
<1> QED
  BY <1>1, <1>2 DEF SchedAssumption, Apart, MachOK, ProcOK, inTp

\* OneMach: two processors never run on the stack of one process, however
\* early it is woken after it decided to block.
THEOREM OneStack ==
    ASSUME SchedAssumption, ~SlowBury PROVE Spec => []OneMach
<1>1. IInv => OneMach
  BY Stacks DEF OneMach
<1> QED
  BY <1>1, Invariant, PTL

\* MachSaved: dequeueproc may trust p->mach, which names the processor that
\* runs p.
THEOREM SavedMach ==
    ASSUME SchedAssumption, ~SlowBury PROVE Spec => []MachSaved
<1>1. IInv => MachSaved
  BY DEF IInv, MachOK, MachSaved, inUp
<1> QED
  BY <1>1, Invariant, PTL

\* ListsOK: the run queue holds every ready process once, runvec and nrdy
\* are right, and the free list holds those that are nobody's.
THEOREM ListsSound ==
    ASSUME SchedAssumption, ~SlowBury PROVE Spec => []ListsOK
<1>1. ASSUME IInv PROVE ListsOK
  <2>1. /\ TypeOK /\ Queues /\ Counters
        /\ \A n \in Mach : MachOK(n) /\ Apart(n) /\ CallOK(n)
        /\ \A q \in Proc : ProcOK(q)
    BY <1>1 DEF IInv
  <2>2. \A q : q \in queued <=> \E i \in Pri : On(q, runq[i])
    BY <2>1, QueuedFinite
  <2>3. ASSUME NEW i \in Pri, NEW j \in Pri, NEW k \in DOMAIN runq[i],
               NEW l \in DOMAIN runq[j], runq[i][k] = runq[j][l]
        PROVE  i = j /\ k = l
    <3>1. runq[i] \in Seq(Proc)
      BY <2>1 DEF TypeOK
    <3>2. PICK q \in Proc : q = runq[i][k]
      BY <3>1, LenProperties
    <3>3. On(q, runq[i]) /\ On(q, runq[j])
      BY <2>3, <3>2 DEF On
    <3>4. i = j
      BY <2>1, <3>3 DEF Queues
    <3> QED
      BY <2>1, <2>3, <3>4 DEF Queues, Once
  <2>4. ASSUME NEW p \in Proc
        PROVE  /\ \/ p \in queued
                  \/ \E m \in Mach : tp[m] = p /\ pc[m] \in {"moved", "picked"}
                  => state[p] = "Ready"
               /\ state[p] = "Ready" =>
                    \/ p \in queued
                    \/ \E m \in Mach : tp[m] = p /\ pc[m] \in {"moved", "picked"}
                    \/ \E m \in Mach : rdy[m] = p
               /\ state[p] = "Dead" <=> p \in ToSet(free)
               /\ p \in ToSet(free) => p \notin queued /\ onStack(p) = {}
    <3>1. ProcOK(p)
      BY <2>1
    <3>2. p \in ToSet(free) <=> state[p] = "Dead"
      BY <3>1 DEF ProcOK, ToSet, On
    <3>3. \A m \in Mach : tp[m] = p /\ pc[m] \in {"moved", "picked"} =>
            state[p] = "Ready"
      BY <2>1 DEF MachOK, inTp
    <3>4. state[p] = "Dead" => p \notin queued
      BY <3>1 DEF ProcOK
    <3>5. state[p] = "Dead" => onStack(p) = {}
      BY <2>1 DEF onStack, MachOK, inUp, inTp
    <3> QED
      BY <3>1, <3>2, <3>3, <3>4, <3>5 DEF ProcOK
  <2>5. QueueOnce
    <3>1. \A m, n \in Mach : rdy[m] # nil =>
            rdy[m] \notin queued /\ (rdy[n] = rdy[m] => n = m)
      BY <2>1 DEF CallOK
    <3> QED
      BY <2>3, <2>4, <3>1 DEF QueueOnce
  <2>6. FreeIsFree
    BY <2>4 DEF FreeIsFree
  <2> QED
    BY <2>1, <2>5, <2>6 DEF ListsOK, RunqOK
<1> QED
  BY <1>1, Invariant, PTL

-----------------------------------------------------------------------------
\* Only its own second step ends a call of ready.
LEMMA EndsReady ==
    ASSUME TypeOK, NEW m \in Mach, rdy[m] # nil, rdy'[m] = nil, [Next]_vars
    PROVE  readyQueue(m)
<1>1. SUFFICES ASSUME ~readyQueue(m) PROVE rdy'[m] = rdy[m]
  OBVIOUS
<1>2. ASSUME rdy' = rdy PROVE rdy'[m] = rdy[m]
  BY <1>2
<1>3. ASSUME NEW n \in Mach, n # m, NEW q, rdy' = [rdy EXCEPT ![n] = q]
      PROVE  rdy'[m] = rdy[m]
  BY <1>3 DEF TypeOK
<1>4. ASSUME NEW n \in Mach, rdy[n] = nil, NEW q, NEW used, ready(n, q, used)
      PROVE  rdy'[m] = rdy[m]
  BY <1>3, <1>4 DEF ready
<1>5. CASE UNCHANGED vars
  BY <1>2, <1>5 DEF vars, calls
<1>6. ASSUME NEW n \in Mach, process(n) PROVE rdy'[m] = rdy[m]
  <2>1. CASE hzsched(n) \/ preempted(n) \/ yield(n) \/ block(n)
             \/ pexit(n) \/ newproc(n)
    BY <2>1, <1>2 DEF hzsched, preempted, yield, block, pexit, newproc, calls
  <2>2. CASE sysrfork(n)
    BY <2>2, <1>4 DEF sysrfork, Goto, at
  <2>3. ASSUME NEW q \in Proc, wake(n, q) PROVE rdy'[m] = rdy[m]
    BY <2>3, <1>4 DEF wake, at
  <2> QED
    BY <1>6, <2>1, <2>2, <2>3 DEF process
<1>7. ASSUME NEW n \in Mach, schedinit(n) PROVE rdy'[m] = rdy[m]
  <2>1. CASE schedinitReady(n)
    BY <2>1, <1>4 DEF schedinitReady, Goto, at
  <2>2. CASE rebalanceReady(n)
    BY <2>2, <1>4 DEF rebalanceReady, Goto, at
  <2>3. CASE schedinitBury(n) \/ schedinitLeave(n) \/ schedinitClear(n)
             \/ rebalanceDequeue(n) \/ runprocFind(n) \/ runprocDequeue(n)
             \/ runprocTake(n) \/ schedResume(n)
    BY <2>3, <1>2 DEF schedinitBury, schedinitLeave, schedinitClear,
                      rebalanceDequeue, runprocFind, runprocDequeue,
                      runprocTake, schedResume, calls
  <2>4. ASSUME NEW i \in Pri, rebalance(n, i) PROVE rdy'[m] = rdy[m]
    BY <2>4, <1>2 DEF rebalance, calls
  <2> QED
    BY <1>7, <2>1, <2>2, <2>3, <2>4 DEF schedinit
<1>8. ASSUME NEW n \in Mach, control(n) PROVE rdy'[m] = rdy[m]
  BY <1>2, <1>8 DEF control, procwired, procpriority, calls
<1>9. ASSUME NEW n \in Mach, readyQueue(n) PROVE rdy'[m] = rdy[m]
  BY <1>1, <1>3, <1>9 DEF readyQueue
<1> QED
  BY <1>5, <1>6, <1>7, <1>8, <1>9 DEF Next

\* PriorityRules: unless its priority is set between the two steps of ready,
\* a process goes onto the queue one level down at most if it was running, one
\* up if it was not, and not beyond its base priority then, which is where a
\* fixed one goes and one that was above comes back to.
THEOREM PrioritiesRuled ==
    ASSUME SchedAssumption, ~SlowBury PROVE Spec => PriorityRules
<1> DEFINE Rule(m) ==
        LET p == rdy[m] IN
        p # nil /\ rdy'[m] = nil /\ p \notin overtaken =>
            IF fixedpri[p] THEN priority'[p] = basepri[p]
            ELSE \/ priority'[p] = priority[p]
                 \/ state[p] = "Running" /\ priority'[p] = priority[p] - 1
                 \/ /\ state[p] # "Running"
                    /\ priority'[p] = priority[p] + 1
                    /\ priority'[p] <= basepri[p]
                 \/ /\ state[p] # "Running"
                    /\ priority'[p] = basepri[p]
                    /\ basepri[p] < priority[p]
<1>1. ASSUME IInv, [Next]_vars, NEW m \in Mach PROVE Rule(m)
  <2>1. SUFFICES ASSUME rdy[m] # nil, rdy'[m] = nil, rdy[m] \notin overtaken
                 PROVE  Rule(m)
    OBVIOUS
  <2>2. TypeOK /\ CallOK(m)
    BY <1>1 DEF IInv
  <2>3. PICK p \in Proc : p = rdy[m]
    BY <2>1, <2>2 DEF CallOK
  <2>4. Picked(p, rdypri[m])
    BY <2>1, <2>2, <2>3 DEF CallOK
  <2>5. readyQueue(m)
    BY <1>1, <2>1, <2>2, EndsReady
  <2>6. priority'[p] = rdypri[m]
    BY <2>2, <2>3, <2>5 DEF readyQueue, TypeOK
  <2> QED
    BY <2>3, <2>4, <2>6 DEF Picked
<1>2. IInv /\ [Next]_vars => [\A m \in Mach : Rule(m)]_vars
  BY <1>1
<1> QED
  BY <1>2, Invariant, PTL DEF Spec, PriorityRules

-----------------------------------------------------------------------------
(***************************************************************************)
(* sleep, wakeup and postnote: for any number of processes, Rendez, wakers *)
(* and posters, the two lock orders keep r->p and p->r synchronized, no    *)
(* panic of wakeup or postnote is reached, and neither a wakeup nor a note *)
(* is lost.                                                                *)
(***************************************************************************)

\* The places where a thread holds the Lock of its r.
RHeld == {"s_lockp", "s_set", "s_note", "s_never", "s_back", "s_commit",
          "s_unlockp", "s_unlockr", "w_read", "w_lockp", "w_ready",
          "w_unlockp", "w_unlock", "n_ready", "n_unlockr"}

\* The places where a thread holds p->rlock, of its own or of its target.
PHeld == {"s_set", "s_note", "s_never", "s_commit", "s_unlockp", "w_ready",
          "w_unlockp", "n_read", "n_try", "n_again", "n_ready", "n_unlockr",
          "n_unlockp"}

Target(a) == IF a \in Proc THEN a ELSE pv[a]

\* The places of a sleeper that has set r->p and not yet p->r.
Setting == {"s_note", "s_never", "s_commit"}

\* Who holds a lock is where a holder of that lock is.
LocksHeld ==
    /\ \A r \in Rend, a \in SL!Actor :
         lk[r] = a <=> spc[a] \in RHeld /\ rv[a] = r
    /\ \A p \in Proc, a \in SL!Actor :
         rlock[p] = a <=> spc[a] \in PHeld /\ Target(a) = p

\* The arguments of a call are set while it runs, and no two processes
\* sleep on one Rendez.
Arguments ==
    /\ \A p \in Proc : rv[p] = nil <=> spc[p] = "idle"
    /\ \A p, q \in Proc : p # q /\ rv[p] # nil => rv[p] # rv[q]
    /\ \A w \in Waker : spc[w] # "idle" => rv[w] # nil
    /\ \A w \in Waker :
         spc[w] \in {"w_lockp", "w_ready", "w_unlockp"} => pv[w] # nil
    /\ \A n \in Poster : spc[n] # "idle" => pv[n] # nil
    /\ \A n \in Poster :
         spc[n] \in {"n_try", "n_again", "n_ready", "n_unlockr"} => rv[n] # nil

\* What r->p and p->r say of where the sleeper is.
Pointers ==
    /\ \A p \in Proc, r \in Rend :
         rp[r] = p <=> rv[p] = r /\ (spc[p] \in Setting \/ pr[p] = r)
    /\ \A p \in Proc : pr[p] # nil =>
         /\ pr[p] = rv[p]
         /\ sstate[p] = "Wakeme"
         /\ spc[p] \in {"s_unlockp", "s_unlockr", "s_off"}
    /\ \A p \in Proc :
         spc[p] \in {"s_unlockp", "s_unlockr"} => pr[p] = rv[p]

\* What wakeup and postnote read stays true while they hold the lock.
FoundStays ==
    /\ \A w \in Waker :
         spc[w] \in {"w_lockp", "w_ready"} => rp[rv[w]] = pv[w]
    /\ \A n \in Poster :
         spc[n] \in {"n_try", "n_ready"} => pr[pv[n]] = rv[n]

WakerDue(r) == \E w \in Waker :
    rv[w] = r /\ spc[w] \in {"w_lock", "w_read", "w_lockp", "w_ready"}
PosterDue(p) == \E n \in Poster :
    pv[n] = p /\ spc[n] \in {"n_lock", "n_read", "n_try", "n_again", "n_ready"}

\* From the moment sleep has tested the condition, and the note, whoever
\* makes them true has yet to look for the sleeper.
Due ==
    /\ \A p \in Proc, r \in Rend :
         /\ rv[p] = r
         /\ spc[p] \in {"s_note", "s_commit"} \/ pr[p] = r
         /\ cond[r]
         => WakerDue(r)
    /\ \A p \in Proc :
         (spc[p] = "s_commit" \/ pr[p] # nil) /\ notepending[p] => PosterDue(p)

SleepInv == SL!TypeOK /\ LocksHeld /\ Arguments /\ Pointers /\ FoundStays /\ Due

USE DEF SL!SleepAssumption, SL!Actor, SL!locals, SL!Goto, SL!Lock, SL!Unlock,
    SL!SleepPC, SL!WakePC, SL!NotePC, RHeld, PHeld, Target, Setting, WakerDue, PosterDue

-----------------------------------------------------------------------------
\* Every step of sleep, and the use of its condition between two sleeps,
\* keeps the invariant.
LEMMA sleepKeeps ==
    ASSUME SL!SleepAssumption, SleepInv, NEW p \in Proc,
           \/ \E r \in Rend : SL!sleep(p, r)
           \/ \E r \in Rend : SL!consume(p, r)
           \/ SL!sleepStep(p) \/ SL!sleepLock(p)
    PROVE  SleepInv'
<1> USE DEF SL!TypeOK, LocksHeld, Arguments, Pointers, FoundStays, Due, SleepInv
<1>1. CASE \E r \in Rend : SL!sleep(p, r)
  <2>0. PICK r \in Rend : SL!sleep(p, r)
    BY <1>1
  <2>1. SL!TypeOK'
    BY <2>0 DEF SL!sleep
  <2>2. LocksHeld'
    BY <2>0 DEF SL!sleep
  <2>3. Arguments'
    BY <2>0 DEF SL!sleep
  <2>4. Pointers'
    BY <2>0 DEF SL!sleep
  <2>5. FoundStays'
    BY <2>0 DEF SL!sleep
  <2>6. Due'
    BY <2>0 DEF SL!sleep
  <2> QED
    BY <2>1, <2>2, <2>3, <2>4, <2>5, <2>6
<1>2. CASE \E r \in Rend : SL!consume(p, r)
  BY <1>2 DEF SL!consume
<1>3. CASE SL!sleepLockR(p)
  BY <1>3 DEF SL!sleepLockR
<1>4. CASE SL!sleepLockP(p)
  BY <1>4 DEF SL!sleepLockP
<1>5. CASE SL!sleepSet(p)
  BY <1>5 DEF SL!sleepSet
<1>6. CASE SL!sleepNote(p)
  BY <1>6 DEF SL!sleepNote
<1>7. CASE SL!sleepNever(p)
  BY SMTT(30), <1>7 DEF SL!sleepNever
<1>8. CASE SL!sleepBack(p)
  BY <1>8 DEF SL!sleepBack
<1>9. CASE SL!sleepCommit(p)
  BY <1>9 DEF SL!sleepCommit
<1>10. CASE SL!sleepUnlockP(p)
  BY <1>10 DEF SL!sleepUnlockP
<1>11. CASE SL!sleepUnlockR(p)
  BY SMTT(30), <1>11 DEF SL!sleepUnlockR
<1>12. CASE SL!sleepResume(p)
  BY <1>12 DEF SL!sleepResume
<1>13. CASE SL!sleepReturn(p)
  <2>1. SL!TypeOK'
    BY <1>13 DEF SL!sleepReturn
  <2>2. LocksHeld'
    BY <1>13 DEF SL!sleepReturn
  <2>3. Arguments'
    BY <1>13 DEF SL!sleepReturn
  <2>4. Pointers'
    BY <1>13 DEF SL!sleepReturn
  <2>5. FoundStays'
    BY <1>13 DEF SL!sleepReturn
  <2>6. Due'
    BY <1>13 DEF SL!sleepReturn
  <2> QED
    BY <2>1, <2>2, <2>3, <2>4, <2>5, <2>6
<1> HIDE DEF SleepInv
<1> QED
  BY <1>1, <1>2, <1>3, <1>4, <1>5, <1>6, <1>7, <1>8, <1>9, <1>10, <1>11, <1>12,
    <1>13
  DEF SL!sleepStep, SL!sleepLock

\* Every step of wakeup keeps the invariant.
LEMMA wakeupKeeps ==
    ASSUME SL!SleepAssumption, SleepInv, NEW w \in Waker,
           \/ \E r \in Rend : SL!wakeup(w, r)
           \/ SL!wakeupStep(w) \/ SL!wakeupLock(w)
    PROVE  SleepInv'
<1> USE DEF SL!TypeOK, LocksHeld, Arguments, Pointers, FoundStays, Due, SleepInv
<1>1. CASE \E r \in Rend : SL!wakeup(w, r)
  <2>0. PICK r \in Rend : SL!wakeup(w, r)
    BY <1>1
  <2>1. SL!TypeOK'
    <3>1. PICK b \in {cond[r], TRUE} : cond' = [cond EXCEPT ![r] = b]
      BY <2>0 DEF SL!wakeup
    <3>2. b \in BOOLEAN
      <4>1. cond[r] \in BOOLEAN
        OBVIOUS
      <4> QED
        BY <4>1, Zenon
    <3>3. cond' \in [Rend -> BOOLEAN]
      BY <3>1, <3>2
    <3> QED
      BY <2>0, <3>3 DEF SL!wakeup
  <2>2. LocksHeld'
    BY <2>0 DEF SL!wakeup
  <2>3. Arguments'
    BY <2>0 DEF SL!wakeup
  <2>4. Pointers'
    BY <2>0 DEF SL!wakeup
  <2>5. FoundStays'
    BY <2>0 DEF SL!wakeup
  <2>6. Due'
    BY SMTT(30), <2>0 DEF SL!wakeup
  <2> QED
    BY <2>1, <2>2, <2>3, <2>4, <2>5, <2>6
<1>2. CASE SL!wakeupLockR(w)
  BY <1>2 DEF SL!wakeupLockR
<1>3. CASE SL!wakeupRead(w)
  BY <1>3 DEF SL!wakeupRead
<1>4. CASE SL!wakeupLockP(w)
  BY <1>4 DEF SL!wakeupLockP
<1>5. CASE SL!wakeupReady(w)
  BY <1>5 DEF SL!wakeupReady
<1>6. CASE SL!wakeupUnlockP(w)
  BY SMTT(30), <1>6 DEF SL!wakeupUnlockP
<1>7. CASE SL!wakeupUnlockR(w)
  <2>1. SL!TypeOK'
    BY <1>7 DEF SL!wakeupUnlockR
  <2>2. LocksHeld'
    BY SMTT(30), <1>7 DEF SL!wakeupUnlockR
  <2>3. Arguments'
    BY <1>7 DEF SL!wakeupUnlockR
  <2>4. Pointers'
    BY <1>7 DEF SL!wakeupUnlockR
  <2>5. FoundStays'
    BY <1>7 DEF SL!wakeupUnlockR
  <2>6. Due'
    BY <1>7 DEF SL!wakeupUnlockR
  <2> QED
    BY <2>1, <2>2, <2>3, <2>4, <2>5, <2>6
<1> HIDE DEF SleepInv
<1> QED
  BY <1>1, <1>2, <1>3, <1>4, <1>5, <1>6, <1>7
  DEF SL!wakeupStep, SL!wakeupLock

\* Every step of postnote, its retry included, keeps the invariant.
LEMMA postnoteKeeps ==
    ASSUME SL!SleepAssumption, SleepInv, NEW n \in Poster,
           \/ \E p \in Proc : SL!postnote(n, p)
           \/ SL!postnoteStep(n) \/ SL!postnoteLock(n)
    PROVE  SleepInv'
<1> USE DEF SL!TypeOK, LocksHeld, Arguments, Pointers, FoundStays, Due, SleepInv
<1>1. CASE \E p \in Proc : SL!postnote(n, p)
  BY <1>1 DEF SL!postnote
<1>2. CASE SL!postnoteLockP(n)
  BY <1>2 DEF SL!postnoteLockP
<1>3. CASE SL!postnoteRead(n)
  <2>1. SL!TypeOK'
    BY <1>3 DEF SL!postnoteRead
  <2>2. LocksHeld'
    BY <1>3 DEF SL!postnoteRead
  <2>3. Arguments'
    BY <1>3 DEF SL!postnoteRead
  <2>4. Pointers'
    BY <1>3 DEF SL!postnoteRead
  <2>5. FoundStays'
    BY <1>3 DEF SL!postnoteRead
  <2>6. Due'
    BY <1>3 DEF SL!postnoteRead
  <2> QED
    BY <2>1, <2>2, <2>3, <2>4, <2>5, <2>6
<1>4. CASE SL!postnoteTry(n)
  <2>1. CASE SL!Goto(n, "n_try", "n_ready") /\ SL!Lock(lk, rv[n], n)
    BY <1>4, <2>1 DEF SL!postnoteTry
  <2>2. CASE SL!Goto(n, "n_try", "n_again") /\ UNCHANGED lk
    BY <1>4, <2>2 DEF SL!postnoteTry
  <2> QED
    BY <1>4, <2>1, <2>2 DEF SL!postnoteTry
<1>5. CASE SL!postnoteAgain(n)
  BY <1>5 DEF SL!postnoteAgain
<1>6. CASE SL!postnoteReady(n)
  BY <1>6 DEF SL!postnoteReady
<1>7. CASE SL!postnoteUnlockR(n)
  BY SMTT(30), <1>7 DEF SL!postnoteUnlockR
<1>8. CASE SL!postnoteUnlockP(n)
  <2>1. SL!TypeOK'
    BY <1>8 DEF SL!postnoteUnlockP
  <2>2. LocksHeld'
    BY <1>8 DEF SL!postnoteUnlockP
  <2>3. Arguments'
    BY <1>8 DEF SL!postnoteUnlockP
  <2>4. Pointers'
    BY <1>8 DEF SL!postnoteUnlockP
  <2>5. FoundStays'
    BY <1>8 DEF SL!postnoteUnlockP
  <2>6. Due'
    BY <1>8 DEF SL!postnoteUnlockP
  <2> QED
    BY <2>1, <2>2, <2>3, <2>4, <2>5, <2>6
<1> HIDE DEF SleepInv
<1> QED
  BY <1>1, <1>2, <1>3, <1>4, <1>5, <1>6, <1>7, <1>8
  DEF SL!postnoteStep, SL!postnoteLock

\* The initial state satisfies the invariant.
LEMMA SleepInitially ==
    ASSUME SL!SleepAssumption PROVE SL!Init => SleepInv
BY DEF SL!Init, SleepInv, SL!TypeOK, LocksHeld, Arguments, Pointers,
  FoundStays, Due

\* The invariant is inductive.
LEMMA SleepKept ==
    ASSUME SL!SleepAssumption PROVE SleepInv /\ [SL!Next]_SL!vars => SleepInv'
<1> SUFFICES ASSUME SleepInv, [SL!Next]_SL!vars PROVE SleepInv'
  OBVIOUS
<1>1. CASE SL!Next
  BY <1>1, sleepKeeps, wakeupKeeps, postnoteKeeps DEF SL!Next
<1>2. CASE UNCHANGED SL!vars
  BY <1>2 DEF SL!vars, SleepInv, SL!TypeOK, LocksHeld, Arguments, Pointers,
    FoundStays, Due
<1> QED
  BY <1>1, <1>2

\* The invariant holds in every reachable state of sleep, wakeup and
\* postnote.
THEOREM SleepInvariant ==
    ASSUME SL!SleepAssumption PROVE SL!Spec => []SleepInv
BY SleepInitially, SleepKept, PTL DEF SL!Spec

-----------------------------------------------------------------------------
\* The variables of sleep, wakeup and postnote keep their types.
THEOREM SleepTypes ==
    ASSUME SL!SleepAssumption PROVE SL!Spec => []SleepTypeOK
<1>1. SleepInv => SleepTypeOK
  BY DEF SleepInv, SleepTypeOK
<1> QED
  BY <1>1, SleepInvariant, PTL

\* No panic of wakeup or postnote is reached: the state they find under the
\* locks is the one they expect.
THEOREM NeverPanics ==
    ASSUME SL!SleepAssumption PROVE SL!Spec => []NoPanic
<1>1. SleepInv => NoPanic
  BY DEF SleepInv, SL!TypeOK, LocksHeld, Arguments, Pointers, FoundStays,
    NoPanic, SL!NoPanic
<1> QED
  BY <1>1, SleepInvariant, PTL

\* r->p and p->r agree whenever the lock of r is free.
THEOREM PointersAgree ==
    ASSUME SL!SleepAssumption PROVE SL!Spec => []RendezSync
<1>1. SleepInv => RendezSync
  BY DEF SleepInv, SL!TypeOK, LocksHeld, Arguments, Pointers, RendezSync, SL!RendezSync
<1> QED
  BY <1>1, SleepInvariant, PTL

\* No process sleeps on a true condition that nobody will wake it for.
THEOREM WakeupsKept ==
    ASSUME SL!SleepAssumption PROVE SL!Spec => []NoLostWakeup
<1>1. SleepInv => NoLostWakeup
  BY DEF SleepInv, SL!TypeOK, Pointers, Due, NoLostWakeup, SL!NoLostWakeup
<1> QED
  BY <1>1, SleepInvariant, PTL

\* No process sleeps on a pending note that nobody will pull it out for.
THEOREM NotesKept ==
    ASSUME SL!SleepAssumption PROVE SL!Spec => []NoLostNote
<1>1. SleepInv => NoLostNote
  BY DEF SleepInv, SL!TypeOK, Pointers, Due, NoLostNote, SL!NoLostNote
<1> QED
  BY <1>1, SleepInvariant, PTL

-----------------------------------------------------------------------------
\* A step of sleep is an atomic Sleep, Consume or TakeNote, or changes
\* nothing its callers can see.
LEMMA sleepRefines ==
    ASSUME SL!SleepAssumption, SleepInv, NEW p \in Proc,
           \/ \E r \in Rend : SL!sleep(p, r)
           \/ \E r \in Rend : SL!consume(p, r)
           \/ SL!sleepStep(p) \/ SL!sleepLock(p)
    PROVE  [SL!R!Next]_(SL!R!vars)
<1> USE DEF SleepInv, SL!TypeOK
<1>1. CASE \E r \in Rend : SL!consume(p, r)
  <2>1. PICK r \in Rend : SL!consume(p, r)
    BY <1>1
  <2>2. SL!R!Consume(r)
    BY <2>1 DEF SL!consume, SL!R!Consume, SL!Waking, SL!Posting
  <2> QED
    BY <2>2 DEF SL!R!Next
<1>2. CASE SL!sleepCommit(p)
  <2>1. SL!R!Sleep(p, rv[p])
    BY <1>2 DEF SL!sleepCommit, SL!R!Sleep, SL!Waking, SL!Posting, Arguments,
      Pointers, Due
  <2> QED
    BY <1>2, <2>1 DEF SL!R!Next, SL!sleepCommit, Arguments
<1>3. CASE SL!sleepReturn(p)
  <2>1. SL!R!TakeNote(p)
    BY <1>3 DEF SL!sleepReturn, SL!R!TakeNote, SL!Waking, SL!Posting, Pointers
  <2> QED
    BY <2>1 DEF SL!R!Next
<1>4. CASE \/ \E r \in Rend : SL!sleep(p, r)
           \/ SL!sleepLock(p) \/ SL!sleepSet(p)
           \/ SL!sleepNote(p) \/ SL!sleepNever(p)
           \/ SL!sleepBack(p) \/ SL!sleepUnlockP(p) \/ SL!sleepUnlockR(p)
           \/ SL!sleepResume(p)
  <2>1. UNCHANGED SL!R!vars
    BY <1>4 DEF SL!sleep, SL!sleepLock, SL!sleepLockR, SL!sleepLockP,
      SL!sleepSet, SL!sleepNote,
      SL!sleepNever, SL!sleepBack, SL!sleepUnlockP, SL!sleepUnlockR,
      SL!sleepResume,
      SL!R!vars, SL!Waking, SL!Posting
  <2> QED
    BY <2>1
<1> HIDE DEF SleepInv, SL!TypeOK
<1> QED
  BY <1>1, <1>2, <1>3, <1>4 DEF SL!sleepStep

\* A step of wakeup is its call, its effect, or changes nothing its callers
\* can see.
LEMMA wakeupRefines ==
    ASSUME SL!SleepAssumption, SleepInv, NEW w \in Waker,
           \/ \E r \in Rend : SL!wakeup(w, r)
           \/ SL!wakeupStep(w) \/ SL!wakeupLock(w)
    PROVE  [SL!R!Next]_(SL!R!vars)
<1> USE DEF SleepInv, SL!TypeOK
<1>1. CASE \E r \in Rend : SL!wakeup(w, r)
  <2>1. PICK r \in Rend : SL!wakeup(w, r)
    BY <1>1
  <2>2. SL!R!CallWakeup(w, r)
    BY <2>1 DEF SL!wakeup, SL!R!CallWakeup, SL!Waking, SL!Posting
  <2> QED
    BY <2>2 DEF SL!R!Next
<1>2. CASE SL!wakeupRead(w) /\ rp[rv[w]] = nil
  <2>1. SL!Waking[w] = rv[w] /\ rv[w] \in Rend
    BY <1>2 DEF SL!wakeupRead, SL!Waking, Arguments
  <2>2. \A q \in Proc : pr[q] # rv[w]
    BY <1>2, <2>1 DEF Pointers
  <2>3. SL!Waking' = [SL!Waking EXCEPT ![w] = nil] /\ UNCHANGED SL!Posting
    BY ZenonT(40), <1>2 DEF SL!wakeupRead, SL!Waking, SL!Posting
  <2>4. pr' = [q \in Proc |-> IF pr[q] = SL!Waking[w] THEN nil ELSE pr[q]]
    BY <1>2, <2>1, <2>2 DEF SL!wakeupRead
  <2>5. SL!R!Wakeup(w)
    BY <1>2, <2>1, <2>3, <2>4 DEF SL!wakeupRead, SL!R!Wakeup
  <2> QED
    BY <2>5 DEF SL!R!Next
<1>3. CASE SL!wakeupReady(w)
  <2>1. SL!Waking[w] = rv[w] /\ rv[w] \in Rend
    BY <1>3 DEF SL!wakeupReady, SL!Waking, Arguments
  <2>2. /\ pv[w] \in Proc /\ pr[pv[w]] = rv[w]
        /\ \A q \in Proc : pr[q] = rv[w] => q = pv[w]
    BY <1>3, <2>1 DEF SL!wakeupReady, Arguments, Pointers, FoundStays, LocksHeld
  <2>3. SL!Waking' = [SL!Waking EXCEPT ![w] = nil] /\ UNCHANGED SL!Posting
    BY <1>3 DEF SL!wakeupReady, SL!Waking, SL!Posting
  <2>4. pr' = [q \in Proc |-> IF pr[q] = SL!Waking[w] THEN nil ELSE pr[q]]
    BY <1>3, <2>1, <2>2 DEF SL!wakeupReady
  <2>5. SL!R!Wakeup(w)
    BY <1>3, <2>1, <2>3, <2>4 DEF SL!wakeupReady, SL!R!Wakeup
  <2> QED
    BY <2>5 DEF SL!R!Next
<1>4. CASE \/ SL!wakeupLock(w)
           \/ SL!wakeupRead(w) /\ rp[rv[w]] # nil
           \/ SL!wakeupUnlockP(w) \/ SL!wakeupUnlockR(w)
  <2>1. UNCHANGED SL!R!vars
    BY <1>4 DEF SL!wakeupLock, SL!wakeupLockR, SL!wakeupLockP, SL!wakeupRead,
      SL!wakeupUnlockP, SL!wakeupUnlockR, SL!R!vars, SL!Waking, SL!Posting
  <2> QED
    BY <2>1
<1> HIDE DEF SleepInv, SL!TypeOK
<1> QED
  BY <1>1, <1>2, <1>3, <1>4 DEF SL!wakeupStep

\* A step of postnote is its call, its effect, or changes nothing its callers
\* can see; its retries are invisible.
LEMMA postnoteRefines ==
    ASSUME SL!SleepAssumption, SleepInv, NEW n \in Poster,
           \/ \E p \in Proc : SL!postnote(n, p)
           \/ SL!postnoteStep(n) \/ SL!postnoteLock(n)
    PROVE  [SL!R!Next]_(SL!R!vars)
<1> USE DEF SleepInv, SL!TypeOK
<1>1. CASE \E p \in Proc : SL!postnote(n, p)
  <2>1. PICK p \in Proc : SL!postnote(n, p)
    BY <1>1
  <2>2. SL!R!CallPostnote(n, p)
    BY <2>1 DEF SL!postnote, SL!R!CallPostnote, SL!Waking, SL!Posting
  <2> QED
    BY <2>2 DEF SL!R!Next
<1>2. CASE SL!postnoteRead(n) /\ pr[pv[n]] = nil
  <2>1. SL!R!Postnote(n)
    <3>1. SL!Posting[n] = pv[n] /\ pv[n] \in Proc
      BY <1>2 DEF SL!postnoteRead, SL!Posting, Arguments
    <3>2. SL!Posting' = [SL!Posting EXCEPT ![n] = nil] /\ UNCHANGED SL!Waking
      BY ZenonT(40), <1>2 DEF SL!postnoteRead, SL!Waking, SL!Posting
    <3>3. pr' = [pr EXCEPT ![SL!Posting[n]] = nil]
      BY <1>2, <3>1 DEF SL!postnoteRead
    <3> QED
      BY <1>2, <3>1, <3>2, <3>3 DEF SL!postnoteRead, SL!R!Postnote
  <2> QED
    BY <2>1 DEF SL!R!Next
<1>3. CASE SL!postnoteReady(n)
  <2>1. SL!R!Postnote(n)
    BY <1>3 DEF SL!postnoteReady, SL!R!Postnote, SL!Waking, SL!Posting,
      Arguments
  <2> QED
    BY <2>1 DEF SL!R!Next
<1>4. CASE \/ SL!postnoteLock(n)
           \/ SL!postnoteRead(n) /\ pr[pv[n]] # nil
           \/ SL!postnoteTry(n) \/ SL!postnoteAgain(n)
           \/ SL!postnoteUnlockR(n) \/ SL!postnoteUnlockP(n)
  <2>1. UNCHANGED SL!R!vars
    BY <1>4 DEF SL!postnoteLock, SL!postnoteLockP, SL!postnoteRead,
      SL!postnoteTry,
      SL!postnoteAgain, SL!postnoteUnlockR, SL!postnoteUnlockP, SL!R!vars,
      SL!Waking, SL!Posting
  <2> QED
    BY <2>1
<1> HIDE DEF SleepInv, SL!TypeOK
<1> QED
  BY <1>1, <1>2, <1>3, <1>4 DEF SL!postnoteStep

\* sleep, wakeup and postnote, with their locks and retries, implement the
\* atomic Rendez.
THEOREM SleepRefines ==
    ASSUME SL!SleepAssumption PROVE SL!Spec => ImplementsRendez
<1>1. SL!Init => SL!R!Init
  BY DEF SL!Init, SL!R!Init, SL!Waking, SL!Posting
<1>2. SleepInv /\ [SL!Next]_SL!vars => [SL!R!Next]_(SL!R!vars)
  <2> SUFFICES ASSUME SleepInv, [SL!Next]_SL!vars PROVE [SL!R!Next]_(SL!R!vars)
    OBVIOUS
  <2>1. CASE SL!Next
    BY <2>1, sleepRefines, wakeupRefines, postnoteRefines DEF SL!Next
  <2>2. CASE UNCHANGED SL!vars
    BY <2>2 DEF SL!vars, SL!R!vars, SL!Waking, SL!Posting
  <2> QED
    BY <2>1, <2>2
<1> QED
  BY <1>1, <1>2, SleepInvariant, PTL DEF SL!Spec, ImplementsRendez,
    SL!ImplementsRendez, SL!R!Spec

=============================================================================
