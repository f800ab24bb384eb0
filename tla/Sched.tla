------------------------------- MODULE Sched -------------------------------
(***************************************************************************)
(* The multiprocessor scheduler (port/proc.c): schedinit, sched, ready,    *)
(* dequeueproc, rebalance, runproc, hzsched, preempted, yield, newproc,    *)
(* procwired and procpriority.                                             *)
(*                                                                         *)
(* Each Mach runs in one of two contexts: that of the process up, or, with *)
(* interrupts off, that of schedinit on its own stack, which takes care of *)
(* the process just left and looks for the next one.  runq is searched     *)
(* without its lock; dequeueproc takes the lock, finds the process again,  *)
(* and refuses one whose p->mach says that it is still on a stack.  ready  *)
(* takes the lock when it has picked a priority, and procpriority never    *)
(* does, so that the second may come while another Mach is in the first.   *)
(***************************************************************************)
EXTENDS Integers, Sequences, FiniteSets, SequencesExt

CONSTANTS Mach,        \* the processors
          Proc,        \* the Proc structures
          Kproc,       \* the processes that never exit
          Ctl,         \* the processes somebody wires or gives a priority
          Nrq,         \* the number of priority levels
          Quanta,      \* quanta[pri]
          SlowBury,    \* a Mach may stall in schedinit after the unlocks
          nil

Pri == 0 .. Nrq - 1

ASSUME SchedAssumption ==
    /\ IsFiniteSet(Proc)
    /\ Nrq \in Nat \ {0}
    /\ Quanta \in [Pri -> Nat \ {0}]
    /\ Kproc \subseteq Proc
    /\ Ctl \subseteq Proc
    /\ SlowBury \in BOOLEAN
    /\ nil \notin Mach \cup Proc

VARIABLES
    \* fields of Proc
    state, mach, mp, wired, priority, basepri, fixedpri,
    quanta,     \* p->quanta, never below 0: only "<= 0" is ever tested
    \* the run queue
    runq,       \* the list of each level, head first
    runvec,     \* the levels whose bit is set
    nrdy,
    \* the free list
    free, palock,   \* procalloc.free and the holder of procalloc and palloc
    \* registers of each Mach
    pc, up, tp, rq,
    \* ready on each Mach: the process, or nil, and what it has picked for it
    rdy, rdypri,
    \* history: whose priority was set while ready had picked another
    overtaken

procVars == <<state, mach, mp, wired, priority, basepri, fixedpri, quanta>>
params == <<basepri, fixedpri>>
queueVars == <<runq, runvec, nrdy>>
allocVars == <<free, palock>>
calls == <<rdy, rdypri, overtaken>>
vars == <<procVars, queueVars, allocVars, pc, up, tp, rq, calls>>

ProcState == {"Dead", "Moribund", "Ready", "Scheding", "Running", "Wakeme"}

\* Every process of Kproc has been started, with a base priority b, and is
\* ready; the others are free.
Init ==
    \E order \in SetToSeqs(Kproc), frees \in SetToSeqs(Proc \ Kproc),
       b \in Pri :
        /\ state = [p \in Proc |-> IF p \in Kproc THEN "Ready" ELSE "Dead"]
        /\ mach = [p \in Proc |-> nil]
        /\ mp = [p \in Proc |-> nil]
        /\ wired = [p \in Proc |-> nil]
        /\ priority = [p \in Proc |-> b]
        /\ basepri = [p \in Proc |-> b]
        /\ fixedpri = [p \in Proc |-> FALSE]
        /\ quanta = [p \in Proc |-> Quanta[b]]
        /\ runq = [i \in Pri |-> IF i = b THEN order ELSE <<>>]
        /\ runvec = IF Kproc = {} THEN {} ELSE {b}
        /\ nrdy = Len(order)
        /\ free = frees
        /\ palock = nil
        /\ pc = [m \in Mach |-> "loop"]
        /\ up = [m \in Mach |-> nil]
        /\ tp = [m \in Mach |-> nil]
        /\ rq = [m \in Mach |-> 0]
        /\ rdy = [m \in Mach |-> nil]
        /\ rdypri = [m \in Mach |-> 0]
        /\ overtaken = {}

\* m is there, and not in ready.
at(m, place) == pc[m] = place /\ rdy[m] = nil

Goto(m, from, to) == at(m, from) /\ pc' = [pc EXCEPT ![m] = to]

-----------------------------------------------------------------------------
(***************************************************************************)
(* ready(p) on Mach m, with interrupts off, is two steps: a new priority   *)
(* and quantum from what p has now; then p->priority is written and p put  *)
(* onto the tail of the queue, under the lock of runq.  (The write comes   *)
(* just before the lock; nobody looks at the priority of a process that is *)
(* neither queued nor running, and one who sets it before the lock is      *)
(* taken leaves what one does who sets it after.)                          *)
(***************************************************************************)
\* Mutant: fixed priority processes move like the others.
newPriorityMoving(p, used) ==
    LET pri == priority[p] IN
    IF state[p] = "Running"
    THEN IF used <= 0 /\ pri > 0 THEN pri - 1 ELSE pri
    ELSE IF used > Quanta[pri] \div 2
         THEN IF pri + 1 > basepri[p] THEN basepri[p] ELSE pri + 1
         ELSE pri

newPriority(p, used) ==
    LET pri == priority[p] IN
    IF fixedpri[p] THEN basepri[p]
    ELSE IF state[p] = "Running"
         THEN IF used <= 0 /\ pri > 0 THEN pri - 1 ELSE pri
         ELSE IF used > Quanta[pri] \div 2
              THEN IF pri + 1 > basepri[p] THEN basepri[p] ELSE pri + 1
              ELSE pri

\* A fixed priority process gets HZ ticks, whose number is never looked at.
newQuanta(p, used, pri) ==
    IF state[p] = "Running" /\ ~fixedpri[p] /\ used > 0 THEN used
    ELSE Quanta[pri]

\* used is p->quanta as ready finds it.
ready(m, p, used) ==
    LET pri == newPriority(p, used) IN
    /\ rdy' = [rdy EXCEPT ![m] = p]
    /\ rdypri' = [rdypri EXCEPT ![m] = pri]
    /\ quanta' = [quanta EXCEPT ![p] = newQuanta(p, used, pri)]
    /\ UNCHANGED <<state, priority, queueVars, overtaken>>

readyQueue(m) ==
    LET p == rdy[m]  pri == rdypri[m] IN
    /\ p # nil
    /\ priority' = [priority EXCEPT ![p] = pri]
    /\ runq' = [runq EXCEPT ![pri] = Append(@, p)]
    /\ runvec' = runvec \cup {pri}
    /\ nrdy' = nrdy + 1
    /\ state' = [state EXCEPT ![p] = "Ready"]
    /\ rdy' = [rdy EXCEPT ![m] = nil]
    /\ rdypri' = [rdypri EXCEPT ![m] = 0]
    /\ overtaken' = overtaken \ {p}
    /\ UNCHANGED <<mach, mp, wired, params, quanta, allocVars, pc, up, tp, rq>>

(***************************************************************************)
(* dequeueproc(rq, tp), for Mach m.  It also fails if another Mach is in a *)
(* critical section of runq when it calls canlock.                         *)
(***************************************************************************)
\* Mutant: p->mach is not looked at.
canDequeueLive(m) == tp[m] \in ToSet(runq[rq[m]])

canDequeue(m) ==
    /\ tp[m] \in ToSet(runq[rq[m]])                  \* p != 0
    /\ mach[tp[m]] = nil                             \* p->mach == 0

\* Mutant: the level is that of the process instead of that of the queue.
dequeueprocLevel(m) ==
    LET i == rq[m]
        rest == RemoveFirst(runq[i], tp[m]) IN
    /\ runq' = [runq EXCEPT ![i] = rest]
    /\ runvec' = IF rest = <<>> THEN runvec \ {priority[tp[m]]} ELSE runvec
    /\ nrdy' = nrdy - 1

dequeueproc(m) ==
    LET i == rq[m]
        rest == RemoveFirst(runq[i], tp[m]) IN
    /\ runq' = [runq EXCEPT ![i] = rest]
    /\ runvec' = IF rest = <<>> THEN runvec \ {i} ELSE runvec
    /\ nrdy' = nrdy - 1

anyready == runvec # {}
anyhigher(p) == \E i \in runvec : i > priority[p]

-----------------------------------------------------------------------------
(***************************************************************************)
(* The process on m calls, or is interrupted into, sched().  sched saves   *)
(* it and jumps to schedinit; with spin locks held it returns at once,     *)
(* which is a step that changes nothing but the quantum.                   *)
(***************************************************************************)
sched(m) == Goto(m, "run", "switch")

hzsched(m) ==
    LET p == up[m] IN
    /\ at(m, "run")
    /\ quanta' = [quanta EXCEPT ![p] = IF @ > 0 THEN @ - 1 ELSE 0]
    /\ \/ /\ anyhigher(p) \/ (~fixedpri[p] /\ anyready)
          /\ sched(m)
       \/ UNCHANGED pc          \* nobody is eligible, or up->nlocks != 0
    /\ UNCHANGED <<state, mach, mp, wired, priority, params,
                   queueVars, allocVars, up, tp, rq, calls>>

preempted(m) ==
    /\ sched(m)
    /\ anyhigher(up[m])
    /\ UNCHANGED <<procVars, queueVars, allocVars, up, tp, rq, calls>>

yield(m) ==
    /\ anyready
    /\ sched(m)
    /\ quanta' = [quanta EXCEPT ![up[m]] = 0]
    /\ UNCHANGED <<state, mach, mp, wired, priority, params,
                   queueVars, allocVars, up, tp, rq, calls>>

\* The process blocks: sleep, qlock, ... set up->state and then get here.
block(m) ==
    /\ sched(m)
    /\ state' = [state EXCEPT ![up[m]] = "Wakeme"]
    /\ UNCHANGED <<mach, mp, wired, priority, params, quanta,
                   queueVars, allocVars, up, tp, rq, calls>>

\* The end of pexit: the locks are taken and only schedinit drops them.
pexit(m) ==
    /\ up[m] \notin Kproc
    /\ palock = nil
    /\ palock' = m
    /\ sched(m)
    /\ state' = [state EXCEPT ![up[m]] = "Moribund"]
    /\ UNCHANGED <<mach, mp, wired, priority, params, quanta,
                   queueVars, free, up, tp, rq, calls>>

\* The process on m, or an interrupt on m, readies a blocked process, be it
\* still on its way into schedinit.  Who does so has taken it off whatever it
\* was waiting at: nobody else readies it, too.
wake(m, q) ==
    /\ at(m, "run") \/ at(m, "loop")
    /\ state[q] = "Wakeme"
    /\ \A n \in Mach : rdy[n] # q
    /\ ready(m, q, quanta[q])
    /\ UNCHANGED <<mach, mp, wired, params, allocVars, pc,
                   up, tp, rq>>

\* sysrfork(): newproc takes a Proc off the free list and sets it up; the
\* child gets the base priority, the affinity and the wiring of its parent.
newproc(m) ==
    LET p == Head(free)  parent == up[m] IN
    /\ palock = nil
    /\ free # <<>>
    /\ Goto(m, "run", "fork")
    /\ free' = Tail(free)
    /\ tp' = [tp EXCEPT ![m] = p]
    /\ state' = [state EXCEPT ![p] = "Scheding"]
    /\ mach' = [mach EXCEPT ![p] = nil]
    /\ wired' = [wired EXCEPT ![p] = wired[parent]]
    /\ mp' = [mp EXCEPT ![p] = IF wired[parent] = nil THEN mp[parent]
                               ELSE wired[parent]]
    /\ basepri' = [basepri EXCEPT ![p] = basepri[parent]]
    /\ priority' = [priority EXCEPT ![p] = basepri[parent]]
    /\ fixedpri' = [fixedpri EXCEPT ![p] = fixedpri[parent]]
    /\ quanta' = [quanta EXCEPT ![p] = Quanta[Nrq - 1]]
    /\ UNCHANGED <<queueVars, palock, up, rq, calls>>

\* The end of sysrfork: ready(p); sched().
sysrfork(m) ==
    /\ Goto(m, "fork", "switch")
    /\ ready(m, tp[m], quanta[tp[m]])
    /\ tp' = [tp EXCEPT ![m] = nil]
    /\ UNCHANGED <<mach, mp, wired, params, allocVars, up, rq>>

\* The process on m writes "wired" or "pri" to the ctl file of p.
procwired(m, p, wm) ==
    /\ at(m, "run")
    /\ state[p] # "Dead"
    /\ wired' = [wired EXCEPT ![p] = wm]
    /\ mp' = [mp EXCEPT ![p] = wm]
    /\ UNCHANGED <<state, mach, priority, params, quanta, queueVars,
                   allocVars, pc, up, tp, rq, calls>>

procpriority(m, p, pri, fixed) ==
    /\ at(m, "run")
    /\ state[p] # "Dead"
    /\ basepri' = [basepri EXCEPT ![p] = pri]
    /\ priority' = [priority EXCEPT ![p] = pri]
    /\ fixedpri' = [fixedpri EXCEPT ![p] = fixed]
    /\ quanta' = [quanta EXCEPT ![p] = Quanta[pri]]
    /\ overtaken' = overtaken \cup {q \in {p} : \E n \in Mach : rdy[n] = q}
    /\ UNCHANGED <<state, mach, mp, wired, queueVars,
                   allocVars, pc, up, tp, rq, rdy, rdypri>>

-----------------------------------------------------------------------------
(***************************************************************************)
(* schedinit on Mach m, from the label m->sched on: what becomes of the    *)
(* process just left.                                                      *)
(***************************************************************************)
schedinitReady(m) ==                                    \* case Running
    /\ Goto(m, "switch", "clear")
    /\ state[up[m]] = "Running"
    /\ ready(m, up[m], quanta[up[m]])
    /\ UNCHANGED <<mach, mp, wired, params, allocVars, up, tp,
                   rq>>

\* case Moribund: the Proc is free as soon as procalloc is unlocked, yet
\* up->mach is still to be cleared.
schedinitBury(m) ==
    LET p == up[m] IN
    /\ Goto(m, "switch", IF SlowBury THEN "clear" ELSE "loop")
    /\ state[p] = "Moribund"
    /\ state' = [state EXCEPT ![p] = "Dead"]
    /\ free' = <<p>> \o free
    /\ palock' = nil
    /\ IF SlowBury
       THEN UNCHANGED <<mach, up>>
       ELSE /\ mach' = [mach EXCEPT ![p] = nil]
            /\ up' = [up EXCEPT ![m] = nil]
    /\ UNCHANGED <<mp, wired, priority, params, quanta, queueVars, tp, rq, calls>>

schedinitLeave(m) ==                                    \* any other state
    /\ Goto(m, "switch", "clear")
    /\ state[up[m]] \notin {"Running", "Moribund"}
    /\ UNCHANGED <<procVars, queueVars, allocVars, up, tp, rq, calls>>

schedinitClear(m) ==                         \* up->mach = 0; up = nil
    /\ Goto(m, "clear", "loop")
    /\ mach' = [mach EXCEPT ![up[m]] = nil]
    /\ up' = [up EXCEPT ![m] = nil]
    /\ UNCHANGED <<state, mp, wired, priority, params, quanta,
                   queueVars, allocVars, tp, rq, calls>>

-----------------------------------------------------------------------------
(***************************************************************************)
(* runproc on Mach m.  Every tenth time rebalance first moves up heads of  *)
(* queues that have waited long; when that is, is left open.               *)
(***************************************************************************)
rebalance(m, i) ==
    LET p == Head(runq[i]) IN
    /\ runq[i] # <<>>
    /\ mp[p] = m
    /\ priority[p] # basepri[p]
    /\ Goto(m, "loop", "moveup")
    /\ tp' = [tp EXCEPT ![m] = p]
    /\ rq' = [rq EXCEPT ![m] = i]
    /\ UNCHANGED <<procVars, queueVars, allocVars, up, calls>>

rebalanceDequeue(m) ==
    /\ \/ /\ canDequeue(m)
          /\ dequeueproc(m)
          /\ Goto(m, "moveup", "moved")
          /\ UNCHANGED tp
       \/ /\ Goto(m, "moveup", "loop")
          /\ tp' = [tp EXCEPT ![m] = nil]
          /\ UNCHANGED queueVars
    /\ UNCHANGED <<procVars, allocVars, up, rq, calls>>

rebalanceReady(m) ==
    /\ Goto(m, "moved", "loop")
    /\ ready(m, tp[m], Quanta[priority[tp[m]]])
    /\ tp' = [tp EXCEPT ![m] = nil]
    /\ UNCHANGED <<mach, mp, wired, params, allocVars, up, rq>>

\* The affinity test; again tells the first time round from the others.
canRun(m, p, again) ==
    mp[p] = nil \/ mp[p] = m \/ (wired[p] = nil /\ again)

\* The first process of the highest queue that m can run.
runprocFind(m) ==
    \E again \in BOOLEAN, i \in Pri : \E k \in DOMAIN runq[i] :
        /\ canRun(m, runq[i][k], again)
        /\ \A j \in Pri : \A l \in DOMAIN runq[j] :
             canRun(m, runq[j][l], again) => j < i \/ (j = i /\ l >= k)
        /\ Goto(m, "loop", "found")
        /\ tp' = [tp EXCEPT ![m] = runq[i][k]]
        /\ rq' = [rq EXCEPT ![m] = i]
        /\ UNCHANGED <<procVars, queueVars, allocVars, up, calls>>

runprocDequeue(m) ==
    /\ \/ /\ canDequeue(m)
          /\ dequeueproc(m)
          /\ Goto(m, "found", "picked")
          /\ UNCHANGED tp
       \/ /\ Goto(m, "found", "loop")
          /\ tp' = [tp EXCEPT ![m] = nil]
          /\ UNCHANGED queueVars
    /\ UNCHANGED <<procVars, allocVars, up, rq, calls>>

runprocTake(m) ==           \* p->state = Scheding; p->mp = MACHP(...)
    /\ Goto(m, "picked", "resume")
    /\ state' = [state EXCEPT ![tp[m]] = "Scheding"]
    /\ mp' = [mp EXCEPT ![tp[m]] = m]
    /\ UNCHANGED <<mach, wired, priority, params, quanta, queueVars,
                   allocVars, up, tp, rq, calls>>

\* Mutant: p->mach is not set.
schedResumeUnmarked(m) ==
    /\ Goto(m, "resume", "run")
    /\ up' = [up EXCEPT ![m] = tp[m]]
    /\ tp' = [tp EXCEPT ![m] = nil]
    /\ state' = [state EXCEPT ![tp[m]] = "Running"]
    /\ UNCHANGED <<mach, mp, wired, priority, params, quanta, queueVars,
                   allocVars, rq, calls>>

\* The rest of sched.
schedResume(m) ==
    /\ Goto(m, "resume", "run")
    /\ up' = [up EXCEPT ![m] = tp[m]]
    /\ tp' = [tp EXCEPT ![m] = nil]
    /\ state' = [state EXCEPT ![tp[m]] = "Running"]
    /\ mach' = [mach EXCEPT ![tp[m]] = m]
    /\ UNCHANGED <<mp, wired, priority, params, quanta, queueVars,
                   allocVars, rq, calls>>

-----------------------------------------------------------------------------
process(m) ==
    \/ hzsched(m) \/ preempted(m) \/ yield(m) \/ block(m) \/ pexit(m)
    \/ newproc(m) \/ sysrfork(m)
    \/ \E p \in Proc : wake(m, p)

control(m) == \E p \in Ctl :
    \/ \E wm \in Mach : procwired(m, p, wm)
    \/ \E pri \in Pri, fixed \in BOOLEAN : procpriority(m, p, pri, fixed)

schedinit(m) ==
    \/ schedinitReady(m) \/ schedinitBury(m) \/ schedinitLeave(m)
    \/ schedinitClear(m)
    \/ (\E i \in Pri : rebalance(m, i)) \/ rebalanceDequeue(m)
    \/ rebalanceReady(m)
    \/ runprocFind(m) \/ runprocDequeue(m) \/ runprocTake(m) \/ schedResume(m)

Next == \E m \in Mach :
    process(m) \/ schedinit(m) \/ control(m) \/ readyQueue(m)

Spec == Init /\ [][Next]_vars

-----------------------------------------------------------------------------
queued == UNION {ToSet(runq[i]) : i \in Pri}

\* The type of every variable of the scheduler.
TypeOK ==
    /\ state \in [Proc -> ProcState]
    /\ mach \in [Proc -> Mach \cup {nil}]
    /\ mp \in [Proc -> Mach \cup {nil}]
    /\ wired \in [Proc -> Mach \cup {nil}]
    /\ priority \in [Proc -> Pri]
    /\ basepri \in [Proc -> Pri]
    /\ fixedpri \in [Proc -> BOOLEAN]
    /\ quanta \in [Proc -> Nat]
    /\ runq \in [Pri -> Seq(Proc)]
    /\ runvec \subseteq Pri
    /\ nrdy \in Nat
    /\ free \in Seq(Proc)
    /\ palock \in Mach \cup {nil}
    /\ pc \in [Mach -> {"run", "fork", "switch", "clear", "loop", "moveup",
                        "moved", "found", "picked", "resume"}]
    /\ up \in [Mach -> Proc \cup {nil}]
    /\ tp \in [Mach -> Proc \cup {nil}]
    /\ rq \in [Mach -> Pri]
    /\ rdy \in [Mach -> Proc \cup {nil}]
    /\ rdypri \in [Mach -> Pri]
    /\ overtaken \subseteq Proc

\* The Machs whose stack pointer is, or is about to be, in the kernel stack
\* of p.
onStack(p) ==
    {m \in Mach : \/ up[m] = p /\ pc[m] \in {"run", "fork", "switch", "clear"}
                  \/ tp[m] = p /\ pc[m] \in {"picked", "resume"}}

\* A process is on the stack of one processor at a time, however early it is
\* woken after it decided to block.
OneMach ==
    \A p \in Proc : \A m1, m2 \in onStack(p) : m1 = m2

\* "p->mach==0 only when process state is saved": p->mach names the processor
\* that runs p, for as long as it does.
MachSaved ==
    \A m \in Mach : pc[m] \in {"run", "fork"} => mach[up[m]] = m

\* The run queue never loses nor repeats a process: those on it are ready and
\* on one queue, once; the ready ones are on it, but for the one a processor
\* has just taken off; and of those that ready has yet to put there, each is
\* with one processor and not already there.
QueueOnce ==
    /\ \A i, j \in Pri : \A k \in DOMAIN runq[i], l \in DOMAIN runq[j] :
         runq[i][k] = runq[j][l] => i = j /\ k = l
    /\ \A p \in Proc :
         LET there == \/ p \in queued
                      \/ \E m \in Mach : tp[m] = p /\ pc[m] \in {"moved", "picked"}
         IN  /\ there => state[p] = "Ready"
             /\ state[p] = "Ready" => there \/ \E m \in Mach : rdy[m] = p
    /\ \A m, n \in Mach : rdy[m] # nil =>
         rdy[m] \notin queued /\ (rdy[n] = rdy[m] => n = m)

\* What anyready, anyhigher and the load computation look at without a lock
\* is the truth about the queues, where nobody is twice.
Counters ==
    /\ runvec = {i \in Pri : runq[i] # <<>>}
    /\ nrdy = Cardinality(queued)

\* The run queue is sound: everything has its type, a ready process is queued
\* once, and runvec and nrdy, which are read without the lock, are right.
RunqOK == TypeOK /\ QueueOnce /\ Counters

\* A Proc on the free list is nobody's: not queued, not running, not about
\* to be run.
FreeIsFree ==
    \A p \in Proc :
        /\ state[p] = "Dead" <=> p \in ToSet(free)
        /\ p \in ToSet(free) => p \notin queued /\ onStack(p) = {}

\* The lists of processes, ready ones and free ones, hold whom they should.
ListsOK == RunqOK /\ FreeIsFree

\* ready's rules, for a process whose priority nobody sets meanwhile: a fixed
\* one is queued at its base priority, wherever it was before; another one
\* stays or goes down a level if it was running, and if it was not, stays or
\* goes up a level, not beyond its base priority, to which it comes back.
PriorityRules ==
    [][\A m \in Mach :
        LET p == rdy[m] IN
        p # nil /\ rdy'[m] = nil /\ p \notin overtaken =>
            IF fixedpri[p] THEN priority'[p] = basepri[p]
            ELSE \/ priority'[p] = priority[p]
                 \/ state[p] = "Running" /\ priority'[p] = priority[p] - 1
                 \/ /\ state[p] # "Running"
                    /\ priority'[p] = priority[p] + 1
                    /\ priority'[p] <= basepri[p]
                 \/ /\ state[p] # "Running"
                    /\ priority'[p] = basepri[p]
                    /\ basepri[p] < priority[p]]_vars

\* "fixed priority processes never move" (the comment on ready, proc.c:199):
\* they are at their base priority.  procpriority, between the two steps of
\* ready on another Mach, fixes one where ready then does not leave it.
FixedStays == \A p \in Proc : fixedpri[p] => priority[p] = basepri[p]

=============================================================================
