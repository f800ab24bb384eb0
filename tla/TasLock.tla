------------------------------ MODULE TasLock ------------------------------
(***************************************************************************)
(* Spin locks (port/taslock.c): lock, canlock and unlock, for processes,   *)
(* and ilock and iunlock, for processes and interrupt handlers.            *)
(*                                                                         *)
(* A process that holds a Lock must not lose its processor, or others spin *)
(* for it in vain: lock counts up->nlocks before it tries, and sched()     *)
(* returns at once while the count is not 0.  A lock that an interrupt     *)
(* handler takes as well must be held with interrupts off, or the handler  *)
(* spins for what it interrupted: that is what ilock does, which gives the *)
(* interrupts back while it spins.                                         *)
(*                                                                         *)
(* A thread is a process or the interrupt handler of a Mach.  A process    *)
(* holds one lock at a time; the handler takes one with ilock and returns. *)
(***************************************************************************)
EXTENDS Naturals, FiniteSets

CONSTANTS Mach,    \* the processors
          Proc,    \* the processes
          Lk,      \* the locks taken with lock and canlock
          ILk,     \* the locks taken with ilock
          off,     \* the process of a Mach that is not there
          nil

TasLockAssumption ==
    /\ IsFiniteSet(Mach)
    /\ Mach \cap Proc = {}
    /\ Lk \cap ILk = {}
    /\ nil \notin Mach \cup Proc \cup Lk \cup ILk
    /\ off \notin Proc \cup {nil}

VARIABLES
    key,        \* the thread that set l->key
    sr,         \* l->sr
    spl,        \* the priority level of each Mach
    up,         \* the process that each Mach runs
    ilockdepth, \* m->ilockdepth
    nlocks,     \* p->nlocks
    pc,         \* where each thread is
    lv,         \* the lock each thread is about
    x           \* the local x of ilock and sr of iunlock

vars == <<key, sr, spl, up, ilockdepth, nlocks, pc, lv, x>>
machs == <<sr, spl, up, ilockdepth>>

Init ==
    /\ key = [l \in Lk \cup ILk |-> nil]
    /\ sr = [l \in ILk |-> "lo"]
    /\ spl = [m \in Mach |-> "lo"]
    /\ up \in [Mach -> {nil, off}] /\ \E m \in Mach : up[m] = nil
    /\ ilockdepth = [m \in Mach |-> 0]
    /\ nlocks = [p \in Proc |-> 0]
    /\ pc = [a \in Proc \cup Mach |-> "idle"]
    /\ lv = [a \in Proc \cup Mach |-> nil]
    /\ x = [a \in Proc \cup Mach |-> "lo"]

Goto(a, from, to) == pc[a] = from /\ pc' = [pc EXCEPT ![a] = to]

\* conf.nmach: how many of the Machs there are.
nmach == Cardinality({m \in Mach : up[m] # off})

\* Process p runs on m, and no interrupt handler does.
runs(p, m) == up[m] = p /\ pc[m] = "idle"

count(p, n) == nlocks' = [nlocks EXCEPT ![p] = n]
tas(a) == key' = [key EXCEPT ![lv[a]] = a]
release(a) == key' = [key EXCEPT ![lv[a]] = nil]

-----------------------------------------------------------------------------
(***************************************************************************)
(* lock, canlock and unlock, by a process p on m.                          *)
(***************************************************************************)
lock(p, l) ==
    /\ Goto(p, "idle", "tas")
    /\ lv' = [lv EXCEPT ![p] = l]
    /\ count(p, nlocks[p] + 1)
    /\ UNCHANGED <<key, machs, x>>

lockTas(p) ==
    /\ pc[p] = "tas"
    /\ IF key[lv[p]] = nil
       THEN Goto(p, "tas", "locked") /\ tas(p)
       ELSE Goto(p, "tas", "glare") /\ UNCHANGED key
    /\ UNCHANGED <<machs, nlocks, lv, x>>

lockGlare(p) ==                          \* didn't get the lock
    /\ Goto(p, "glare", "spin")
    /\ count(p, nlocks[p] - 1)
    /\ UNCHANGED <<key, machs, lv, x>>

lockSpin(p) ==                           \* while(l->key)
    /\ pc[p] = "spin" /\ key[lv[p]] = nil
    /\ Goto(p, "spin", "tas")
    /\ count(p, nlocks[p] + 1)
    /\ UNCHANGED <<key, machs, lv, x>>

canlock(p, l) ==
    /\ Goto(p, "idle", "cantas")
    /\ lv' = [lv EXCEPT ![p] = l]
    /\ count(p, nlocks[p] + 1)
    /\ UNCHANGED <<key, machs, x>>

canlockTas(p) ==
    /\ pc[p] = "cantas"
    /\ IF key[lv[p]] = nil
       THEN Goto(p, "cantas", "locked") /\ tas(p)
       ELSE Goto(p, "cantas", "uncount") /\ UNCHANGED key
    /\ UNCHANGED <<machs, nlocks, lv, x>>

unlock(p) ==
    /\ Goto(p, "locked", "uncount")
    /\ release(p)
    /\ UNCHANGED <<machs, nlocks, lv, x>>

\* The end of unlock, and of a canlock that fails.
uncount(p) ==
    /\ Goto(p, "uncount", "idle")
    /\ count(p, nlocks[p] - 1)
    /\ lv' = [lv EXCEPT ![p] = nil]
    /\ UNCHANGED <<key, machs, x>>

-----------------------------------------------------------------------------
(***************************************************************************)
(* ilock and iunlock, by thread a on m.                                    *)
(***************************************************************************)
\* x = splhi()
splhi(a, m) ==
    /\ x' = [x EXCEPT ![a] = spl[m]]
    /\ spl' = [spl EXCEPT ![m] = "hi"]

\* Mutant: interrupts stay on.
ilockLo(a, m, l) ==
    /\ Goto(a, "idle", "itas")
    /\ lv' = [lv EXCEPT ![a] = l]
    /\ UNCHANGED <<key, machs, nlocks, x>>

ilock(a, m, l) ==
    /\ Goto(a, "idle", "itas")
    /\ lv' = [lv EXCEPT ![a] = l]
    /\ splhi(a, m)
    /\ UNCHANGED <<key, sr, up, ilockdepth, nlocks>>

ilockTas(a, m) ==
    /\ pc[a] = "itas" /\ key[lv[a]] = nil
    /\ Goto(a, "itas", "ilocked")
    /\ tas(a)
    /\ sr' = [sr EXCEPT ![lv[a]] = x[a]]
    /\ ilockdepth' = [ilockdepth EXCEPT ![m] = @ + 1]
    /\ UNCHANGED <<spl, up, nlocks, lv, x>>

\* Taken: splx(x), unless there is nobody who could give it back.
ilockGlare(a, m) ==
    /\ pc[a] = "itas" /\ key[lv[a]] # nil
    /\ Goto(a, "itas", IF nmach < 2 THEN "panic" ELSE "ispin")
    /\ spl' = [spl EXCEPT ![m] = x[a]]
    /\ UNCHANGED <<key, sr, up, ilockdepth, nlocks, lv, x>>

ilockSpin(a, m) ==
    /\ pc[a] = "ispin" /\ key[lv[a]] = nil
    /\ Goto(a, "ispin", "itas")
    /\ splhi(a, m)
    /\ UNCHANGED <<key, sr, up, ilockdepth, nlocks, lv>>

iunlock(a, m) ==                   \* sr = l->sr; l->key = 0
    /\ Goto(a, "ilocked", "splx")
    /\ x' = [x EXCEPT ![a] = sr[lv[a]]]
    /\ release(a)
    /\ ilockdepth' = [ilockdepth EXCEPT ![m] = @ - 1]
    /\ UNCHANGED <<sr, spl, up, nlocks, lv>>

iunlockSplx(a, m) ==               \* splxpc(sr)
    /\ Goto(a, "splx", IF a = m THEN "iret" ELSE "idle")
    /\ spl' = [spl EXCEPT ![m] = x[a]]
    /\ lv' = [lv EXCEPT ![a] = nil]
    /\ UNCHANGED <<key, sr, up, ilockdepth, nlocks, x>>

-----------------------------------------------------------------------------
\* An interrupt: its handler runs with interrupts off, calls ilock, iunlock
\* and returns.
intr(m, l) ==
    /\ up[m] # off
    /\ spl[m] = "lo"
    /\ Goto(m, "idle", "itas")
    /\ lv' = [lv EXCEPT ![m] = l]
    /\ spl' = [spl EXCEPT ![m] = "hi"]
    /\ x' = [x EXCEPT ![m] = "hi"]
    /\ UNCHANGED <<key, sr, up, ilockdepth, nlocks>>

iret(m) ==
    /\ Goto(m, "iret", "idle")
    /\ spl' = [spl EXCEPT ![m] = "lo"]
    /\ UNCHANGED <<key, sr, up, ilockdepth, nlocks, lv, x>>

\* sched(), called at a clock tick or by the process, and runproc: m turns
\* from up[m] to q.  It returns at once if up->nlocks is not 0.
sched(m, q) ==
    /\ spl[m] = "lo" /\ pc[m] = "idle"
    /\ up[m] # off
    /\ up[m] # nil => nlocks[up[m]] = 0
    /\ \A n \in Mach : up[n] # q
    /\ up' = [up EXCEPT ![m] = q]
    /\ UNCHANGED <<key, sr, spl, ilockdepth, nlocks, pc, lv, x>>

-----------------------------------------------------------------------------
ILocking(a, m) ==
    \/ ilockTas(a, m) \/ ilockGlare(a, m) \/ ilockSpin(a, m)
    \/ iunlock(a, m) \/ iunlockSplx(a, m)
Locking(p) ==
    \/ lockTas(p) \/ lockGlare(p) \/ lockSpin(p) \/ canlockTas(p)
    \/ unlock(p) \/ uncount(p)
Process(p) ==
    \E m \in Mach : runs(p, m) /\ (Locking(p) \/ ILocking(p, m))
Handler(m) == ILocking(m, m) \/ iret(m)

Next ==
    \/ \E p \in Proc, m \in Mach : runs(p, m) /\
         \/ \E l \in Lk : lock(p, l) \/ canlock(p, l)
         \/ \E l \in ILk : ilock(p, m, l)
    \/ \E p \in Proc : Process(p)
    \/ \E m \in Mach :
         \/ \E l \in ILk : intr(m, l)
         \/ Handler(m)
         \/ \E q \in Proc : sched(m, q)

Spec == Init /\ [][Next]_vars

\* Handlers run, do not find a lock taken at each and every try, and leave
\* the processes time to run.
Fairness ==
    /\ \A p \in Proc : SF_vars(Process(p))
    /\ \A m \in Mach :
         /\ WF_vars(Handler(m))
         /\ SF_vars(ilockTas(m, m)) /\ SF_vars(ilockSpin(m, m))

FairSpec == Spec /\ Fairness

-----------------------------------------------------------------------------
\* The type of every variable.
TypeOK ==
    /\ key \in [Lk \cup ILk -> Proc \cup Mach \cup {nil}]
    /\ sr \in [ILk -> {"lo", "hi"}]
    /\ spl \in [Mach -> {"lo", "hi"}]
    /\ up \in [Mach -> Proc \cup {nil, off}]
    /\ ilockdepth \in [Mach -> 0 .. 1]
    /\ nlocks \in [Proc -> 0 .. 1]
    /\ pc \in [Proc \cup Mach ->
                 {"idle", "tas", "glare", "spin", "cantas", "locked",
                  "uncount", "itas", "ispin", "ilocked", "splx", "iret",
                  "panic"}]
    /\ lv \in [Proc \cup Mach -> Lk \cup ILk \cup {nil}]
    /\ x \in [Proc \cup Mach -> {"lo", "hi"}]

\* "prevent being scheded": the process that holds a lock is on a processor.
HolderRuns ==
    \A l \in Lk \cup ILk : key[l] \in Proc => \E m \in Mach : up[m] = key[l]

\* An interrupt handler never waits for the process it interrupted: a process
\* that holds a lock of ILk does so with interrupts off.
HandlerFree ==
    \A m \in Mach :
        pc[m] \in {"itas", "ispin"} /\ up[m] # nil => key[lv[m]] # up[m]

\* Neither panic: sched is not called inside an ilock ("ilockdepth"), and on
\* one processor nobody finds an ilock taken ("ilock: no way out").
NoPanic ==
    /\ \A a \in Proc \cup Mach : pc[a] # "panic"
    /\ \A m \in Mach : spl[m] = "lo" => ilockdepth[m] = 0

\* ilock never meets its own processor's lock: on one processor it would
\* panic, on several it would spin for ever.
NeverStuck == NoPanic /\ HandlerFree

\* Every processor gets its interrupts back: the level that iunlock restores
\* is the one ilock found, on the same processor.
SplRestored ==
    \A m \in Mach :
        /\ pc[m] = "idle"
        /\ up[m] \in Proc => pc[up[m]] \notin {"itas", "ilocked", "splx"}
        => spl[m] = "lo"

\* Everything has its type, the counts of locks held included, and the
\* interrupt level is on when nobody has a reason to keep it off.
LevelOK == TypeOK /\ SplRestored

\* The spin locks are safe: the interrupt level comes back, a holder keeps its
\* processor, and no handler spins for what it interrupted.
SpinLocksOK == LevelOK /\ HolderRuns /\ NeverStuck

\* A lock is given back, so nobody spins on it for ever without a chance.
Released ==
    \A l \in Lk \cup ILk : key[l] # nil ~> key[l] = nil

=============================================================================
