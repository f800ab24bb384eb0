------------------------------ MODULE MCSched ------------------------------
(***************************************************************************)
(* Model checking port/proc.c: the scheduler (MCSpec), and the sleep,      *)
(* wakeup and postnote of its processes (SleepSpec).  The one that a       *)
(* behaviour is not about stays in its initial state.                      *)
(*                                                                         *)
(* All of Sched at once is too much for two levels of priority and three   *)
(* Procs, so a behaviour of it is one of two kinds: in the first only one  *)
(* level is in use; in the second wirings and priorities change, and one   *)
(* Proc stays on the free list.  In Sleep two wakers and the poster of a   *)
(* note compete for a process that sleeps on one Rendez or the other.      *)
(***************************************************************************)
EXTENDS Sched, TLC

CONSTANTS Rend, Waker, Poster   \* of Sleep

VARIABLES
    controlled,   \* which of the two kinds it is
    sstate, pr, rp, notepending, cond, rlock, lk, spc, rv, pv

svars == <<sstate, pr, rp, notepending, cond, rlock, lk, spc, rv, pv>>
all == <<vars, controlled, svars>>

SL == INSTANCE Sleep WITH state <- sstate, pc <- spc

ASSUME SL!SleepAssumption

Quanta1 == [i \in Pri |-> 1]

Perms == Permutations(Mach) \cup Permutations(Kproc)
            \cup Permutations(Proc \ Kproc)

MCInit ==
    /\ Init /\ SL!Init
    /\ controlled \in BOOLEAN
    /\ \A p \in Proc : basepri[p] = IF controlled THEN Nrq - 1 ELSE 0

MCNext ==
    /\ \E m \in Mach :
         \/ process(m) \/ schedinit(m) \/ readyQueue(m)
         \/ controlled /\ control(m)
    /\ controlled => free' # <<>>
    /\ UNCHANGED <<controlled, svars>>

MCSpec == MCInit /\ [][MCNext]_all

SleepInit == Init /\ SL!Init /\ controlled = FALSE
SleepNext == SL!Next /\ UNCHANGED <<vars, controlled>>
SleepSpec == SleepInit /\ [][SleepNext]_all /\ SL!Fairness

-----------------------------------------------------------------------------
\* The type of every variable of sleep, wakeup and postnote.
SleepTypeOK == SL!TypeOK

\* Neither wakeup nor postnote panics.
NoPanic == SL!NoPanic

\* r->p and p->r agree whenever the lock of r is free.
RendezSync == SL!RendezSync

\* A process asleep with its condition true has a wakeup on its way.
NoLostWakeup == SL!NoLostWakeup

\* A process asleep with a note pending has a postnote on its way.
NoLostNote == SL!NoLostNote

\* sleep, wakeup and postnote implement the atomic ones of Rendez.
ImplementsRendez == SL!ImplementsRendez

\* Nobody waits for ever, neither a sleeper nor whoever is to wake it.
NobodyStuck == SL!NobodyStuck
=============================================================================
