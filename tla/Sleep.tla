------------------------------- MODULE Sleep -------------------------------
(***************************************************************************)
(* sleep, wakeup and postnote (port/proc.c): how a process blocks on a     *)
(* Rendez until a condition holds, and how a waker or the poster of a note *)
(* takes it off again.                                                     *)
(*                                                                         *)
(* The grain is that of the spin locks.  Three kinds of threads run:       *)
(*   Proc    processes that call sleep(r, f, arg);                         *)
(*   Waker   interrupt handlers and processes that make the condition true *)
(*           and call wakeup(r);                                           *)
(*   Poster  processes that call postnote(p, ...).                         *)
(* sleep and wakeup lock r and then p->rlock; postnote knows p only, so it *)
(* locks p->rlock first and merely tries r.  The condition f and           *)
(* p->notepending are written without either lock.                         *)
(***************************************************************************)
EXTENDS Naturals

CONSTANTS Proc,     \* the processes that sleep
          Rend,     \* the Rendez structures
          Waker,    \* the threads that call wakeup
          Poster,   \* the threads that call postnote
          nil       \* the null pointer

Actor == Proc \cup Waker \cup Poster

SleepAssumption ==
    /\ Proc \cap Waker = {}
    /\ Proc \cap Poster = {}
    /\ Waker \cap Poster = {}
    /\ nil \notin Actor \cup Rend

VARIABLES
    state,        \* p->state, for the three states these routines move between
    pr,           \* p->r, the Rendez p sleeps on
    rp,           \* r->p, the process that sleeps on r
    notepending,  \* p->notepending
    cond,         \* what (*f)(arg) returns for the users of r
    rlock,        \* the thread holding p->rlock
    lk,           \* the thread holding the Lock of r
    pc,           \* where each thread is in its routine
    rv,           \* the local or argument r of each thread
    pv            \* the local or argument p of wakeup and postnote

vars == <<state, pr, rp, notepending, cond, rlock, lk, pc, rv, pv>>
locals == <<rv, pv>>

Init ==
    /\ state = [p \in Proc |-> "Running"]
    /\ pr = [p \in Proc |-> nil]
    /\ rp = [r \in Rend |-> nil]
    /\ notepending = [p \in Proc |-> FALSE]
    /\ cond = [r \in Rend |-> FALSE]
    /\ rlock = [p \in Proc |-> nil]
    /\ lk = [r \in Rend |-> nil]
    /\ pc = [a \in Actor |-> "idle"]
    /\ rv = [a \in Actor |-> nil]
    /\ pv = [a \in Actor |-> nil]

Goto(a, from, to) == pc[a] = from /\ pc' = [pc EXCEPT ![a] = to]

Lock(l, x, a) == l[x] = nil /\ l' = [l EXCEPT ![x] = a]
Unlock(l, x) == l' = [l EXCEPT ![x] = nil]

-----------------------------------------------------------------------------
(***************************************************************************)
(* sleep(r, f, arg), run by process p.  Its callers hold a QLock of their  *)
(* own around it (q->rlock, up->qwaitr, ...), so no two processes are in   *)
(* sleep on one Rendez.                                                    *)
(***************************************************************************)
sleep(p, r) ==
    /\ \A q \in Proc : rv[q] # r
    /\ Goto(p, "idle", "s_lockr")
    /\ rv' = [rv EXCEPT ![p] = r]
    /\ UNCHANGED <<state, pr, rp, notepending, cond, rlock, lk, pv>>

sleepLockR(p) ==                                            \* lock(r)
    /\ Goto(p, "s_lockr", "s_lockp")
    /\ Lock(lk, rv[p], p)
    /\ UNCHANGED <<state, pr, rp, notepending, cond, rlock, locals>>

sleepLockP(p) ==                                   \* lock(&up->rlock)
    /\ Goto(p, "s_lockp", "s_set")
    /\ Lock(rlock, p, p)
    /\ UNCHANGED <<state, pr, rp, notepending, cond, lk, locals>>

\* Mutant: the condition is not tested again under the lock.
sleepSetUntested(p) ==
    /\ Goto(p, "s_set", "s_note")
    /\ rp' = [rp EXCEPT ![rv[p]] = p]
    /\ UNCHANGED <<state, pr, notepending, cond, rlock, lk, locals>>

sleepSet(p) ==                              \* r->p = up; if((*f)(arg) ||
    /\ Goto(p, "s_set", IF cond[rv[p]] THEN "s_never" ELSE "s_note")
    /\ rp' = [rp EXCEPT ![rv[p]] = p]
    /\ UNCHANGED <<state, pr, notepending, cond, rlock, lk, locals>>

\* Mutant: a note already pending does not keep the process awake.
sleepNoteUntested(p) ==
    /\ Goto(p, "s_note", "s_commit")
    /\ UNCHANGED <<state, pr, rp, notepending, cond, rlock, lk, locals>>

sleepNote(p) ==                                    \* || up->notepending)
    /\ Goto(p, "s_note", IF notepending[p] THEN "s_never" ELSE "s_commit")
    /\ UNCHANGED <<state, pr, rp, notepending, cond, rlock, lk, locals>>

sleepNever(p) ==                     \* r->p = nil; unlock(&up->rlock)
    /\ Goto(p, "s_never", "s_back")
    /\ rp' = [rp EXCEPT ![rv[p]] = nil]
    /\ Unlock(rlock, p)
    /\ UNCHANGED <<state, pr, notepending, cond, lk, locals>>

sleepBack(p) ==                                            \* unlock(r)
    /\ Goto(p, "s_back", "s_return")
    /\ Unlock(lk, rv[p])
    /\ UNCHANGED <<state, pr, rp, notepending, cond, rlock, locals>>

\* Mutant: the wrong blocked state.
sleepCommitQueueing(p) ==
    /\ Goto(p, "s_commit", "s_unlockp")
    /\ state' = [state EXCEPT ![p] = "Queueing"]
    /\ pr' = [pr EXCEPT ![p] = rv[p]]
    /\ UNCHANGED <<rp, notepending, cond, rlock, lk, locals>>

sleepCommit(p) ==                 \* up->state = Wakeme; up->r = r; ...
    /\ Goto(p, "s_commit", "s_unlockp")
    /\ state' = [state EXCEPT ![p] = "Wakeme"]
    /\ pr' = [pr EXCEPT ![p] = rv[p]]
    /\ UNCHANGED <<rp, notepending, cond, rlock, lk, locals>>

sleepUnlockP(p) ==                               \* unlock(&up->rlock)
    /\ Goto(p, "s_unlockp", "s_unlockr")
    /\ Unlock(rlock, p)
    /\ UNCHANGED <<state, pr, rp, notepending, cond, lk, locals>>

sleepUnlockR(p) ==                 \* unlock(r); gotolabel(&m->sched)
    /\ Goto(p, "s_unlockr", "s_off")
    /\ Unlock(lk, rv[p])
    /\ UNCHANGED <<state, pr, rp, notepending, cond, rlock, locals>>

\* The scheduler resumes a process that ready() put on the run queue
\* (module Sched).
sleepResume(p) ==
    /\ state[p] = "Ready"
    /\ Goto(p, "s_off", "s_return")
    /\ state' = [state EXCEPT ![p] = "Running"]
    /\ UNCHANGED <<pr, rp, notepending, cond, rlock, lk, locals>>

\* A pending note is consumed and turned into error(Eintr).
sleepReturn(p) ==
    /\ Goto(p, "s_return", "idle")
    /\ notepending' = [notepending EXCEPT ![p] = FALSE]
    /\ rv' = [rv EXCEPT ![p] = nil]
    /\ UNCHANGED <<state, pr, rp, cond, rlock, lk, pv>>

\* Between two sleeps a process may use up what made the condition true.
consume(p, r) ==
    /\ pc[p] = "idle"
    /\ cond[r]
    /\ cond' = [cond EXCEPT ![r] = FALSE]
    /\ UNCHANGED <<state, pr, rp, notepending, rlock, lk, pc, locals>>

-----------------------------------------------------------------------------
(***************************************************************************)
(* wakeup(r), run by thread w, which may first make the condition true.    *)
(***************************************************************************)
wakeup(w, r) ==
    /\ Goto(w, "idle", "w_lock")
    /\ rv' = [rv EXCEPT ![w] = r]
    /\ \E b \in {cond[r], TRUE} : cond' = [cond EXCEPT ![r] = b]
    /\ UNCHANGED <<state, pr, rp, notepending, rlock, lk, pv>>

wakeupLockR(w) ==                                            \* lock(r)
    /\ Goto(w, "w_lock", "w_read")
    /\ Lock(lk, rv[w], w)
    /\ UNCHANGED <<state, pr, rp, notepending, cond, rlock, locals>>

wakeupRead(w) ==                             \* p = r->p; if(p != nil)
    /\ Goto(w, "w_read", IF rp[rv[w]] = nil THEN "w_unlock" ELSE "w_lockp")
    /\ pv' = [pv EXCEPT ![w] = rp[rv[w]]]
    /\ UNCHANGED <<state, pr, rp, notepending, cond, rlock, lk, rv>>

wakeupLockP(w) ==                                   \* lock(&p->rlock)
    /\ Goto(w, "w_lockp", "w_ready")
    /\ Lock(rlock, pv[w], w)
    /\ UNCHANGED <<state, pr, rp, notepending, cond, lk, locals>>

\* Mutant: p->r is not cleared.
wakeupReadyStale(w) ==
    /\ Goto(w, "w_ready", "w_unlockp")
    /\ rp' = [rp EXCEPT ![rv[w]] = nil]
    /\ state' = [state EXCEPT ![pv[w]] = "Ready"]
    /\ UNCHANGED <<pr, notepending, cond, rlock, lk, locals>>

wakeupReady(w) ==          \* r->p = nil; p->r = nil; ready(p)
    /\ Goto(w, "w_ready", "w_unlockp")
    /\ rp' = [rp EXCEPT ![rv[w]] = nil]
    /\ pr' = [pr EXCEPT ![pv[w]] = nil]
    /\ state' = [state EXCEPT ![pv[w]] = "Ready"]
    /\ UNCHANGED <<notepending, cond, rlock, lk, locals>>

wakeupUnlockP(w) ==                               \* unlock(&p->rlock)
    /\ Goto(w, "w_unlockp", "w_unlock")
    /\ Unlock(rlock, pv[w])
    /\ UNCHANGED <<state, pr, rp, notepending, cond, lk, locals>>

wakeupUnlockR(w) ==                                        \* unlock(r)
    /\ Goto(w, "w_unlock", "idle")
    /\ Unlock(lk, rv[w])
    /\ rv' = [rv EXCEPT ![w] = nil]
    /\ pv' = [pv EXCEPT ![w] = nil]
    /\ UNCHANGED <<state, pr, rp, notepending, cond, rlock>>

-----------------------------------------------------------------------------
(***************************************************************************)
(* postnote(p, ...), run by thread n, from p->notepending = 1 on.          *)
(***************************************************************************)
postnote(n, p) ==
    /\ Goto(n, "idle", "n_lock")
    /\ pv' = [pv EXCEPT ![n] = p]
    /\ notepending' = [notepending EXCEPT ![p] = TRUE]
    /\ UNCHANGED <<state, pr, rp, cond, rlock, lk, rv>>

postnoteLockP(n) ==                                 \* lock(&p->rlock)
    /\ Goto(n, "n_lock", "n_read")
    /\ Lock(rlock, pv[n], n)
    /\ UNCHANGED <<state, pr, rp, notepending, cond, lk, locals>>

postnoteRead(n) ==                        \* r = p->r; if(r == nil) break
    /\ Goto(n, "n_read", IF pr[pv[n]] = nil THEN "n_unlockp" ELSE "n_try")
    /\ rv' = [rv EXCEPT ![n] = pr[pv[n]]]
    /\ UNCHANGED <<state, pr, rp, notepending, cond, rlock, lk, pv>>

\* Mutant: postnote goes ahead without the lock of r.
postnoteTryBlind(n) ==
    /\ Goto(n, "n_try", "n_ready")
    /\ UNCHANGED <<state, pr, rp, notepending, cond, rlock, lk, locals>>

postnoteTry(n) ==                                      \* if(canlock(r))
    /\ \/ /\ Goto(n, "n_try", "n_ready")
          /\ Lock(lk, rv[n], n)
       \/ /\ Goto(n, "n_try", "n_again")
          /\ lk[rv[n]] # nil
          /\ UNCHANGED lk
    /\ UNCHANGED <<state, pr, rp, notepending, cond, rlock, locals>>

\* Mutant: postnote keeps p->rlock while it tries again.
postnoteAgainHolding(n) ==
    /\ Goto(n, "n_again", "n_try")
    /\ UNCHANGED <<state, pr, rp, notepending, cond, rlock, lk, locals>>

postnoteAgain(n) ==                \* unlock(&p->rlock); sched(); loop
    /\ Goto(n, "n_again", "n_lock")
    /\ Unlock(rlock, pv[n])
    /\ UNCHANGED <<state, pr, rp, notepending, cond, lk, locals>>

\* Mutant: r->p is not cleared.
postnoteReadyStale(n) ==
    /\ Goto(n, "n_ready", "n_unlockr")
    /\ pr' = [pr EXCEPT ![pv[n]] = nil]
    /\ state' = [state EXCEPT ![pv[n]] = "Ready"]
    /\ UNCHANGED <<rp, notepending, cond, rlock, lk, locals>>

postnoteReady(n) ==               \* p->r = nil; r->p = nil; ready(p)
    /\ Goto(n, "n_ready", "n_unlockr")
    /\ rp' = [rp EXCEPT ![rv[n]] = nil]
    /\ pr' = [pr EXCEPT ![pv[n]] = nil]
    /\ state' = [state EXCEPT ![pv[n]] = "Ready"]
    /\ UNCHANGED <<notepending, cond, rlock, lk, locals>>

postnoteUnlockR(n) ==                                      \* unlock(r)
    /\ Goto(n, "n_unlockr", "n_unlockp")
    /\ Unlock(lk, rv[n])
    /\ UNCHANGED <<state, pr, rp, notepending, cond, rlock, locals>>

postnoteUnlockP(n) ==                             \* unlock(&p->rlock)
    /\ Goto(n, "n_unlockp", "idle")
    /\ Unlock(rlock, pv[n])
    /\ rv' = [rv EXCEPT ![n] = nil]
    /\ pv' = [pv EXCEPT ![n] = nil]
    /\ UNCHANGED <<state, pr, rp, notepending, cond, lk>>

-----------------------------------------------------------------------------
\* The steps of a call already made, the lock acquisitions apart.
sleepStep(p) ==
    \/ sleepSet(p) \/ sleepNote(p) \/ sleepNever(p) \/ sleepBack(p)
    \/ sleepCommit(p) \/ sleepUnlockP(p) \/ sleepUnlockR(p)
    \/ sleepResume(p) \/ sleepReturn(p)
sleepLock(p) == sleepLockR(p) \/ sleepLockP(p)

wakeupStep(w) ==
    wakeupRead(w) \/ wakeupReady(w) \/ wakeupUnlockP(w) \/ wakeupUnlockR(w)
wakeupLock(w) == wakeupLockR(w) \/ wakeupLockP(w)

postnoteStep(n) ==
    \/ postnoteRead(n) \/ postnoteTry(n) \/ postnoteAgain(n)
    \/ postnoteReady(n) \/ postnoteUnlockR(n) \/ postnoteUnlockP(n)
postnoteLock(n) == postnoteLockP(n)

Next ==
    \/ \E p \in Proc :
          \/ \E r \in Rend : sleep(p, r) \/ consume(p, r)
          \/ sleepStep(p) \/ sleepLock(p)
    \/ \E w \in Waker :
          \/ \E r \in Rend : wakeup(w, r)
          \/ wakeupStep(w) \/ wakeupLock(w)
    \/ \E n \in Poster :
          \/ \E p \in Proc : postnote(n, p)
          \/ postnoteStep(n) \/ postnoteLock(n)

Spec == Init /\ [][Next]_vars

(***************************************************************************)
(* Every thread inside a routine keeps running (the locks are held with    *)
(* interrupts off, so a holder is never descheduled), and a thread that    *)
(* spins on a lock which becomes free again and again gets it: postnote    *)
(* calls sched() between dropping p->rlock and trying again for exactly    *)
(* that reason.  Nobody is obliged to call anything.                       *)
(***************************************************************************)
Fairness ==
    /\ \A p \in Proc : WF_vars(sleepStep(p)) /\ SF_vars(sleepLock(p))
    /\ \A w \in Waker : WF_vars(wakeupStep(w)) /\ SF_vars(wakeupLock(w))
    /\ \A n \in Poster : WF_vars(postnoteStep(n)) /\ SF_vars(postnoteLock(n))

FairSpec == Spec /\ Fairness

-----------------------------------------------------------------------------
(***************************************************************************)
(* The atomic view: a wakeup or a postnote takes effect when it takes the  *)
(* process off, or when it finds nobody to take off; a sleep takes effect  *)
(* when p->r is set.                                                       *)
(***************************************************************************)
Waking == [w \in Waker |->
    IF pc[w] \in {"w_lock", "w_read", "w_lockp", "w_ready"}
    THEN rv[w] ELSE nil]
Posting == [n \in Poster |->
    IF pc[n] \in {"n_lock", "n_read", "n_try", "n_again", "n_ready"}
    THEN pv[n] ELSE nil]

R == INSTANCE Rendez WITH asleep <- pr, waking <- Waking, posting <- Posting

\* sleep, wakeup and postnote as coded implement their atomic counterparts.
ImplementsRendez == R!Spec

-----------------------------------------------------------------------------
SleepPC == {"idle", "s_lockr", "s_lockp", "s_set", "s_note", "s_never",
            "s_back", "s_commit", "s_unlockp", "s_unlockr", "s_off",
            "s_return"}
WakePC == {"idle", "w_lock", "w_read", "w_lockp", "w_ready", "w_unlockp",
           "w_unlock"}
NotePC == {"idle", "n_lock", "n_read", "n_try", "n_again", "n_ready",
           "n_unlockr", "n_unlockp"}

\* The type of every variable of sleep, wakeup and postnote.
TypeOK ==
    /\ state \in [Proc -> {"Running", "Wakeme", "Ready"}]
    /\ pr \in [Proc -> Rend \cup {nil}]
    /\ rp \in [Rend -> Proc \cup {nil}]
    /\ notepending \in [Proc -> BOOLEAN]
    /\ cond \in [Rend -> BOOLEAN]
    /\ rlock \in [Proc -> Actor \cup {nil}]
    /\ lk \in [Rend -> Actor \cup {nil}]
    /\ rv \in [Actor -> Rend \cup {nil}]
    /\ pv \in [Actor -> Proc \cup {nil}]
    /\ pc \in [Actor -> SleepPC \cup WakePC \cup NotePC]
    /\ \A p \in Proc : pc[p] \in SleepPC
    /\ \A w \in Waker : pc[w] \in WakePC
    /\ \A n \in Poster : pc[n] \in NotePC

\* Neither panic is reached: when wakeup or postnote is about to take a
\* process off its Rendez, the process is asleep there and nowhere else
\* (panic("wakeup: state"), panic("postnote: state ...")).
NoPanic ==
    \A a \in Waker \cup Poster :
        pc[a] \in {"w_ready", "n_ready"} =>
            /\ state[pv[a]] = "Wakeme"
            /\ pr[pv[a]] = rv[a]
            /\ rp[rv[a]] = pv[a]

\* "we lock both the process and the rendezvous to keep r->p and p->r
\* synchronized": whenever nobody holds the lock of r, r->p = p exactly when
\* p->r = r, and such a process is asleep.
RendezSync ==
    \A r \in Rend, p \in Proc : lk[r] = nil =>
        /\ rp[r] = p <=> pr[p] = r
        /\ pr[p] = r => state[p] = "Wakeme"

\* No lost wakeup: if a process sleeps on r while its condition is already
\* true, a call of wakeup(r) that will find it is still on its way.
NoLostWakeup ==
    \A p \in Proc, r \in Rend :
        pr[p] = r /\ cond[r] =>
            \E w \in Waker :
                /\ rv[w] = r
                /\ pc[w] \in {"w_lock", "w_read", "w_lockp", "w_ready"}

\* No lost note: if a process sleeps with a note pending, the postnote that
\* will pull it out is still on its way.
NoLostNote ==
    \A p \in Proc :
        pr[p] # nil /\ notepending[p] =>
            \E n \in Poster :
                /\ pv[n] = p
                /\ pc[n] \in {"n_lock", "n_read", "n_try", "n_again", "n_ready"}

\* A sleeper is woken after its condition became true and stayed true, and
\* after a note was posted to it.
SleeperWoken ==
    \A p \in Proc :
        /\ \A r \in Rend :
             (pr[p] = r /\ cond[r]) ~> (pr[p] # r \/ ~cond[r])
        /\ (state[p] = "Wakeme" /\ notepending[p]) ~> (state[p] # "Wakeme")

\* The opposite lock orders neither deadlock nor starve: every wakeup
\* returns, and every postnote returns unless the process it is for has
\* acted on the note while postnote was still retrying.
CallsReturn ==
    /\ \A w \in Waker : (pc[w] # "idle") ~> (pc[w] = "idle")
    /\ \A n \in Poster, p \in Proc :
         (pv[n] = p) ~> (pc[n] = "idle" \/ ~notepending[p])

\* Nobody waits for ever, neither a sleeper nor whoever is to wake it.
NobodyStuck == SleeperWoken /\ CallsReturn

=============================================================================
