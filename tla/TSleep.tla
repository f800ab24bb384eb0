------------------------------- MODULE TSleep -------------------------------
(***************************************************************************)
(* Sleeping with a timeout: tsleep (port/proc.c) and the half of           *)
(* checkalarms (port/alarm.c) that wakes up whoever slept long enough.     *)
(*                                                                         *)
(* talarm.list holds the processes that called tsleep, in the order of     *)
(* p->twhen.  A process that returns only sets its twhen to 0, without the *)
(* lock, and stays on the list until a clock interrupt or its next tsleep  *)
(* takes it off.  checkalarms runs in the clock interrupt of every Mach    *)
(* and gives up if it cannot have the lock at once.                        *)
(*                                                                         *)
(* sleep and wakeup are taken as the atomic steps that module Rendez       *)
(* promises.  ticks is MACHP(0)->ticks; that it wraps around is left out.  *)
(***************************************************************************)
EXTENDS Naturals, Sequences, SequencesExt

CONSTANTS Proc,     \* the processes that call tsleep
          Rend,     \* the Rendez structures
          Mach,     \* the processors
          mach0,    \* the one whose ticks count
          Delay,    \* the timeouts, in ticks
          MaxTick,  \* bound: where ticks stops; interrupts go on
          nil

ASSUME TSleepAssumption ==
    /\ mach0 \in Mach
    /\ Delay \subseteq Nat
    /\ MaxTick \in Nat \ {0}
    /\ Proc \cap Mach = {}
    /\ nil \notin Proc \cup Mach \cup Rend

VARIABLES
    ticks,    \* MACHP(0)->ticks
    twhen,    \* p->twhen, 0 if p waits for no time
    trend,    \* p->trend, the Rendez to wake up
    list,     \* talarm.list
    talarm,   \* the thread holding the lock of talarm
    rp,       \* r->p, the process that sleeps on r
    cond,     \* what the function given to tsleep returns
    pc,       \* where each process and each clock interrupt is
    r0, when, \* the locals r and when of tsleep
    now       \* the local now of checkalarms

shared == <<ticks, twhen, trend, list, talarm>>
locals == <<r0, when, now>>
vars == <<shared, rp, cond, pc, locals>>

Init ==
    /\ ticks = 1
    /\ twhen = [p \in Proc |-> 0]
    /\ trend = [p \in Proc |-> nil]
    /\ list = <<>>
    /\ talarm = nil
    /\ rp = [r \in Rend |-> nil]
    /\ cond = [r \in Rend |-> FALSE]
    /\ pc = [a \in Proc \cup Mach |-> "idle"]
    /\ r0 = [p \in Proc |-> nil]
    /\ when = [p \in Proc |-> 0]
    /\ now = [m \in Mach |-> 0]

Goto(a, from, to) == pc[a] = from /\ pc' = [pc EXCEPT ![a] = to]

-----------------------------------------------------------------------------
(***************************************************************************)
(* tsleep(r, fn, arg, ms), run by process p.  As in module Sleep a lock of *)
(* the callers keeps two processes from sleeping on one Rendez.            *)
(***************************************************************************)
tsleep(p, r, d) ==
    /\ \A q \in Proc : r0[q] # r
    /\ ticks + d <= MaxTick
    /\ Goto(p, "idle", "lock")
    /\ r0' = [r0 EXCEPT ![p] = r]
    /\ when' = [when EXCEPT ![p] = ticks + d]
    /\ UNCHANGED <<shared, rp, cond, now>>

tsleepLock(p) ==
    /\ Goto(p, "lock", "insert")
    /\ talarm = nil
    /\ talarm' = p
    /\ UNCHANGED <<ticks, twhen, trend, list, rp, cond, locals>>

\* Where the list stops being earlier than t.
position(l, t) ==
    LET later == {i \in DOMAIN l : twhen[l[i]] >= t}
    IN IF later = {} THEN Len(l) + 1
       ELSE CHOOSE i \in later : \A j \in later : i <= j

\* Mutant: what checkalarms left on the list is not taken out.
tsleepInsertAgain(p) ==
    /\ Goto(p, "insert", "sleep")
    /\ list' = InsertAt(list, position(list, when[p]), p)
    /\ trend' = [trend EXCEPT ![p] = r0[p]]
    /\ twhen' = [twhen EXCEPT ![p] = when[p]]
    /\ talarm' = nil
    /\ UNCHANGED <<ticks, rp, cond, locals>>

\* Out of the list if checkalarms did not do it, in again in the order of
\* time, and unlock.
tsleepInsert(p) ==
    /\ Goto(p, "insert", "sleep")
    /\ \E l \in {IF trend[p] # nil THEN RemoveFirst(list, p) ELSE list} :
         list' = InsertAt(l, position(l, when[p]), p)
    /\ trend' = [trend EXCEPT ![p] = r0[p]]
    /\ twhen' = [twhen EXCEPT ![p] = when[p]]
    /\ talarm' = nil
    /\ UNCHANGED <<ticks, rp, cond, locals>>

tfn(p) == ticks >= twhen[p] \/ cond[r0[p]]

\* sleep(r, tfn, arg), which a pending note ends as well.
tsleepSleep(p) ==
    /\ Goto(p, "sleep", IF tfn(p) THEN "return" ELSE "asleep")
    /\ rp' = [rp EXCEPT ![r0[p]] = IF tfn(p) THEN nil ELSE p]
    /\ UNCHANGED <<shared, cond, locals>>

tsleepNote(p) ==
    /\ \/ Goto(p, "sleep", "return")
       \/ Goto(p, "asleep", "return")
    /\ rp' = [rp EXCEPT ![r0[p]] = nil]
    /\ UNCHANGED <<shared, cond, locals>>

\* up->twhen = 0, on the way out or in the error label; the caller then
\* consumes the condition.
tsleepReturn(p) ==
    /\ Goto(p, "return", "idle")
    /\ twhen' = [twhen EXCEPT ![p] = 0]
    /\ cond' = [cond EXCEPT ![r0[p]] = FALSE]
    /\ r0' = [r0 EXCEPT ![p] = nil]
    /\ when' = [when EXCEPT ![p] = 0]
    /\ UNCHANGED <<ticks, trend, list, talarm, rp, now>>

-----------------------------------------------------------------------------
\* wakeup(r), called by thread a, which goes on at its place to.
wakeup(r, a, to) ==
    /\ rp' = [rp EXCEPT ![r] = nil]
    /\ pc' = [b \in DOMAIN pc |->
                IF b = a THEN to ELSE IF b = rp[r] THEN "return" ELSE pc[b]]

\* What the process waited for happens.
event(r) ==
    /\ cond' = [cond EXCEPT ![r] = TRUE]
    /\ wakeup(r, nil, "idle")
    /\ UNCHANGED <<shared, locals>>

\* hzclock and checkalarms, up to the lock.
hzclock(m) ==
    /\ Goto(m, "idle", "canlock")
    /\ ticks' = IF m = mach0 /\ ticks < MaxTick THEN ticks + 1 ELSE ticks
    /\ now' = [now EXCEPT ![m] = ticks']
    /\ UNCHANGED <<twhen, trend, list, talarm, rp, cond, r0, when>>

checkalarms(m) ==
    /\ list # <<>> /\ talarm = nil
    /\ Goto(m, "canlock", "loop")
    /\ talarm' = m
    /\ UNCHANGED <<ticks, twhen, trend, list, rp, cond, locals>>

checkalarmsBusy(m) ==
    /\ list = <<>> \/ talarm # nil
    /\ Goto(m, "canlock", "idle")
    /\ now' = [now EXCEPT ![m] = 0]
    /\ UNCHANGED <<shared, rp, cond, r0, when>>

\* The head of the list leaves it.
behead ==
    /\ list' = Tail(list)
    /\ trend' = [trend EXCEPT ![Head(list)] = nil]

\* A process that returned by itself is taken off.
checkalarmsReturned(m) ==
    /\ pc[m] = "loop"
    /\ list # <<>> /\ twhen[Head(list)] = 0
    /\ behead
    /\ UNCHANGED <<ticks, twhen, talarm, rp, cond, pc, locals>>

checkalarmsDone(m) ==
    /\ Goto(m, "loop", "idle")
    /\ list # <<>> => now[m] < twhen[Head(list)]
    /\ talarm' = nil
    /\ now' = [now EXCEPT ![m] = 0]
    /\ UNCHANGED <<ticks, twhen, trend, list, rp, cond, r0, when>>

checkalarmsDue(m) ==
    /\ list # <<>> /\ twhen[Head(list)] # 0 /\ now[m] >= twhen[Head(list)]
    /\ Goto(m, "loop", "wakeup")
    /\ UNCHANGED <<shared, rp, cond, locals>>

checkalarmsWakeup(m) ==
    /\ pc[m] = "wakeup"
    /\ wakeup(trend[Head(list)], m, "loop")
    /\ behead
    /\ UNCHANGED <<ticks, twhen, talarm, cond, locals>>

-----------------------------------------------------------------------------
Running(p) ==
    tsleepLock(p) \/ tsleepInsert(p) \/ tsleepSleep(p) \/ tsleepReturn(p)
Interrupt(m) ==
    \/ hzclock(m) \/ checkalarmsBusy(m)
    \/ checkalarmsReturned(m) \/ checkalarmsDone(m)
    \/ checkalarmsDue(m) \/ checkalarmsWakeup(m)

Next ==
    \/ \E p \in Proc :
         \/ \E r \in Rend, d \in Delay : tsleep(p, r, d)
         \/ Running(p) \/ tsleepNote(p)
    \/ \E r \in Rend : event(r)
    \/ \E m \in Mach : Interrupt(m) \/ checkalarms(m)

Spec == Init /\ [][Next]_vars

\* Whoever is not asleep runs, the clocks tick, and the lock of talarm, which
\* is never held for long, is not busy at every single tick.
Fairness ==
    /\ \A p \in Proc : WF_vars(Running(p)) /\ SF_vars(tsleepLock(p))
    /\ \A m \in Mach : WF_vars(Interrupt(m)) /\ SF_vars(checkalarms(m))

FairSpec == Spec /\ Fairness

-----------------------------------------------------------------------------
\* The type of every variable.
TypeOK ==
    /\ ticks \in 1 .. MaxTick
    /\ twhen \in [Proc -> 0 .. MaxTick]
    /\ trend \in [Proc -> Rend \cup {nil}]
    /\ list \in Seq(Proc)
    /\ talarm \in Proc \cup Mach \cup {nil}
    /\ rp \in [Rend -> Proc \cup {nil}]
    /\ cond \in [Rend -> BOOLEAN]
    /\ pc \in [Proc \cup Mach -> {"idle", "lock", "insert", "sleep", "asleep",
                                  "return", "canlock", "loop", "wakeup"}]
    /\ r0 \in [Proc -> Rend \cup {nil}]
    /\ when \in [Proc -> 0 .. MaxTick]
    /\ now \in [Mach -> 0 .. MaxTick]

\* p->trend, which tsleep tests to see whether checkalarms took p off the
\* list, tells the truth, and nobody is on the list twice: the list is never
\* tied into a knot and wakeup never gets a null Rendez.
TrendTells ==
    /\ IsInjective(list)
    /\ \A p \in Proc : (trend[p] # nil) <=> \E i \in DOMAIN list : list[i] = p

\* The list talarm is sound: everything has its type, and it holds exactly
\* the processes whose p->trend is set.
TalarmOK == TypeOK /\ TrendTells

\* No timeout is lost: a process asleep in tsleep is on the list, with its
\* time and with the Rendez it sleeps on, however late it fell asleep.
TimeoutKept ==
    \A p \in Proc : pc[p] = "asleep" =>
        /\ twhen[p] = when[p] /\ twhen[p] # 0
        /\ trend[p] = r0[p] /\ rp[r0[p]] = p

\* checkalarms stops at the first process whose time has not come, so no
\* process whose time has come is behind one whose time has not.
DueFirst ==
    \A i, j \in DOMAIN list :
        i < j /\ twhen[list[j]] # 0 => twhen[list[i]] <= twhen[list[j]]

\* A tsleep ends.
TimeoutFires ==
    \A p \in Proc : pc[p] = "asleep" ~> pc[p] # "asleep"

=============================================================================
