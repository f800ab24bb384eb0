------------------------------- MODULE Alarms -------------------------------
(***************************************************************************)
(* The alarm system call (port/alarm.c): procalarm puts a process on the   *)
(* list alarms.head, checkalarms sees in the clock interrupt that the head *)
(* of the list is due, and alarmkproc, which it wakes up, posts the notes. *)
(*                                                                         *)
(* The list is changed under the QLock of alarms, but p->alarm is also set *)
(* to 0 without it, by procalarm(0) and by pexit, and checkalarms looks    *)
(* without any lock.  alarmkproc sleeps with return0 for a condition, so a *)
(* wakeup that comes before it sleeps is lost; and it gives up on a        *)
(* process whose debug lock is taken.  Both are made good by a later tick. *)
(***************************************************************************)
EXTENDS Naturals, Sequences, SequencesExt

CONSTANTS Proc,     \* the processes that set alarms
          Delay,    \* for how many ticks
          MaxTick,  \* bound: where the ticks stop; the interrupts go on
          kproc,    \* alarmkproc
          nil

AlarmsAssumption ==
    /\ Delay \subseteq Nat \ {0}
    /\ MaxTick \in Nat \ {0}
    /\ kproc \notin Proc
    /\ nil \notin Proc \cup {kproc}

VARIABLES
    ticks,    \* MACHP(0)->ticks
    alarm,    \* p->alarm, 0 if none is set
    list,     \* alarms.head
    qalarms,  \* who holds the QLock of alarms
    debug,    \* whether somebody else holds p->debug
    pc,       \* where each process is in procalarm, and alarmkproc
    when,     \* the local when of procalarm
    now       \* the local now of alarmkproc

vars == <<ticks, alarm, list, qalarms, debug, pc, when, now>>

Init ==
    /\ ticks = 1
    /\ alarm = [p \in Proc |-> 0]
    /\ list = <<>>
    /\ qalarms = nil
    /\ debug = [p \in Proc |-> FALSE]
    /\ pc = [a \in Proc \cup {kproc} |-> IF a = kproc THEN "start" ELSE "idle"]
    /\ when = [p \in Proc |-> 0]
    /\ now = 0

Goto(a, from, to) == pc[a] = from /\ pc' = [pc EXCEPT ![a] = to]

-----------------------------------------------------------------------------
\* procalarm(0), or pexit: the process stays on the list.
cancel(p) ==
    /\ pc[p] = "idle"
    /\ alarm' = [alarm EXCEPT ![p] = 0]
    /\ UNCHANGED <<ticks, list, qalarms, debug, pc, when, now>>

\* procalarm(time), with d ticks for the time.
procalarm(p, d) ==
    /\ ticks + d <= MaxTick
    /\ Goto(p, "idle", "qlock")
    /\ when' = [when EXCEPT ![p] = ticks + d]
    /\ UNCHANGED <<ticks, alarm, list, qalarms, debug, now>>

\* Where the list starts to be later than t.
position(l, t) ==
    LET later == {i \in DOMAIN l : alarm[l[i]] > t}
    IN IF later = {} THEN Len(l) + 1
       ELSE CHOOSE i \in later : \A j \in later : i <= j

\* Mutant: in front of the list whatever the time.
procalarmLinkFirst(p) ==
    /\ qalarms = nil
    /\ Goto(p, "qlock", "set")
    /\ list' = <<p>> \o RemoveFirst(list, p)
    /\ qalarms' = p
    /\ UNCHANGED <<ticks, alarm, debug, when, now>>

\* qlock(&alarms), out of the list and in again.
procalarmLink(p) ==
    /\ qalarms = nil
    /\ Goto(p, "qlock", "set")
    /\ \E l \in {RemoveFirst(list, p)} :
         list' = InsertAt(l, position(l, when[p]), p)
    /\ qalarms' = p
    /\ UNCHANGED <<ticks, alarm, debug, when, now>>

\* done: up->alarm = when; qunlock(&alarms).
procalarmSet(p) ==
    /\ Goto(p, "set", "idle")
    /\ alarm' = [alarm EXCEPT ![p] = when[p]]
    /\ when' = [when EXCEPT ![p] = 0]
    /\ qalarms' = nil
    /\ UNCHANGED <<ticks, list, debug, now>>

-----------------------------------------------------------------------------
\* Mutant: the head of the list is due at its very tick only.
checkalarmsExact ==
    /\ ticks' = IF ticks < MaxTick THEN ticks + 1 ELSE ticks
    /\ pc' = [pc EXCEPT ![kproc] =
                IF list # <<>> /\ alarm[Head(list)] = ticks' /\ @ = "asleep"
                THEN "start" ELSE @]
    /\ UNCHANGED <<alarm, list, qalarms, debug, when, now>>

\* hzclock, with the part of checkalarms that wakes alarmkproc up.
checkalarms ==
    /\ ticks' = IF ticks < MaxTick THEN ticks + 1 ELSE ticks
    /\ pc' = [pc EXCEPT ![kproc] =
                IF list # <<>> /\ alarm[Head(list)] <= ticks' /\ @ = "asleep"
                THEN "start" ELSE @]
    /\ UNCHANGED <<alarm, list, qalarms, debug, when, now>>

\* Somebody, devproc for one, takes p->debug and gives it back.
debugger(p) ==
    /\ ~(pc[kproc] = "post" /\ p = Head(list))      \* alarmkproc has it
    /\ debug' = [debug EXCEPT ![p] = ~@]
    /\ UNCHANGED <<ticks, alarm, list, qalarms, pc, when, now>>

-----------------------------------------------------------------------------
(***************************************************************************)
(* alarmkproc.                                                             *)
(***************************************************************************)
alarmkproc ==
    /\ Goto(kproc, "start", "qlock")
    /\ now' = ticks
    /\ UNCHANGED <<ticks, alarm, list, qalarms, debug, when>>

alarmkprocLock ==
    /\ qalarms = nil
    /\ Goto(kproc, "qlock", "loop")
    /\ qalarms' = kproc
    /\ UNCHANGED <<ticks, alarm, list, debug, when, now>>

\* Due, and not cancelled.
alarmkprocDue ==
    /\ list # <<>> /\ alarm[Head(list)] \in 1 .. now
    /\ Goto(kproc, "loop", "try")
    /\ UNCHANGED <<ticks, alarm, list, qalarms, debug, when, now>>

alarmkprocCancelled ==
    /\ pc[kproc] = "loop"
    /\ list # <<>> /\ alarm[Head(list)] = 0
    /\ list' = Tail(list)
    /\ UNCHANGED <<ticks, alarm, qalarms, debug, pc, when, now>>

\* canqlock(&rp->debug)
alarmkprocTry ==
    /\ pc[kproc] = "try" /\ ~debug[Head(list)]
    /\ Goto(kproc, "try", "post")
    /\ UNCHANGED <<ticks, alarm, list, qalarms, debug, when, now>>

alarmkprocBusy ==
    /\ pc[kproc] = "try" /\ debug[Head(list)]
    /\ Goto(kproc, "try", "sleep")
    /\ qalarms' = nil
    /\ now' = 0
    /\ UNCHANGED <<ticks, alarm, list, debug, when>>

\* postnote, rp->alarm = 0 and off the list.
alarmkprocPost ==
    /\ Goto(kproc, "post", "loop")
    /\ alarm' = [alarm EXCEPT ![Head(list)] = 0]
    /\ list' = Tail(list)
    /\ UNCHANGED <<ticks, qalarms, debug, when, now>>

\* Nothing else is due: qunlock(&alarms).
alarmkprocDone ==
    /\ Goto(kproc, "loop", "sleep")
    /\ list # <<>> => alarm[Head(list)] > now
    /\ qalarms' = nil
    /\ now' = 0
    /\ UNCHANGED <<ticks, alarm, list, debug, when>>

\* sleep(&alarmr, return0, 0)
alarmkprocSleep ==
    /\ Goto(kproc, "sleep", "asleep")
    /\ UNCHANGED <<ticks, alarm, list, qalarms, debug, when, now>>

-----------------------------------------------------------------------------
Setting(p) == procalarmLink(p) \/ procalarmSet(p)
Kproc ==
    \/ alarmkproc \/ alarmkprocLock \/ alarmkprocDue \/ alarmkprocCancelled
    \/ alarmkprocTry \/ alarmkprocBusy \/ alarmkprocPost \/ alarmkprocDone
    \/ alarmkprocSleep

Next ==
    \/ \E p \in Proc :
         \/ cancel(p) \/ (\E d \in Delay : procalarm(p, d)) \/ Setting(p)
         \/ debugger(p)
    \/ checkalarms
    \/ Kproc

Spec == Init /\ [][Next]_vars

\* The clock ticks, processes run, and QLocks are handed over in turn (module
\* RWlock).
Fairness ==
    /\ WF_vars(checkalarms)
    /\ \A p \in Proc : WF_vars(procalarmSet(p)) /\ SF_vars(procalarmLink(p))
    /\ WF_vars(Kproc) /\ SF_vars(alarmkprocLock)

FairSpec == Spec /\ Fairness

-----------------------------------------------------------------------------
\* The type of every variable.
TypeOK ==
    /\ ticks \in 1 .. MaxTick
    /\ alarm \in [Proc -> 0 .. MaxTick]
    /\ list \in Seq(Proc)
    /\ qalarms \in Proc \cup {kproc, nil}
    /\ debug \in [Proc -> BOOLEAN]
    /\ pc \in [Proc \cup {kproc} ->
                 {"idle", "qlock", "set", "start", "loop", "try", "post",
                  "sleep", "asleep"}]
    /\ when \in [Proc -> 0 .. MaxTick]
    /\ now \in 0 .. MaxTick

\* An alarm that is set is on the list, once.
SetIsListed ==
    /\ IsInjective(list)
    /\ \A p \in Proc : alarm[p] # 0 => Contains(list, p)

\* The list alarms is sound: everything has its type, and it holds whoever
\* has an alarm set.
AlarmsOK == TypeOK /\ SetIsListed

\* checkalarms and alarmkproc look at the head only: if any alarm is due, the
\* head of the list is.
DueIsSeen ==
    qalarms = nil => \A p \in Proc : alarm[p] \in 1 .. ticks =>
        alarm[Head(list)] <= ticks

\* What alarmkproc found out about the head of the list holds when it posts
\* the note: the head is the process it looked at, and its alarm is due, or
\* has been cancelled under its hands.
PostsDue ==
    pc[kproc] \in {"try", "post"} =>
        list # <<>> /\ alarm[Head(list)] <= now

\* An alarm that is due goes off, unless it is cancelled or set anew, if in
\* the end debuggers leave the processes alone.
AlarmGoesOff ==
    <>[](\A p \in Proc : ~debug[p]) =>
        \A p \in Proc : alarm[p] \in 1 .. ticks ~> alarm[p] \notin 1 .. ticks

=============================================================================
