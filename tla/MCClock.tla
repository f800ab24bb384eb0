------------------------------ MODULE MCClock -------------------------------
(***************************************************************************)
(* Model checking the clock: a behaviour is one of TSleep, where two       *)
(* processes sleep again and again and two clocks tick; or of Alarms,      *)
(* where two processes set and cancel alarms; or of Timers, for ever.  In  *)
(* the first two the time passes every timeout and every alarm.  The three *)
(* share no more than the names of processes and Machs; those that a       *)
(* behaviour is not about stay in their initial states.                    *)
(***************************************************************************)
EXTENDS TSleep

CONSTANTS MaxAlarmTick, kproc,              \* of Alarms
          hztimer, Clock0, hzPeriod, clock0Period, ci, Ahead, Late, \* of Timers
          watched                           \* see TimeComes

VARIABLES
    which,   \* the module of the behaviour, or the Timer to be watched in it
    aticks, alarm, alist, qalarms, debug, apc, awhen, anow,
    clink, cwhen, cset, cpc, ccur, cnow, cilock

avars == <<aticks, alarm, alist, qalarms, debug, apc, awhen, anow>>
cvars == <<clink, cwhen, cset, cpc, ccur, cnow, cilock>>
all == <<which, vars, avars, cvars>>

A == INSTANCE Alarms WITH MaxTick <- MaxAlarmTick, ticks <- aticks,
        list <- alist, pc <- apc, when <- awhen, now <- anow

\* On one Mach: its hzclock, what addclock0link added to it and the timer of
\* the loopback link.
T == INSTANCE Timers WITH
        Mach <- {mach0}, Periodic <- {hztimer} \cup Clock0,
        Period <- [t \in {hztimer} \cup Clock0 |->
                     IF t = hztimer THEN hzPeriod ELSE clock0Period],
        Home <- [t \in {hztimer} \cup Clock0 |-> mach0],
        hz <- [m \in {mach0} |-> hztimer],
        ciHome <- mach0, Delays <- Ahead, Wander <- FALSE,
        link <- clink, when <- cwhen, set <- cset, pc <- cpc, cur <- ccur,
        now <- cnow, ilock <- cilock

ASSUME watched \in Proc
ASSUME A!AlarmsAssumption
ASSUME T!TimersAssumption

MCInit ==
    /\ which \in {"TSleep", "Alarms"} \cup T!Timer
    /\ Init /\ A!Init /\ T!Init

\* A step of one is none of the others.
OnSleep(S) == which = "TSleep" /\ S /\ UNCHANGED <<which, avars, cvars>>
OnAlarm(S) == which = "Alarms" /\ S /\ UNCHANGED <<which, vars, cvars>>
OnTimer(S) == which \in T!Timer /\ S /\ UNCHANGED <<which, vars, avars>>

MCNext == OnSleep(Next) \/ OnAlarm(A!Next) \/ OnTimer(T!Next)

\* The fairness of each module in its own behaviours.  A formula speaks of
\* one of its disjuncts only in any behaviour; they are written together
\* because TLC's work doubles with every SF.
MCFairness ==
    /\ \A p \in Proc :
         /\ WF_all(OnSleep(Running(p)) \/ OnAlarm(A!procalarmSet(p)))
         /\ SF_all(\/ OnSleep(tsleepLock(p)) \/ OnAlarm(A!procalarmLink(p))
                   \/ p = watched /\ OnTimer(T!tick))
    /\ \A m \in Mach :
         /\ WF_all(\/ OnSleep(Interrupt(m))
                   \/ m = mach0 /\ (OnAlarm(A!checkalarms) \/ OnTimer(T!going(m))))
         /\ SF_all(\/ OnSleep(checkalarms(m))
                   \/ m = mach0 /\ (OnAlarm(A!alarmkprocLock) \/ OnTimer(T!timerintr(m))))
    /\ WF_all(OnAlarm(A!Kproc))

MCSpec == MCInit /\ [][MCNext]_all /\ MCFairness

-----------------------------------------------------------------------------
\* The lists of alarm.c and portclock.c are sound: talarm holds exactly the
\* processes whose p->trend is set, whoever sleeps in tsleep with its time and
\* its Rendez; alarms holds, once, whoever has an alarm set; and a list of
\* Timers is in order, with no Timer twice, and its clock set for the first.
ListsOK == TalarmOK /\ TimeoutKept /\ A!AlarmsOK /\ T!TimersOK

\* The heads of the lists, which is all that checkalarms and alarmkproc look
\* at, tell whether anybody is due; and no note is posted early.
DueAtHead == DueFirst /\ A!DueIsSeen /\ A!PostsDue

Pending(p) ==
    \/ which = "TSleep" /\ pc[p] = "asleep"
    \/ which = "Alarms" /\ alarm[p] \in 1 .. aticks
    \/ which \in T!Timer /\ T!Waiting(which)

\* A tsleep ends, and an alarm that is due goes off or is cancelled, if in
\* the end debuggers leave the processes alone; and every Timer is called
\* when its time comes, a periodic one again and again.  It is TimeoutFires,
\* AlarmGoesOff and TimersFire of the modules.  Watching one process is
\* enough: processes may be exchanged for one another in all that TSleep and
\* Alarms say; and which Timer is watched is chosen by which.
TimeComes ==
    <>[](\A p \in Proc : ~debug[p]) =>
        (Pending(watched) ~> ~Pending(watched))
=============================================================================
