------------------------------- MODULE Timers -------------------------------
(***************************************************************************)
(* The timers of port/portclock.c: tadd, timeradd, timerdel, timerintr,    *)
(* timersinit and addclock0link, and the one user of a timer that is not   *)
(* periodic, the link of devloopback.c (pushlink and closelink).           *)
(*                                                                         *)
(* Every Mach has a list of Timers in the order of their times, under an   *)
(* ilock, and a clock that interrupts at the time of timerset.  link[m] is *)
(* the head of the list of m, and link[t] what follows t.  All times are   *)
(* relative to now, so that time can go on for ever: a tick takes one off  *)
(* each.                                                                   *)
(***************************************************************************)
EXTENDS Integers, Sequences, SequencesExt, FiniteSetsExt

CONSTANTS
    Mach,
    Periodic,   \* the Timers with a period
    Period,     \* Period[t] of each of these
    Home,       \* Home[t]: the Mach they are on
    hz,         \* hz[m]: the one among them that is hzclock
    ci,         \* the Timer of the loopback link
    ciHome,     \* where its users run
    Delays,     \* how far ahead the link sets it
    Late,       \* bound on the delay of an interrupt
    Wander,     \* whether users of the link run on every Mach
    nil

TimersAssumption ==
    /\ ci \notin Periodic /\ nil \notin Mach \cup Periodic \cup {ci} \cup Int
    /\ (Periodic \cup {ci}) \cap Mach = {} /\ IsFiniteSet(Periodic)
    /\ Period \in [Periodic -> Nat \ {0}] /\ Home \in [Periodic -> Mach]
    /\ hz \in [Mach -> Periodic] /\ \A m \in Mach : Home[hz[m]] = m
    \* hzclock is the fastest
    /\ \A t \in Periodic : Period[t] >= Period[hz[Home[t]]]
    /\ ciHome \in Mach /\ Delays \subseteq Nat \ {0} /\ Late \in Nat

VARIABLES
    link,    \* tt->head and t->next
    when,    \* t->when
    set,     \* when the clock of a Mach will interrupt, nil if it will not
    pc,      \* where timerintr of a Mach is, or pushlink on it
    cur,     \* its t, the Timer it has taken off
    now,     \* its now
    ilock    \* the Mach that holds the lock of the loopback link

vars == <<link, when, set, pc, cur, now, ilock>>

Timer == Periodic \cup {ci}

\* s is what one meets on the way from m along l, until the end or a Timer
\* met before.
Follows(l, m, s) ==
    LET after(i) == IF i = 0 THEN l[m] ELSE l[s[i]]
    IN  /\ \A i \in 1 .. Len(s) : s[i] = after(i - 1)
        /\ after(Len(s)) \in ToSet(s) \cup {nil}
        /\ IsInjective(s)

\* The list of m.
list(l, m) ==
    CHOOSE s \in UNION {[1 .. n -> Timer] : n \in 0 .. Cardinality(Timer)} :
        Follows(l, m, s)

remove(l, m, t) ==
    IF ~Contains(list(l, m), t) THEN l
    ELSE LET last == CHOOSE x \in {m} \cup ToSet(list(l, m)) : l[x] = t
         IN  [l EXCEPT ![last] = l[t]]

\* Behind last, which one of s is.
insert(l, last, t) == [l EXCEPT ![t] = l[last], ![last] = t]

\* Out of the list, and in front of the first that is later.
tadd(l, w, m, t) ==
    LET s     == RemoveFirst(list(l, m), t)
        later == {i \in DOMAIN s : w[s[i]] > w[t]}
        i     == IF later = {} THEN Len(s) + 1 ELSE Min(later)
    IN  insert(remove(l, m, t), IF i = 1 THEN m ELSE s[i - 1], t)

\* The time of a new periodic Timer: that of another with its period.
first(m, t) ==
    LET s    == list(link, m)
        same == {i \in DOMAIN s : s[i] \in Periodic \ {t} /\ Period[s[i]] = Period[t]}
    IN  IF same = {} THEN Period[t]
        ELSE when[s[Max(same)]]

\* timerset if the list begins with t.
setFor(l, w, m, t) == set' = IF l[m] = t THEN [set EXCEPT ![m] = w[t]] ELSE set

Init ==
    /\ link = [x \in Mach \cup Timer |-> nil]
    /\ when = [t \in Timer |-> nil]
    /\ set = [m \in Mach |-> nil]
    /\ pc = [m \in Mach |-> "run"] /\ cur = [m \in Mach |-> nil]
    /\ now = [m \in Mach |-> 0]
    /\ ilock = nil

Goto(m, a, b) == pc[m] = a /\ pc' = [pc EXCEPT ![m] = b]

-----------------------------------------------------------------------------
\* timersinit, on each Mach.
timersinit(m) ==
    LET t == hz[m]
    IN  /\ pc[m] = "run" /\ when[t] = nil
        /\ when' = [when EXCEPT ![t] = first(m, t)]
        /\ link' = tadd(link, when', m, t)
        /\ setFor(link', when', m, t)
        /\ UNCHANGED <<pc, cur, now, ilock>>

\* Called on any Mach.  "no need to restart timer: this one's synchronized
\* with hztimer which is already running"
addclock0link(t) ==
    LET m == Home[t]
    IN  /\ pc[m] # "next" \/ cur[m] # nil   \* the list is not locked
        /\ when[t] = nil /\ when[hz[m]] # nil
        /\ when' = [when EXCEPT ![t] = first(m, t)]
        /\ link' = tadd(link, when', m, t)
        /\ UNCHANGED <<set, pc, cur, now, ilock>>

\* timerdel(&link->ci), with the link locked, by a process or linkintr.
delete(m) ==
    /\ ilock = nil /\ ilock' = m
    /\ link' = remove(link, m, ci)
    /\ set' = IF link'[m] # nil /\ link[m] = ci
              THEN [set EXCEPT ![m] = when[link'[m]]] ELSE set
    /\ UNCHANGED <<when, cur, now>>

pushlink(m) ==
    /\ Wander \/ m = ciHome
    /\ Goto(m, "run", "push") /\ delete(m)

\* The link is unlocked, by a process or linkintr.
leave(m) ==
    /\ ilock' = nil
    /\ \/ Goto(m, "push", "run") /\ now' = [now EXCEPT ![m] = 0]
       \/ Goto(m, "pushintr", "next") /\ UNCHANGED now

\* There is nothing more to come, or it is closed.
pushlinkNot(m) ==
    /\ leave(m)
    /\ UNCHANGED <<link, when, set, cur>>

\* timeradd, for a time after the one that pushlink was called for: that of
\* the caller, or ci->when.
pushlinkAdd(m) ==
    /\ leave(m)
    /\ \E d \in Delays :
         when' = [when EXCEPT ![ci] = d + IF pc[m] = "push" THEN now[m] ELSE @]
    /\ link' = tadd(link, when', m, ci)
    /\ setFor(link', when', m, ci)
    /\ UNCHANGED cur

-----------------------------------------------------------------------------
timerintr(m) ==
    /\ Goto(m, "run", "next")
    /\ set[m] # nil /\ set[m] <= 0 /\ set' = [set EXCEPT ![m] = nil]
    /\ now' = [now EXCEPT ![m] = 0]
    /\ UNCHANGED <<link, when, cur, ilock>>

\* The loop is over, and what is first on the list has a time to come.
timerintrSet(m) ==
    /\ Goto(m, "next", "run") /\ cur[m] = nil
    /\ link[m] # nil /\ when[link[m]] > now[m]
    /\ set' = [set EXCEPT ![m] = when[link[m]]]
    /\ now' = [now EXCEPT ![m] = 0]
    /\ UNCHANGED <<link, when, cur, ilock>>

timerintrEmpty(m) ==
    /\ Goto(m, "next", "run") /\ cur[m] = nil
    /\ link[m] = nil
    /\ now' = [now EXCEPT ![m] = 0]
    /\ UNCHANGED <<link, when, set, cur, ilock>>

\* tt->head = t->next, and the list is unlocked.
timerintrTake(m) ==
    LET t == link[m]
    IN  /\ pc[m] = "next" /\ cur[m] = nil
        /\ t # nil /\ when[t] <= now[m]
        /\ cur' = [cur EXCEPT ![m] = t]
        /\ link' = [link EXCEPT ![m] = link[t]]
        /\ pc' = [pc EXCEPT ![m] = "call"]
        /\ UNCHANGED <<when, set, now, ilock>>

\* (*t->f)(u, t), and hzclock for hz.
periodic(m) ==
    /\ Goto(m, "call", "next") /\ cur[m] \in Periodic
    /\ UNCHANGED <<link, when, set, cur, now, ilock>>

linkintr(m) ==
    /\ Goto(m, "call", "pushintr") /\ cur[m] = ci
    /\ delete(m)

timerintrAgain(m) ==
    LET t == cur[m]
    IN  /\ pc[m] = "next" /\ t # nil
        /\ cur' = [cur EXCEPT ![m] = nil]
        /\ IF t = ci THEN UNCHANGED <<link, when>>
           ELSE /\ when' = [when EXCEPT ![t] = @ + Period[t]]
                /\ link' = tadd(link, when', m, t)
        /\ UNCHANGED <<set, pc, now, ilock>>

-----------------------------------------------------------------------------
\* What was lost on the way is not followed for ever.
earlier(x) == IF x = nil \/ x < -(2 * Late + 1) THEN x ELSE x - 1

\* Time goes on, as long as no interrupt is late.
tick ==
    /\ \A m \in Mach : /\ set[m] # nil => set[m] > -Late
                       /\ pc[m] = "run" \/ now[m] > -Late
    /\ when' = [t \in Timer |-> earlier(when[t])]
    /\ set' = [m \in Mach |-> earlier(set[m])]
    /\ now' = [m \in Mach |-> IF pc[m] = "run" THEN 0 ELSE now[m] - 1]
    /\ UNCHANGED <<link, pc, cur, ilock>>

Next ==
    \/ tick
    \/ \E t \in Periodic : t # hz[Home[t]] /\ addclock0link(t)
    \/ \E m \in Mach :
         \/ timersinit(m) \/ pushlink(m) \/ pushlinkNot(m) \/ pushlinkAdd(m)
         \/ timerintr(m) \/ timerintrSet(m) \/ timerintrEmpty(m)
         \/ timerintrTake(m) \/ periodic(m) \/ linkintr(m) \/ timerintrAgain(m)

Spec == Init /\ [][Next]_vars

\* Time goes on, and so does a Mach in an interrupt or with a lock; one that
\* may be interrupted again and again is interrupted.
going(m) ==
    \/ timerintrSet(m) \/ timerintrEmpty(m) \/ timerintrTake(m)
    \/ periodic(m) \/ linkintr(m) \/ timerintrAgain(m)
    \/ pushlinkNot(m) \/ pushlinkAdd(m)

Fairness ==
    /\ SF_vars(tick)
    /\ \A m \in Mach : WF_vars(going(m)) /\ SF_vars(timerintr(m))

-----------------------------------------------------------------------------
\* The lists are in the order of their times, no Timer is on two of them, or
\* on one while timerintr is about to put it back, and the clock of every
\* Mach will interrupt when its first Timer is due.
TimersOK ==
    /\ \A m \in Mach :
         LET s == list(link, m)
         IN  /\ IsInjective(s)
             /\ \A i \in 1 .. Len(s) - 1 : when[s[i]] <= when[s[i + 1]]
             /\ cur[m] \in Periodic => \A k \in Mach : ~Contains(list(link, k), cur[m])
             /\ pc[m] = "run" /\ s # <<>> => set[m] # nil /\ set[m] <= when[s[1]]
             /\ pc[m] = "call" => when[cur[m]] <= now[m]
    /\ \A m, k \in Mach : m # k =>
         ToSet(list(link, m)) \cap ToSet(list(link, k)) = {}

\* A periodic Timer that is not being called, or ci when its time has come.
Waiting(t) ==
    IF t \in Periodic
    THEN when[t] # nil /\ \A m \in Mach : cur[m] # t
    ELSE \E m \in Mach : Contains(list(link, m), t) /\ when[t] <= 0

\* A periodic Timer, hzclock first of all, is called again and again for ever;
\* and ci is called, or deleted, once its time has come.
TimersFire == \A t \in Timer : Waiting(t) ~> ~Waiting(t)
=============================================================================
