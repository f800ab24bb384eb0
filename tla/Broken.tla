------------------------------- MODULE Broken -------------------------------
(***************************************************************************)
(* Broken processes (port/proc.c): a process that dies of a fault stays    *)
(* around for a debugger, on a list of at most NBROKEN, until unbreak,     *)
(* freebroken or a later addbroken readies it and it finishes pexit.       *)
(*                                                                         *)
(* The list is kept under its QLock, but a process is on the list before   *)
(* it is Broken: between the qunlock and the assignment to p->state it is  *)
(* Running, or Ready after a clock tick, and can be readied by somebody    *)
(* else.  The run queue is reduced to how often each process is on it.     *)
(***************************************************************************)
EXTENDS Naturals, Sequences, SequencesExt

CONSTANTS Proc,     \* the processes that break
          NBROKEN,  \* how many are kept
          SlowMark  \* a clock tick may fall between the qunlock and Broken

BrokenAssumption ==
    /\ NBROKEN \in Nat \ {0}
    /\ SlowMark \in BOOLEAN

VARIABLES
    broken,   \* broken.p[0 .. broken.n - 1]
    state,    \* p->state
    mach,     \* whether p->mach # 0: p is on a processor
    onqueue,   \* how often p is on the run queue
    pc        \* where p is in addbroken

vars == <<broken, state, mach, onqueue, pc>>

Init ==
    /\ broken = <<>>
    /\ state = [p \in Proc |-> "Running"]
    /\ mach = [p \in Proc |-> TRUE]
    /\ onqueue = [p \in Proc |-> 0]
    /\ pc = [p \in Proc |-> "faulty"]

Goto(p, from, to) == pc[p] = from /\ pc' = [pc EXCEPT ![p] = to]

\* ready(q) for every q of Q (module Sched has the rest of it).
ready(Q) ==
    /\ onqueue' = [q \in Proc |-> IF q \in Q THEN onqueue[q] + 1 ELSE onqueue[q]]
    /\ state' = [q \in Proc |-> IF q \in Q THEN "Ready" ELSE state[q]]

-----------------------------------------------------------------------------
\* addbroken(p): the part under the lock of the list.
addbroken(p) ==
    /\ mach[p] /\ Goto(p, "faulty", "mark")
    /\ IF Len(broken) = NBROKEN
       THEN ready({Head(broken)}) /\ broken' = Append(Tail(broken), p)
       ELSE broken' = Append(broken, p) /\ UNCHANGED <<state, onqueue>>
    /\ UNCHANGED mach

addbrokenMark(p) ==                             \* p->state = Broken
    /\ mach[p] /\ Goto(p, "mark", "sched")
    /\ state' = [state EXCEPT ![p] = "Broken"]
    /\ UNCHANGED <<broken, mach, onqueue>>

\* sched(), and schedinit on the other side: nothing is done for a process
\* that is not Running but to give up its Mach.
addbrokenSched(p) ==
    /\ mach[p] /\ Goto(p, "sched", "off")
    /\ mach' = [mach EXCEPT ![p] = FALSE]
    /\ UNCHANGED <<broken, state, onqueue>>

-----------------------------------------------------------------------------
\* hzsched: a process that is Running goes to the run queue.
hzsched(p) ==
    /\ mach[p] /\ state[p] = "Running"
    /\ pc[p] = "mark" => SlowMark
    /\ mach' = [mach EXCEPT ![p] = FALSE]
    /\ ready({p})
    /\ UNCHANGED <<broken, pc>>

\* runproc and sched: a process that is off its processor is taken from the
\* queue and goes on; back in addbroken it returns to pexit.
runproc(p) ==
    /\ onqueue[p] > 0 /\ ~mach[p]
    /\ onqueue' = [onqueue EXCEPT ![p] = @ - 1]
    /\ mach' = [mach EXCEPT ![p] = TRUE]
    /\ state' = [state EXCEPT ![p] = "Running"]
    /\ pc' = [pc EXCEPT ![p] = IF @ = "off" THEN "exiting" ELSE @]
    /\ UNCHANGED broken

\* Called when a debugger kills a process that is Broken.
unbreak(p) ==
    /\ state[p] = "Broken"
    /\ Contains(broken, p)
    /\ broken' = RemoveFirst(broken, p)
    /\ ready({p})
    /\ UNCHANGED <<mach, pc>>

\* Mutant: broken.n is not set to 0.
freebrokenKeeps ==
    /\ broken # <<>>
    /\ ready(ToSet(broken))
    /\ UNCHANGED <<broken, mach, pc>>

freebroken ==
    /\ broken # <<>>
    /\ ready(ToSet(broken))
    /\ broken' = <<>>
    /\ UNCHANGED <<mach, pc>>

-----------------------------------------------------------------------------
Marking(p) == addbrokenMark(p) \/ addbrokenSched(p)
Breaking(p) == Marking(p) \/ runproc(p)

Next ==
    \/ \E p \in Proc : addbroken(p) \/ Breaking(p) \/ hzsched(p) \/ unbreak(p)
    \/ freebroken

Spec == Init /\ [][Next]_vars

\* Processes run, and in the end somebody frees the broken ones.
Fairness ==
    /\ \A p \in Proc : WF_vars(Marking(p))
    /\ \A p \in Proc : WF_vars(runproc(p))
    /\ WF_vars(freebroken)

FairSpec == Spec /\ Fairness

-----------------------------------------------------------------------------
\* The type of every variable; the array broken.p has NBROKEN places.
TypeOK ==
    /\ broken \in Seq(Proc) /\ Len(broken) <= NBROKEN
    /\ state \in [Proc -> {"Running", "Ready", "Broken"}]
    /\ mach \in [Proc -> BOOLEAN]
    /\ onqueue \in [Proc -> Nat]
    /\ pc \in [Proc -> {"faulty", "mark", "sched", "off", "exiting"}]

\* No broken process is stuck: one that is off its processor can be found on
\* the list, or is on its way back from the run queue, even if it was readied
\* before it became Broken.
NobodyStuck ==
    \A p \in Proc :
        state[p] = "Broken" /\ ~mach[p] => Contains(broken, p) \/ onqueue[p] > 0

\* The list is sound: it fits in its array, everything else has its type, and
\* it holds whoever nobody else would find.
ListOK == TypeOK /\ NobodyStuck

\* "sticks it in the runq for that priority": a process is on the run queue
\* at most once.
OnQueueOnce == \A p \in Proc : onqueue[p] <= 1

Waiting(p) == pc[p] \in {"mark", "sched", "off"}

\* A process that breaks finishes pexit, if the list is freed now and then.
BrokenExit == \A p \in Proc : Waiting(p) ~> ~Waiting(p)

=============================================================================
