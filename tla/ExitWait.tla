------------------------------ MODULE ExitWait ------------------------------
(***************************************************************************)
(* Parents and children: newproc and sysrfork make a child, pexit leaves a *)
(* wait record with the parent, pwait collects it (port/proc.c,            *)
(* port/sysproc.c).                                                        *)
(*                                                                         *)
(* A child knows its parent as a Proc structure and a pid.  The structure  *)
(* may be free, or be another process by the time the child exits; the pid *)
(* tells, under p->exl.  Every step below is one critical section of       *)
(* p->exl, or what one process does between two of them.                   *)
(***************************************************************************)
EXTENDS Integers, Sequences, FiniteSets

CONSTANTS Proc,     \* the Proc structures
          boot,     \* the boot process, which has no parent
          NWAIT,    \* the limit of wait records, 128 in the code
          NoWaits,  \* whether sysrfork is called with RFNOWAIT
          MaxPid,   \* bound: the number of processes ever made
          nil

ASSUME ExitWaitAssumption ==
    /\ IsFiniteSet(Proc)
    /\ boot \in Proc
    /\ NWAIT \in Nat \ {0}
    /\ NoWaits \subseteq BOOLEAN
    /\ MaxPid \in Nat \ {0}
    /\ nil \notin Proc

VARIABLES
    life,       \* how far the process in each Proc has come
    pid,        \* p->pid, 0 before and after
    parent,     \* p->parent
    parentpid,  \* p->parentpid
    nchild,     \* p->nchild
    nwait,      \* p->nwait
    waitq,      \* p->waitq: the pid and the parentpid of each exited child
    forking,    \* the Proc that p is making a child of
    pidalloc

family == <<parent, parentpid>>
records == <<nchild, nwait, waitq>>
vars == <<life, pid, family, records, forking, pidalloc>>

Init ==
    /\ life = [p \in Proc |-> IF p = boot THEN "alive" ELSE "free"]
    /\ pid = [p \in Proc |-> IF p = boot THEN 1 ELSE 0]
    /\ parent = [p \in Proc |-> nil]
    /\ parentpid = [p \in Proc |-> 0]
    /\ nchild = [p \in Proc |-> 0]
    /\ nwait = [p \in Proc |-> 0]
    /\ waitq = [p \in Proc |-> <<>>]
    /\ forking = [p \in Proc |-> nil]
    /\ pidalloc = 1

becomes(p, from, to) == life[p] = from /\ life' = [life EXCEPT ![p] = to]

-----------------------------------------------------------------------------
\* newproc(), up to the pid.
newproc(p, c) ==
    /\ life[p] = "alive" /\ forking[p] = nil
    /\ pidalloc < MaxPid
    /\ becomes(c, "free", "new")
    /\ forking' = [forking EXCEPT ![p] = c]
    /\ nchild' = [nchild EXCEPT ![c] = 0]
    /\ nwait' = [nwait EXCEPT ![c] = 0]
    /\ waitq' = [waitq EXCEPT ![c] = <<>>]
    /\ parent' = [parent EXCEPT ![c] = nil]
    /\ UNCHANGED <<pid, parentpid, pidalloc>>

\* The rest of newproc: a pid, and into the hash table.
newprocPid(p) ==
    /\ forking[p] # nil
    /\ pid[forking[p]] = 0
    /\ pidalloc < MaxPid
    /\ pidalloc' = pidalloc + 1
    /\ pid' = [pid EXCEPT ![forking[p]] = pidalloc']
    /\ UNCHANGED <<life, family, records, forking>>

\* Mutant: the child is told a parentpid that is not its parent's.
sysrforkStale(p, nowait) ==
    LET c == forking[p] IN
    /\ c # nil
    /\ pid[c] # 0
    /\ becomes(c, "new", "alive")
    /\ parent' = [parent EXCEPT ![c] = p]
    /\ nchild' = [nchild EXCEPT ![p] = IF nowait THEN @ ELSE @ + 1]
    /\ forking' = [forking EXCEPT ![p] = nil]
    /\ UNCHANGED <<pid, parentpid, nwait, waitq, pidalloc>>

\* The end of sysrfork: the child is a child of p and is readied.
sysrfork(p, nowait) ==
    LET c == forking[p] IN
    /\ c # nil
    /\ pid[c] # 0
    /\ becomes(c, "new", "alive")
    /\ parent' = [parent EXCEPT ![c] = p]
    /\ parentpid' = [parentpid EXCEPT ![c] = IF nowait THEN 0 ELSE pid[p]]
    /\ nchild' = [nchild EXCEPT ![p] = IF nowait THEN @ ELSE @ + 1]
    /\ forking' = [forking EXCEPT ![p] = nil]
    /\ UNCHANGED <<pid, nwait, waitq, pidalloc>>

-----------------------------------------------------------------------------
\* Mutant: the Proc of the parent is taken for the parent.
leavesRecordAny(c) ==
    life[parent[c]] # "broken" /\ nwait[parent[c]] < NWAIT

\* Whether pexit leaves a wait record: the parent is still the process that
\* forked c, is not Broken and has not too many records.
leavesRecord(c) ==
    /\ pid[parent[c]] = parentpid[c]
    /\ life[parent[c]] # "broken"
    /\ nwait[parent[c]] < NWAIT

record(c) == <<[pid |-> pid[c], ppid |-> parentpid[c]]>>

\* Mutant: the record is left and the child still counted.
pexitUncounted(c, freemem) ==
    LET p == parent[c] IN
    /\ p # nil
    /\ forking[c] = nil
    /\ becomes(c, "alive", IF freemem THEN "dying" ELSE "breaking")
    /\ IF leavesRecord(c)
       THEN /\ nwait' = [nwait EXCEPT ![p] = @ + 1]
            /\ waitq' = [waitq EXCEPT ![p] = record(c) \o @]
       ELSE UNCHANGED <<nwait, waitq>>
    /\ UNCHANGED <<pid, family, nchild, forking, pidalloc>>

\* pexit, up to and including the wait record; with freemem = 0 addbroken
\* comes next.
pexit(c, freemem) ==
    LET p == parent[c] IN
    /\ p # nil                          \* panic("boot process died")
    /\ forking[c] = nil
    /\ becomes(c, "alive", IF freemem THEN "dying" ELSE "breaking")
    /\ IF leavesRecord(c)
       THEN /\ nchild' = [nchild EXCEPT ![p] = @ - 1]
            /\ nwait' = [nwait EXCEPT ![p] = @ + 1]
            /\ waitq' = [waitq EXCEPT ![p] = record(c) \o @]
       ELSE UNCHANGED records
    /\ UNCHANGED <<pid, family, forking, pidalloc>>

\* addbroken: the process stays around (module Broken has the list).
addbroken(c) ==
    /\ becomes(c, "breaking", "broken")
    /\ UNCHANGED <<pid, family, records, forking, pidalloc>>

\* addbroken returns: somebody readied the broken process (module Broken).
unbreak(c) ==
    /\ becomes(c, "broken", "dying")
    /\ UNCHANGED <<pid, family, records, forking, pidalloc>>

\* "Prevent my children from leaving waits".
pexitPid(c) ==
    /\ becomes(c, "dying", "gone")
    /\ pid' = [pid EXCEPT ![c] = 0]
    /\ UNCHANGED <<family, records, forking, pidalloc>>

\* The records nobody collected are freed and the Proc becomes free.
pexitFree(c) ==
    /\ becomes(c, "gone", "free")
    /\ waitq' = [waitq EXCEPT ![c] = <<>>]
    /\ UNCHANGED <<pid, family, nchild, nwait, forking, pidalloc>>

-----------------------------------------------------------------------------
\* pwait: with no children and no record it fails with Enochild, which
\* changes nothing.
pwait(p) ==
    /\ forking[p] = nil
    /\ ~(nchild[p] = 0 /\ waitq[p] = <<>>)
    /\ becomes(p, "alive", "waiting")
    /\ UNCHANGED <<pid, family, records, forking, pidalloc>>

\* sleep(&up->waitr, haswaitq, up) is interrupted by a note.
pwaitIntr(p) ==
    /\ becomes(p, "waiting", "alive")
    /\ UNCHANGED <<pid, family, records, forking, pidalloc>>

\* haswaitq: sleep returns and the first record is collected.
pwaitReturn(p) ==
    /\ becomes(p, "waiting", "alive")
    /\ waitq[p] # <<>>
    /\ waitq' = [waitq EXCEPT ![p] = Tail(@)]
    /\ nwait' = [nwait EXCEPT ![p] = @ - 1]
    /\ UNCHANGED <<pid, family, nchild, forking, pidalloc>>

-----------------------------------------------------------------------------
Exiting(c) ==
    \/ \E freemem \in BOOLEAN : pexit(c, freemem)
    \/ addbroken(c) \/ pexitPid(c) \/ pexitFree(c)
Forking(p) == newprocPid(p) \/ \E nowait \in NoWaits : sysrfork(p, nowait)

Next == \E p \in Proc :
    \/ \E c \in Proc : newproc(p, c)
    \/ Forking(p) \/ Exiting(p)
    \/ unbreak(p) \/ pwait(p) \/ pwaitIntr(p) \/ pwaitReturn(p)

Spec == Init /\ [][Next]_vars

\* Processes run, and programs end: a fork is finished, a record collected, a
\* process that may exit again and again does so some day (strong, as it may
\* spend its life in and out of pwait).  Nobody is obliged to fork, to wait, to
\* interrupt or to free a broken process.
Fairness == \A p \in Proc :
    /\ WF_vars(Forking(p))
    /\ SF_vars(Exiting(p))
    /\ WF_vars(pwaitReturn(p))

FairSpec == Spec /\ Fairness

-----------------------------------------------------------------------------
Living == {"alive", "waiting"}

\* The children of p that have yet to exit and that p counts on.
children(p) ==
    {c \in Proc : life[c] \in Living /\ parent[c] = p /\ parentpid[c] = pid[p]}

\* The type of every variable.
TypeOK ==
    /\ life \in [Proc -> {"free", "new", "alive", "waiting", "breaking",
                          "broken", "dying", "gone"}]
    /\ pid \in [Proc -> 0 .. MaxPid]
    /\ parent \in [Proc -> Proc \cup {nil}]
    /\ parentpid \in [Proc -> 0 .. MaxPid]
    /\ nchild \in [Proc -> Int]
    /\ nwait \in [Proc -> Nat]
    /\ waitq \in [Proc -> Seq([pid : 1 .. MaxPid, ppid : 0 .. MaxPid])]
    /\ forking \in [Proc -> Proc \cup {nil}]
    /\ pidalloc \in 1 .. MaxPid

\* "Number of living children": p->nchild is what it says, so that pwait
\* fails with Enochild exactly if there is nobody left to wait for.
NchildLiving ==
    \A p \in Proc : life[p] \in Living => nchild[p] = Cardinality(children(p))

\* Nobody waits in vain: a process in pwait has a record to collect or a
\* child that will leave one.
NobodyWaitsInVain ==
    \A p \in Proc : life[p] = "waiting" => waitq[p] # <<>> \/ children(p) # {}

\* A process collects the records of its own children only, each once, even
\* though Procs are used again.
RecordsOwn ==
    \A p \in Proc : life[p] \in Living =>
        /\ nwait[p] = Len(waitq[p])
        /\ \A i \in DOMAIN waitq[p] :
             /\ waitq[p][i].ppid = pid[p]
             /\ \A c \in children(p) : pid[c] # waitq[p][i].pid
             /\ \A j \in DOMAIN waitq[p] :
                  waitq[p][j].pid = waitq[p][i].pid => i = j

\* Parents and children agree: everything has its type, children are counted,
\* waited for only if there are any, and recorded once with their own parent.
ChildrenOK == TypeOK /\ NchildLiving /\ NobodyWaitsInVain /\ RecordsOwn

\* "If my parent is no longer alive [...] don't leave a wait record behind".
OrphansLeaveNothing ==
    [][\A p \in Proc : Len(waitq'[p]) > Len(waitq[p]) => pid[p] # 0]_vars

Waiting(p) == life[p] = "waiting"

\* A process in pwait returns once its children exit.
WaitReturns == \A p \in Proc : Waiting(p) ~> ~Waiting(p)

=============================================================================
