------------------------------- MODULE RWlock -------------------------------
(***************************************************************************)
(* The queueing locks of port/qlock.c: QLock (qlock, canqlock, qunlock)    *)
(* and RWlock (rlock, canrlock, runlock, wlock, wunlock).  One lock of     *)
(* either kind is modelled; a QLock is taken by wlock alone.               *)
(*                                                                         *)
(* A routine is one step, made under the spin lock q->use, except that the *)
(* process an unlock has chosen is readied after q->use is dropped.  The   *)
(* lock is handed over: a process that had to queue owns it from the       *)
(* moment it is taken off the queue, long before it runs again.            *)
(***************************************************************************)
EXTENDS Naturals, Sequences, FiniteSets

CONSTANTS Proc,   \* the processes that use the lock
          nil

ASSUME RWlockAssumption ==
    /\ IsFiniteSet(Proc)
    /\ nil \notin Proc

VARIABLES
    kind,     \* what the lock is, a QLock or an RWlock; it never changes
    writer,   \* q->writer, or q->locked
    readers,  \* q->readers
    queue,    \* the processes from q->head to q->tail
    state,    \* p->state
    pc,       \* where each process is with respect to the lock
    hand      \* the process an unlock is about to ready

vars == <<kind, writer, readers, queue, state, pc, hand>>

Init ==
    /\ kind \in {"QLock", "RWlock"}
    /\ writer = 0
    /\ readers = 0
    /\ queue = <<>>
    /\ state = [p \in Proc |-> "Running"]
    /\ pc = [p \in Proc |-> "out"]
    /\ hand = [p \in Proc |-> nil]

Goto(p, from, to) == pc[p] = from /\ pc' = [pc EXCEPT ![p] = to]

queued(p) == \E i \in DOMAIN queue : queue[i] = p

\* The end of every lock that has to wait: to the tail, and sched().
enqueue(p, how, wait) ==
    /\ Goto(p, "out", wait)
    /\ queue' = Append(queue, p)
    /\ state' = [state EXCEPT ![p] = how]
    /\ UNCHANGED <<writer, readers, hand>>

-----------------------------------------------------------------------------
\* Mutant: a reader overtakes the writers that wait.
rlockBarging(p) ==
    \/ /\ kind = "RWlock"
       /\ writer = 0
       /\ Goto(p, "out", "reading")
       /\ readers' = readers + 1
       /\ UNCHANGED <<writer, queue, state, hand>>
    \/ /\ kind = "RWlock"
       /\ writer # 0
       /\ enqueue(p, "QueueingR", "rwait")

\* rlock, and canrlock where it succeeds.
rlock(p) ==
    \/ /\ kind = "RWlock"
       /\ writer = 0 /\ queue = <<>>
       /\ Goto(p, "out", "reading")
       /\ readers' = readers + 1
       /\ UNCHANGED <<writer, queue, state, hand>>
    \/ /\ kind = "RWlock"
       /\ writer # 0 \/ queue # <<>>
       /\ enqueue(p, "QueueingR", "rwait")

\* Mutant: the writer that is started is not accounted for.
runlockUncounted(p) ==
    /\ readers' = readers - 1
    /\ IF readers - 1 > 0 \/ queue = <<>>
       THEN /\ Goto(p, "reading", "out")
            /\ UNCHANGED <<writer, queue, hand>>
       ELSE /\ Goto(p, "reading", "readying")
            /\ hand' = [hand EXCEPT ![p] = Head(queue)]
            /\ queue' = Tail(queue)
            /\ UNCHANGED writer
    /\ UNCHANGED state

runlock(p) ==
    /\ readers' = readers - 1
    /\ IF readers - 1 > 0 \/ queue = <<>>
       THEN /\ Goto(p, "reading", "out")
            /\ UNCHANGED <<writer, queue, hand>>
       ELSE /\ Goto(p, "reading", "readying")   \* start waiting writer
            /\ hand' = [hand EXCEPT ![p] = Head(queue)]
            /\ queue' = Tail(queue)
            /\ writer' = 1
    /\ UNCHANGED state

\* Mutant: a writer that has to wait goes to the head of the queue.
wlockFirst(p) ==
    \/ /\ readers = 0 /\ writer = 0
       /\ Goto(p, "out", "writing")
       /\ writer' = 1
       /\ UNCHANGED <<readers, queue, state, hand>>
    \/ /\ readers # 0 \/ writer # 0
       /\ Goto(p, "out", "wwait")
       /\ queue' = <<p>> \o queue
       /\ state' = [state EXCEPT ![p] = IF kind = "QLock" THEN "Queueing"
                                        ELSE "QueueingW"]
       /\ UNCHANGED <<writer, readers, hand>>

\* wlock or qlock, and canqlock where it succeeds.
wlock(p) ==
    \/ /\ readers = 0 /\ writer = 0
       /\ Goto(p, "out", "writing")
       /\ writer' = 1
       /\ UNCHANGED <<readers, queue, state, hand>>
    \/ /\ readers # 0 \/ writer # 0
       /\ enqueue(p, IF kind = "QLock" THEN "Queueing" ELSE "QueueingW",
                  "wwait")

\* How many readers wait at the head of the queue.
leading == CHOOSE k \in 0 .. Len(queue) :
    /\ \A i \in 1 .. k : state[queue[i]] = "QueueingR"
    /\ k < Len(queue) => state[queue[k + 1]] # "QueueingR"

released(p) == \E i \in 1 .. leading : queue[i] = p

\* wunlock and qunlock.
wunlock(p) ==
    \/ /\ queue = <<>>
       /\ Goto(p, "writing", "out")
       /\ writer' = 0
       /\ UNCHANGED <<readers, queue, state, hand>>
    \/ /\ queue # <<>> /\ state[Head(queue)] # "QueueingR"
       /\ Goto(p, "writing", "readying")        \* start waiting writer
       /\ hand' = [hand EXCEPT ![p] = Head(queue)]
       /\ queue' = Tail(queue)
       /\ UNCHANGED <<writer, readers, state>>
    \/ /\ queue # <<>> /\ state[Head(queue)] = "QueueingR"
       /\ Goto(p, "writing", "out")             \* waken waiting readers
       /\ readers' = readers + leading
       /\ state' = [q \in Proc |-> IF released(q) THEN "Ready" ELSE state[q]]
       /\ queue' = SubSeq(queue, leading + 1, Len(queue))
       /\ writer' = 0
       /\ UNCHANGED hand

\* Mutant: the process that was chosen is not readied.
unlockReadyLost(p) ==
    /\ Goto(p, "readying", "out")
    /\ hand' = [hand EXCEPT ![p] = nil]
    /\ UNCHANGED <<writer, readers, queue, state>>

\* The ready(p) at the end of runlock, wunlock and qunlock.
unlockReady(p) ==
    /\ Goto(p, "readying", "out")
    /\ state' = [state EXCEPT ![hand[p]] = "Ready"]
    /\ hand' = [hand EXCEPT ![p] = nil]
    /\ UNCHANGED <<writer, readers, queue>>

\* The scheduler runs p again, which returns from its rlock, wlock or qlock.
resume(p) ==
    /\ state[p] = "Ready"
    /\ \/ Goto(p, "rwait", "reading")
       \/ Goto(p, "wwait", "writing")
    /\ state' = [state EXCEPT ![p] = "Running"]
    /\ UNCHANGED <<writer, readers, queue, hand>>

-----------------------------------------------------------------------------
Locking(p) == (rlock(p) \/ wlock(p)) /\ UNCHANGED kind
Running(p) ==
    /\ runlock(p) \/ wunlock(p) \/ unlockReady(p) \/ resume(p)
    /\ UNCHANGED kind

Next == \E p \in Proc : Locking(p) \/ Running(p)

Spec == Init /\ [][Next]_vars

\* Processes keep running, and whoever holds the lock unlocks it again.
\* Nobody is obliged to lock.
Fairness == \A p \in Proc : WF_vars(Running(p))

FairSpec == Spec /\ Fairness

-----------------------------------------------------------------------------
\* The processes that own the lock, be they awake already or not.
Readers == {p \in Proc : pc[p] = "reading" \/ (pc[p] = "rwait" /\ ~queued(p))}
Writers == {p \in Proc : pc[p] = "writing" \/ (pc[p] = "wwait" /\ ~queued(p))}

\* The type of every variable of the lock.
TypeOK ==
    /\ kind \in {"QLock", "RWlock"}
    /\ writer \in {0, 1}
    /\ readers \in Nat
    /\ queue \in Seq(Proc)
    /\ state \in [Proc -> {"Running", "Queueing", "QueueingR", "QueueingW",
                           "Ready"}]
    /\ pc \in [Proc -> {"out", "rwait", "wwait", "reading", "writing",
                        "readying"}]
    /\ hand \in [Proc -> Proc \cup {nil}]

\* q->writer and q->readers count the owners, across every hand-over, and a
\* writer owns the lock alone.
Exclusion ==
    /\ writer = Cardinality(Writers)
    /\ readers = Cardinality(Readers)
    /\ writer = 1 => readers = 0

\* Neither panic("runlock") nor panic("wunlock") is reached: the process
\* at the head when the last reader leaves is a writer, and whoever queues
\* is in a queueing state.
NoPanic ==
    /\ \A p \in Proc :
         pc[p] = "reading" /\ readers = 1 /\ queue # <<>> =>
            state[Head(queue)] = "QueueingW"
    /\ \A p \in Proc : queued(p) =>
         state[p] \in {"Queueing", "QueueingR", "QueueingW"}

\* No hand-over is lost: while somebody waits the lock is owned, so there is
\* somebody to hand it over.
NobodyForgotten ==
    /\ queue # <<>> => Writers # {} \/ Readers # {}
    /\ \A p \in Proc :
         pc[p] \in {"rwait", "wwait"} =>
            \/ queued(p)
            \/ state[p] = "Ready"
            \/ \E q \in Proc : hand[q] = p

\* The queue is sound: everything has its type, whoever is on it is what the
\* unlocking routines expect there, and nobody is on it, or off it, in vain.
QueueOK == TypeOK /\ NoPanic /\ NobodyForgotten

\* The lock is granted in the order of arrival: whoever takes it at once
\* overtakes nobody.
NoBarging ==
    [][\A p \in Proc :
        pc[p] = "out" /\ pc'[p] \in {"reading", "writing"} =>
            queue = <<>>]_vars

Waiting(p) == pc[p] \in {"rwait", "wwait"}

\* Whoever asks for the lock gets it.
Granted == \A p \in Proc : Waiting(p) ~> ~Waiting(p)

=============================================================================
