-------------------------------- MODULE MCIo --------------------------------
(***************************************************************************)
(* Model checking what is behind a read or a write: a behaviour is one of  *)
(* MountMux, three processes that call one server, with notes at any time, *)
(* or with a connection that is hung up or garbled; or one of Qio, a       *)
(* reader, a writer, an interrupt and a control request on a queue of      *)
(* three bytes, in each of the ways queues are used.  The two share the    *)
(* names of the processes; the one that a behaviour is not about stays in  *)
(* its initial state.                                                      *)
(***************************************************************************)
EXTENDS MountMux

CONSTANTS Reader, Writer, intr, ctl, Uses, Sizes, Wants, Limit, Limits, Hdr,
          MaxBlocks, Labels, Hazards   \* of Qio

VARIABLES
    which,   \* the module of the behaviour
    use, q, len, dlen, limit, noblock, state, rlock, wlock, qpc, want, hand,
    last, due, going, next

qvars == <<use, q, len, dlen, limit, noblock, state, rlock, wlock, qpc, want,
           hand, last, due, going, next>>
all == <<which, vars, qvars>>

Q == INSTANCE Qio WITH pc <- qpc

ASSUME QueueAssumption == Q!QioAssumption
ASSUME Reader \cup Writer \subseteq Proc

Either == {{"note"}, {"hangup"}, {"garbage"}}
Both == {{"note", "hangup"}}

\* What a behaviour is not about has one initial state.
MCInit ==
    /\ which \in {"MountMux", "Qio"} /\ Init /\ Q!Init
    /\ which = "MountMux" => use = "pipe"
    /\ which = "Qio" => faults = CHOOSE w \in Worlds : TRUE

OnMount(A) == which = "MountMux" /\ A /\ UNCHANGED <<which, qvars>>
OnQueue(A) == which = "Qio" /\ A /\ UNCHANGED <<which, vars>>

MCNext == OnMount(Next) \/ OnQueue(Q!Next)

\* MountMux!Fairness in the behaviours of MountMux, and Qio!Fairness in those
\* of Qio.
MCFairness ==
    /\ \A p \in Proc :
         WF_all(\/ OnMount(step(p))
                \/ p \in Writer /\ OnQueue(Q!writing(p))
                \/ p \in Reader /\ OnQueue(Q!reading(p)))
    /\ \A t \in Q!Thread : WF_all(OnQueue(Q!wake(t) /\ UNCHANGED use))
    /\ WF_all(OnQueue(Q!consumer /\ UNCHANGED use))

MCSpec == MCInit /\ [][MCNext]_all /\ MCFairness

-----------------------------------------------------------------------------
\* Each keeps its books: the blocks of a queue and its lengths, and the
\* Mntrpcs, their tags and their queue.
BooksOK == MountOK /\ Q!QioOK

\* Who sleeps has somebody who will wake him: the reader of the connection,
\* or the other side of the queue.
NobodyForgotten == BatonKept /\ Q!NoSleeperForgotten

ImplementsByteQueue == Q!ImplementsByteQueue

Asked(p) ==
    \/ which = "MountMux" /\ pc[p] # "out"
    \/ /\ which = "Qio" /\ p \in Writer
       /\ use = "output" /\ qpc[p] # "out"
    \/ /\ which = "Qio" /\ p \in Reader
       /\ Q!waiting(p) /\ (dlen > 0 \/ "Qclosed" \in state)

Answered(p) ==
    IF which = "MountMux" THEN pc[p] = "out"
    ELSE IF p \in Writer THEN qpc[p] = "out" ELSE ~Q!waiting(p)

\* Every call of the server returns, with its answer or an error; a write to
\* a device returns; and a reader of a queue does not wait for ever when
\* there is something to read, or when nothing will ever come.  It is
\* CallReturns and Progress of the modules, watched for the two processes
\* that use the queue.
Returns == \A p \in Reader \cup Writer : Asked(p) ~> Answered(p)
=============================================================================
