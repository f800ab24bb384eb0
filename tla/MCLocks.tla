------------------------------ MODULE MCLocks -------------------------------
(***************************************************************************)
(* Model checking the locks: a behaviour is one of RWlock, where five      *)
(* processes make queues with readers before, between and behind writers,  *)
(* or of TasLock, with two processes, one or two Machs with their          *)
(* interrupt handlers, and a lock of either kind.  The two share nothing;  *)
(* the one that a behaviour is not about stays in its initial state.       *)
(***************************************************************************)
EXTENDS RWlock

CONSTANTS Mach, Spinner, Lk, ILk, off   \* of TasLock; Spinner are its Proc

VARIABLES
    which,   \* the module of the behaviour
    key, sr, spl, up, ilockdepth, nlocks, tpc, lv, x

tvars == <<key, sr, spl, up, ilockdepth, nlocks, tpc, lv, x>>

T == INSTANCE TasLock WITH Proc <- Spinner, pc <- tpc

ASSUME T!TasLockAssumption

MCInit ==
    /\ which \in {"RWlock", "TasLock"}
    /\ Init /\ (which = "TasLock" => kind = "QLock")
    /\ T!Init /\ (which = "RWlock" => up = [m \in Mach |-> nil])

\* A step of one is none of the other.
OnRW(A) == which = "RWlock" /\ A /\ UNCHANGED <<which, tvars>>
OnTas(A) == which = "TasLock" /\ A /\ UNCHANGED <<which, vars>>

MCNext == OnRW(Next) \/ OnTas(T!Next)

\* RWlock!Fairness in the behaviours of RWlock, and TasLock!Fairness in those
\* of TasLock.
MCFairness ==
    /\ \A p \in Proc : WF_<<vars, tvars>>(OnRW(Running(p)))
    /\ \A p \in Spinner : SF_<<vars, tvars>>(OnTas(T!Process(p)))
    /\ \A m \in Mach :
         /\ WF_<<vars, tvars>>(OnTas(T!Handler(m)))
         /\ SF_<<vars, tvars>>(OnTas(T!ilockTas(m, m)))
         /\ SF_<<vars, tvars>>(OnTas(T!ilockSpin(m, m)))

MCSpec == MCInit /\ [][MCNext]_<<which, vars, tvars>> /\ MCFairness

-----------------------------------------------------------------------------
\* The spin locks of taslock.c are safe: the interrupt level comes back, a
\* holder keeps its processor, and no handler spins for what it interrupted.
SpinLocksOK == T!SpinLocksOK

\* Nobody waits for ever: who queues for a QLock or an RWlock gets it, and a
\* spin lock is given back.
LocksGranted == Granted /\ T!Released
=============================================================================
