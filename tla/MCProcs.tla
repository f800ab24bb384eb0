------------------------------ MODULE MCProcs -------------------------------
(***************************************************************************)
(* Model checking what becomes of processes: a behaviour is one of         *)
(* ExitWait, where five processes are made out of three Procs, so that a   *)
(* Proc is used again while a child of the process before is still there;  *)
(* of Broken, where four processes break and two are kept; or of           *)
(* Rendezvous, where three processes come with two tags, some of them      *)
(* twice.  The three share nothing but the names of the processes; those   *)
(* that a behaviour is not about stay in their initial state.              *)
(***************************************************************************)
EXTENDS ExitWait

CONSTANTS
    Breaker, NBROKEN, SlowMark,                   \* of Broken
    Caller, Tag, Poster, MaxCall, MaxCalls, none, \* of Rendezvous
    Watched   \* see NobodyStranded

VARIABLES
    which,   \* the module of the behaviour
    broken, bstate, bmach, onqueue, bpc,
    state, mach, rendtag, rendval, hash, rgrp, pc, tag, pv, call, result

bvars == <<broken, bstate, bmach, onqueue, bpc>>
rvars == <<state, mach, rendtag, rendval, hash, rgrp, pc, tag, pv, call,
           result>>
all == <<which, vars, bvars, rvars>>

B == INSTANCE Broken WITH Proc <- Breaker, state <- bstate, mach <- bmach,
                          pc <- bpc
R == INSTANCE Rendezvous WITH Proc <- Caller

ASSUME boot \in Watched /\ \E p \in Watched : p # boot
ASSUME B!BrokenAssumption
ASSUME R!RendezvousAssumption

MCInit == which \in {"ExitWait", "Broken", "Rendezvous"}
            /\ Init /\ B!Init /\ R!Init

\* A step of one is none of the others.
OnExit(A) == which = "ExitWait" /\ A /\ UNCHANGED <<which, bvars, rvars>>
OnBroken(A) == which = "Broken" /\ A /\ UNCHANGED <<which, vars, rvars>>
OnRend(A) == which = "Rendezvous" /\ A /\ UNCHANGED <<which, vars, bvars>>

MCNext == OnExit(Next) \/ OnBroken(B!Next) \/ OnRend(R!Next)

\* The fairness of each module in its own behaviours.  A formula speaks of
\* one of its disjuncts only in any behaviour; they are written together
\* because TLC's work doubles with every SF.
MCFairness ==
    /\ \A p \in Proc \cup Breaker \cup Caller \cup Poster :
         /\ WF_all(\/ p \in Proc /\ OnExit(Forking(p))
                   \/ p \in Breaker /\ OnBroken(B!Marking(p))
                   \/ p \in Caller /\ OnRend(R!Running(p))
                   \/ p \in Poster /\ OnRend(R!postnotePull(p)))
         /\ WF_all(\/ p \in Proc /\ OnExit(pwaitReturn(p))
                   \/ p \in Breaker /\ OnBroken(B!runproc(p)))
         /\ SF_all(\/ p \in Proc /\ OnExit(Exiting(p))
                   \/ p \in Caller /\ OnRend(R!rendLock(p))
                   \/ p \in Poster /\ OnRend(R!postnoteLock(p)))
    /\ WF_all(OnBroken(B!freebroken))

MCSpec == MCInit /\ [][MCNext]_all /\ MCFairness

-----------------------------------------------------------------------------
\* addbroken and freebroken keep every broken process where somebody finds
\* it, and put none on the run queue twice.
BrokenOK == B!ListOK /\ B!OnQueueOnce

\* The table of sysrendezvous is sound: whoever waits is on its chain, two
\* processes of one tag never both wait, and values are exchanged in pairs.
RendezvousOK == R!ChainsOK /\ R!NobodyMissed /\ R!Exchanged

Blocked(p) ==
    \/ which = "ExitWait" /\ p \in Proc /\ Waiting(p)
    \/ which = "Broken" /\ p \in Breaker /\ B!Waiting(p)
    \/ which = "Rendezvous" /\ p \in Caller /\ R!Waiting(p)

\* No process waits for ever: for a child in pwait, on the list of broken
\* processes, or in sysrendezvous for its lock or, once it was met or pulled
\* out, to run.  It is WaitReturns, BrokenExit and MetReturns of the modules.
\* Watching two is enough, one of them boot: the others may be exchanged for
\* one another in all that the three modules say.
NobodyStranded == \A p \in Watched : Blocked(p) ~> ~Blocked(p)
=============================================================================
