------------------------------- MODULE MCNet -------------------------------
(***************************************************************************)
(* Model checking parts of ip that share no state: a behaviour is one of   *)
(* Il, of Frags, or of Routes; the others stay in their initial states.    *)
(*                                                                         *)
(* Two plans for Il: one call, with messages both ways; and two calls and  *)
(* two answers, where packets of the first are still under way in the      *)
(* second.                                                                 *)
(***************************************************************************)
EXTENDS Il, TLC

CONSTANTS Dgram, Size, Nfrag, Age, Life,                           \* of Frags
          Bucket, Width, Addr, Via, Local, MaxRoutes, dst, Hazards \* of Routes

VARIABLES
    which,                \* the module of the behaviour
    life, flist, passed,
    root, mut, conv

fvars == <<life, flist, passed>>
rvars == <<root, mut, conv>>
all == <<which, vars, fvars, rvars>>

\* One network, one behind another, and one that needs no fragments.
McPaths == {<<3>>, <<3, 2>>, <<6>>}

F == INSTANCE Frags WITH Paths <- McPaths, ident <- [n \in Dgram |-> n]

\* All addresses, parts of them in one bucket or the other, and parts of parts.
McPrefix == {<<0, 15>>, <<0, 3>>, <<0, 0>>, <<1, 1>>, <<8, 11>>}

R == INSTANCE Routes WITH Prefix <- McPrefix

ASSUME F!FragsAssumption
ASSUME R!RoutesAssumption

McPlans ==
    {[starts   |-> [call |-> <<100>>, listen |-> <<200>>],
      messages |-> [call |-> 2, listen |-> 1]],
     [starts   |-> [call |-> <<100, 150>>, listen |-> <<200, 300>>],
      messages |-> [call |-> 1, listen |-> 0]]}

\* What a behaviour is not about has one initial state.
MCInit ==
    /\ which \in {"Il", "Frags", "Routes"}
    /\ Init /\ F!Init /\ R!Init
    /\ which # "Il" => plan = CHOOSE pl \in Plans : TRUE

OnIl(A)     == which = "Il" /\ A /\ UNCHANGED <<which, fvars, rvars>>
OnFrags(A)  == which = "Frags" /\ A /\ UNCHANGED <<which, vars, rvars>>
OnRoutes(A) == which = "Routes" /\ A /\ UNCHANGED <<which, vars, fvars>>

MCNext == OnIl(Next) \/ OnFrags(F!Next) \/ OnRoutes(R!Next)

\* That of Il.
MCFairness == \A x \in Side : WF_all(OnIl(rexmitTimer(x)))

MCSpec == MCInit /\ [][MCNext]_all /\ MCFairness

-----------------------------------------------------------------------------
\* A datagram is passed up as it was sent, however it was cut in pieces and
\* in whatever order they came (ip4reassemble), and the fragments that are
\* kept are what has come of it, each part once and in order; v4lookup finds
\* the narrowest range an address is in; and while nothing changes all
\* buckets have the same of a route, routeread shows it once, and what a
\* conversation remembers is what a lookup finds.
IpOK == F!Whole /\ F!FragsOK /\ R!RoutesOK

\* The trees of v4addroute and v4delroute are a table of routes.
ImplementsRouteTable == R!ImplementsRouteTable
=============================================================================
