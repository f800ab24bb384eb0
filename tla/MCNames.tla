------------------------------ MODULE MCNames -------------------------------
(***************************************************************************)
(* Model checking name spaces: a behaviour is one of MountTable, two       *)
(* processes that walk, open, read, bind, unmount and fork name spaces     *)
(* with the same unions; or one of Names, every sequence of binds and      *)
(* unmounts in one tree of servers.  The one that a behaviour is not about *)
(* stays in its initial state.                                             *)
(*                                                                         *)
(* The tree is /a/x, /b/x/y, /b/y and /c; a, b, c, / and b/x are bound,    *)
(* and all paths of up to three of a, b, x, y and .. are looked up, in     *)
(* requests of at most two names.                                          *)
(***************************************************************************)
EXTENDS MountTable, TLC

CONSTANTS d0, da, db, dc, dax, dbx, dby, dbxy,   \* the directories of Names
          none, MaxBinds, MAXWELEM

VARIABLES which,   \* the module of the behaviour
          mnt, binds

W == INSTANCE Names WITH
        Dir <- {d0, da, db, dc, dax, dbx, dby, dbxy}, root <- d0, calls <- binds,
        child <- (d0 :> [a |-> da, b |-> db, c |-> dc] @@ da :> [x |-> dax]
                  @@ db :> [x |-> dbx, y |-> dby] @@ dbx :> [y |-> dbxy]
                  @@ [d \in {dc, dax, dby, dbxy} |-> <<>>]),
        Bound <- {<<>>, <<"a">>, <<"b">>, <<"c">>, <<"b", "x">>},
        Path <- SeqOf({"a", "b", "x", "y", ".."}, 3),
        Element <- {"a", "x", "y"}

wvars == <<mnt, binds>>
all == <<which, vars, wvars>>

ASSUME W!NamesAssumption

Union0 == <<db, da>>

MCInit == which \in {"MountTable", "Names"} /\ Init /\ W!Init

OnTable(A) == which = "MountTable" /\ A /\ UNCHANGED <<which, wvars>>
OnNames(A) == which = "Names" /\ A /\ UNCHANGED <<which, vars>>

MCNext == OnTable(Next) \/ OnNames(W!Next)

\* MountTable!Fairness.
MCFairness == \A p \in Proc : SF_all(OnTable(Going(p)))

MCSpec == MCInit /\ [][MCNext]_all /\ MCFairness

-----------------------------------------------------------------------------
\* Mheads are counted as often as they are held, what is in a table has
\* something mounted, no list is read while it changes; and in every name
\* space that binds and unmounts can make, walk finds what the names of a
\* path mean one after the other.
NamesOK == IF which = "Names" THEN W!WalkOK
           ELSE RefsOK /\ MountThere /\ ReadsSafe

\* A bind shows in the old directory what is in the new one.
BindShows == W!BindShows

\* What walk says about itself, see Names.
UndomountSide == W!UndomountSide
=============================================================================
