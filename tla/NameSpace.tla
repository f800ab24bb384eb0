----------------------------- MODULE NameSpace ------------------------------
(***************************************************************************)
(* What the mount tables of chan.c and pgrp.c are for.  Every process      *)
(* group has a table that says which directories are seen at a directory.  *)
(* A call looks at the union of one directory as it is at one moment, and  *)
(* goes on with that; a bind or an unmount changes one union of the group  *)
(* of the caller, at once; and a group is copied at once.  Only calls of   *)
(* its own members change the table of a group.                            *)
(***************************************************************************)
EXTENDS Naturals, Sequences

CONSTANTS Proc, Dir, Group

VARIABLES
    table,   \* table[g][d]: what is mounted on d, <<>> if nothing is
    pgrp,    \* the group of a process
    call,    \* the call a process is in, and the directory it is about
    seen     \* the union the call has looked at, <<>> before it has

Out == [use |-> "out", dir |-> "none"]
Order == {"MREPL", "MBEFORE", "MAFTER"}

union(p, d) == IF table[pgrp[p]][d] = <<>> THEN <<d>> ELSE table[pgrp[p]][d]
without(l, i) == SubSeq(l, 1, i - 1) \o SubSeq(l, i + 1, Len(l))

\* A directory mounted on itself only is not mounted on.
Set(p, d, l) ==
    table' = [table EXCEPT ![pgrp[p]][d] = IF l = <<d>> THEN <<>> ELSE l]

Empty == [d \in Dir |-> <<>>]

Init == /\ table \in [Group -> [Dir -> Seq(Dir)]]
        /\ pgrp \in [Proc -> Group]
        /\ call = [p \in Proc |-> Out]
        /\ seen = [p \in Proc |-> <<>>]

Begin(p, u, d) ==
    /\ call[p] = Out /\ call' = [call EXCEPT ![p] = [use |-> u, dir |-> d]]
    /\ UNCHANGED <<table, pgrp, seen>>

Look(p) ==
    /\ call[p].use \in {"walk", "open", "bind"} /\ seen[p] = <<>>
    /\ seen' = [seen EXCEPT ![p] = union(p, call[p].dir)]
    /\ UNCHANGED <<table, pgrp, call>>

\* What has been seen is to be bound to d.
Target(p, order, d) ==
    /\ call[p].use = "bind" /\ seen[p] # <<>>
    /\ call' = [call EXCEPT ![p] = [use |-> order, dir |-> d]]
    /\ UNCHANGED <<table, pgrp, seen>>

Leave(p) ==
    /\ call' = [call EXCEPT ![p] = Out] /\ seen' = [seen EXCEPT ![p] = <<>>]
    /\ UNCHANGED <<table, pgrp>>

Bind(p) ==
    LET d == call[p].dir
    IN  /\ Set(p, d, CASE call[p].use = "MREPL"   -> seen[p]
                       [] call[p].use = "MBEFORE" -> seen[p] \o union(p, d)
                       [] call[p].use = "MAFTER"  -> union(p, d) \o seen[p])
        /\ call' = [call EXCEPT ![p] = Out]
        /\ seen' = [seen EXCEPT ![p] = <<>>]
        /\ UNCHANGED pgrp

Unmount(p) ==
    LET d == call[p].dir
        l == table[pgrp[p]][d]
    IN  /\ call[p].use = "unmount"
        /\ Set(p, d, <<>>) \/ \E i \in DOMAIN l : Set(p, d, without(l, i))
        /\ call' = [call EXCEPT ![p] = Out]
        /\ UNCHANGED <<pgrp, seen>>

\* Rfork, with a copy or with nothing.  A group nobody is in has no table.
Rfork(p, g) ==
    /\ \A q \in Proc : pgrp[q] # g
    /\ pgrp' = [pgrp EXCEPT ![p] = g]
    /\ \E t \in {table[pgrp[p]], Empty} :
           table' = [f \in Group |-> IF f = g THEN t
                                     ELSE IF \E q \in Proc : pgrp'[q] = f
                                          THEN table[f] ELSE Empty]
    /\ UNCHANGED <<call, seen>>

Next == \E p \in Proc :
            \/ Look(p) \/ Leave(p) \/ Unmount(p)
            \/ call[p].use \in Order /\ Bind(p)
            \/ \E g \in Group : Rfork(p, g)
            \/ \E d \in Dir :
                  \/ \E u \in {"walk", "open", "bind", "unmount"} : Begin(p, u, d)
                  \/ \E order \in Order : Target(p, order, d)

Spec == Init /\ [][Next]_<<table, pgrp, call, seen>>
=============================================================================
