----------------------------- MODULE RouteTable -----------------------------
(***************************************************************************)
(* What the routing trees of ip/iproute.c are for: of each bucket, a set   *)
(* of routes, with no two for one range.  Adding a route that is there     *)
(* replaces it, unless it is that of a local interface; such routes are    *)
(* counted.                                                                *)
(***************************************************************************)
EXTENDS Naturals

CONSTANTS Bucket, Prefix, Via,
          Local      \* those of Via that are local interfaces

VARIABLE table

Init == table = [h \in Bucket |-> {}]

there(T, g) == {e \in T : e.range = g}

Added(T, g, v) ==
    IF there(T, g) = {} THEN T \cup {[range |-> g, via |-> v, ref |-> 1]}
    ELSE LET e == CHOOSE x \in there(T, g) : TRUE
             n == IF e.via \notin Local THEN [e EXCEPT !.via = v]
                  ELSE IF v \in Local THEN [e EXCEPT !.ref = @ + 1] ELSE e
         IN  (T \ {e}) \cup {n}

Deleted(T, g) ==
    {e \in T : e.range # g}
        \cup {[e EXCEPT !.ref = @ - 1] : e \in {x \in there(T, g) : x.ref > 1}}

Add(h, g, v) == table' = [table EXCEPT ![h] = Added(@, g, v)]
Delete(h, g) == table' = [table EXCEPT ![h] = Deleted(@, g)]
Flush(g) ==
    /\ \A h \in Bucket : \A e \in there(table[h], g) : e.via \notin Local
    /\ table' = [h \in Bucket |-> Deleted(table[h], g)]

Next == \E g \in Prefix :
            \/ Flush(g)
            \/ \E h \in Bucket : Delete(h, g) \/ \E v \in Via : Add(h, g, v)

Spec == Init /\ [][Next]_table
=============================================================================
