----------------------------- MODULE Positions -----------------------------
(***************************************************************************)
(* What is left of a list when some of its elements are taken out.  The    *)
(* kernel walks its linked lists for this (mntqrm and mntflushfree of      *)
(* port/devmnt.c, imagereclaim of port/segment.c).                         *)
(***************************************************************************)
EXTENDS Naturals, Sequences

\* The elements of s at the positions in I, in their order.
At(s, I) ==
    LET kept[n \in 0 .. Len(s)] ==
          IF n = 0 THEN <<>>
          ELSE IF n \in I THEN Append(kept[n - 1], s[n]) ELSE kept[n - 1]
    IN kept[Len(s)]
=============================================================================
