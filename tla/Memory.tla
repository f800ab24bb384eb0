------------------------------- MODULE Memory -------------------------------
(***************************************************************************)
(* What the memory system promises its processes: a segment holds what was *)
(* last stored in it by a process that has it, however its page is shared, *)
(* copied, cached, paged out and brought back.  Only one page of a segment *)
(* is looked at; a process stores its own name in it, which tells the      *)
(* stores of two processes apart.                                          *)
(***************************************************************************)
CONSTANTS Proc, Seg, nil

VARIABLES seg,   \* the segment of a process, nil when there is no process
          mem    \* what a segment holds, nil when it is not in use

Init == \E p \in Proc, s \in Seg :
            /\ seg = [q \in Proc |-> IF q = p THEN s ELSE nil]
            /\ mem = [t \in Seg |-> IF t = s THEN "init" ELSE nil]

Users(s) == {p \in Proc : seg[p] = s}

\* What is left in the segments after p has left its own.
Without(p) == [s \in Seg |-> IF Users(s) \subseteq {p} THEN nil ELSE mem[s]]

Store(p) == /\ seg[p] # nil
            /\ mem' = [mem EXCEPT ![seg[p]] = p]
            /\ UNCHANGED seg

\* The child has a copy of the parent's segment, or the segment itself.
Fork(p, q, s) == /\ seg[p] # nil /\ seg[q] = nil
                 /\ s = seg[p] \/ Users(s) = {}
                 /\ seg' = [seg EXCEPT ![q] = s]
                 /\ mem' = [mem EXCEPT ![s] = mem[seg[p]]]

\* A program starts with what is in its file.
Exec(p, s) == /\ seg[p] # nil /\ Users(s) = {}
              /\ seg' = [seg EXCEPT ![p] = s]
              /\ mem' = [Without(p) EXCEPT ![s] = "init"]

Exit(p) == /\ seg[p] # nil
           /\ seg' = [seg EXCEPT ![p] = nil]
           /\ mem' = Without(p)

Next == \E p \in Proc :
            \/ Store(p) \/ Exit(p)
            \/ \E s \in Seg : Exec(p, s) \/ \E q \in Proc : Fork(p, q, s)

Spec == Init /\ [][Next]_<<seg, mem>>
=============================================================================
