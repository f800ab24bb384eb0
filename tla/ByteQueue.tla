----------------------------- MODULE ByteQueue ------------------------------
(***************************************************************************)
(* What a Queue of port/qio.c promises to those who use it: what is put    *)
(* into it comes out in the same order, each item once, and nothing is     *)
(* lost unless the queue is closed or flushed.  In a queue of messages the *)
(* items are whole messages and a read takes one, of which it may cut off  *)
(* the end; otherwise the items are single bytes.                          *)
(***************************************************************************)
EXTENDS Naturals, Sequences, SequencesExt

VARIABLES messages,  \* whether the items are messages; it never changes
          data,      \* the items in the queue
          clearing,  \* somebody closes or flushes the queue
          last       \* what a read delivers

vars == <<messages, data, clearing, last>>

Init ==
    /\ messages \in BOOLEAN
    /\ data = <<>> /\ last = <<>>
    /\ clearing = FALSE

\* A write of some bytes or of one message.
Put ==
    /\ IsStrictPrefix(data, data')
    /\ messages => Len(data') = Len(data) + 1
    /\ UNCHANGED last

\* A read takes from the front.  What a device takes is not shown.
Get ==
    /\ ~messages
    /\ \E n \in 0 .. Len(data) :
         /\ last' \in {SubSeq(data, 1, n), <<>>}
         /\ data' = SubSeq(data, n + 1, Len(data))

GetMessage ==
    /\ messages /\ data # <<>>
    /\ last' \in {SubSeq(Head(data), 1, n) : n \in 0 .. Len(Head(data))}
    /\ data' = Tail(data)

\* Whoever closes or flushes the queue empties it; whoever only hangs it up
\* leaves it alone.
Clear ==
    /\ ~clearing /\ clearing'
    /\ data' = <<>>
    /\ UNCHANGED last

Mark == last' \in {last, <<>>} /\ UNCHANGED data

Next ==
    /\ Put \/ Get \/ GetMessage \/ Clear \/ Mark
    /\ UNCHANGED messages

Spec == Init /\ [][Next]_vars

=============================================================================
