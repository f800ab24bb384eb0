-------------------------------- MODULE Qio ---------------------------------
(***************************************************************************)
(* The queues of port/qio.c, through which pipes, networks and serial      *)
(* lines pass their data: flow control, the wakeups of both sides, and     *)
(* what becomes of the bytes.                                              *)
(*                                                                         *)
(* A step is what is done under ilock(q).  The wakeups, and the kick of    *)
(* the device, come after the iunlock and are steps of their own: due[t]   *)
(* is what thread t still has to call.  sleep and wakeup are the atomic    *)
(* ones of module Rendez, which Sleep implements.                          *)
(*                                                                         *)
(* A behaviour is one use of a queue in the kernel: a pipe (devpipe.c), an *)
(* input queue filled at interrupt level and read by processes (netif.c,   *)
(* devcons.c, tcp's rq), an output queue written by processes and drained  *)
(* at interrupt level (devuart.c, devether.c, tcp's wq), or "print", an    *)
(* output queue that print() writes to as well (serialoq of devcons.c).    *)
(***************************************************************************)
EXTENDS Naturals, Sequences, SequencesExt

CONSTANTS Reader, Writer,   \* processes
          intr, ctl,        \* the interrupt level; whoever controls the queue
          Uses,             \* the uses that are looked at
          Sizes, Wants,     \* the lengths of blocks, and of reads
          Limit,            \* inilim
          Hdr,              \* BALLOC(b) - BLEN(b) of a new block
          Hazards,          \* what else happens to an output queue:
                            \* "empty", writes of no bytes to a serial line;
                            \* "lower", its limit is lowered
          Limits,           \* what qsetlimit sets
          MaxBlocks,        \* bound on the length of the list of blocks
          Labels,           \* bytes are numbered modulo Labels
          nil

QioAssumption ==
    /\ Uses \subseteq {"pipe", "input", "output", "print"}
    /\ Limit \in Limits /\ \A l \in Limits : l \in Nat /\ l >= 2
    /\ Sizes \cup Wants \subseteq Nat /\ Hdr \in Nat /\ MaxBlocks \in Nat
    /\ Labels \in Nat \ {0} /\ Hazards \subseteq {"empty", "lower"}
    /\ Reader \cap Writer = {} /\ nil \notin Reader \cup Writer
    /\ intr # ctl /\ {intr, ctl} \cap (Reader \cup Writer) = {}

VARIABLES
    use,            \* what the queue is for; it never changes
    q,              \* the blocks from q->bfirst to q->blast
    len, dlen,      \* q->len, q->dlen
    limit, noblock, \* q->limit, q->noblock
    state,          \* the bits of q->state
    rlock, wlock,   \* who holds q->rlock and q->wlock
    pc,             \* where a reader or writer is
    want,           \* how much the reader wants
    hand,           \* the blocks qread took off the queue and now copies
    last,           \* what is delivered to the reader
    due,            \* the calls a thread still has to make
    going,          \* the output device is going
    next            \* the next byte to be written

qvars == <<q, len, dlen>>
vars == <<use, q, len, dlen, limit, noblock, state, rlock, wlock, pc, want,
          hand, last, due, going, next>>

Thread == Reader \cup Writer \cup {intr, ctl}

Goto(t, from, to) == pc[t] = from /\ pc' = [pc EXCEPT ![t] = to]

qnotfull == len < limit \/ "Qclosed" \in state
notempty == q # <<>> \/ "Qclosed" \in state

Bytes(blocks) == FlattenSeq([i \in DOMAIN blocks |-> blocks[i].data])

\* The space they take, the sum of their BALLOC.
space(blocks) ==
    LET first[i \in 0 .. Len(blocks)] ==
          IF i = 0 THEN 0 ELSE first[i - 1] + blocks[i].alloc
    IN first[Len(blocks)]

\* allocb or iallocb, filled with the next n bytes.
allocb(n) ==
    [data  |-> [i \in 1 .. n |-> (next + i - 1) % Labels],
     alloc |-> n + Hdr]

filled(n) == next' = (next + n) % Labels

\* The modes qopen is called with for this use.
modes == CASE use = "pipe"   -> {{}}
           [] use = "input"  -> {{"Qmsg"}, {"Qcoalesce"}, {}}
           [] use = "output" -> {{}, {"Qkick"}, {"Qmsg"}}
           [] use = "print"  -> {{}}

\* qopen.
Init ==
    /\ use \in Uses
    /\ q = <<>> /\ len = 0 /\ dlen = 0
    /\ limit = Limit /\ noblock = FALSE
    /\ \E m \in modes : state = m \cup {"Qstarve"}
    /\ rlock = nil /\ wlock = nil
    /\ pc = [t \in Reader \cup Writer |-> "out"]
    /\ want = 0 /\ hand = <<>> /\ last = <<>>
    /\ due = [t \in Thread |-> <<>>]
    /\ going = FALSE /\ next = 0

-----------------------------------------------------------------------------
\* The tail of every routine that adds to the queue: "make sure other end
\* gets awakened".
awaken(t, flags, call) ==
    IF "Qstarve" \in state
    THEN /\ state' = (state \cup flags) \ {"Qstarve"}
         /\ due' = [due EXCEPT ![t] = <<call>>]
    ELSE /\ state' = state \cup flags
         /\ due' = [due EXCEPT ![t] =
              IF "Qkick" \in state /\ call = "kick" THEN <<call>> ELSE <<>>]

\* The tail of every routine that takes from the queue, whose length is now
\* l: "if writer flow controlled, restart".
restart(t, l, below) ==
    IF "Qflow" \in state /\ l < below
    THEN /\ state' = state \ {"Qflow"}
         /\ due' = [due EXCEPT ![t] = <<"wr">>]
    ELSE UNCHANGED <<state, due>>

\* A block is put at the end.
add(b) ==
    /\ Len(q) + Len(hand) < MaxBlocks
    /\ q' = Append(q, b)
    /\ len' = len + b.alloc
    /\ dlen' = dlen + Len(b.data)
    /\ filled(Len(b.data))

\* wakeup(&q->rr), wakeup(&q->wr) or the kick routine.
wake(t) ==
    /\ due[t] # <<>>
    /\ due' = [due EXCEPT ![t] = Tail(@)]
    /\ going' = (going \/ Head(due[t]) = "kick")
    /\ pc' = [u \in DOMAIN pc |->
                CASE Head(due[t]) = "rr" /\ pc[u] = "rasleep" -> "read"
                  [] Head(due[t]) = "wr" /\ pc[u] = "wasleep" -> "full"
                  [] OTHER -> pc[u]]
    /\ UNCHANGED <<qvars, limit, noblock, state, rlock, wlock, want, hand,
                   last, next>>

-----------------------------------------------------------------------------
\* qbwrite, and qwrite one block at a time.  First the lock,
qlockw(t) ==
    /\ wlock = nil /\ wlock' = t
    /\ Goto(t, "out", "write")
    /\ UNCHANGED <<qvars, limit, noblock, state, rlock, want, hand, last,
                   due, going, next>>

\* then the block is queued, unless the queue is closed or full and not to
\* be waited for,
qbwrite(t) ==
    /\ \/ /\ "Qclosed" \in state \/ (len >= limit /\ noblock)
          /\ Goto(t, "write", "out")
          /\ wlock' = nil
          /\ UNCHANGED <<qvars, state, due, next>>
       \/ /\ "Qclosed" \notin state /\ ~(len >= limit /\ noblock)
          /\ Goto(t, "write", "full")
          /\ \E n \in Sizes :
               /\ n = 0 => \/ "empty" \in Hazards \/ use = "pipe"
                           \/ {"Qkick", "Qmsg"} \cap state # {}
               /\ add(allocb(n))
          /\ awaken(t, {}, IF use = "pipe" THEN "rr" ELSE "kick")
          /\ UNCHANGED wlock
    /\ UNCHANGED <<limit, noblock, rlock, want, hand, last, going>>

\* Mutant: the test is the wrong way round.
qfullWaitInverted(t) ==
    /\ due[t] = <<>>
    /\ \/ /\ noblock \/ ~qnotfull
          /\ Goto(t, "full", "out")
          /\ wlock' = nil
          /\ UNCHANGED state
       \/ /\ ~(noblock \/ ~qnotfull)
          /\ Goto(t, "full", "wsleep")
          /\ state' = state \cup {"Qflow"}
          /\ UNCHANGED wlock
    /\ UNCHANGED <<qvars, limit, noblock, rlock, want, hand, last, due,
                   going, next>>

\* and then the writer waits for the queue to get below the limit.
qfullWait(t) ==
    /\ due[t] = <<>>
    /\ \/ /\ noblock \/ qnotfull
          /\ Goto(t, "full", "out")
          /\ wlock' = nil
          /\ UNCHANGED state
       \/ /\ ~(noblock \/ qnotfull)
          /\ Goto(t, "full", "wsleep")
          /\ state' = state \cup {"Qflow"}
          /\ UNCHANGED wlock
    /\ UNCHANGED <<qvars, limit, noblock, rlock, want, hand, last, due,
                   going, next>>

\* Mutant: the writer sleeps whatever happened since it looked.
sleepwBlindly(t) ==
    /\ Goto(t, "wsleep", "wasleep")
    /\ UNCHANGED <<qvars, limit, noblock, state, rlock, wlock, want, hand,
                   last, due, going, next>>

\* sleep(&q->wr, qnotfull, q).
sleepw(t) ==
    /\ Goto(t, "wsleep", IF qnotfull THEN "full" ELSE "wasleep")
    /\ UNCHANGED <<qvars, limit, noblock, state, rlock, wlock, want, hand,
                   last, due, going, next>>

\* A note: sleep raises an error, and the lock is dropped.
interruptedw(t) ==
    /\ pc[t] \in {"wsleep", "wasleep"}
    /\ pc' = [pc EXCEPT ![t] = "out"]
    /\ wlock' = nil
    /\ UNCHANGED <<qvars, limit, noblock, state, rlock, want, hand, last,
                   due, going, next>>

-----------------------------------------------------------------------------
\* qread and qbread, which differ once the queue is not empty.
qlockr(t) ==
    /\ rlock = nil /\ rlock' = t
    /\ Goto(t, "out", "read")
    /\ want' \in Wants
    /\ UNCHANGED <<qvars, limit, noblock, state, wlock, hand, last, due,
                   going, next>>

\* qwait: the queue is empty.
qwait(t) ==
    /\ q = <<>>
    /\ \/ /\ "Qclosed" \in state
          /\ Goto(t, "read", "out")
          /\ rlock' = nil
          /\ UNCHANGED state
       \/ /\ "Qclosed" \notin state
          /\ Goto(t, "read", "rsleep")
          /\ state' = state \cup {"Qstarve"}
          /\ UNCHANGED rlock
    /\ UNCHANGED <<qvars, limit, noblock, wlock, want, hand, last, due,
                   going, next>>

\* sleep(&q->rr, notempty, q), and a note.
sleepr(t) ==
    /\ Goto(t, "rsleep", IF notempty THEN "read" ELSE "rasleep")
    /\ UNCHANGED <<qvars, limit, noblock, state, rlock, wlock, want, hand,
                   last, due, going, next>>

interruptedr(t) ==
    /\ pc[t] \in {"rsleep", "rasleep"}
    /\ pc' = [pc EXCEPT ![t] = "out"]
    /\ rlock' = nil
    /\ UNCHANGED <<qvars, limit, noblock, state, wlock, want, hand, last,
                   due, going, next>>

\* qremove of the first k blocks.
qremove(k) ==
    /\ q' = SubSeq(q, k + 1, Len(q))
    /\ len' = len - space(SubSeq(q, 1, k))
    /\ dlen' = dlen - Len(Bytes(SubSeq(q, 1, k)))

\* How many blocks qread takes: when coalescing, the first one and as many
\* as will completely fit in the read.
fitting ==
    IF "Qcoalesce" \notin state THEN 1
    ELSE CHOOSE k \in 1 .. Len(q) :
           /\ k = 1 \/ Len(Bytes(SubSeq(q, 1, k))) <= want
           /\ k < Len(q) => Len(Bytes(SubSeq(q, 1, k + 1))) > want

\* qread takes blocks off the queue; an empty one, when coalescing, just
\* goes away.
qread(t) ==
    /\ q # <<>>
    /\ IF "Qcoalesce" \in state /\ Head(q).data = <<>>
       THEN pc[t] = "read" /\ qremove(1) /\ UNCHANGED <<pc, hand>>
       ELSE /\ Goto(t, "read", "copy")
            /\ qremove(fitting)
            /\ hand' = SubSeq(q, 1, fitting)
    /\ UNCHANGED <<limit, noblock, state, rlock, wlock, want, last, due,
                   going, next>>

\* Mutant: what is left goes to the end.
qputbackLast(t) ==
    LET all  == Bytes(hand)
        n    == IF Len(all) > want THEN want ELSE Len(all)
        rest == [data |-> SubSeq(all, n + 1, Len(all)),
                 alloc |-> Last(hand).alloc]
        back == IF n < Len(all) /\ "Qmsg" \notin state THEN <<rest>> ELSE <<>>
    IN /\ Goto(t, "copy", "rdone")
       /\ last' = SubSeq(all, 1, n)
       /\ hand' = <<>>
       /\ q' = q \o back
       /\ len' = IF back = <<>> THEN len ELSE len + rest.alloc
       /\ dlen' = dlen + Len(Bytes(back))
       /\ restart(t, len', limit \div 2)
       /\ UNCHANGED <<limit, noblock, rlock, wlock, want, going, next>>

\* bl2mem has copied what fits; what is left of the last block is put back,
\* or dropped from a queue of messages, and the producer restarted.
qputback(t) ==
    LET all  == Bytes(hand)
        n    == IF Len(all) > want THEN want ELSE Len(all)
        rest == [data |-> SubSeq(all, n + 1, Len(all)),
                 alloc |-> Last(hand).alloc]
        back == IF n < Len(all) /\ "Qmsg" \notin state THEN <<rest>> ELSE <<>>
    IN /\ Goto(t, "copy", "rdone")
       /\ last' = SubSeq(all, 1, n)
       /\ hand' = <<>>
       /\ q' = back \o q
       /\ len' = IF back = <<>> THEN len ELSE len + rest.alloc
       /\ dlen' = dlen + Len(Bytes(back))
       /\ restart(t, len', limit \div 2)
       /\ UNCHANGED <<limit, noblock, rlock, wlock, want, going, next>>

\* qbread gives its caller the block, of which a part may be put back.
qbread(t) ==
    /\ q # <<>>
    /\ Goto(t, "read", "rdone")
    /\ LET b    == Head(q)
           n    == IF Len(b.data) > want THEN want ELSE Len(b.data)
           rest == SubSeq(b.data, n + 1, Len(b.data))
           back == IF rest # <<>> /\ "Qmsg" \notin state
                   THEN <<[data |-> rest, alloc |-> Len(rest) + Hdr]>>
                   ELSE <<>>
       IN /\ last' = SubSeq(b.data, 1, n)
          /\ q' = back \o Tail(q)
          /\ len' = len - b.alloc
                    + (IF back = <<>> THEN 0 ELSE back[1].alloc)
          /\ dlen' = dlen - Len(b.data) + Len(Bytes(back))
    /\ restart(t, len', limit \div 2)
    /\ UNCHANGED <<limit, noblock, rlock, wlock, want, hand, going, next>>

\* The qunlock at the end.
qunlockr(t) ==
    /\ due[t] = <<>>
    /\ Goto(t, "rdone", "out")
    /\ rlock' = nil
    /\ want' = 0 /\ last' = <<>>
    /\ UNCHANGED <<qvars, limit, noblock, state, wlock, hand, due, going,
                   next>>

-----------------------------------------------------------------------------
\* The producers at interrupt level.  qpass, qpassnolim and qproduce differ
\* in what they do at the limit and when closed.
qpass(n) ==
    IF len >= limit \/ "Qclosed" \in state
    THEN UNCHANGED <<qvars, state, due, next>>
    ELSE /\ add(allocb(n))
         /\ awaken(intr, IF len' >= limit \div 2 THEN {"Qflow"} ELSE {},
                   "rr")

qpassnolim(n) ==
    IF "Qclosed" \in state
    THEN UNCHANGED <<qvars, state, due, next>>
    ELSE /\ add(allocb(n))
         /\ awaken(intr, IF len' >= limit \div 2 THEN {"Qflow"} ELSE {},
                   "rr")

qproduce(n) ==
    IF len >= limit
    THEN state' = state \cup {"Qflow"} /\ UNCHANGED <<qvars, due, next>>
    ELSE /\ add(allocb(n))
         /\ awaken(intr, IF len' >= limit THEN {"Qflow"} ELSE {}, "rr")

\* print(): at any level, past the locks and past the limit.
qiwrite(n) ==
    /\ add(allocb(n))
    /\ awaken(intr, {}, "kick")

\* Who calls which: netif.c and udp.c pass messages, tcp.c its segments, and
\* the keyboard and the serial lines produce bytes.
producer ==
    /\ due[intr] = <<>>
    /\ \E n \in Sizes :
         \/ /\ use = "input"
            /\ \/ "Qmsg" \in state /\ qpass(n)
               \/ "Qcoalesce" \in state /\ qpassnolim(n)
               \/ {"Qmsg", "Qcoalesce"} \cap state = {} /\ qproduce(n)
         \/ use = "print" /\ qiwrite(n)
    /\ UNCHANGED <<limit, noblock, rlock, wlock, pc, want, hand, last, going>>

-----------------------------------------------------------------------------
\* The consumers at interrupt level: qget takes a block,
qget ==
    \/ /\ q = <<>>
       /\ state' = state \cup {"Qstarve"}
       /\ going' = FALSE
       /\ UNCHANGED <<qvars, due>>
    \/ /\ q # <<>>
       /\ qremove(1)
       /\ restart(intr, len', limit \div 2)
       /\ UNCHANGED going

\* qconsume copies n bytes of the first block that is not empty,
qconsume(n) ==
    LET full == {i \in DOMAIN q : q[i].data # <<>>}
        i    == CHOOSE j \in full : \A k \in full : j <= k
        b    == q[i]
        m    == IF n < Len(b.data) THEN n ELSE Len(b.data)
        done == "Qmsg" \in state \/ m = Len(b.data)
        gone == SubSeq(q, 1, IF done THEN i ELSE i - 1)
        rest == [b EXCEPT !.data = SubSeq(@, m + 1, Len(@))]
    IN IF full = {}
       THEN /\ q' = <<>> /\ len' = 0
            /\ state' = state \cup {"Qstarve"}
            /\ going' = FALSE
            /\ UNCHANGED <<dlen, due>>
       ELSE /\ q' = (IF done THEN <<>> ELSE <<rest>>) \o SubSeq(q, i + 1, Len(q))
            /\ len' = len - space(gone)
            /\ dlen' = dlen - (IF done THEN Len(b.data) ELSE m)
            /\ restart(intr, len', limit \div 2)
            /\ UNCHANGED going

\* and qdiscard throws away n bytes that have been acknowledged.
qdiscard(n) ==
    LET size(k) == Len(Bytes(SubSeq(q, 1, k)))
        k    == CHOOSE j \in 0 .. Len(q) :
                  /\ j = 0 \/ (size(j - 1) < n /\ size(j) <= n)
                  /\ j = Len(q) \/ size(j) >= n \/ size(j + 1) > n
        cut  == IF k < Len(q) /\ size(k) < n THEN n - size(k) ELSE 0
        rest == SubSeq(q, k + 1, Len(q))
    IN /\ q' = IF cut = 0 THEN rest
               ELSE [rest EXCEPT ![1].data = SubSeq(@, cut + 1, Len(@))]
       /\ len' = len - space(SubSeq(q, 1, k))
       /\ dlen' = dlen - size(k) - cut
       /\ restart(intr, len', limit)
       /\ UNCHANGED going

\* tcp is kicked by every write, copies (qcopy) and later discards.  The
\* other devices go on until they find the queue empty: an ether takes whole
\* messages, a serial line bytes.
consumer ==
    /\ use \in {"output", "print"}
    /\ due[intr] = <<>>
    /\ \/ "Qkick" \in state /\ \E n \in Wants : qdiscard(n)
       \/ "Qmsg" \in state /\ going /\ qget
       \/ {"Qkick", "Qmsg"} \cap state = {} /\ going
          /\ \E n \in Wants : qconsume(n)
    /\ UNCHANGED <<limit, noblock, rlock, wlock, pc, want, hand, last, next>>

-----------------------------------------------------------------------------
\* Those who have the queue open for reading and for writing.
noReader == \A t \in Reader : pc[t] = "out"
noWriter == \A t \in Writer : pc[t] = "out"

\* Mutant: the space is not given back.
emptyUncounted == q' = <<>> /\ dlen' = 0 /\ UNCHANGED len

\* The queue is emptied.
empty == q' = <<>> /\ len' = 0 /\ dlen' = 0

\* qclose, when the last user of this side has gone.
qclose ==
    /\ IF use \in {"pipe", "input"} THEN noReader ELSE noWriter
    /\ state' = (state \cup {"Qclosed"}) \ {"Qflow", "Qstarve"}
    /\ empty
    /\ noblock' = FALSE
    /\ due' = [due EXCEPT ![ctl] = <<"rr", "wr">>]
    /\ UNCHANGED limit

\* qhangup: the other side of the pipe, or the line, has gone.
qhangup ==
    /\ use = "pipe" => noWriter
    /\ state' = state \cup {"Qclosed"}
    /\ due' = [due EXCEPT ![ctl] = <<"rr", "wr">>]
    /\ UNCHANGED <<qvars, limit, noblock>>

\* qreopen, by the first of the next users.
qreopen ==
    /\ "Qclosed" \in state /\ noReader /\ noWriter
    /\ state' = (state \ {"Qclosed"}) \cup {"Qstarve"}
    /\ limit' = Limit
    /\ UNCHANGED <<qvars, noblock, due>>

qflush ==
    /\ use = "output" \/ (use = "input" /\ noReader)
    /\ empty
    /\ due' = [due EXCEPT ![ctl] = <<"wr">>]
    /\ UNCHANGED <<limit, noblock, state>>

qsetlimit ==
    /\ use \in {"input", "output"}
    /\ limit' \in Limits
    /\ limit' >= limit \/ "lower" \in Hazards
    /\ UNCHANGED <<qvars, noblock, state, due>>

qnoblock ==
    /\ use = "output"
    /\ noblock' \in BOOLEAN
    /\ UNCHANGED <<qvars, limit, state, due>>

control ==
    /\ due[ctl] = <<>>
    /\ qclose \/ qhangup \/ qreopen \/ qflush \/ qsetlimit \/ qnoblock
    /\ UNCHANGED <<rlock, wlock, pc, want, hand, last, going, next>>

-----------------------------------------------------------------------------
\* What a writer, or a reader, does by itself once it has begun.
writing(t) == (qbwrite(t) \/ qfullWait(t) \/ sleepw(t)) /\ UNCHANGED use
reading(t) ==
    /\ \/ qwait(t) \/ qread(t) \/ qbread(t) \/ qputback(t) \/ qunlockr(t)
       \/ sleepr(t)
    /\ UNCHANGED use

Next ==
    \/ \E t \in Thread : wake(t) /\ UNCHANGED use
    \/ \E t \in Writer :
         /\ use # "input"
         /\ writing(t) \/ ((qlockw(t) \/ interruptedw(t)) /\ UNCHANGED use)
    \/ \E t \in Reader :
         /\ use \in {"pipe", "input"}
         /\ reading(t) \/ ((qlockr(t) \/ interruptedr(t)) /\ UNCHANGED use)
    \/ (producer \/ consumer \/ control) /\ UNCHANGED use

Spec == Init /\ [][Next]_vars

\* Processes keep running, and so does the device.
Fairness ==
    /\ \A t \in Thread : WF_vars(wake(t) /\ UNCHANGED use)
    /\ \A t \in Writer : WF_vars(writing(t))
    /\ \A t \in Reader : WF_vars(reading(t))
    /\ WF_vars(consumer /\ UNCHANGED use)

FairSpec == Spec /\ Fairness

-----------------------------------------------------------------------------
\* The type of every variable, and q->len and q->dlen, which are kept
\* step by step, agree with the blocks.
QioOK ==
    /\ len = space(q)
    /\ dlen = Len(Bytes(q))
    /\ limit \in Limits /\ noblock \in BOOLEAN /\ going \in BOOLEAN
    /\ state \subseteq {"Qstarve", "Qmsg", "Qclosed", "Qflow", "Qcoalesce",
                        "Qkick"}
    /\ \A t \in Reader : pc[t] # "out" <=> rlock = t
    /\ \A t \in Writer : pc[t] # "out" <=> wlock = t
    /\ hand # <<>> <=> \E t \in Reader : pc[t] = "copy"

coming(call) == \E t \in Thread : \E i \in DOMAIN due[t] : due[t][i] = call

\* Nobody sleeps forgotten.  A sleeping reader has nothing to read, and
\* whoever adds to the queue will wake it; a sleeping writer has flow
\* control on, so that whoever drains the queue will wake it (but see
\* EmptyWakesWriter on "print"); a device that stopped has nothing to send
\* but what was printed to a closed queue, or is about to be kicked.
NoSleeperForgotten ==
    /\ (\E t \in Reader : pc[t] = "rasleep") =>
         \/ ~notempty /\ "Qstarve" \in state
         \/ coming("rr")
    /\ use # "print" /\ (\E t \in Writer : pc[t] = "wasleep") =>
         \/ /\ "Qflow" \in state /\ "Qclosed" \notin state
            /\ len > 0 \/ hand # <<>>
         \/ coming("wr")
    /\ use \in {"output", "print"} /\ "Qkick" \notin state /\ ~going =>
         \/ /\ "Qstarve" \in state \/ "Qclosed" \in state
            /\ use = "output" => q = <<>>
         \/ coming("kick")

\* A writer waits "for queue to get below the limit": it does not sleep on
\* an empty queue, unless its wakeup is on the way.
EmptyWakesWriter ==
    q = <<>> /\ hand = <<>> /\ (\E t \in Writer : pc[t] = "wasleep") =>
        coming("wr")

\* The items of module ByteQueue.
Items(blocks) ==
    IF "Qmsg" \in state THEN [i \in DOMAIN blocks |-> blocks[i].data]
    ELSE Bytes(blocks)

BQ == INSTANCE ByteQueue WITH
        messages <- "Qmsg" \in state,
        data     <- Items(hand \o q),
        clearing <- due[ctl] # <<>>,
        last     <- last

\* The queue is a queue: across partial reads, blocks put back, coalescing
\* and interrupted sleeps, what was written is read in order and once.
ImplementsByteQueue == BQ!Spec

waiting(t) == pc[t] \in {"read", "rsleep", "rasleep"}

\* A write to a device returns, and a reader does not wait for ever when
\* there is something to read, or when nothing will ever come.
Progress ==
    /\ \A t \in Writer :
         use = "output" /\ pc[t] # "out" ~> pc[t] = "out"
    /\ \A t \in Reader :
         waiting(t) /\ (dlen > 0 \/ "Qclosed" \in state) ~> ~waiting(t)

=============================================================================
