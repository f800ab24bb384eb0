------------------------------ MODULE MountMux ------------------------------
(***************************************************************************)
(* The mount driver (port/devmnt.c): file system calls of many processes   *)
(* multiplexed over one connection to a server.  Whoever finds nobody      *)
(* reading the connection (m->rip == 0) reads it, for itself and for the   *)
(* others, until its own answer has come, and passes the reading on        *)
(* (mntgate).  A process that is interrupted sends a Tflush and waits for  *)
(* its answer instead.                                                     *)
(*                                                                         *)
(* A Mntrpc and its tag are one thing: the tag is allocated with the       *)
(* Mntrpc and stays with it on the free list.  A step is what is done      *)
(* under lock(m) or lock(&mntalloc), or one read or write of the           *)
(* connection.  The server is outside this program; it does what the       *)
(* protocol asks: it answers the requests in any order, the flushes of one *)
(* request in order, and never the request after its flush.  There is one  *)
(* reader and the answers stay in order, so it makes no difference that    *)
(* the server decides on an answer only when the reader asks for one.      *)
(***************************************************************************)
EXTENDS Naturals, Sequences, SequencesExt, FiniteSetsExt, Functions, Positions

CONSTANTS Proc,
          MaxTag,     \* bound on the number of tags
          MaxFree,    \* how many Mntrpcs the free list keeps, 10 in the code
          MaxEvents,  \* bound on the number of calls and faults
          Worlds,     \* the sets of faults that are looked at
          nil

ASSUME MountMuxAssumption ==
    /\ {MaxTag, MaxFree, MaxEvents} \subseteq Nat
    /\ Worlds \subseteq SUBSET {"note", "hangup", "garbage"}
    /\ nil \notin Proc

VARIABLES
    faults,   \* what may go wrong in this behaviour; it never changes
    rpc,      \* the Mntrpcs: what is asked, and done and reply
    free,     \* mntalloc.rpcfree
    queue,    \* m->queue
    rip,      \* m->rip, the reader in progress
    chain,    \* the Mntrpcs of a process: its latest flush, what that one
              \* flushes, and so on to the call itself
    pc,       \* where the process is in mountio
    towake,   \* the Mntrpc whose owner mountmux is about to wake
    pend,     \* the requests the server has not answered
    hung,     \* the connection is hung up
    ncall, nfault  \* how many calls and faults there have been

vars == <<faults, rpc, free, queue, rip, chain, pc, towake, pend, hung,
          ncall, nfault>>
server == <<pend, hung>>
counts == <<ncall, nfault>>
more == ncall + nfault < MaxEvents

Tag == 0 .. MaxTag
used == UNION {ToSet(chain[p]) : p \in Proc}

Goto(p, from, to) == pc[p] = from /\ pc' = [pc EXCEPT ![p] = to]

\* What a Mntrpc asks for: the n-th call, or the flush of a tag.
Call(n)    == <<"call", n>>
Flush(old) == <<"flush", old>>
fresh(ask) == [ask |-> ask, done |-> FALSE, reply |-> Call(0)]

Init ==
    /\ faults \in Worlds
    /\ rpc = [t \in Tag |-> fresh(Call(0))]
    /\ free = <<>> /\ queue = <<>> /\ rip = nil
    /\ chain = [p \in Proc |-> <<>>]
    /\ pc = [p \in Proc |-> "out"]
    /\ towake = [p \in Proc |-> nil]
    /\ pend = <<>> /\ hung = FALSE
    /\ ncall = 0 /\ nfault = 0

-----------------------------------------------------------------------------
\* mntralloc takes the first of the free list, or makes a new one with the
\* lowest tag.
new == IF free # <<>> THEN Head(free) ELSE Min(Tag \ used)

\* Mutant: what was not answered stays on the queue.
mntflushfreeQueued(p) ==
    /\ free' = Reverse(SubSeq(chain[p], 1, Min({MaxFree - Len(free),
                                               Len(chain[p])}))) \o free
    /\ rpc' = [t \in Tag |-> IF t \in ToSet(chain[p]) THEN fresh(Call(0))
                             ELSE rpc[t]]
    /\ chain' = [chain EXCEPT ![p] = <<>>]
    /\ UNCHANGED queue

\* mntflushfree and, by the caller, mntfree: the whole chain of p leaves the
\* queue and goes to the free list, as far as that has room.
mntflushfree(p) ==
    LET c    == chain[p]
        room == MaxFree - Len(free)
    IN /\ queue' = At(queue, {i \in DOMAIN queue : queue[i] \notin ToSet(c)})
       /\ free' = Reverse(SubSeq(c, 1, Min({room, Len(c)}))) \o free
       /\ rpc' = [t \in Tag |-> IF t \in ToSet(c) THEN fresh(Call(0))
                                ELSE rpc[t]]
       /\ chain' = [chain EXCEPT ![p] = <<>>]

\* The Mntrpcs whose owners sleep, in the order of m->queue.
sleeping(t) == \E p \in Proc : pc[p] = "asleep" /\ Head(chain[p]) = t
owner(t) == CHOOSE p \in Proc : t \in ToSet(chain[p])

\* Mutant: nobody is woken.
mntgateSilent(p, next) == rip' = nil /\ pc' = [pc EXCEPT ![p] = next]

\* mntgate, and p goes on to the next step: nobody reads any more, and the
\* first one that sleeps is woken to do so.
mntgate(p, next) ==
    LET asleep == {i \in DOMAIN queue :
                     ~rpc[queue[i]].done /\ sleeping(queue[i])} IN
    /\ rip' = nil
    /\ pc' = [u \in Proc |->
               IF u = p THEN next
               ELSE IF asleep # {} /\ u = owner(queue[Min(asleep)]) THEN "awake"
               ELSE pc[u]]

-----------------------------------------------------------------------------
\* mntralloc and the beginning of mountio: the new request is queued and
\* written.  The write fails if the connection is hung up; a note interrupts
\* it, but then the request has gone.  (The new Mntrpc is nobody else's
\* business before it is written, and the two are one step.)
send(p, from, ask) ==
    /\ free # <<>> \/ Tag \ used # {}
    /\ rpc' = [rpc EXCEPT ![new] = fresh(ask)]
    /\ chain' = [chain EXCEPT ![p] = <<new>> \o @]
    /\ free' = IF free # <<>> THEN Tail(free) ELSE free
    /\ queue' = <<new>> \o queue
    /\ IF hung
       THEN Goto(p, from, "failed") /\ UNCHANGED <<pend, nfault>>
       ELSE /\ pend' = Append(pend, [tag |-> new, ask |-> ask])
            /\ \/ Goto(p, from, "gate") /\ UNCHANGED nfault
               \/ /\ "note" \in faults /\ ncall' + nfault < MaxEvents
                  /\ nfault' = nfault + 1
                  /\ Goto(p, from, "noted")
    /\ UNCHANGED <<faults, rip, towake, hung>>

\* A process makes a call.
mountrpc(p) ==
    /\ more /\ ncall' = ncall + 1
    /\ send(p, "out", Call(ncall'))

\* Gate readers onto the mount point one at a time.
gate(p) ==
    /\ \/ rip = nil /\ Goto(p, "gate", "read") /\ rip' = p
       \/ rip # nil /\ Goto(p, "gate", "sleep") /\ UNCHANGED rip
    /\ UNCHANGED <<faults, rpc, free, queue, chain, towake, server, counts>>

rpcattn(t) == rpc[t].done \/ rip = nil

\* sleep(&r->r, rpcattn, r), and what it returns to.
sleep(p) ==
    /\ Goto(p, "sleep", IF rpcattn(Head(chain[p])) THEN "awake" ELSE "asleep")
    /\ UNCHANGED <<faults, rpc, free, queue, rip, chain, towake, server,
                   counts>>

awake(p) ==
    /\ Goto(p, "awake", IF rpc[Head(chain[p])].done THEN "done" ELSE "gate")
    /\ UNCHANGED <<faults, rpc, free, queue, rip, chain, towake, server,
                   counts>>

\* What the server still has to answer when it has answered pend[i]: with a
\* flush it forgets the request and the earlier flushes of it.
answered(i) ==
    LET m       == pend[i]
        kept(r) == m.ask[1] = "flush" => r.tag # m.ask[2] /\ r.ask # m.ask
    IN At(pend, {j \in DOMAIN pend \ {i} : j < i => kept(pend[j])})

\* mountmux: the answer goes to whose it is; one that nobody waits for is
\* dropped.
mountmux(p, m) ==
    IF Contains(queue, m.tag)
    THEN /\ queue' = RemoveFirst(queue, m.tag)
         /\ rpc' = [rpc EXCEPT ![m.tag].done = TRUE, ![m.tag].reply = m.ask]
         /\ IF m.tag = Head(chain[p]) THEN UNCHANGED <<pc, towake>>
            ELSE /\ Goto(p, "read", "wake")
                 /\ towake' = [towake EXCEPT ![p] = m.tag]
    ELSE UNCHANGED <<queue, rpc, pc, towake>>

\* Mutant: the end of the file goes unnoticed.
mntrpcreadNoEof(p) ==
    /\ pc[p] = "read" /\ ~rpc[Head(chain[p])].done
    /\ \E i \in DOMAIN pend : mountmux(p, pend[i]) /\ pend' = answered(i)
    /\ UNCHANGED <<faults, free, rip, chain, hung, counts>>

\* The reader reads an answer.  At the end of the file, or after a message
\* that makes no sense, it gives up.
mntrpcread(p) ==
    /\ pc[p] = "read" /\ ~rpc[Head(chain[p])].done
    /\ \/ \E i \in DOMAIN pend :
            /\ mountmux(p, pend[i])
            /\ pend' = answered(i)
            /\ UNCHANGED nfault
       \/ /\ \/ hung /\ pend = <<>> /\ UNCHANGED nfault
             \/ "garbage" \in faults /\ more /\ nfault' = nfault + 1
          /\ Goto(p, "read", "failed")
          /\ UNCHANGED <<queue, rpc, towake, pend>>
    /\ UNCHANGED <<faults, free, rip, chain, hung, ncall>>

\* The wakeup at the end of mountmux, of whoever sleeps there by now.
wake(p) ==
    /\ pc[p] = "wake"
    /\ pc' = [u \in Proc |->
               IF u = p THEN "read"
               ELSE IF pc[u] = "asleep" /\ Head(chain[u]) = towake[p]
                    THEN "awake" ELSE pc[u]]
    /\ towake' = [towake EXCEPT ![p] = nil]
    /\ UNCHANGED <<faults, rpc, free, queue, rip, chain, server, counts>>

\* The reader has its answer.
readDone(p) ==
    /\ pc[p] = "read" /\ rpc[Head(chain[p])].done
    /\ mntgate(p, "done")
    /\ UNCHANGED <<faults, rpc, free, queue, chain, towake, server, counts>>

\* A note interrupts a process that sleeps, or has just been woken, or reads.
note(p) ==
    /\ "note" \in faults /\ more /\ nfault' = nfault + 1
    /\ pc[p] \in {"sleep", "asleep", "awake"} \/ (pc[p] = "read" /\ ~hung)
    /\ pc' = [pc EXCEPT ![p] = "noted"]
    /\ UNCHANGED <<faults, rpc, free, queue, rip, chain, towake, server, ncall>>

\* The error handlers of mountio: first the reading is passed on;
pass(p) ==
    /\ rip = p
    /\ \/ pc[p] = "noted" /\ mntgate(p, "noted")
       \/ pc[p] = "failed" /\ mntgate(p, "failed")
    /\ UNCHANGED <<faults, rpc, free, queue, chain, towake, server, counts>>

\* Mutant: an interrupted call just returns.
mntflushallocNone(p) ==
    /\ rip # p
    /\ Goto(p, "noted", "failed")
    /\ UNCHANGED <<faults, rpc, free, queue, rip, chain, towake, server, counts>>

\* then, after a note, the request is flushed (mntflushalloc);
mntflushalloc(p) ==
    /\ rip # p /\ pc[p] = "noted"
    /\ UNCHANGED ncall
    /\ send(p, "noted", Flush(Last(chain[p])))

\* after another error, or when all is done, p returns.
return(p) ==
    /\ rip # p
    /\ Goto(p, "failed", "out") \/ Goto(p, "done", "out")
    /\ mntflushfree(p)
    /\ UNCHANGED <<faults, rip, towake, server, counts>>

-----------------------------------------------------------------------------
\* The server goes; some of its answers are still on the way.
hangup ==
    /\ "hangup" \in faults /\ more /\ nfault' = nfault + 1
    /\ ~hung /\ hung' = TRUE
    /\ \E I \in SUBSET DOMAIN pend : pend' = At(pend, I)
    /\ UNCHANGED <<faults, rpc, free, queue, rip, chain, pc, towake, ncall>>

-----------------------------------------------------------------------------
step(p) ==
    \/ gate(p) \/ sleep(p) \/ awake(p) \/ mntrpcread(p)
    \/ wake(p) \/ readDone(p) \/ pass(p) \/ mntflushalloc(p) \/ return(p)

Next ==
    \/ \E p \in Proc : mountrpc(p) \/ step(p) \/ note(p)
    \/ hangup

Spec == Init /\ [][Next]_vars

\* Processes run, and the server answers.  Nobody has to call.
Fairness == \A p \in Proc : WF_vars(step(p))

FairSpec == Spec /\ Fairness

-----------------------------------------------------------------------------
\* The type of every variable; the Mntrpcs are each in one place, and m->queue
\* holds those that have been sent and not been answered.
MountOK ==
    /\ rip \in Proc \cup {nil}
    /\ ToSet(free) \cap used = {} /\ Len(free) <= MaxFree
    /\ IsInjective(free) /\ IsInjective(queue)
    /\ \A p, u \in Proc : p # u => ToSet(chain[p]) \cap ToSet(chain[u]) = {}
    /\ ToSet(queue) \subseteq used
    /\ \A t \in used : Contains(queue, t) => ~rpc[t].done
    /\ \A p \in Proc : pc[p] = "out" <=> chain[p] = <<>>
    /\ rip # nil => pc[rip] \in {"read", "wake", "noted", "failed"}

\* Every call gets the answer to itself and to nothing else: tags are used
\* again, by calls and by flushes, only when no answer to their earlier use
\* can come any more.  A call that has failed does not look at its answer:
\* when the connection was hung up under a flush, the answer to an earlier use
\* of the tag may still come.  (A garbled answer breaks this: its reader gives
\* up, and the tag is used again although the request has not been answered.)
OwnReply ==
    "garbage" \notin faults =>
        \A p \in Proc : pc[p] # "failed" => \A t \in ToSet(chain[p]) :
            rpc[t].done => rpc[t].reply = rpc[t].ask

\* Somebody reads as long as somebody sleeps: the reading is passed on
\* whatever happens to the process it is passed to.
BatonKept ==
    (\E p \in Proc : pc[p] = "asleep") =>
        \/ rip # nil
        \/ \E p \in Proc :
             pc[p] \in {"awake", "sleep", "gate", "noted"}

\* Every call returns: with its answer, or, when there were notes or the
\* connection was hung up, with an error.
CallReturns == \A p \in Proc : pc[p] # "out" ~> pc[p] = "out"

=============================================================================
