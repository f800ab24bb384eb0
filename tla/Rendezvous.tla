----------------------------- MODULE Rendezvous -----------------------------
(***************************************************************************)
(* The rendezvous system call (port/sysproc.c) and the end of postnote     *)
(* (port/proc.c), which pulls a process out of one.                        *)
(*                                                                         *)
(* The first of two processes to come with a tag waits in the hash table   *)
(* of their Rgrp; the second exchanges values with it and readies it.  The *)
(* table is changed under the lock of the Rgrp.  A process that waits is   *)
(* still on its stack for a while after it gave up that lock.              *)
(***************************************************************************)
EXTENDS Naturals, FiniteSets, Functions

CONSTANTS Proc,      \* the processes of the Rgrp
          Tag,       \* the tags they come with
          Poster,    \* the threads that call postnote
          MaxCall,   \* bound: calls of rendezvous by each process
          MaxCalls,  \* bound: calls of all of them
          none,      \* the value ~0
          nil

RendezvousAssumption ==
    /\ MaxCall \in Nat /\ MaxCalls \in Nat
    /\ Proc \cap Poster = {}
    /\ nil \notin Proc \cup Poster
    /\ none # nil
    /\ {none, nil} \cap (Proc \X (1 .. MaxCall)) = {}

VARIABLES
    state,    \* p->state
    mach,     \* whether p->mach # 0
    rendtag,  \* p->rendtag
    rendval,  \* p->rendval
    hash,     \* the processes in the hash table of the Rgrp
    rgrp,     \* the thread holding the lock of the Rgrp
    pc,       \* where each process and each poster is
    tag,      \* the argument tag of sysrendezvous
    pv,       \* its local p, and the argument p of postnote
    call,     \* how many calls each process has made; the value it brings
              \* to a call is the pair of itself and this number
    result    \* what each call returned, where it did

vars == <<state, mach, rendtag, rendval, hash, rgrp, pc, tag, pv, call,
          result>>
calls == <<tag, call, result>>

Init ==
    /\ state = [p \in Proc |-> "Running"]
    /\ mach = [p \in Proc |-> TRUE]
    /\ rendtag = [p \in Proc |-> nil]
    /\ rendval = [p \in Proc |-> none]
    /\ hash = {}
    /\ rgrp = nil
    /\ pc = [a \in Proc \cup Poster |-> "idle"]
    /\ tag = [p \in Proc |-> nil]
    /\ pv = [a \in Proc \cup Poster |-> nil]
    /\ call = [p \in Proc |-> 0]
    /\ result = [p \in Proc |-> [n \in 1 .. MaxCall |-> nil]]

Goto(a, from, to) == pc[a] = from /\ pc' = [pc EXCEPT ![a] = to]
value(p) == <<p, call[p]>>
returns(p, v) == result' = [result EXCEPT ![p][call[p]] = v]

-----------------------------------------------------------------------------
\* sysrendezvous(tag, value), up to the lock.
sysrendezvous(p, t) ==
    /\ call[p] < MaxCall /\ SumFunction(call) < MaxCalls
    /\ Goto(p, "idle", "lock")
    /\ rendval' = [rendval EXCEPT ![p] = none]
    /\ tag' = [tag EXCEPT ![p] = t]
    /\ call' = [call EXCEPT ![p] = @ + 1]
    /\ UNCHANGED <<state, mach, rendtag, hash, rgrp, pv, result>>

rendLock(p) ==
    /\ rgrp = nil
    /\ Goto(p, "lock", "search")
    /\ rgrp' = p
    /\ UNCHANGED <<state, mach, rendtag, rendval, hash, pv, calls>>

\* Somebody waits with this tag: the values are exchanged.
rendMatch(p) ==
    \E q \in hash :
        /\ rendtag[q] = tag[p]
        /\ Goto(p, "search", "spin")
        /\ pv' = [pv EXCEPT ![p] = q]
        /\ hash' = hash \ {q}
        /\ rendval' = [rendval EXCEPT ![q] = value(p)]
        /\ returns(p, rendval[q])
        /\ UNCHANGED <<state, mach, rendtag, rgrp, tag, call>>

\* while(p->mach != 0); ready(p); unlock(up->rgrp); return
rendReady(p) ==
    /\ pc[p] = "spin" /\ ~mach[pv[p]]
    /\ Goto(p, "spin", "idle")
    /\ state' = [state EXCEPT ![pv[p]] = "Ready"]
    /\ pv' = [pv EXCEPT ![p] = nil]
    /\ rgrp' = nil
    /\ UNCHANGED <<mach, rendtag, rendval, hash, calls>>

\* Mutant: the old tag stays.
rendWaitUntagged(p) ==
    /\ ~\E q \in hash : rendtag[q] = tag[p]
    /\ Goto(p, "search", "sched")
    /\ rendtag' = [rendtag EXCEPT ![p] = IF @ = nil THEN tag[p] ELSE @]
    /\ rendval' = [rendval EXCEPT ![p] = value(p)]
    /\ hash' = hash \cup {p}
    /\ state' = [state EXCEPT ![p] = "Rendezvous"]
    /\ rgrp' = nil
    /\ UNCHANGED <<mach, pv, calls>>

\* Nobody does: p waits.
rendWait(p) ==
    /\ ~\E q \in hash : rendtag[q] = tag[p]
    /\ Goto(p, "search", "sched")
    /\ rendtag' = [rendtag EXCEPT ![p] = tag[p]]
    /\ rendval' = [rendval EXCEPT ![p] = value(p)]
    /\ hash' = hash \cup {p}
    /\ state' = [state EXCEPT ![p] = "Rendezvous"]
    /\ rgrp' = nil
    /\ UNCHANGED <<mach, pv, calls>>

\* sched(), until schedinit has saved the process.
rendSched(p) ==
    /\ Goto(p, "sched", "off")
    /\ mach' = [mach EXCEPT ![p] = FALSE]
    /\ UNCHANGED <<state, rendtag, rendval, hash, rgrp, pv, calls>>

\* The scheduler runs a process that is ready: return up->rendval.
rendReturn(p) ==
    /\ state[p] = "Ready"
    /\ Goto(p, "off", "idle")
    /\ state' = [state EXCEPT ![p] = "Running"]
    /\ mach' = [mach EXCEPT ![p] = TRUE]
    /\ returns(p, rendval[p])
    /\ UNCHANGED <<rendtag, rendval, hash, rgrp, pv, tag, call>>

-----------------------------------------------------------------------------
\* postnote(p), from "if(p->state != Rendezvous)" on.
postnote(n, p) ==
    /\ state[p] = "Rendezvous"
    /\ Goto(n, "idle", "lock")
    /\ pv' = [pv EXCEPT ![n] = p]
    /\ UNCHANGED <<state, mach, rendtag, rendval, hash, rgrp, calls>>

postnoteLock(n) ==
    /\ rgrp = nil
    /\ Goto(n, "lock", "pull")
    /\ rgrp' = n
    /\ UNCHANGED <<state, mach, rendtag, rendval, hash, pv, calls>>

\* "Try and pull out of a rendezvous".
postnotePull(n) ==
    LET p == pv[n] IN
    /\ Goto(n, "pull", "idle")
    /\ IF state[p] = "Rendezvous"
       THEN /\ rendval' = [rendval EXCEPT ![p] = none]
            /\ hash' = hash \ {p}
            /\ state' = [state EXCEPT ![p] = "Ready"]
       ELSE UNCHANGED <<rendval, hash, state>>
    /\ rgrp' = nil
    /\ pv' = [pv EXCEPT ![n] = nil]
    /\ UNCHANGED <<mach, rendtag, calls>>

-----------------------------------------------------------------------------
Running(p) ==
    \/ rendMatch(p) \/ rendReady(p) \/ rendWait(p) \/ rendSched(p)
    \/ rendReturn(p)

Next ==
    \/ \E p \in Proc :
         (\E t \in Tag : sysrendezvous(p, t)) \/ rendLock(p) \/ Running(p)
    \/ \E n \in Poster :
         (\E p \in Proc : postnote(n, p)) \/ postnoteLock(n) \/ postnotePull(n)

Spec == Init /\ [][Next]_vars

\* Whoever does not wait runs; the spin lock, held for short, is not always
\* taken when somebody tries.
Fairness ==
    /\ \A p \in Proc : WF_vars(Running(p)) /\ SF_vars(rendLock(p))
    /\ \A n \in Poster : WF_vars(postnotePull(n)) /\ SF_vars(postnoteLock(n))

FairSpec == Spec /\ Fairness

-----------------------------------------------------------------------------
Value == {none, nil} \cup Proc \X (1 .. MaxCall)

\* The type of every variable.
TypeOK ==
    /\ state \in [Proc -> {"Running", "Rendezvous", "Ready"}]
    /\ mach \in [Proc -> BOOLEAN]
    /\ rendtag \in [Proc -> Tag \cup {nil}]
    /\ rendval \in [Proc -> Value \ {nil}]
    /\ hash \subseteq Proc
    /\ rgrp \in Proc \cup Poster \cup {nil}
    /\ pc \in [Proc \cup Poster ->
                 {"idle", "lock", "search", "spin", "sched", "off", "pull"}]
    /\ tag \in [Proc -> Tag \cup {nil}]
    /\ pv \in [Proc \cup Poster -> Proc \cup {nil}]
    /\ call \in [Proc -> 0 .. MaxCall]
    /\ result \in [Proc -> [1 .. MaxCall -> Value]]

\* A process is in the hash table exactly if it waits: whoever is Rendezvous
\* can be found by a partner and by postnote, nobody else is.
WaitingIsHashed ==
    rgrp = nil => hash = {p \in Proc : state[p] = "Rendezvous"}

\* The hash table is sound: everything has its type, and it holds exactly the
\* processes that wait.
ChainsOK == TypeOK /\ WaitingIsHashed

\* Two processes never wait with the same tag: they would have met.
NobodyMissed ==
    \A p, q \in hash : rendtag[p] = rendtag[q] => p = q

\* Values are exchanged in pairs: if a call of p returned the value of a call
\* of q, then that call of q returned the value of p, or is about to, whatever
\* notes are posted meanwhile; and no value reaches two processes.
Exchanged ==
    \A p, q \in Proc, i, j \in 1 .. MaxCall :
        result[p][i] = <<q, j>> =>
            \/ result[q][j] = <<p, i>>
            \/ /\ result[q][j] = nil /\ call[q] = j
               /\ rendval[q] = <<p, i>> /\ q \notin hash

\* A process waits for the lock, or to run again once it was met or pulled out.
Waiting(p) == pc[p] = "lock" \/ (pc[p] = "off" /\ p \notin hash)

\* The lock is given back, though a process spins under it until its partner
\* is off its stack; and a process that was met or pulled out returns.
MetReturns == \A p \in Proc : Waiting(p) ~> ~Waiting(p)

=============================================================================
