----------------------------- MODULE MountTable -----------------------------
(***************************************************************************)
(* Mount tables and several processes: findmount, walk, undomount, cmount  *)
(* and cunmount of port/chan.c, pgrpcpy and closepgrp of port/pgrp.c, the  *)
(* opening of unions in namec and unionread of port/sysfile.c.             *)
(*                                                                         *)
(* pg->ns is held while a table is searched or changed, m->lock while the  *)
(* list of one Mhead is.  A Mhead is counted: by the table, by every walk  *)
(* that may come back to the union, and by every Chan that was opened as a *)
(* union or is about to be bound (umh).  Its list is looked at without its *)
(* lock as well, see Hazards.  Both locks are those of module RWlock; that *)
(* their queues are fair is of no matter here.                             *)
(***************************************************************************)
EXTENDS Naturals, Sequences, SequencesExt, FiniteSetsExt

CONSTANTS Proc, Dir, Group,
          Mheads,     \* how many Mheads there can be
          MaxCalls,   \* bound on the calls made, but for reads
          Hazards,    \* interleavings that are let happen, see below
          home,       \* the group all processes are in at first
          mtpt, union0,  \* and where it has which union
          nil

\* "union": a union changes while somebody who has seen its first element is
\*    about to look at the others, in walk, cmount or namec;
\* "dotdot": undomount reads the lists of its group while one is changed.
ASSUME MountTableAssumption ==
    /\ Mheads \in Nat /\ MaxCalls \in Nat
    /\ Hazards \subseteq {"union", "dotdot"}
    /\ nil \notin Proc \cup Dir \cup Group
    /\ home \in Group /\ mtpt \in Dir
    /\ union0 \in Seq(Dir) /\ union0 # <<>> /\ union0 # <<mtpt>>

VARIABLES
    pgrp,    \* up->pgrp
    mnthash, \* mnthash[g][d]: the Mhead of g with from d
    ref, mount,       \* of a Mhead; free if ref is 0
    ns, lock,         \* pg->ns and m->lock: who reads and who writes
    pc, use,          \* where a process is, in what kind of call
    dir, c, mh, m,    \* its locals: see the actions
    umh,     \* of the union the process has open
    calls

held == <<ns, lock>>
heads == <<mnthash, ref, mount>>
locals == <<use, dir, c, mh, m>>
vars == <<pgrp, heads, held, pc, locals, umh, calls>>

Head1 == 1 .. Mheads
Free == [readers |-> {}, writer |-> nil]
NoTable == [d \in Dir |-> nil]

readable(l) == l.writer = nil
writable(l) == l = Free
reading(l, p) == [l EXCEPT !.readers = @ \cup {p}]
writing(l, p) == [l EXCEPT !.writer = p]
left(l, p) == [readers |-> l.readers \ {p},
               writer  |-> IF l.writer = p THEN nil ELSE l.writer]

rlockNs(p)  == readable(ns[pgrp[p]]) /\ ns' = [ns EXCEPT ![pgrp[p]] = reading(@, p)]
wlockNs(p)  == writable(ns[pgrp[p]]) /\ ns' = [ns EXCEPT ![pgrp[p]] = writing(@, p)]
unlockNs(p) == ns' = [ns EXCEPT ![pgrp[p]] = left(@, p)]
rlock(h, p) == readable(lock[h]) /\ lock' = [lock EXCEPT ![h] = reading(@, p)]
wlock(h, p) == writable(lock[h]) /\ lock' = [lock EXCEPT ![h] = writing(@, p)]
unlock(h, p) == lock' = [lock EXCEPT ![h] = left(@, p)]

mine(p) == mnthash[pgrp[p]]
Goto(p, from, to) == pc[p] = from /\ pc' = [pc EXCEPT ![p] = to]
incref(h) == ref' = [ref EXCEPT ![h] = @ + 1]
\* putmhead
putmhead(r, h) == IF h = nil THEN r ELSE [r EXCEPT ![h] = @ - 1]
newmhead == CHOOSE h \in Head1 : ref[h] = 0 /\ \A k \in Head1 : ref[k] = 0 => h <= k

Init ==
    /\ pgrp = [p \in Proc |-> home]
    /\ mnthash = [g \in Group |->
                     IF g = home THEN [NoTable EXCEPT ![mtpt] = 1] ELSE NoTable]
    /\ mount = [h \in Head1 |-> IF h = 1 THEN union0 ELSE <<>>]
    /\ ref = [h \in Head1 |-> IF h = 1 THEN 1 ELSE 0]
    /\ ns = [g \in Group |-> Free] /\ lock = [h \in Head1 |-> Free]
    /\ pc = [p \in Proc |-> "idle"] /\ use = [p \in Proc |-> nil]
    /\ dir = [p \in Proc |-> nil] /\ c = [p \in Proc |-> nil]
    /\ mh = [p \in Proc |-> nil] /\ m = [p \in Proc |-> nil]
    /\ umh = [p \in Proc |-> nil]
    /\ calls = 0

begin(p, u, to) ==
    /\ calls < MaxCalls /\ calls' = calls + 1
    /\ Goto(p, "idle", to) /\ use' = [use EXCEPT ![p] = u]

\* The call is over, and what it still has of a union is given back.
end(p) ==
    /\ pc' = [pc EXCEPT ![p] = "idle"] /\ use' = [use EXCEPT ![p] = nil]
    /\ dir' = [dir EXCEPT ![p] = nil] /\ c' = [c EXCEPT ![p] = nil]
    /\ mh' = [mh EXCEPT ![p] = nil] /\ m' = [m EXCEPT ![p] = nil]

-----------------------------------------------------------------------------
(* domount, in walk and in namec.                                          *)

\* A name is walked through d, d is opened, or bound somewhere.
lookup(p, u, d) ==
    /\ begin(p, u, "findmount")
    /\ dir' = [dir EXCEPT ![p] = d]
    /\ UNCHANGED <<pgrp, heads, held, c, mh, m, umh>>

findmount(p) ==
    /\ Goto(p, "findmount", "find") /\ rlockNs(p)
    /\ UNCHANGED <<pgrp, heads, lock, locals, umh, calls>>

\* With the lock of the Mhead, that of the table is given up; all that is
\* taken from the Mhead is counted before its lock is.
findmountFound(p) ==
    LET h == mine(p)[dir[p]]
    IN  /\ Goto(p, "find", use[p])
        /\ h # nil /\ readable(lock[h])
        /\ unlockNs(p) /\ incref(h)
        /\ mh' = [mh EXCEPT ![p] = h]
        /\ c' = [c EXCEPT ![p] = Head(mount[h])]
        /\ UNCHANGED <<pgrp, mnthash, mount, lock, use, dir, m, umh, calls>>

findmountNot(p) ==
    /\ Goto(p, "find", use[p])
    /\ mine(p)[dir[p]] = nil
    /\ unlockNs(p)
    /\ c' = [c EXCEPT ![p] = dir[p]]
    /\ UNCHANGED <<pgrp, heads, lock, use, dir, mh, m, umh, calls>>

\* The server of c has the name, or there is no union.
walkDone(p) ==
    /\ pc[p] = "walk"
    /\ ref' = putmhead(ref, mh[p]) /\ end(p)
    /\ UNCHANGED <<pgrp, mnthash, mount, held, umh, calls>>

\* Mutant: the Mhead is given back before its list is searched.
walkUnionUncounted(p) ==
    /\ Goto(p, "walk", "search")
    /\ mh[p] # nil /\ rlock(mh[p], p)
    /\ ref' = putmhead(ref, mh[p])
    /\ UNCHANGED <<pgrp, mnthash, mount, ns, locals, umh, calls>>

\* It has not: the other elements are asked one by one, under the lock.
walkUnion(p) ==
    /\ Goto(p, "walk", "search")
    /\ mh[p] # nil /\ rlock(mh[p], p)
    /\ UNCHANGED <<pgrp, heads, ns, locals, umh, calls>>

walkEnd(p) ==
    /\ pc[p] = "search"
    /\ unlock(mh[p], p)
    /\ ref' = putmhead(ref, mh[p]) /\ end(p)
    /\ UNCHANGED <<pgrp, mnthash, mount, ns, umh, calls>>

\* "only save the mount head if it's a multiple element union"
open(p) ==
    /\ pc[p] = "open"
    /\ LET multiple == mh[p] # nil /\ Len(mount[mh[p]]) > 1
       IN  /\ umh' = [umh EXCEPT ![p] = IF multiple THEN mh[p] ELSE nil]
           /\ ref' = IF multiple THEN ref ELSE putmhead(ref, mh[p])
    /\ end(p)
    /\ UNCHANGED <<pgrp, mnthash, mount, held, calls>>

\* unionread holds the lock while the servers read.
unionread(p) ==
    /\ umh[p] # nil /\ Goto(p, "idle", "read") /\ rlock(umh[p], p)
    /\ use' = [use EXCEPT ![p] = "read"]
    /\ UNCHANGED <<pgrp, heads, ns, dir, c, mh, m, umh, calls>>

unionreadEnd(p) ==
    /\ pc[p] = "read" /\ unlock(umh[p], p) /\ end(p)
    /\ UNCHANGED <<pgrp, heads, ns, umh, calls>>

\* chanfree
close(p) ==
    /\ pc[p] = "idle" /\ umh[p] # nil
    /\ ref' = putmhead(ref, umh[p])
    /\ umh' = [umh EXCEPT ![p] = nil]
    /\ UNCHANGED <<pgrp, mnthash, mount, held, pc, locals, calls>>

changing(g) == \E d \in Dir : /\ mnthash[g][d] # nil
                              /\ lock[mnthash[g][d]].writer # nil

\* ".." looks through all the lists of the group.
undomount(p) ==
    /\ begin(p, "dotdot", "undomount") /\ rlockNs(p)
    /\ "dotdot" \in Hazards \/ ~changing(pgrp[p])
    /\ UNCHANGED <<pgrp, heads, lock, dir, c, mh, m, umh>>

undomountEnd(p) ==
    /\ pc[p] = "undomount" /\ unlockNs(p) /\ end(p)
    /\ UNCHANGED <<pgrp, heads, lock, umh, calls>>

-----------------------------------------------------------------------------
(* cmount and cunmount.  A Mhead that a walk or a bind has seen, and may   *)
(* look at again, is watched.  A bind to a name waits for nobody, because  *)
(* there is always another name.                                           *)

watched(h, p) == /\ "union" \notin Hazards
                 /\ \E q \in Proc \ {p} : mh[q] = h /\ pc[q] # "search"

\* cmount, called with c and the Mhead over c, to mount it on d: the table is locked and has the Mhead.
cmount(p, d, order) ==
    /\ Goto(p, "bind", "cmountHead") /\ wlockNs(p)
    /\ use' = [use EXCEPT ![p] = order] /\ dir' = [dir EXCEPT ![p] = d]
    /\ LET old == mine(p)[d]
       IN  IF old # nil
           THEN /\ ~watched(old, p)
                /\ m' = [m EXCEPT ![p] = old] /\ UNCHANGED heads
           ELSE /\ m' = [m EXCEPT ![p] = newmhead]
                /\ mnthash' = [mnthash EXCEPT ![pgrp[p]][d] = newmhead]
                /\ ref' = [ref EXCEPT ![newmhead] = 1]
                /\ mount' = [mount EXCEPT ![newmhead] =
                                IF order = "MREPL" THEN <<>> ELSE <<d>>]
    /\ UNCHANGED <<pgrp, lock, c, mh, umh, calls>>

\* The Mhead is locked, then the table is not any more.
cmountHead(p) ==
    /\ Goto(p, "cmountHead", "cmountList")
    /\ wlock(m[p], p) /\ unlockNs(p)
    /\ UNCHANGED <<pgrp, heads, locals, umh, calls>>

\* What is bound: the first element, and the rest if it is a union.
new(p) == <<c[p]>> \o IF mh[p] = nil \/ mount[mh[p]] = <<>> THEN <<>>
                      ELSE Tail(mount[mh[p]])

cmountList(p) ==
    /\ pc[p] = "cmountList"
    /\ mount' = [mount EXCEPT ![m[p]] =
                    CASE use[p] = "MREPL"   -> new(p)
                      [] use[p] = "MAFTER"  -> @ \o new(p)
                      [] use[p] = "MBEFORE" -> new(p) \o @]
    /\ unlock(m[p], p)
    /\ ref' = putmhead(ref, mh[p]) /\ end(p)
    /\ UNCHANGED <<pgrp, mnthash, ns, umh, calls>>

cunmount(p, d) ==
    /\ begin(p, "unmount", "cunmount") /\ dir' = [dir EXCEPT ![p] = d]
    /\ UNCHANGED <<pgrp, heads, held, c, mh, m, umh>>

cunmountNs(p) ==
    /\ pc[p] = "cunmount" /\ wlockNs(p) /\ mine(p)[dir[p]] # nil
    /\ ~watched(mine(p)[dir[p]], p)
    /\ pc' = [pc EXCEPT ![p] = "cunmountHead"]
    /\ m' = [m EXCEPT ![p] = mine(p)[dir[p]]]
    /\ UNCHANGED <<pgrp, heads, lock, use, dir, c, mh, umh, calls>>

\* Mutant: error() without wunlock.
cunmountNotHeld(p) ==
    /\ pc[p] = "cunmount" /\ wlockNs(p) /\ mine(p)[dir[p]] = nil
    /\ end(p)
    /\ UNCHANGED <<pgrp, heads, lock, umh, calls>>

\* Eunmount
cunmountNot(p) ==
    /\ pc[p] = "cunmount" /\ writable(ns[pgrp[p]]) /\ mine(p)[dir[p]] = nil
    /\ end(p)
    /\ UNCHANGED <<pgrp, heads, held, umh, calls>>

unlink(p) == mnthash' = [mnthash EXCEPT ![pgrp[p]][dir[p]] = nil]

\* Everything: the Mhead leaves the table, and is emptied after that.
cunmountAll(p) ==
    /\ Goto(p, "cunmountHead", "cunmountFree")
    /\ wlock(m[p], p) /\ unlink(p) /\ unlockNs(p)
    /\ UNCHANGED <<pgrp, ref, mount, locals, umh, calls>>

cunmountFree(p) ==
    /\ pc[p] = "cunmountFree"
    /\ mount' = [mount EXCEPT ![m[p]] = <<>>]
    /\ unlock(m[p], p)
    /\ ref' = putmhead(ref, m[p]) /\ end(p)
    /\ UNCHANGED <<pgrp, mnthash, ns, umh, calls>>

\* One element: both locks are held to the end.  Eunion if it is not there.
cunmountOne(p) ==
    LET h == m[p]
    IN  /\ pc[p] = "cunmountHead" /\ writable(lock[h])
        /\ \/ UNCHANGED heads
           \/ \E i \in DOMAIN mount[h] :
                 /\ mount' = [mount EXCEPT ![h] = RemoveAt(@, i)]
                 /\ \A j \in 1 .. i - 1 : mount[h][j] # mount[h][i]
                 /\ IF mount'[h] = <<>>
                    THEN unlink(p) /\ ref' = putmhead(ref, h)
                    ELSE UNCHANGED <<mnthash, ref>>
        /\ unlockNs(p) /\ end(p)
        /\ UNCHANGED <<pgrp, lock, umh, calls>>

-----------------------------------------------------------------------------
(* rfork(RFNAMEG) and rfork(RFCNAMEG): a group of one's own.               *)

\* Where the Mheads of a group that is being made go is g, kept in dir.
unused(g) == mnthash[g] = NoTable /\ \A p \in Proc : pgrp[p] # g /\ dir[p] # g

pgrpcpy(p, g) ==
    /\ unused(g) /\ begin(p, "rfork", "pgrpcpy") /\ wlockNs(p)
    /\ dir' = [dir EXCEPT ![p] = g]
    /\ UNCHANGED <<pgrp, heads, lock, c, mh, m, umh>>

\* newmhead, with a copy of the list.
pgrpcpyHead(p) ==
    \E d \in Dir :
        LET f == mine(p)[d]
        IN  /\ pc[p] = "pgrpcpy"
            /\ f # nil /\ mnthash[dir[p]][d] = nil
            /\ readable(lock[f])
            /\ mnthash' = [mnthash EXCEPT ![dir[p]][d] = newmhead]
            /\ ref' = [ref EXCEPT ![newmhead] = 1]
            /\ mount' = [mount EXCEPT ![newmhead] = mount[f]]
            /\ UNCHANGED <<pgrp, held, pc, locals, umh, calls>>

\* The group changes, and the old one is closed: by the last process in it
\* Mhead by Mhead.
pgrpcpyEnd(p) ==
    /\ Goto(p, "pgrpcpy", "closepgrp")
    /\ \A d \in Dir : mine(p)[d] # nil => mnthash[dir[p]][d] # nil
    /\ unlockNs(p)
    /\ pgrp' = [pgrp EXCEPT ![p] = dir[p]]
    /\ dir' = [dir EXCEPT ![p] = pgrp[p]]
    /\ UNCHANGED <<heads, lock, use, c, mh, m, umh, calls>>

newpgrp(p, g) ==
    /\ unused(g) /\ begin(p, "rfork", "closepgrp")
    /\ pgrp' = [pgrp EXCEPT ![p] = g] /\ dir' = [dir EXCEPT ![p] = pgrp[p]]
    /\ UNCHANGED <<heads, held, c, mh, m, umh>>

abandoned(g) == \A q \in Proc : pgrp[q] # g

\* Mutant: without decref.
closepgrpHeadAny(p) ==
    \E d \in Dir :
        LET f == mnthash[dir[p]][d]
        IN  /\ pc[p] = "closepgrp"
            /\ f # nil /\ writable(lock[f])
            /\ mount' = [mount EXCEPT ![f] = <<>>]
            /\ mnthash' = [mnthash EXCEPT ![dir[p]][d] = nil]
            /\ ref' = putmhead(ref, f)
            /\ UNCHANGED <<pgrp, held, pc, locals, umh, calls>>

closepgrpHead(p) ==
    \E d \in Dir :
        LET f == mnthash[dir[p]][d]
        IN  /\ pc[p] = "closepgrp" /\ abandoned(dir[p])
            /\ f # nil /\ writable(lock[f])
            /\ mount' = [mount EXCEPT ![f] = <<>>]
            /\ mnthash' = [mnthash EXCEPT ![dir[p]][d] = nil]
            /\ ref' = putmhead(ref, f)
            /\ UNCHANGED <<pgrp, held, pc, locals, umh, calls>>

closepgrpEnd(p) ==
    /\ pc[p] = "closepgrp"
    /\ abandoned(dir[p]) => mnthash[dir[p]] = NoTable
    /\ end(p)
    /\ UNCHANGED <<pgrp, heads, held, umh, calls>>

-----------------------------------------------------------------------------
Call(p) ==
    \/ \E d \in Dir : \/ \E u \in {"walk", "open", "bind"} :
                             (u = "open" => umh[p] = nil) /\ lookup(p, u, d)
                      \/ cunmount(p, d)
    \/ \E g \in Group : pgrpcpy(p, g) \/ newpgrp(p, g)
    \/ unionread(p) \/ undomount(p) \/ close(p)

Going(p) ==
    \/ findmount(p) \/ findmountFound(p) \/ findmountNot(p)
    \/ walkDone(p) \/ walkUnion(p) \/ walkEnd(p) \/ open(p)
    \/ unionreadEnd(p) \/ undomountEnd(p)
    \/ \E d \in Dir, o \in {"MREPL", "MBEFORE", "MAFTER"} : cmount(p, d, o)
    \/ cmountHead(p) \/ cmountList(p)
    \/ cunmountNs(p) \/ cunmountNot(p) \/ cunmountAll(p) \/ cunmountFree(p)
    \/ cunmountOne(p)
    \/ pgrpcpyHead(p) \/ pgrpcpyEnd(p) \/ closepgrpHead(p) \/ closepgrpEnd(p)

Next == \E p \in Proc : Call(p) \/ Going(p)

Spec == Init /\ [][Next]_vars

Fairness == \A p \in Proc : SF_vars(Going(p))
FairSpec == Spec /\ Fairness

-----------------------------------------------------------------------------
TableHolds(h) == Cardinality({x \in Group \X Dir : mnthash[x[1]][x[2]] = h})

\* Every Mhead is counted as often as it is held.  (cunmountFree is about to
\* give up what the table held.)
RefsOK ==
    \A h \in Head1 :
        /\ ref[h] = TableHolds(h)
             + Cardinality({p \in Proc : mh[p] = h})
             + Cardinality({p \in Proc : umh[p] = h})
             + Cardinality({p \in Proc : pc[p] = "cunmountFree" /\ m[p] = h})
        /\ ref[h] = 0 => lock[h] = Free

\* findmount takes the first element without looking whether there is one.
MountThere ==
    \A g \in Group, d \in Dir :
        LET h == mnthash[g][d]
        IN  h # nil /\ lock[h].writer = nil =>
                mount[h] # <<>> \/ ns[g].writer # nil

\* Nobody reads a list that is being changed.
ReadsSafe ==
    \A p \in Proc : pc[p] = "undomount" => ~changing(pgrp[p])

\* "mh->mount->to == c, so start at mh->mount->next"
TopIsC ==
    \A p \in Proc :
        mh[p] # nil /\ pc[p] \in {"walk", "open", "bind", "cmountList"} =>
            mount[mh[p]] # <<>> /\ Head(mount[mh[p]]) = c[p]

\* Every call returns: the locks of tables and of unions, held while others
\* are asked for, are had in an order that lets everybody go on.
CallReturns == \A p \in Proc : pc[p] # "idle" ~> pc[p] = "idle"

\* While cmount has a Mhead it has just made, nothing is mounted there yet.
visible(g, d) ==
    LET h == mnthash[g][d]
    IN  IF h = nil \/ mount[h] = <<d>> THEN <<>> ELSE mount[h]

\* An unmount is over when the Mhead is out of the table; reads, "..", and
\* forks are no calls of NameSpace.
N == INSTANCE NameSpace WITH
        table <- [g \in Group |-> IF abandoned(g) THEN [d \in Dir |-> <<>>]
                                  ELSE [d \in Dir |-> visible(g, d)]],
        call <- [p \in Proc |->
                    IF use[p] \in {nil, "read", "dotdot", "rfork"} \/
                       pc[p] = "cunmountFree"
                    THEN [use |-> "out", dir |-> "none"]
                    ELSE [use |-> use[p], dir |-> dir[p]]],
        seen <- [p \in Proc |->
                    IF pc[p] \in {"walk", "search", "open", "bind",
                                  "cmountHead", "cmountList"}
                    THEN new(p) ELSE <<>>]

ImplementsNameSpace == N!Spec
=============================================================================
