------------------------------- MODULE Names --------------------------------
(***************************************************************************)
(* What a file name means: walk, undomount, cmount and cunmount of         *)
(* port/chan.c, as bind, mount and unmount (port/sysfile.c) use them.      *)
(* This module is about one process at a time, so that every operation is  *)
(* one step; module MountTable is about several.                           *)
(*                                                                         *)
(* A server has a tree of directories and knows nothing of mounts.  mnt is *)
(* the mount table of the name space: a directory with a union mounted on  *)
(* it has a head, with the name it was mounted under and what its elements *)
(* are.  walk asks the server for many names at once and looks afterwards  *)
(* whether they led through a mount point.                                 *)
(***************************************************************************)
EXTENDS Naturals, Sequences, SequencesExt, FiniteSetsExt

CONSTANTS
    Dir,        \* the directories of all servers
    root,       \* where up->slash is
    child,      \* child[d], a function from the names in d to directories
    MAXWELEM,   \* the most names in one request
    Bound,      \* bound: the paths given to bind and unmount
    Path,       \* bound: the paths looked up
    MaxBinds,   \* bound on the calls of bind and unmount
    Element,    \* the names BindShows is about
    none        \* no directory

NamesAssumption ==
    /\ root \in Dir /\ none \notin Dir
    /\ MAXWELEM \in Nat \ {0}
    /\ \A d \in Dir : \A e \in DOMAIN child[d] : child[d][e] \in Dir
    \* a directory is in one place
    /\ \A u, v \in Dir : \A e \in DOMAIN child[u], f \in DOMAIN child[v] :
           child[u][e] = child[v][f] => u = v /\ e = f

VARIABLES
    mnt,    \* mnt[d]: the Mhead whose from is d, its list empty if none
    calls   \* how many calls were made

\* The server's "..": the root of a tree is its own parent.
parent[d \in Dir] ==
    IF \E u \in Dir : d \in Range(child[u])
    THEN CHOOSE u \in Dir : d \in Range(child[u]) ELSE d

NoHead == [name |-> <<>>, list |-> <<>>]
mounted(d) == mnt[d].list # <<>>
top(d) == mnt[d].list[1]

\* domount: to the first element of what is mounted there.
domount(d) == IF mounted(d) THEN top(d) ELSE d

\* addelem and cleancname.
addelem(name, e) ==
    IF e # ".." THEN Append(name, e)
    ELSE IF name = <<>> THEN <<>> ELSE Front(name)

-----------------------------------------------------------------------------
(***************************************************************************)
(* walk.  One round of its loop takes w, with c on its way and left the    *)
(* names not looked at yet; c is none when there is no such file.          *)
(***************************************************************************)
\* Mutant: any union that c is an element of will do.
undomountAny(c, name) ==
    FoldSet(LAMBDA h, d : IF mounted(h) /\ Contains(mnt[h].list, d) THEN h ELSE d,
            c, Dir)

\* Where c came from, if an element of a union of that name led to it.
undomount(c, name) ==
    FoldSet(LAMBDA h, d : IF /\ mounted(h) /\ mnt[h].name = name
                             /\ Contains(mnt[h].list, d)
                          THEN h ELSE d,
            c, Dir)

\* How many names go into one request: ".." goes alone.
ntry(left) ==
    IF Head(left) = ".." THEN 1
    ELSE CHOOSE n \in 1 .. Len(left) :
             /\ n <= MAXWELEM /\ \A i \in 1 .. n : left[i] # ".."
             /\ n = Len(left) \/ n = MAXWELEM \/ left[n + 1] = ".."

\* The qids the server answers with, one for each name that exists.
RECURSIVE qids(_, _)
qids(d, names) ==
    IF names = <<>> \/ Head(names) \notin DOMAIN child[d] THEN <<>>
    ELSE LET n == child[d][Head(names)] IN <<n>> \o qids(n, Tail(names))

dotdot(w) ==
    LET name == addelem(w.name, "..")
    IN  [c |-> undomount(parent[w.c], name), mh |-> none, name |-> name,
         left |-> Tail(w.left)]

Lost == [c |-> none, mh |-> none, name |-> <<>>, left |-> <<>>]

forward(w) ==
    LET n     == ntry(w.left)
        names == SubSeq(w.left, 1, n)
        c     == domount(w.c)
        mh    == IF mounted(w.c) THEN w.c ELSE w.mh
        union == <<c>> \o IF mh = none THEN <<>>
                          ELSE Tail(mnt[mh].list)
        has   == SelectSeq(union, LAMBDA d : Head(names) \in DOMAIN child[d])
        q     == qids(Head(has), names)
        along == {i \in 1 .. Len(q) : i < n /\ mounted(q[i])}
        i     == CHOOSE i \in along : \A j \in along : i <= j
    IN  IF has = <<>> THEN Lost
        ELSE IF along # {}
        THEN [c |-> top(q[i]), mh |-> q[i],
              name |-> w.name \o SubSeq(names, 1, i),
              left |-> SubSeq(w.left, i + 1, Len(w.left))]
        ELSE IF Len(q) < n THEN Lost
        ELSE [c |-> q[n], mh |-> none, name |-> w.name \o names,
              left |-> SubSeq(w.left, n + 1, Len(w.left))]

step(w) == IF Head(w.left) = ".." THEN dotdot(w) ELSE forward(w)

Start(path) == [c |-> root, mh |-> none, name |-> <<>>, left |-> path]

\* The w of every round.
RECURSIVE rounds(_)
rounds(w) == <<w>> \o IF w.left = <<>> THEN <<>> ELSE rounds(step(w))

walk(path) == Last(rounds(Start(path)))

-----------------------------------------------------------------------------
Init == mnt = [d \in Dir |-> NoHead] /\ calls = 0

\* Mutant: a union is not copied.
newmountsFirst(d) == <<domount(d)>>

\* What is mounted for d: its first element, and a copy of the others.
newmounts(d) == <<domount(d)>> \o IF mounted(d) THEN Tail(mnt[d].list) ELSE <<>>

\* bindmount: namec(new, Abind), namec(old, Amount) and cmount.
bind(new, old, order) ==
    LET w0   == walk(new)
        w1   == walk(old)
        m    == mnt[w1.c]
        nm   == newmounts(w0.c)
        base == IF m.list # <<>> THEN m.list ELSE <<w1.c>>
    IN  /\ w0.c # none /\ w1.c # none
        /\ mnt' = [mnt EXCEPT ![w1.c] =
               [name |-> IF m.list # <<>> THEN m.name ELSE w1.name,
                list |-> CASE order = "MREPL"   -> nm
                           [] order = "MBEFORE" -> nm \o base
                           [] order = "MAFTER"  -> base \o nm]]

\* sysunmount and cunmount: the first element that is new, or all.
unmount(new, old) ==
    LET w0 == walk(new)
        w1 == walk(old)
        l  == mnt[w1.c].list
        is == {i \in DOMAIN l : l[i] = domount(w0.c)}
        i  == CHOOSE i \in is : \A j \in is : i <= j
        r  == RemoveAt(l, i)
    IN  /\ w0.c # none /\ w1.c # none /\ is # {}
        /\ mnt' = [mnt EXCEPT ![w1.c] =
                      IF r = <<>> THEN NoHead ELSE [@ EXCEPT !.list = r]]

unmountAll(old) ==
    LET w1 == walk(old)
    IN  /\ w1.c # none /\ mounted(w1.c)
        /\ mnt' = [mnt EXCEPT ![w1.c] = NoHead]

Order == {"MREPL", "MBEFORE", "MAFTER"}

Next ==
    /\ calls < MaxBinds /\ calls' = calls + 1
    /\ \E old \in Bound :
          \/ unmountAll(old)
          \/ \E new \in Bound :
               unmount(new, old) \/ \E order \in Order : bind(new, old, order)

vars == <<mnt, calls>>

Spec == Init /\ [][Next]_vars

-----------------------------------------------------------------------------
(* Properties.                                                             *)

Clean(path) == FoldLeft(addelem, <<>>, path)

\* The first element of the union that has the name.
find(d, e) ==
    LET union == IF mounted(d) THEN mnt[d].list ELSE <<d>>
        has   == SelectSeq(union, LAMBDA u : e \in DOMAIN child[u])
    IN  IF has = <<>> THEN none ELSE child[Head(has)][e]

\* What a path should mean: one name after the other, and ".." takes back the
\* name before it.
Meaning(path) ==
    FoldLeft(LAMBDA d, e : IF d = none THEN none ELSE find(d, e),
             root, Clean(path))

Reached(path) ==
    IF \E p \in Prefixes(path) : Meaning(p) = none THEN none ELSE Meaning(path)

\* Each mount point on the way was mounted under the name it has on the way,
\* and the first element of what is mounted there is no other mount point.
Plain(path) ==
    \A p \in Prefixes(path) :
        LET d == Meaning(p)
        IN  /\ \A h \in Dir : mounted(h) => (mnt[h].name = Clean(p) <=> h = d)
            /\ d # none /\ mounted(d) => ~mounted(top(d)) \/ top(d) = d

\* walk, which asks for many names at once, turns back at mount points,
\* searches unions for the first name only and finds its way out of a union
\* by the names of mount points, finds what the path means.
WalkOK == \A path \in Path : Plain(path) => walk(path).c = Reached(path)

\* What was to be found in new is found in old after a bind, before or after
\* what was there, even if new and old are unions, or in each other.
BindShows ==
    [][\A old, new \in Bound :
         /\ mnt' # mnt
         /\ walk(new).c = Meaning(new) /\ walk(old).c = Meaning(old)
         => \A order \in Order, e \in Element :
              LET n == Meaning(Append(new, e))
                  o == Meaning(Append(old, e))
              IN  bind(new, old, order) =>
                    Meaning(Append(old, e))' =
                      CASE order = "MREPL"   -> n
                        [] order = "MBEFORE" -> IF n = none THEN o ELSE n
                        [] order = "MAFTER"  -> IF o = none THEN n ELSE o]_vars

\* "An invariant is that each time through the loop, c is on the undomount
\* side of the mount point, and c's name is cname" (walk): the mount point is
\* crossed from c as from the directory that the name means.
UndomountSide ==
    \A path \in {p \in Path : ".." \notin ToSet(p)} :
        \A i \in DOMAIN rounds(Start(path)) :
            LET w == rounds(Start(path))[i]
                d == Meaning(w.name)
            IN  w.c # none => d # none /\ domount(w.c) = domount(d)
=============================================================================
