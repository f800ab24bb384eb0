------------------------------- MODULE Routes -------------------------------
(***************************************************************************)
(* The routes of ip/iproute.c.  The routes of each bucket are a tree:      *)
(* left and right of a route are those of other ranges of addresses, in    *)
(* order, and mid are those of parts of its range.  A route whose range    *)
(* is in several buckets is in the tree of each.  v4addroute and           *)
(* v4delroute change one tree after the other, under a lock; lookups take  *)
(* no lock, and conversations remember what they found.                    *)
(***************************************************************************)
EXTENDS Integers, Sequences, SequencesExt, FiniteSetsExt

CONSTANTS
    Bucket,     \* 0 .. 2^Lroot - 1
    Width,      \* addresses of a bucket in a row; the bucket is what follows
    Addr,       \* the addresses
    Prefix,      \* the ranges <<first, last>> that routes are for
    Via, Local, \* gateways and interfaces; which of them are local interfaces
    MaxRoutes,  \* bound on the routes, with how often they were added
    dst,        \* where the conversation sends to
    Hazards     \* "lookup": routes change between the search of a lookup and
                \* what it leaves in the conversation; "writers": somebody
                \* flushes routes while somebody else changes one

VARIABLES
    root,   \* v4root
    mut,    \* v4addroute or v4delroute under way: what, and the next bucket
    conv    \* the conversation: c->r, nil if c->rgen is not
            \* v4routegeneration, and what a lookup for it has found

vars == <<root, mut, conv>>

hash(a) == (a \div Width) % (Max(Bucket) + 1)

\* The buckets from V4H(sa) to V4H(ea).
buckets(g) == hash(g[1]) .. hash(g[2])

RoutesAssumption ==
    /\ Bucket = 0 .. Max(Bucket) /\ Width \in Nat \ {0}
    /\ \A g \in Prefix :
         /\ g[1] <= g[2] /\ g[1] \in Addr /\ g[2] \in Addr
         /\ {hash(a) : a \in g[1] .. g[2]} = buckets(g)
         \* masks are contiguous
         /\ \A k \in Prefix : g[2] < k[1] \/ k[2] < g[1]
                              \/ (g[1] <= k[1] /\ k[2] <= g[2])
                              \/ (k[1] <= g[1] /\ g[2] <= k[2])
    /\ Local \subseteq Via /\ dst \in Addr

-----------------------------------------------------------------------------
nil == <<>>

Route(g, v) == [range |-> g, via |-> v, ref |-> 1, depth |-> 1,
                left |-> nil, mid |-> nil, right |-> nil]

preceeds(g, k) == g[2] < k[1]
follows(g, k)  == g[1] > k[2]

\* Mutant: not if they begin or end at the same address.
containsStrict(g, k) == g[1] < k[1] /\ g[2] > k[2]

contains(g, k) == g[1] <= k[1] /\ g[2] >= k[2] /\ g # k

depth(p) == IF p = nil THEN 0 ELSE p.depth

calcd(p) == [p EXCEPT !.depth = Max({depth(p.left), depth(p.mid), depth(p.right)}) + 1]

\* Mutant: what is between the two is lost.
balancetreeLoses(p) ==
    LET l == p.left
        r == p.right
    IN  IF depth(l) > depth(r) + 1
        THEN calcd([l EXCEPT !.right = calcd([p EXCEPT !.left = nil])])
        ELSE IF depth(r) > depth(l) + 1
        THEN calcd([r EXCEPT !.left = calcd([p EXCEPT !.right = nil])])
        ELSE calcd(p)

balancetree(p) ==
    LET l == p.left
        r == p.right
    IN  IF depth(l) > depth(r) + 1
        THEN calcd([l EXCEPT !.right = calcd([p EXCEPT !.left = l.right])])
        ELSE IF depth(r) > depth(l) + 1
        THEN calcd([r EXCEPT !.left = calcd([p EXCEPT !.right = r.left])])
        ELSE calcd(p)

\* The tree p with new in it, and f->queue with what new took the place of.
RECURSIVE addnode(_, _, _)
addnode(p, new, queue) ==
    IF p = nil THEN [tree |-> [new EXCEPT !.depth = 1], queue |-> queue]
    ELSE
    LET sub(x)  == addnode(x, new, queue)
        done(x) == [tree |-> balancetree(x), queue |-> queue]
        with(s, x) == [tree |-> balancetree(x), queue |-> s.queue]
    IN  CASE preceeds(new.range, p.range) ->
               with(sub(p.left), [p EXCEPT !.left = sub(p.left).tree])
          [] follows(new.range, p.range) ->
               with(sub(p.right), [p EXCEPT !.right = sub(p.right).tree])
          [] contains(new.range, p.range) ->
               [tree  |-> balancetree([new EXCEPT !.depth = 1]),
                queue |-> <<p>> \o queue]
          [] new.range = p.range ->
               done(IF p.via \notin Local THEN [p EXCEPT !.via = new.via]
                    ELSE IF new.via \in Local THEN [p EXCEPT !.ref = @ + 1]
                    ELSE p)
          [] OTHER ->
               with(sub(p.mid), [p EXCEPT !.mid = sub(p.mid).tree])

RECURSIVE walkadd(_, _, _)
walkadd(tree, p, queue) ==
    IF p = nil THEN [tree |-> tree, queue |-> queue]
    ELSE LET a == addnode(tree, [p EXCEPT !.left = nil, !.right = nil], queue)
             b == walkadd(a.tree, p.left, a.queue)
         IN  walkadd(b.tree, p.right, b.queue)

\* while(p = f->queue)
RECURSIVE drained(_)
drained(s) == IF s.queue = <<>> THEN s.tree
              ELSE drained(walkadd(s.tree, Head(s.queue), Tail(s.queue)))

added(tree, g, v) == drained(addnode(tree, Route(g, v), <<>>))

\* Where looknode goes on from p.
next(p, g) == IF preceeds(g, p.range) THEN "left"
              ELSE IF follows(g, p.range) THEN "right" ELSE "mid"

RECURSIVE looknode(_, _)
looknode(p, g) ==
    IF p = nil THEN nil
    ELSE IF p.range = g THEN p
    ELSE IF contains(g, p.range) THEN nil ELSE looknode(p[next(p, g)], g)

\* With x where looknode found the route of g.
RECURSIVE replaced(_, _, _)
replaced(p, g, x) ==
    IF p.range = g THEN x
    ELSE [p EXCEPT ![next(p, g)] = replaced(@, g, x)]

deleted(tree, g) ==
    LET p == looknode(tree, g)
    IN  IF p = nil THEN tree
        ELSE IF p.ref > 1 THEN replaced(tree, g, [p EXCEPT !.ref = @ - 1])
        ELSE drained([tree  |-> replaced(tree, g, nil),
                      queue |-> SelectSeq(<<p.right, p.mid, p.left>>,
                                          LAMBDA x : x # nil)])

\* v4lookup from p, where q was the last that a is in.
RECURSIVE lookup(_, _, _)
lookup(p, a, q) ==
    IF p = nil THEN q
    ELSE IF a < p.range[1] THEN lookup(p.left, a, q)
    ELSE IF a > p.range[2] THEN lookup(p.right, a, q)
    ELSE lookup(p.mid, a, p)

found(a) == LET q == lookup(root[hash(a)], a, nil)
            IN  IF q = nil THEN nil ELSE q.range

\* The routes of a tree.
RECURSIVE routes(_)
routes(p) == IF p = nil THEN {}
             ELSE {[range |-> p.range, via |-> p.via, ref |-> p.ref]}
                    \cup routes(p.left) \cup routes(p.mid) \cup routes(p.right)

\* What routeflush finds first, in the order mid, left, right, itself.
RECURSIVE toflush(_)
toflush(p) ==
    IF p = nil THEN nil
    ELSE LET c == SelectSeq(<<toflush(p.mid), toflush(p.left), toflush(p.right)>>,
                            LAMBDA x : x # nil)
         IN  IF c # <<>> THEN Head(c)
             ELSE IF p.via \notin Local THEN p.range ELSE nil

\* What routeread shows: a route once, where the first of its buckets is.
RECURSIVE rr(_, _)
rr(p, h) == IF p = nil THEN <<>>
            ELSE rr(p.left, h)
                 \o (IF hash(p.range[1]) = h THEN <<p.range>> ELSE <<>>)
                 \o rr(p.mid, h) \o rr(p.right, h)

-----------------------------------------------------------------------------
none == [op |-> "none"]

Init == /\ root = [h \in Bucket |-> nil]
        /\ mut = none
        /\ conv = [r |-> nil, found |-> <<>>]

entries == UNION {routes(root[h]) : h \in Bucket}
ranges == {e.range : e \in entries}

v4addroute(g, v) ==
    /\ mut = none
    /\ MapThenSumSet(LAMBDA e : e.ref, entries) < MaxRoutes
    /\ mut' = [op |-> "add", range |-> g, via |-> v, h |-> hash(g[1])]
    /\ UNCHANGED <<root, conv>>

v4delroute(g) ==
    /\ mut = none
    /\ mut' = [op |-> "del", range |-> g, h |-> hash(g[1])]
    /\ UNCHANGED <<root, conv>>

quiet == conv.found = <<>> \/ "lookup" \in Hazards

\* One bucket, under routelock.
change ==
    /\ quiet
    /\ mut # none /\ mut.h <= hash(mut.range[2])
    /\ root' = [root EXCEPT ![mut.h] =
                    IF mut.op = "add" THEN added(@, mut.range, mut.via)
                    ELSE deleted(@, mut.range)]
    /\ mut' = [mut EXCEPT !.h = @ + 1]
    /\ UNCHANGED conv

\* v4routegeneration++
generation ==
    /\ quiet
    /\ mut # none /\ mut.h > hash(mut.range[2])
    /\ mut' = none
    /\ conv' = [conv EXCEPT !.r = nil]
    /\ UNCHANGED root

\* One route, under routelock, by v4delroute with dolock 0.
routeflush(h) ==
    LET g == toflush(root[h])
    IN  /\ g # nil /\ quiet /\ (mut = none \/ "writers" \in Hazards)
        /\ root' = [k \in Bucket |-> IF k \in buckets(g) THEN deleted(root[k], g)
                                     ELSE root[k]]
        /\ conv' = [conv EXCEPT !.r = nil]
        /\ UNCHANGED mut

\* A lookup for the conversation, when what it has is not to be used.
v4lookup ==
    /\ conv.found = <<>> /\ conv.r = nil
    /\ conv' = [conv EXCEPT !.found = <<found(dst)>>]
    /\ UNCHANGED <<root, mut>>

v4lookupSet ==
    /\ conv.found # <<>>
    /\ conv' = [r |-> Head(conv.found), found |-> <<>>]
    /\ UNCHANGED <<root, mut>>

Next ==
    \/ change \/ generation \/ v4lookup \/ v4lookupSet
    \/ \E h \in Bucket : routeflush(h)
    \/ \E g \in Prefix : v4delroute(g) \/ \E v \in Via : v4addroute(g, v)

Spec == Init /\ [][Next]_vars

-----------------------------------------------------------------------------
Table == INSTANCE RouteTable WITH table <- [h \in Bucket |-> routes(root[h])]

\* Each change of a tree is one change of the table, to one route, whatever
\* is moved about in the tree.
ImplementsRouteTable == Table!Spec

matching(a) == {e.range : e \in {x \in routes(root[hash(a)]) :
                                   a \in x.range[1] .. x.range[2]}}

\* A lookup finds the route for the smallest range that a is in.
Finds(a) == IF matching(a) = {} THEN found(a) = nil
            ELSE /\ found(a) \in matching(a)
                 /\ \A g \in matching(a) : ~contains(found(a), g)

\* While nothing changes: all buckets have the same of a route, routeread
\* shows each route once, and what a conversation has is what a lookup finds.
Settled ==
    /\ \A g \in Prefix : Cardinality({e \in entries : e.range = g}) <= 1
    /\ \A g \in ranges : \A h \in buckets(g) : looknode(root[h], g) # nil
    /\ LET all == FlattenSeq([h \in 1 .. Max(Bucket) + 1 |-> rr(root[h - 1], h - 1)])
       IN  ToSet(all) = ranges /\ IsInjective(all)
    /\ conv.r # nil => conv.r = found(dst)

RoutesOK == /\ \A a \in Addr : Finds(a)
            /\ mut = none => Settled
=============================================================================
