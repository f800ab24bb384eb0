----------------------------- MODULE PagesProof -----------------------------
(***************************************************************************)
(* The pages, for any sets of processes, segments, pages and swap          *)
(* addresses: what the count of a page counts, what is on the free list    *)
(* and in the caches, and what a fault relies on while it has let go of    *)
(* s->lk for the read (port/page.c, segment.c, fault.c, swap.c).           *)
(***************************************************************************)
EXTENDS Pages, QueueTheorems

Datum == Proc \cup {"init", "junk"}
Ram == [ref : [Page -> Nat], free : Seq(Page), chain : [Tag -> Seq(Page)],
        data : [Page -> Datum]]

\* The lists of the pages are in order: the free list has those that nobody
\* holds, and a page is the cache of one place at most.
Kept(m) ==
    /\ m \in Ram
    /\ Once(m.free) /\ \A t \in Tag : Once(m.chain[t])
    /\ \A pg \in Page : On(pg, m.free) <=> m.ref[pg] = 0
    /\ \A pg \in Page, t, u \in Tag :
         cachedAs(m, pg, t) /\ cachedAs(m, pg, u) => t = u

\* What forget leaves of the data, from m with the counts and caches of r.
Left(r, m, pg) ==
    IF r.ref[pg] = 0 /\ \A t \in Tag : ~cachedAs(r, pg, t) THEN "junk"
    ELSE m.data[pg]

-----------------------------------------------------------------------------
(* The operations on the pages.                                            *)

LEMMA CachedOn == \A m, pg, t : cachedAs(m, pg, t) <=> On(pg, m.chain[t])
  BY OnToSet DEF cachedAs

\* Only the data change.
LEMMA DataOnly ==
    ASSUME NEW m, Kept(m), NEW d \in [Page -> Datum],
           NEW r, r = [m EXCEPT !.data = d]
    PROVE  /\ Kept(r) /\ r.ref = m.ref /\ r.free = m.free
           /\ r.chain = m.chain /\ r.data = d
           /\ \A x, t : cachedAs(r, x, t) <=> cachedAs(m, x, t)
<1>1. /\ r \in Ram /\ r.ref = m.ref /\ r.free = m.free /\ r.chain = m.chain
      /\ r.data = d
  BY DEF Kept, Ram
<1>2. \A x, t : cachedAs(r, x, t) <=> cachedAs(m, x, t)
  BY <1>1 DEF cachedAs
<1>3. Kept(r)
  BY <1>1, <1>2 DEF Kept
<1> QED
  BY <1>1, <1>2, <1>3

\* One page gets other data.
Written(m, pg, v) == [m EXCEPT !.data[pg] = v]

LEMMA Wrote ==
    ASSUME NEW m, Kept(m), NEW pg \in Page, NEW v \in Datum,
           NEW r, r = Written(m, pg, v)
    PROVE  /\ Kept(r) /\ r.ref = m.ref /\ r.free = m.free
           /\ r.chain = m.chain /\ r.data = [m.data EXCEPT ![pg] = v]
           /\ \A x, t : cachedAs(r, x, t) <=> cachedAs(m, x, t)
<1>1. PICK d : d = [m.data EXCEPT ![pg] = v]
  OBVIOUS
<1>2. d \in [Page -> Datum]
  BY <1>1 DEF Kept, Ram
<1>3. r = [m EXCEPT !.data = d]
  BY <1>1 DEF Kept, Ram, Written
<1> QED
  BY <1>1, <1>2, <1>3, DataOnly

LEMMA Forgotten ==
    ASSUME NEW m, Kept(m), NEW r, r = forget(m)
    PROVE  /\ Kept(r) /\ r.ref = m.ref /\ r.free = m.free
           /\ r.chain = m.chain /\ \A pg \in Page : r.data[pg] = Left(r, m, pg)
           /\ \A x, t : cachedAs(r, x, t) <=> cachedAs(m, x, t)
<1>1. PICK d : d = [pg \in Page |->
                      IF m.ref[pg] = 0 /\ \A t \in Tag : ~cachedAs(m, pg, t)
                      THEN "junk" ELSE m.data[pg]]
  OBVIOUS
<1>2. d \in [Page -> Datum]
  BY <1>1 DEF Kept, Ram, Datum
<1>3. r = [m EXCEPT !.data = d]
  BY <1>1 DEF forget
<1>4. /\ Kept(r) /\ r.ref = m.ref /\ r.free = m.free
      /\ r.chain = m.chain /\ r.data = d
      /\ \A x, t : cachedAs(r, x, t) <=> cachedAs(m, x, t)
  BY <1>2, <1>3, DataOnly
<1> QED
  BY <1>1, <1>4 DEF Left

\* The chains change.
LEMMA ChainOnly ==
    ASSUME NEW m, Kept(m), NEW c \in [Tag -> Seq(Page)],
           \A t \in Tag : Once(c[t]),
           \A pg \in Page, t, u \in Tag : On(pg, c[t]) /\ On(pg, c[u]) => t = u,
           NEW r, r = [m EXCEPT !.chain = c]
    PROVE  /\ Kept(r) /\ r.ref = m.ref /\ r.free = m.free
           /\ r.chain = c /\ r.data = m.data
           /\ \A x : \A t \in Tag : cachedAs(r, x, t) <=> On(x, c[t])
<1>1. /\ r \in Ram /\ r.ref = m.ref /\ r.free = m.free /\ r.chain = c
      /\ r.data = m.data
  BY DEF Kept, Ram
<1>2. \A x : \A t \in Tag : cachedAs(r, x, t) <=> On(x, c[t])
  BY <1>1, CachedOn
<1>3. Kept(r)
  BY <1>1, <1>2 DEF Kept
<1> QED
  BY <1>1, <1>2, <1>3

LEMMA Uncached ==
    ASSUME NEW m, Kept(m), NEW pg \in Page, NEW r, r = uncachepage(m, pg)
    PROVE  /\ Kept(r) /\ r.ref = m.ref /\ r.free = m.free /\ r.data = m.data
           /\ \A x \in Page, t \in Tag :
                cachedAs(r, x, t) <=> cachedAs(m, x, t) /\ x # pg
<1>1. PICK c : c = [t \in Tag |-> RemoveFirst(m.chain[t], pg)]
  OBVIOUS
<1>2. ASSUME NEW t \in Tag
      PROVE  /\ c[t] \in Seq(Page) /\ Once(c[t])
             /\ \A x : On(x, c[t]) <=> On(x, m.chain[t]) /\ x # pg
  <2>1. m.chain[t] \in Seq(Page) /\ Once(m.chain[t])
    BY DEF Kept, Ram
  <2>2. c[t] = RemoveFirst(m.chain[t], pg)
    BY <1>1
  <2>3. CASE On(pg, m.chain[t])
    BY <2>1, <2>2, <2>3, RemoveQueue
  <2>4. CASE ~On(pg, m.chain[t])
    <3>1. c[t] = m.chain[t]
      BY <2>1, <2>2, <2>4, LenProperties DEF RemoveFirst, On
    <3> QED
      BY <3>1, <2>1, <2>4
  <2> QED
    BY <2>3, <2>4
<1>3. c \in [Tag -> Seq(Page)]
  BY <1>1, <1>2
<1>4. \A x : \A t \in Tag : On(x, c[t]) <=> cachedAs(m, x, t) /\ x # pg
  BY <1>2, CachedOn
<1>5. \A x \in Page, t, u \in Tag : On(x, c[t]) /\ On(x, c[u]) => t = u
  BY <1>4 DEF Kept
<1>6. r = [m EXCEPT !.chain = c]
  BY <1>1 DEF uncachepage
<1>7. \A t \in Tag : Once(c[t])
  BY <1>2
<1>8. /\ Kept(r) /\ r.ref = m.ref /\ r.free = m.free /\ r.data = m.data
      /\ \A x : \A t \in Tag : cachedAs(r, x, t) <=> On(x, c[t])
  BY <1>3, <1>5, <1>6, <1>7, ChainOnly
<1> QED
  BY <1>4, <1>8

LEMMA NowCached ==
    ASSUME NEW m, Kept(m), NEW pg \in Page, NEW t \in Tag,
           \A u \in Tag : ~cachedAs(m, pg, u), NEW r, r = cachepage(m, pg, t)
    PROVE  /\ Kept(r) /\ r.ref = m.ref /\ r.free = m.free /\ r.data = m.data
           /\ \A x \in Page, u \in Tag :
                cachedAs(r, x, u) <=> cachedAs(m, x, u) \/ (x = pg /\ u = t)
<1>1. PICK l : l = <<pg>> \o m.chain[t]
  OBVIOUS
<1>2. PICK c : c = [m.chain EXCEPT ![t] = l]
  OBVIOUS
<1>3. m.chain \in [Tag -> Seq(Page)] /\ \A u \in Tag : Once(m.chain[u])
  BY DEF Kept, Ram
<1>4. /\ l \in Seq(Page) /\ Once(l)
      /\ \A x : On(x, l) <=> On(x, m.chain[t]) \/ x = pg
  <2>1. ~On(pg, m.chain[t])
    BY CachedOn
  <2> QED
    BY <2>1, <1>1, <1>3, PushQueue
<1>5. /\ c \in [Tag -> Seq(Page)] /\ c[t] = l
      /\ \A u \in Tag \ {t} : c[u] = m.chain[u]
      /\ \A u \in Tag : Once(c[u])
  BY <1>2, <1>3, <1>4
<1>6. \A x : \A u \in Tag :
        On(x, c[u]) <=> cachedAs(m, x, u) \/ (x = pg /\ u = t)
  BY <1>4, <1>5, CachedOn
<1>7. \A x \in Page, u, v \in Tag : On(x, c[u]) /\ On(x, c[v]) => u = v
  BY <1>6 DEF Kept
<1>8. r = [m EXCEPT !.chain = c]
  BY <1>1, <1>2 DEF cachepage, Kept, Ram
<1>9. /\ Kept(r) /\ r.ref = m.ref /\ r.free = m.free /\ r.data = m.data
      /\ \A x : \A u \in Tag : cachedAs(r, x, u) <=> On(x, c[u])
  BY <1>5, <1>7, <1>8, ChainOnly
<1> QED
  BY <1>6, <1>9

LEMMA CacheDeleted ==
    ASSUME NEW m, Kept(m), NEW t \in Tag, NEW r, r = cachedel(m, t)
    PROVE  /\ Kept(r) /\ r.ref = m.ref /\ r.free = m.free
           /\ \A x \in Page, u \in Tag :
                cachedAs(r, x, u) <=>
                  cachedAs(m, x, u) /\ ~(u = t /\ x = Head(m.chain[t]))
           /\ \A pg \in Page : r.data[pg] = Left(r, m, pg)
<1>1. PICK l : l = IF m.chain[t] = <<>> THEN m.chain[t] ELSE Tail(m.chain[t])
  OBVIOUS
<1>2. PICK c : c = [m.chain EXCEPT ![t] = l]
  OBVIOUS
<1>3. m.chain \in [Tag -> Seq(Page)] /\ \A u \in Tag : Once(m.chain[u])
  BY DEF Kept, Ram
<1>4. /\ l \in Seq(Page) /\ Once(l)
      /\ \A x : On(x, l) <=> On(x, m.chain[t]) /\ x # Head(m.chain[t])
  <2>1. CASE m.chain[t] = <<>>
    <3>1. \A x : ~On(x, m.chain[t])
      BY <2>1 DEF On
    <3> QED
      BY <3>1, <2>1, <1>1, <1>3
  <2>2. CASE m.chain[t] # <<>>
    BY <2>2, <1>1, <1>3, TailQueue
  <2> QED
    BY <2>1, <2>2
<1>5. /\ c \in [Tag -> Seq(Page)] /\ c[t] = l
      /\ \A u \in Tag \ {t} : c[u] = m.chain[u]
      /\ \A u \in Tag : Once(c[u])
  BY <1>2, <1>3, <1>4
<1>6. \A x : \A u \in Tag :
        On(x, c[u]) <=> cachedAs(m, x, u) /\ ~(u = t /\ x = Head(m.chain[t]))
  BY <1>4, <1>5, CachedOn
<1>7. \A x \in Page, u, v \in Tag : On(x, c[u]) /\ On(x, c[v]) => u = v
  BY <1>6 DEF Kept
<1>8. PICK k : k = [m EXCEPT !.chain = c]
  OBVIOUS
<1>9. r = forget(k)
  BY <1>1, <1>2, <1>8 DEF cachedel, Kept, Ram
<1>10. /\ Kept(k) /\ k.ref = m.ref /\ k.free = m.free /\ k.data = m.data
       /\ \A x : \A u \in Tag : cachedAs(k, x, u) <=> On(x, c[u])
  BY <1>5, <1>7, <1>8, ChainOnly
<1>11. /\ Kept(r) /\ r.ref = k.ref /\ r.free = k.free
       /\ \A pg \in Page : r.data[pg] = Left(r, k, pg)
       /\ \A x, u : cachedAs(r, x, u) <=> cachedAs(k, x, u)
  BY <1>9, <1>10, Forgotten
<1> QED
  BY <1>6, <1>10, <1>11 DEF Left

\* The free pages are no caches any more.
Reclaim(m) ==
    forget([m EXCEPT !.chain = [t \in Tag |->
                At(m.chain[t], {i \in DOMAIN m.chain[t] :
                                  m.ref[m.chain[t][i]] # 0})]])

LEMMA Reclaimed ==
    ASSUME NEW m, Kept(m), NEW r, r = Reclaim(m)
    PROVE  /\ Kept(r) /\ r.ref = m.ref /\ r.free = m.free
           /\ \A x \in Page, t \in Tag :
                cachedAs(r, x, t) <=> cachedAs(m, x, t) /\ m.ref[x] # 0
           /\ \A pg \in Page : r.data[pg] = Left(r, m, pg)
<1>1. PICK c : c = [t \in Tag |-> At(m.chain[t], {i \in DOMAIN m.chain[t] :
                                                    m.ref[m.chain[t][i]] # 0})]
  OBVIOUS
<1>2. ASSUME NEW t \in Tag
      PROVE  /\ c[t] \in Seq(Page) /\ Once(c[t])
             /\ \A x : On(x, c[t]) <=> On(x, m.chain[t]) /\ m.ref[x] # 0
  <2>1. PICK s : s = m.chain[t]
    OBVIOUS
  <2>2. s \in Seq(Page) /\ Once(s)
    BY <2>1 DEF Kept, Ram
  <2>3. PICK I : I = {i \in DOMAIN s : m.ref[s[i]] # 0}
    OBVIOUS
  <2>4. c[t] = At(s, I) /\ I \subseteq DOMAIN s
    BY <1>1, <2>1, <2>3
  <2>5. /\ c[t] \in Seq(Page) /\ (Once(s) => Once(c[t]))
        /\ \A x : On(x, c[t]) <=> \E i \in I : s[i] = x
    BY <2>2, <2>4, Filtered
  <2>6. \A x : (\E i \in I : s[i] = x) <=> On(x, s) /\ m.ref[x] # 0
    BY <2>3 DEF On
  <2> QED
    BY <2>1, <2>2, <2>5, <2>6
<1>3. c \in [Tag -> Seq(Page)]
  BY <1>1, <1>2
<1>4. \A x : \A t \in Tag : On(x, c[t]) <=> cachedAs(m, x, t) /\ m.ref[x] # 0
  BY <1>2, CachedOn
<1>5. \A x \in Page, t, u \in Tag : On(x, c[t]) /\ On(x, c[u]) => t = u
  BY <1>4 DEF Kept
<1>6. \A t \in Tag : Once(c[t])
  BY <1>2
<1>7. PICK k : k = [m EXCEPT !.chain = c]
  OBVIOUS
<1>8. r = forget(k)
  BY <1>1, <1>7 DEF Reclaim
<1>9. /\ Kept(k) /\ k.ref = m.ref /\ k.free = m.free /\ k.data = m.data
      /\ \A x : \A t \in Tag : cachedAs(k, x, t) <=> On(x, c[t])
  BY <1>3, <1>5, <1>6, <1>7, ChainOnly
<1>10. /\ Kept(r) /\ r.ref = k.ref /\ r.free = k.free
       /\ \A pg \in Page : r.data[pg] = Left(r, k, pg)
       /\ \A x, t : cachedAs(r, x, t) <=> cachedAs(k, x, t)
  BY <1>8, <1>9, Forgotten
<1> QED
  BY <1>4, <1>9, <1>10 DEF Left

\* The counts and the free list change.
Renewed(m, c, f) == [m EXCEPT !.ref = c, !.free = f]

LEMMA FreeOnly ==
    ASSUME NEW m, Kept(m), NEW c \in [Page -> Nat], NEW f \in Seq(Page), Once(f),
           \A pg \in Page : On(pg, f) <=> c[pg] = 0,
           NEW r, r = Renewed(m, c, f)
    PROVE  /\ Kept(r) /\ r.ref = c /\ r.free = f
           /\ r.chain = m.chain /\ r.data = m.data
           /\ \A x, t : cachedAs(r, x, t) <=> cachedAs(m, x, t)
<1>1. /\ r \in Ram /\ r.ref = c /\ r.free = f /\ r.chain = m.chain
      /\ r.data = m.data
  BY DEF Kept, Ram, Renewed
<1>2. \A x, t : cachedAs(r, x, t) <=> cachedAs(m, x, t)
  BY <1>1 DEF cachedAs
<1>3. Kept(r)
  BY <1>1, <1>2 DEF Kept
<1> QED
  BY <1>1, <1>2, <1>3

\* A page that is held is held by more, or by less.
Referred(m, pg, n) == [m EXCEPT !.ref[pg] = n]

LEMMA Held ==
    ASSUME NEW m, Kept(m), NEW pg \in Page, m.ref[pg] # 0, NEW n \in Nat \ {0},
           NEW r, r = Referred(m, pg, n)
    PROVE  /\ Kept(r) /\ r.ref = [m.ref EXCEPT ![pg] = n] /\ r.free = m.free
           /\ r.chain = m.chain /\ r.data = m.data
           /\ \A x, t : cachedAs(r, x, t) <=> cachedAs(m, x, t)
<1>1. PICK c : c = [m.ref EXCEPT ![pg] = n]
  OBVIOUS
<1>4. PICK f : f = m.free
  OBVIOUS
<1>2. /\ c \in [Page -> Nat] /\ f \in Seq(Page) /\ Once(f)
      /\ \A x \in Page : On(x, f) <=> c[x] = 0
  BY <1>1, <1>4 DEF Kept, Ram
<1>3. r = Renewed(m, c, f)
  BY <1>1, <1>4 DEF Kept, Ram, Renewed, Referred
<1>5. /\ Kept(r) /\ r.ref = c /\ r.free = f
      /\ r.chain = m.chain /\ r.data = m.data
      /\ \A x, t : cachedAs(r, x, t) <=> cachedAs(m, x, t)
  BY <1>2, <1>3, FreeOnly
<1> QED
  BY <1>1, <1>4, <1>5

\* A cached page is found; it may have been free.
LEMMA Looked ==
    ASSUME NEW m, Kept(m), NEW t \in Tag, found(m, t), NEW pg, pg = Head(m.chain[t]),
           NEW r, r = lookpage(m, t)
    PROVE  /\ pg \in Page /\ cachedAs(m, pg, t)
           /\ Kept(r) /\ r.ref = [m.ref EXCEPT ![pg] = @ + 1]
           /\ r.chain = m.chain /\ r.data = m.data
           /\ \A x, u : cachedAs(r, x, u) <=> cachedAs(m, x, u)
<1>1. /\ m.chain[t] \in Seq(Page) /\ m.chain[t] # <<>> /\ m.free \in Seq(Page)
      /\ Once(m.free) /\ m.ref \in [Page -> Nat]
      /\ \A x \in Page : On(x, m.free) <=> m.ref[x] = 0
  BY DEF Kept, Ram, found
<1>2. pg \in Page /\ cachedAs(m, pg, t)
  BY <1>1, TailQueue, CachedOn
<1>3. PICK c : c = [m.ref EXCEPT ![pg] = @ + 1]
  OBVIOUS
<1>4. c \in [Page -> Nat] /\ \A x \in Page : c[x] = 0 <=> m.ref[x] = 0 /\ x # pg
  BY <1>1, <1>2, <1>3
<1>5. PICK f : f = RemoveFirst(m.free, pg)
  OBVIOUS
<1>6. f \in Seq(Page) /\ Once(f) /\ \A x : On(x, f) <=> On(x, m.free) /\ x # pg
  <2>1. CASE On(pg, m.free)
    BY <2>1, <1>1, <1>2, <1>5, RemoveQueue
  <2>2. CASE ~On(pg, m.free)
    <3>1. f = m.free
      BY <2>2, <1>1, <1>5, LenProperties DEF RemoveFirst, On
    <3> QED
      BY <3>1, <2>2, <1>1
  <2> QED
    BY <2>1, <2>2
<1>7. r = Renewed(m, c, f)
  BY <1>3, <1>5 DEF lookpage, Kept, Ram, Renewed
<1>8. \A x \in Page : On(x, f) <=> c[x] = 0
  BY <1>1, <1>4, <1>6
<1>9. /\ Kept(r) /\ r.ref = c /\ r.chain = m.chain /\ r.data = m.data
      /\ \A x, u : cachedAs(r, x, u) <=> cachedAs(m, x, u)
  BY <1>4, <1>6, <1>7, <1>8, FreeOnly
<1> QED
  BY <1>2, <1>3, <1>9

\* The head of the free list gets a new use.
LEMMA Taken ==
    ASSUME NEW m, Kept(m), m.free # <<>>, NEW pg, pg = Head(m.free),
           NEW r, r = newpage(m)
    PROVE  /\ pg \in Page /\ m.ref[pg] = 0
           /\ Kept(r) /\ r.ref = [m.ref EXCEPT ![pg] = 1]
           /\ r.data = [m.data EXCEPT ![pg] = "junk"]
           /\ \A x \in Page, t \in Tag :
                cachedAs(r, x, t) <=> cachedAs(m, x, t) /\ x # pg
<1>1. m.free \in Seq(Page) /\ Once(m.free) /\ m.ref \in [Page -> Nat]
      /\ \A x \in Page : On(x, m.free) <=> m.ref[x] = 0
  BY DEF Kept, Ram
<1>2. PICK f : f = Tail(m.free)
  OBVIOUS
<1>3. /\ pg \in Page /\ On(pg, m.free) /\ f \in Seq(Page) /\ Once(f)
      /\ ~On(pg, f) /\ \A x : On(x, m.free) <=> On(x, f) \/ x = pg
  BY <1>1, <1>2, TailQueue
<1>4. m.ref[pg] = 0
  BY <1>1, <1>3
<1>5. PICK k : k = uncachepage(m, pg)
  OBVIOUS
<1>6. /\ Kept(k) /\ k.ref = m.ref /\ k.free = m.free /\ k.data = m.data
      /\ \A x \in Page, t \in Tag :
           cachedAs(k, x, t) <=> cachedAs(m, x, t) /\ x # pg
  BY <1>3, <1>5, Uncached
<1>7. PICK c : c = [m.ref EXCEPT ![pg] = 1]
  OBVIOUS
<1>8. c \in [Page -> Nat] /\ \A x \in Page : On(x, f) <=> c[x] = 0
  BY <1>1, <1>3, <1>7
<1>9. PICK l : l = Renewed(k, c, f)
  OBVIOUS
<1>10. /\ Kept(l) /\ l.ref = c /\ l.data = k.data
       /\ \A x, t : cachedAs(l, x, t) <=> cachedAs(k, x, t)
  BY <1>3, <1>6, <1>8, <1>9, FreeOnly
<1>11. r = Written(l, pg, "junk")
  <2>1. r = [k EXCEPT !.free = Tail(@), !.ref[pg] = 1, !.data[pg] = "junk"]
    BY <1>5 DEF newpage
  <2> QED
    BY <2>1, <1>2, <1>6, <1>7, <1>9 DEF Kept, Ram, Renewed, Written
<1>12. "junk" \in Datum
  BY DEF Datum
<1>13. /\ Kept(r) /\ r.ref = l.ref /\ r.data = [l.data EXCEPT ![pg] = "junk"]
       /\ \A x, t : cachedAs(r, x, t) <=> cachedAs(l, x, t)
  BY <1>3, <1>10, <1>11, <1>12, Wrote
<1> QED
  BY <1>3, <1>4, <1>6, <1>7, <1>10, <1>13

\* One holder less; the last one frees the page.
LEMMA PutBack ==
    ASSUME NEW m, Kept(m), NEW pg \in Page, m.ref[pg] # 0,
           NEW r, r = putpage(m, pg)
    PROVE  /\ Kept(r) /\ r.ref = [m.ref EXCEPT ![pg] = @ - 1]
           /\ r.chain = m.chain
           /\ \A x, t : cachedAs(r, x, t) <=> cachedAs(m, x, t)
           /\ \A x \in Page : r.data[x] = Left(r, m, x)
<1>1. m.free \in Seq(Page) /\ Once(m.free) /\ m.ref \in [Page -> Nat]
      /\ \A x \in Page : On(x, m.free) <=> m.ref[x] = 0
  BY DEF Kept, Ram
<1>2. PICK c : c = [m.ref EXCEPT ![pg] = @ - 1]
  OBVIOUS
<1>3. PICK f : f = IF m.ref[pg] > 1 THEN m.free
                   ELSE IF cachedAs(m, pg, image) THEN Append(m.free, pg)
                   ELSE <<pg>> \o m.free
  OBVIOUS
<1>4. c \in [Page -> Nat] /\ c[pg] = m.ref[pg] - 1
      /\ \A x \in Page \ {pg} : c[x] = m.ref[x]
  BY <1>1, <1>2
<1>5. ~On(pg, m.free)
  BY <1>1
<1>6. f \in Seq(Page) /\ Once(f) /\ \A x \in Page : On(x, f) <=> c[x] = 0
  <2>1. CASE m.ref[pg] > 1
    BY <2>1, <1>1, <1>3, <1>4
  <2>2. CASE ~(m.ref[pg] > 1)
    <3>1. c[pg] = 0
      BY <2>2, <1>1, <1>4
    <3>2. f = Append(m.free, pg) \/ f = <<pg>> \o m.free
      BY <2>2, <1>3
    <3>3. f \in Seq(Page) /\ Once(f) /\ \A x : On(x, f) <=> On(x, m.free) \/ x = pg
      <4>1. CASE f = Append(m.free, pg)
        BY <4>1, <1>1, <1>5, AppendQueue
      <4>2. CASE f = <<pg>> \o m.free
        BY <4>2, <1>1, <1>5, PushQueue
      <4> QED
        BY <3>2, <4>1, <4>2
    <3> QED
      BY <3>1, <3>3, <1>1, <1>4
  <2> QED
    BY <2>1, <2>2
<1>7. PICK k : k = Renewed(m, c, f)
  OBVIOUS
<1>8. /\ Kept(k) /\ k.ref = c /\ k.chain = m.chain /\ k.data = m.data
      /\ \A x, t : cachedAs(k, x, t) <=> cachedAs(m, x, t)
  BY <1>4, <1>6, <1>7, FreeOnly
<1>9. r = forget(k)
  BY <1>2, <1>3, <1>7 DEF putpage, Kept, Ram, Renewed
<1>10. /\ Kept(r) /\ r.ref = k.ref /\ r.chain = k.chain
       /\ \A x \in Page : r.data[x] = Left(r, k, x)
       /\ \A x, t : cachedAs(r, x, t) <=> cachedAs(k, x, t)
  BY <1>8, <1>9, Forgotten
<1> QED
  BY <1>2, <1>8, <1>10 DEF Left

\* A page that is to be written is no cache any more; a free page np may be one
\* in its place.
Dropped(m, r, pg) ==
    /\ r.data = m.data
    /\ \A x \in Page, t \in Tag :
         cachedAs(r, x, t) <=> cachedAs(m, x, t) /\ x # pg

Replaced(m, r, pg, np) ==
    /\ m.ref[np] = 0 /\ r.data = [m.data EXCEPT ![np] = m.data[pg]]
    /\ \A x \in Page, t \in Tag :
         cachedAs(r, x, t) <=> \/ cachedAs(m, x, t) /\ x \notin {pg, np}
                               \/ x = np /\ t = image

LEMMA Duplicated ==
    ASSUME NEW m, Kept(m), NEW pg \in Page, m.ref[pg] # 0,
           NEW r, r = duppage(m, pg)
    PROVE  /\ Kept(r) /\ r.ref = m.ref
           /\ \/ Dropped(m, r, pg)
              \/ \E np \in Page \ {pg} : Replaced(m, r, pg, np)
<1>1. CASE m.free = <<>> \/ Len(m.free) < HighWater
  <2>1. r = uncachepage(m, pg)
    BY <1>1 DEF duppage
  <2> QED
    BY <2>1, Uncached DEF Dropped
<1>2. CASE ~(m.free = <<>> \/ Len(m.free) < HighWater)
  <2>1. m.free \in Seq(Page) /\ Once(m.free) /\ m.ref \in [Page -> Nat]
        /\ \A x \in Page : On(x, m.free) <=> m.ref[x] = 0
    BY DEF Kept, Ram
  <2>2. PICK np : np = Head(m.free)
    OBVIOUS
  <2>3. PICK t : t = Tail(m.free)
    OBVIOUS
  <2>4. /\ np \in Page /\ On(np, m.free) /\ t \in Seq(Page) /\ Once(t)
        /\ ~On(np, t) /\ \A x : On(x, m.free) <=> On(x, t) \/ x = np
    BY <1>2, <2>1, <2>2, <2>3, TailQueue
  <2>5. m.ref[np] = 0 /\ np # pg
    BY <2>1, <2>4
  <2>6. PICK f : f = Append(t, np)
    OBVIOUS
  <2>7. f \in Seq(Page) /\ Once(f) /\ \A x : On(x, f) <=> On(x, m.free)
    BY <2>4, <2>6, AppendQueue
  <2>8. PICK k : k = uncachepage(m, np)
    OBVIOUS
  <2>9. /\ Kept(k) /\ k.ref = m.ref /\ k.free = m.free /\ k.data = m.data
        /\ \A x \in Page, u \in Tag :
             cachedAs(k, x, u) <=> cachedAs(m, x, u) /\ x # np
    BY SMTT(30), <2>4, <2>8, Uncached
  <2>10. PICK z, l : z = m.ref /\ l = Renewed(k, z, f)
    OBVIOUS
  <2>11. /\ Kept(l) /\ l.ref = m.ref /\ l.free = f /\ l.data = m.data
         /\ \A x, u : cachedAs(l, x, u) <=> cachedAs(k, x, u)
    <3>1. z \in [Page -> Nat] /\ \A x \in Page : On(x, f) <=> z[x] = 0
      BY <2>1, <2>7, <2>10
    <3>2. Kept(k) /\ f \in Seq(Page) /\ Once(f) /\ l = Renewed(k, z, f)
      BY <2>7, <2>9, <2>10
    <3>3. /\ Kept(l) /\ l.ref = z /\ l.free = f /\ l.data = k.data
          /\ \A x, u : cachedAs(l, x, u) <=> cachedAs(k, x, u)
      BY <3>1, <3>2, FreeOnly
    <3> QED
      BY <3>3, <2>9, <2>10
  <2>12. PICK n : n = Written(l, np, m.data[pg])
    OBVIOUS
  <2>13. m.data[pg] \in Datum
    BY DEF Kept, Ram
  <2>14. /\ Kept(n) /\ n.ref = m.ref /\ n.data = [m.data EXCEPT ![np] = m.data[pg]]
         /\ \A x, u : cachedAs(n, x, u) <=> cachedAs(l, x, u)
    BY <2>4, <2>11, <2>12, <2>13, Wrote
  <2>15. PICK c : c = cachepage(n, np, image)
    OBVIOUS
  <2>16. image \in Tag
    BY DEF Tag
  <2>17. \A u \in Tag : ~cachedAs(n, np, u)
    BY <2>4, <2>9, <2>11, <2>14
  <2>18. /\ Kept(c) /\ c.ref = m.ref /\ c.data = n.data
         /\ \A x \in Page, u \in Tag :
              cachedAs(c, x, u) <=> cachedAs(n, x, u) \/ (x = np /\ u = image)
    BY <2>4, <2>14, <2>15, <2>16, <2>17, NowCached
  <2>19. r = uncachepage(c, pg)
    <3>1. PICK o : o = [k EXCEPT !.free = Append(Tail(@), np),
                                 !.data[np] = m.data[pg]]
      OBVIOUS
    <3>2. n = o
      BY <3>1, <2>3, <2>6, <2>9, <2>10, <2>12 DEF Kept, Ram, Renewed, Written
    <3>3. r = uncachepage(cachepage(o, np, image), pg)
      BY <3>1, <1>2, <2>2, <2>8 DEF duppage
    <3> QED
      BY <3>2, <3>3, <2>15
  <2>20. /\ Kept(r) /\ r.ref = m.ref /\ r.data = n.data
         /\ \A x \in Page, u \in Tag :
              cachedAs(r, x, u) <=> cachedAs(c, x, u) /\ x # pg
    BY <2>18, <2>19, Uncached
  <2>21. \A x \in Page, u \in Tag :
           cachedAs(r, x, u) <=> \/ cachedAs(m, x, u) /\ x \notin {pg, np}
                                 \/ x = np /\ u = image
    BY <2>5, <2>9, <2>11, <2>14, <2>18, <2>20
  <2>22. Replaced(m, r, pg, np)
    BY <2>5, <2>14, <2>20, <2>21 DEF Replaced
  <2> QED
    BY <2>4, <2>5, <2>20, <2>22
<1> QED
  BY <1>1, <1>2

\* A page is taken, and gets contents.
LEMMA Filled ==
    ASSUME NEW m, Kept(m), m.free # <<>>, NEW pg, pg = Head(m.free),
           NEW v \in Datum, NEW r, r = Written(newpage(m), pg, v)
    PROVE  /\ pg \in Page /\ m.ref[pg] = 0
           /\ Kept(r) /\ r.ref = [m.ref EXCEPT ![pg] = 1]
           /\ r.data = [m.data EXCEPT ![pg] = v]
           /\ \A x \in Page, t \in Tag :
                cachedAs(r, x, t) <=> cachedAs(m, x, t) /\ x # pg
<1>1. PICK k : k = newpage(m)
  OBVIOUS
<1>2. /\ pg \in Page /\ m.ref[pg] = 0
      /\ Kept(k) /\ k.ref = [m.ref EXCEPT ![pg] = 1]
      /\ k.data = [m.data EXCEPT ![pg] = "junk"]
      /\ \A x \in Page, t \in Tag :
           cachedAs(k, x, t) <=> cachedAs(m, x, t) /\ x # pg
  BY <1>1, Taken
<1>3. /\ Kept(r) /\ r.ref = k.ref /\ r.data = [k.data EXCEPT ![pg] = v]
      /\ \A x, t : cachedAs(r, x, t) <=> cachedAs(k, x, t)
  BY <1>1, <1>2, Wrote
<1>4. r.data = [m.data EXCEPT ![pg] = v]
  BY <1>2, <1>3 DEF Kept, Ram
<1> QED
  BY <1>2, <1>3, <1>4

\* A page is taken for a copy of pg, which has one holder less.
Copy(m, np, pg) == putpage(Written(newpage(m), np, m.data[pg]), pg)

LEMMA Copied ==
    ASSUME NEW m, Kept(m), m.free # <<>>, NEW np, np = Head(m.free),
           NEW pg \in Page, m.ref[pg] # 0, NEW r, r = Copy(m, np, pg)
    PROVE  /\ np \in Page \ {pg} /\ m.ref[np] = 0 /\ Kept(r)
           /\ r.ref[np] = 1 /\ r.ref[pg] = m.ref[pg] - 1
           /\ \A x \in Page \ {np, pg} : r.ref[x] = m.ref[x]
           /\ r.data[np] = m.data[pg]
           /\ \A x \in Page \ {np} : r.data[x] = Left(r, m, x)
           /\ \A x \in Page, t \in Tag :
                cachedAs(r, x, t) <=> cachedAs(m, x, t) /\ x # np
<1>1. PICK k : k = Written(newpage(m), np, m.data[pg])
  OBVIOUS
<1>2. m.ref \in [Page -> Nat] /\ m.data \in [Page -> Datum]
  BY DEF Kept, Ram
<1>3. /\ np \in Page /\ m.ref[np] = 0
      /\ Kept(k) /\ k.ref = [m.ref EXCEPT ![np] = 1]
      /\ k.data = [m.data EXCEPT ![np] = m.data[pg]]
      /\ \A x \in Page, t \in Tag :
           cachedAs(k, x, t) <=> cachedAs(m, x, t) /\ x # np
  BY <1>1, <1>2, Filled
<1>4. np # pg /\ k.ref[pg] = m.ref[pg]
  BY <1>2, <1>3
<1>5. /\ Kept(r) /\ r.ref = [k.ref EXCEPT ![pg] = @ - 1]
      /\ \A x, t : cachedAs(r, x, t) <=> cachedAs(k, x, t)
      /\ \A x \in Page : r.data[x] = Left(r, k, x)
  <2>1. r = putpage(k, pg)
    BY <1>1 DEF Copy
  <2>2. Kept(k) /\ k.ref[pg] # 0
    BY <1>3, <1>4
  <2> QED
    BY <2>1, <2>2, PutBack
<1>6. /\ r.ref[np] = 1 /\ r.ref[pg] = m.ref[pg] - 1
      /\ \A x \in Page \ {np, pg} : r.ref[x] = m.ref[x]
  BY <1>2, <1>3, <1>4, <1>5
<1>7. r.data[np] = m.data[pg]
  BY <1>2, <1>3, <1>5, <1>6 DEF Left
<1>8. \A x \in Page \ {np} : r.data[x] = Left(r, m, x)
  <2>1. \A x \in Page \ {np} : k.data[x] = m.data[x]
    BY <1>2, <1>3
  <2> QED
    BY <2>1, <1>5 DEF Left
<1> QED
  BY <1>3, <1>4, <1>5, <1>6, <1>7, <1>8

\* A page becomes the cache of a swap address, and is held for the write.
Sent(m, out, t) ==
    LET k == uncachepage(cachedel(m, t), out)
    IN  cachepage([k EXCEPT !.ref[out] = @ + 1], out, t)

LEMMA SwappedOut ==
    ASSUME NEW m, Kept(m), NEW out \in Page, m.ref[out] # 0, NEW t \in Tag,
           NEW r, r = Sent(m, out, t)
    PROVE  /\ Kept(r) /\ r.ref = [m.ref EXCEPT ![out] = @ + 1]
           /\ \A x \in Page, u \in Tag :
                cachedAs(r, x, u) <=>
                  IF x = out THEN u = t
                  ELSE cachedAs(m, x, u) /\ ~(u = t /\ x = Head(m.chain[t]))
           /\ \A x \in Page : r.data[x] = Left(r, m, x)
<1>1. PICK j : j = cachedel(m, t)
  OBVIOUS
<1>2. PICK k : k = uncachepage(j, out)
  OBVIOUS
<1>3. /\ Kept(j) /\ j.ref = m.ref
      /\ \A x \in Page, u \in Tag :
           cachedAs(j, x, u) <=>
             cachedAs(m, x, u) /\ ~(u = t /\ x = Head(m.chain[t]))
      /\ \A x \in Page : j.data[x] = Left(j, m, x)
  BY <1>1, CacheDeleted
<1>4. /\ Kept(k) /\ k.ref = j.ref /\ k.data = j.data
      /\ \A x \in Page, u \in Tag :
           cachedAs(k, x, u) <=> cachedAs(j, x, u) /\ x # out
  BY <1>2, <1>3, Uncached
<1>5. m.ref \in [Page -> Nat]
  BY DEF Kept, Ram
<1>6. PICK n \in Nat \ {0} : n = m.ref[out] + 1
  <2>1. m.ref[out] + 1 \in Nat \ {0}
    BY <1>5
  <2> QED
    BY <2>1
<1>7. PICK l : l = Referred(k, out, n)
  OBVIOUS
<1>8. /\ Kept(l) /\ l.ref = [k.ref EXCEPT ![out] = n] /\ l.data = k.data
      /\ \A x, u : cachedAs(l, x, u) <=> cachedAs(k, x, u)
  BY <1>3, <1>4, <1>6, <1>7, Held
<1>9. r = cachepage(l, out, t)
  <2>1. l = [k EXCEPT !.ref[out] = @ + 1]
    BY <1>3, <1>4, <1>6, <1>7 DEF Kept, Ram, Referred
  <2> QED
    BY <2>1, <1>1, <1>2 DEF Sent
<1>10. /\ Kept(r) /\ r.ref = l.ref /\ r.data = l.data
       /\ \A x \in Page, u \in Tag :
            cachedAs(r, x, u) <=> cachedAs(l, x, u) \/ (x = out /\ u = t)
  <2>1. \A u \in Tag : ~cachedAs(l, out, u)
    BY <1>4, <1>8
  <2> QED
    BY <2>1, <1>8, <1>9, NowCached
<1>11. r.ref = [m.ref EXCEPT ![out] = @ + 1]
  BY <1>3, <1>4, <1>5, <1>6, <1>8, <1>10
<1>12. \A x \in Page, u \in Tag :
         cachedAs(r, x, u) <=>
           IF x = out THEN u = t
           ELSE cachedAs(m, x, u) /\ ~(u = t /\ x = Head(m.chain[t]))
  BY <1>3, <1>4, <1>8, <1>10
<1>13. ASSUME NEW x \in Page PROVE r.data[x] = Left(r, m, x)
  <2>1. r.data[x] = Left(j, m, x)
    BY <1>3, <1>4, <1>8, <1>10
  <2>2. CASE x = out
    <3>1. r.ref[x] # 0 /\ j.ref[x] # 0
      BY <2>2, <1>3, <1>5, <1>11
    <3> QED
      BY <2>1, <3>1 DEF Left
  <2>3. CASE x # out
    <3>1. r.ref[x] = j.ref[x] /\ \A u \in Tag : cachedAs(r, x, u) <=> cachedAs(j, x, u)
      BY <2>3, <1>3, <1>5, <1>11, <1>12
    <3> QED
      BY <2>1, <3>1 DEF Left
  <2> QED
    BY <2>2, <2>3
<1> QED
  BY <1>10, <1>11, <1>12, <1>13

\* What a chain has is found.
LEMMA FoundCached ==
    ASSUME NEW m, Kept(m), NEW t \in Tag
    PROVE  /\ found(m, t) => /\ Head(m.chain[t]) \in Page
                             /\ cachedAs(m, Head(m.chain[t]), t)
           /\ ~found(m, t) => \A x : ~cachedAs(m, x, t)
<1>1. m.chain[t] \in Seq(Page)
  BY DEF Kept, Ram
<1>2. found(m, t) => Head(m.chain[t]) \in Page /\ On(Head(m.chain[t]), m.chain[t])
  BY <1>1, TailQueue DEF found
<1>3. ~found(m, t) => \A x : ~On(x, m.chain[t])
  BY DEF found, On
<1> QED
  BY <1>2, <1>3, CachedOn

-----------------------------------------------------------------------------
(* Counting.                                                               *)

\* How often f has the value z on D.
Times(D, f, z) == Cardinality({i \in D : f[i] = z})

LEMMA Timed ==
    ASSUME NEW D, IsFiniteSet(D), NEW f, NEW z
    PROVE  /\ Times(D, f, z) \in Nat
           /\ Times(D, f, z) = 0 <=> \A i \in D : f[i] # z
           /\ \A i, j \in D : i # j /\ f[i] = z /\ f[j] = z => Times(D, f, z) >= 2
<1>1. PICK S : S = {i \in D : f[i] = z}
  OBVIOUS
<1>2. IsFiniteSet(S) /\ Cardinality(S) = Times(D, f, z)
  BY <1>1, FS_Subset DEF Times
<1>3. Cardinality(S) \in Nat /\ (Cardinality(S) = 0 <=> S = {})
  BY <1>2, FS_CardinalityType, FS_EmptySet
<1>4. ASSUME NEW i \in S, NEW j \in S, i # j PROVE Cardinality(S) >= 2
  <2>1. IsFiniteSet({i}) /\ Cardinality({i}) = 1
    BY FS_Singleton
  <2>2. IsFiniteSet({i} \cup {j}) /\ Cardinality({i} \cup {j}) = 2
    BY <2>1, <1>4, FS_AddElement
  <2>3. {i} \cup {j} \subseteq S
    OBVIOUS
  <2>4. Cardinality({i} \cup {j}) <= Cardinality(S)
    BY <2>2, <2>3, <1>2, FS_Subset
  <2> QED
    BY <2>2, <2>4, <1>3
<1> QED
  BY <1>1, <1>2, <1>3, <1>4

Is(a, b) == IF a = b THEN 1 ELSE 0

\* One place has another value.
LEMMA Retimed ==
    ASSUME NEW D, IsFiniteSet(D), NEW f, NEW i \in D, NEW g,
           \A j \in D : j # i => g[j] = f[j], NEW z
    PROVE  Times(D, g, z) = Times(D, f, z) + Is(g[i], z) - Is(f[i], z)
<1>1. PICK S, T : S = {j \in D : f[j] = z} /\ T = {j \in D : g[j] = z}
  OBVIOUS
<1>2. /\ IsFiniteSet(S) /\ Cardinality(S) = Times(D, f, z)
      /\ IsFiniteSet(T) /\ Cardinality(T) = Times(D, g, z)
  BY <1>1, FS_Subset DEF Times
<1>3. Cardinality(S) \in Nat /\ Cardinality(T) \in Nat
  BY <1>2, FS_CardinalityType
<1>4. CASE f[i] = z /\ g[i] # z
  <2>1. T = S \ {i} /\ i \in S
    BY <1>1, <1>4
  <2> QED
    BY <2>1, <1>2, <1>3, <1>4, FS_RemoveElement DEF Is
<1>5. CASE f[i] # z /\ g[i] = z
  <2>1. T = S \cup {i} /\ i \notin S
    BY <1>1, <1>5
  <2> QED
    BY <2>1, <1>2, <1>3, <1>5, FS_AddElement DEF Is
<1>6. CASE f[i] = z <=> g[i] = z
  <2>1. T = S
    BY <1>1, <1>6
  <2> QED
    BY <2>1, <1>2, <1>3, <1>6 DEF Is
<1> QED
  BY <1>4, <1>5, <1>6

-----------------------------------------------------------------------------
(* The inductive invariant.                                                *)

Places == {"user", "fault", "load", "reload", "common", "dup", "putmmu"}
Entry == [page : Page, rw : BOOLEAN]

TypeOK ==
    /\ seg \in [Proc -> Seg \cup {nil}]
    /\ slot \in [Seg -> Page \cup Swap \cup {nil}]
    /\ lk \in [Seg -> Proc \cup {nil}]
    /\ disk \in [Swap -> Datum]
    /\ pc \in [Proc -> Places]
    /\ write \in [Proc -> BOOLEAN]
    /\ rec \in [Proc -> Swap \cup {nil}]
    /\ new \in [Proc -> Page \cup {nil}]
    /\ entry \in [Proc -> Entry \cup {nil}]
    /\ tlb \in [Proc -> Entry \cup {nil}]
    /\ io \in [page : Page \cup {nil}, at : {"idle", "write", "writing", "put"}]
    /\ io.at = "idle" <=> io.page = nil
    /\ aux \subseteq Page

\* The holders of a page: page tables, faults, the file cache and the pager.
auxHolds(pg) == IF pg \in aux THEN 1 ELSE 0
ioHolds(pg) == IF pg # io.page THEN 0 ELSE IF io.at = "put" THEN 1 ELSE 2
Holders(pg) == Times(Seg, slot, pg) + Times(Proc, new, pg) + auxHolds(pg)
                 + ioHolds(pg)

Books ==
    /\ Kept(ram)
    /\ \A pg \in Page : ram.ref[pg] = Holders(pg)
    /\ swmap = [d \in Swap |-> Times(Seg, slot, d)]

\* A fault of q, and the lock it holds.  A page it has allocated is nobody
\* else's and in no cache yet; while it reads the contents of an empty entry
\* nobody swaps that entry out.
Faulting(q) ==
    /\ new[q] # nil <=> pc[q] = "reload"
    /\ new[q] # nil => ram.ref[new[q]] = 1
    /\ \A t \in Tag : new[q] # nil => ~cachedAs(ram, new[q], t)
    /\ seg[q] = nil => pc[q] = "user"
    /\ pc[q] \in {"common", "dup"} => Page0(q) \in Page
    /\ pc[q] \in {"load", "reload"} /\ rec[q] = nil => Page0(q) \in Page \cup {nil}
    /\ \A s \in Seg : lk[s] = q <=> pc[q] \in {"common", "dup"} /\ seg[q] = s

\* A segment that nobody has is empty.
Used == \A s \in Seg : slot[s] # nil => \E q \in Proc : seg[q] = s

IInv == TypeOK /\ Books /\ (\A q \in Proc : Faulting(q)) /\ Used

-----------------------------------------------------------------------------
(* What holds in a state with the invariant, and about the next one.       *)

\* The page q has allocated is nobody else's.
Sole(q) == /\ \A s \in Seg : slot[s] # new[q]
           /\ \A p \in Proc \ {q} : new[p] # new[q]
           /\ new[q] \notin aux /\ new[q] # io.page

LEMMA Counted ==
    ASSUME IInv
    PROVE  /\ \A D, f, x : D \in {Seg, Proc} => Times(D, f, x) \in Nat
           /\ \A s \in Seg : slot[s] \in Page => ram.ref[slot[s]] # 0
           /\ \A q \in Proc : new[q] # nil => ram.ref[new[q]] # 0
           /\ \A pg \in aux : ram.ref[pg] # 0
           /\ io.page # nil => /\ ram.ref[io.page] # 0
                               /\ io.at # "put" => ram.ref[io.page] >= 2
           /\ \A s \in Seg : slot[s] \in Swap => swmap[slot[s]] # 0
           /\ \A q \in Proc : new[q] # nil => Sole(q)
<1>1. \A D, f, x : D \in {Seg, Proc} => Times(D, f, x) \in Nat
  BY PagesAssumption, Timed
<1>2. \A s \in Seg : Times(Seg, slot, slot[s]) # 0
  BY PagesAssumption, Timed
<1>3. \A q \in Proc : Times(Proc, new, new[q]) # 0
  BY PagesAssumption, Timed
<1>4. \A pg : auxHolds(pg) \in Nat /\ ioHolds(pg) \in Nat
  BY DEF auxHolds, ioHolds
<1>5. \A pg \in Page : /\ Times(Seg, slot, pg) # 0 => ram.ref[pg] # 0
                       /\ Times(Proc, new, pg) # 0 => ram.ref[pg] # 0
                       /\ auxHolds(pg) # 0 => ram.ref[pg] # 0
                       /\ ioHolds(pg) <= ram.ref[pg]
  <2> TAKE pg \in Page
  <2>1. ram.ref[pg] = Holders(pg)
    BY DEF IInv, Books
  <2>2. Times(Seg, slot, pg) \in Nat /\ Times(Proc, new, pg) \in Nat
    BY <1>1
  <2> QED
    BY <2>1, <2>2, <1>4 DEF Holders
<1>6. \A s \in Seg : slot[s] \in Page => ram.ref[slot[s]] # 0
  BY <1>2, <1>5
<1>7. \A q \in Proc : new[q] # nil => ram.ref[new[q]] # 0
  BY <1>3, <1>5 DEF IInv, TypeOK
<1>8. \A pg \in aux : ram.ref[pg] # 0
  BY <1>5 DEF IInv, TypeOK, auxHolds
<1>9. io.page # nil => /\ ram.ref[io.page] # 0
                       /\ io.at # "put" => ram.ref[io.page] >= 2
  <2> SUFFICES ASSUME io.page # nil
               PROVE  /\ ram.ref[io.page] # 0
                      /\ io.at # "put" => ram.ref[io.page] >= 2
    OBVIOUS
  <2>1. io.page \in Page
    BY DEF IInv, TypeOK
  <2>2. ram.ref[io.page] \in Nat /\ ioHolds(io.page) <= ram.ref[io.page]
    BY <2>1, <1>5 DEF IInv, Books, Kept, Ram
  <2> QED
    BY <2>2 DEF ioHolds
<1>10. \A s \in Seg : slot[s] \in Swap => swmap[slot[s]] # 0
  BY <1>2 DEF IInv, Books
<1>11. ASSUME NEW q \in Proc, new[q] # nil PROVE Sole(q)
  <2>1. PICK pg \in Page : pg = new[q]
    BY <1>11 DEF IInv, TypeOK
  <2>2. Holders(pg) = 1
    BY <2>1, <1>11 DEF IInv, Books, Faulting
  <2>3. Times(Seg, slot, pg) \in Nat /\ Times(Proc, new, pg) \in Nat \ {0}
    BY <2>1, <1>1, <1>3
  <2>4. /\ Times(Seg, slot, pg) = 0 /\ Times(Proc, new, pg) = 1
        /\ auxHolds(pg) = 0 /\ ioHolds(pg) = 0
    BY <2>2, <2>3, <1>4 DEF Holders
  <2>5. \A s \in Seg : slot[s] # pg
    BY <2>4, PagesAssumption, Timed
  <2>6. \A p \in Proc \ {q} : new[p] # pg
    <3> SUFFICES ASSUME NEW p \in Proc \ {q}, new[p] = pg PROVE FALSE
      OBVIOUS
    <3>1. Times(Proc, new, pg) >= 2
      BY <2>1, PagesAssumption, Timed
    <3> QED
      BY <3>1, <2>4
  <2>7. pg \notin aux /\ pg # io.page
    BY <2>4 DEF auxHolds, ioHolds
  <2> QED
    BY <2>1, <2>5, <2>6, <2>7 DEF Sole
<1> QED
  BY <1>1, <1>6, <1>7, <1>8, <1>9, <1>10, <1>11

\* One segment gets another entry, and one process another page.
Puts(s, v) == slot' = [slot EXCEPT ![s] = v]
Gets(p, w) == new' = [new EXCEPT ![p] = w]

LEMMA Slotted ==
    ASSUME TypeOK, NEW s \in Seg, NEW v, Puts(s, v), NEW x
    PROVE  Times(Seg, slot', x) = Times(Seg, slot, x)
             + Is(v, x) - Is(slot[s], x)
<1>1. PICK f, g : f = slot /\ g = slot'
  OBVIOUS
<1>2. g[s] = v /\ \A j \in Seg : j # s => g[j] = f[j]
  BY <1>1 DEF TypeOK, Puts
<1>3. IsFiniteSet(Seg)
  BY PagesAssumption
<1>4. Times(Seg, g, x) = Times(Seg, f, x) + Is(g[s], x) - Is(f[s], x)
  BY <1>2, <1>3, Retimed
<1> QED
  BY <1>1, <1>2, <1>4

LEMMA Newed ==
    ASSUME TypeOK, NEW p \in Proc, NEW v, Gets(p, v), NEW x
    PROVE  Times(Proc, new', x) = Times(Proc, new, x)
             + Is(v, x) - Is(new[p], x)
<1>1. PICK f, g : f = new /\ g = new'
  OBVIOUS
<1>2. g[p] = v /\ \A j \in Proc : j # p => g[j] = f[j]
  BY <1>1 DEF TypeOK, Gets
<1>3. IsFiniteSet(Proc)
  BY PagesAssumption
<1>4. Times(Proc, g, x) = Times(Proc, f, x) + Is(g[p], x) - Is(f[p], x)
  BY <1>2, <1>3, Retimed
<1> QED
  BY <1>1, <1>2, <1>4

\* A fault that a step of somebody else does not disturb.
LEMMA StillFaulting ==
    ASSUME NEW q, Faulting(q),
           pc'[q] = pc[q] /\ new'[q] = new[q] /\ rec'[q] = rec[q] /\ seg'[q] = seg[q],
           \/ slot'[seg[q]] = slot[seg[q]]
           \/ pc[q] \notin {"common", "dup", "load", "reload"}
           \/ pc[q] \notin {"common", "dup"} /\ slot'[seg[q]] = nil
           \/ slot'[seg[q]] \in Page,
           new[q] # nil =>
             /\ ram'.ref[new[q]] = ram.ref[new[q]]
             /\ \A t \in Tag : cachedAs(ram', new[q], t) => cachedAs(ram, new[q], t),
           \A s \in Seg : lk'[s] = q <=> lk[s] = q
    PROVE  Faulting(q)'
<1>1. \A x, t : cachedAs(ram, x, t)' <=> cachedAs(ram', x, t)
  BY DEF cachedAs
<1> QED
  BY <1>1 DEF Faulting, Page0, Tag

-----------------------------------------------------------------------------
(* The steps that leave the pages where they are.                          *)

LEMMA SameBooks ==
    ASSUME IInv, Kept(ram'), ram'.ref = ram.ref,
           UNCHANGED <<slot, new, aux, io, swmap>>
    PROVE  Books'
  BY DEF IInv, Books, Holders, auxHolds, ioHolds

LEMMA QuietStep ==
    ASSUME IInv, Kept(ram'), ram'.ref = ram.ref,
           UNCHANGED <<slot, new, aux, io, swmap, seg>>
    PROVE  Books' /\ Used'
<1>1. Books'
  BY SameBooks
<1>2. Used'
  BY DEF IInv, Used
<1> QED
  BY <1>1, <1>2

LEMMA StoreStep ==
    ASSUME IInv, NEW p \in Proc, store(p) PROVE IInv'
<1>1. tlb[p] \in Entry /\ tlb[p].page \in Page /\ p \in Datum
  BY DEF store, IInv, TypeOK, Entry, Datum
<1>2. ram' = Written(ram, tlb[p].page, p) /\ Kept(ram)
  BY DEF store, Written, IInv, Books
<1>3. /\ Kept(ram') /\ ram'.ref = ram.ref
      /\ \A x, t : cachedAs(ram', x, t) <=> cachedAs(ram, x, t)
  <2>1. PICK m, pg, r : m = ram /\ r = ram' /\ pg = tlb[p].page
    OBVIOUS
  <2>2. Kept(m) /\ r = Written(m, pg, p) /\ pg \in Page
    BY <1>1, <1>2, <2>1
  <2>3. Kept(r) /\ r.ref = m.ref /\ \A x, t : cachedAs(r, x, t) <=> cachedAs(m, x, t)
    <3>1. p \in Datum
      BY <1>1
    <3>2. /\ Kept(r) /\ r.ref = m.ref /\ r.free = m.free
          /\ r.chain = m.chain /\ r.data = [m.data EXCEPT ![pg] = p]
          /\ \A x, t : cachedAs(r, x, t) <=> cachedAs(m, x, t)
      BY <3>1, <2>2, Wrote
    <3> QED
      BY <3>2
  <2> QED
    BY <2>1, <2>3
<1>4. Books' /\ Used'
  BY <1>3, QuietStep DEF store, fault, pager
<1>5. TypeOK'
  BY DEF IInv, TypeOK, store, fault, pager
<1>6. \A q \in Proc : Faulting(q)'
  BY <1>3, StillFaulting DEF IInv, store, fault
<1> QED
  BY <1>4, <1>5, <1>6 DEF IInv

LEMMA QuietSteps ==
    ASSUME IInv, NEW p \in Proc,
           \/ touch(p, TRUE) \/ touch(p, FALSE) \/ resident(p) \/ piomissing(p)
           \/ readOnly(p) \/ dupretry(p) \/ putmmu(p)
    PROVE  IInv'
<1>1. UNCHANGED <<ram, slot, new, aux, io, swmap, seg>>
  BY DEF touch, resident, piomissing, readOnly, dupretry, putmmu, pager
<1>2. Books' /\ Used'
  BY <1>1, QuietStep DEF IInv, Books
<1>3. TypeOK'
  <2>1. ASSUME touch(p, TRUE) \/ touch(p, FALSE) PROVE TypeOK'
    BY <2>1 DEF IInv, TypeOK, touch, Goto, Places, pager
  <2>2. ASSUME resident(p) PROVE TypeOK'
    BY <2>2 DEF IInv, TypeOK, resident, acquire, Goto, Places, pager
  <2>3. ASSUME piomissing(p) PROVE TypeOK'
    <3>1. seg[p] \in Seg
      BY <2>3 DEF IInv, TypeOK, Faulting, piomissing, Goto
    <3>2. Page0(p) \in Swap \cup {nil}
      BY <2>3, <3>1 DEF IInv, TypeOK, piomissing, Page0
    <3> QED
      BY <2>3, <3>2 DEF IInv, TypeOK, piomissing, Goto, Places, pager
  <2>4. ASSUME readOnly(p) PROVE TypeOK'
    <3>1. Page0(p) \in Page
      BY <2>4 DEF IInv, Faulting, readOnly
    <3>2. [page |-> Page0(p), rw |-> FALSE] \in Entry
      BY <3>1 DEF Entry
    <3>3. entry' \in [Proc -> Entry \cup {nil}]
      BY <2>4, <3>2 DEF IInv, TypeOK, readOnly, finish
    <3> QED
      BY <2>4, <3>3 DEF IInv, TypeOK, readOnly, finish, release, Places, pager
  <2>5. ASSUME dupretry(p) PROVE TypeOK'
    BY <2>5 DEF IInv, TypeOK, dupretry, Goto, Places, pager
  <2>6. ASSUME putmmu(p) PROVE TypeOK'
    BY <2>6 DEF IInv, TypeOK, putmmu, Goto, Places, pager
  <2> QED
    BY <2>1, <2>2, <2>3, <2>4, <2>5, <2>6
<1>4. ASSUME NEW q \in Proc \ {p} PROVE Faulting(q)'
  <2>1. /\ Faulting(q) /\ pc'[q] = pc[q] /\ new'[q] = new[q] /\ rec'[q] = rec[q]
        /\ seg'[q] = seg[q] /\ slot' = slot /\ ram' = ram
    BY <1>1 DEF IInv, TypeOK, touch, resident, piomissing, readOnly, dupretry,
       putmmu, Goto, finish
  <2>2. \A s \in Seg : lk'[s] = q <=> lk[s] = q
    <3>1. \/ lk' = lk
          \/ lk[seg[p]] = nil /\ lk' = [lk EXCEPT ![seg[p]] = p]
          \/ pc[p] = "common" /\ lk' = [lk EXCEPT ![seg[p]] = nil]
      BY DEF touch, resident, piomissing, readOnly, dupretry, putmmu, Goto,
         finish, acquire, release
    <3>2. pc[p] = "common" => seg[p] \in Seg /\ lk[seg[p]] = p
      BY DEF IInv, Faulting, TypeOK
    <3>3. nil \notin Proc
      BY PagesAssumption
    <3> QED
      BY <3>1, <3>2, <3>3 DEF IInv, TypeOK
  <2> QED
    BY <2>1, <2>2, StillFaulting
<1>5. Faulting(p)'
  <2>1. ASSUME touch(p, TRUE) \/ touch(p, FALSE) PROVE Faulting(p)'
    BY <2>1, <1>1 DEF IInv, TypeOK, Faulting, touch, Goto, User, Page0, cachedAs, Tag
  <2>2. ASSUME resident(p) PROVE Faulting(p)'
    BY <2>2, <1>1 DEF IInv, TypeOK, Faulting, resident, acquire, Goto, Page0,
       cachedAs, Tag
  <2>3. ASSUME piomissing(p) PROVE Faulting(p)'
    BY <2>3, <1>1 DEF IInv, TypeOK, Faulting, piomissing, Goto, Page0, cachedAs, Tag
  <2>4. ASSUME readOnly(p) PROVE Faulting(p)'
    BY <2>4, <1>1, PagesAssumption DEF IInv, TypeOK, Faulting, readOnly, finish,
       release, Page0, cachedAs, Tag
  <2>5. ASSUME dupretry(p) PROVE Faulting(p)'
    BY <2>5, <1>1 DEF IInv, TypeOK, Faulting, dupretry, Goto, Page0, cachedAs, Tag
  <2>6. ASSUME putmmu(p) PROVE Faulting(p)'
    BY <2>6, <1>1 DEF IInv, TypeOK, Faulting, putmmu, Goto, Page0, cachedAs, Tag
  <2> QED
    BY <2>1, <2>2, <2>3, <2>4, <2>5, <2>6
<1> QED
  BY <1>2, <1>3, <1>4, <1>5 DEF IInv

-----------------------------------------------------------------------------
(* The steps of a fault that take, find and put back pages.                *)

\* The books after one entry has another value, or one fault another page, or
\* both, and the file cache and the pager hold what they held.
LEMMA SlotBooks ==
    ASSUME IInv, Kept(ram'), NEW s \in Seg, NEW v, Puts(s, v),
           UNCHANGED <<new, aux, io>>,
           \A x \in Page : ram'.ref[x] = ram.ref[x] + Is(v, x) - Is(slot[s], x),
           swmap' = [d \in Swap |-> swmap[d] + Is(v, d) - Is(slot[s], d)]
    PROVE  Books'
<1>1. \A x : Times(Seg, slot', x) = Times(Seg, slot, x) + Is(v, x) - Is(slot[s], x)
  BY Slotted DEF IInv
<1>2. \A x : /\ Times(Seg, slot, x) \in Nat /\ Times(Proc, new, x) \in Nat
             /\ auxHolds(x) \in Nat /\ ioHolds(x) \in Nat
  BY Counted DEF auxHolds, ioHolds
<1>3. ASSUME NEW x \in Page PROVE ram'.ref[x] = Holders(x)'
  <2>1. Holders(x)' = Times(Seg, slot', x) + Times(Proc, new, x)
                        + auxHolds(x) + ioHolds(x)
    BY DEF Holders, Times, auxHolds, ioHolds
  <2>2. ram.ref[x] = Times(Seg, slot, x) + Times(Proc, new, x)
                       + auxHolds(x) + ioHolds(x)
    BY DEF IInv, Books, Holders
  <2>3. Is(v, x) \in Int /\ Is(slot[s], x) \in Int
    BY DEF Is
  <2>4. PICK a : a = Is(v, x) - Is(slot[s], x)
    OBVIOUS
  <2>5. a \in Int
    BY <2>3, <2>4
  <2>6. Times(Seg, slot', x) = Times(Seg, slot, x) + a
    BY <2>3, <2>4, <1>1, <1>2
  <2>7. ram'.ref[x] = ram.ref[x] + a
    BY <2>2, <2>3, <2>4, <1>2
  <2> QED
    BY <2>1, <2>2, <2>5, <2>6, <2>7, <1>2
<1>4. swmap' = [d \in Swap |-> Times(Seg, slot', d)]
  <2>1. \A d \in Swap : swmap[d] = Times(Seg, slot, d)
    BY DEF IInv, Books
  <2> QED
    BY <2>1, <1>1
<1> QED
  BY <1>3, <1>4 DEF Books, Times

LEMMA NewBooks ==
    ASSUME IInv, Kept(ram'), NEW p \in Proc, NEW w, Gets(p, w),
           UNCHANGED <<slot, swmap, aux, io>>,
           \A x \in Page : ram'.ref[x] = ram.ref[x] + Is(w, x) - Is(new[p], x)
    PROVE  Books'
<1>1. \A x : Times(Proc, new', x) = Times(Proc, new, x) + Is(w, x) - Is(new[p], x)
  BY Newed DEF IInv
<1>2. \A x : /\ Times(Seg, slot, x) \in Nat /\ Times(Proc, new, x) \in Nat
             /\ auxHolds(x) \in Nat /\ ioHolds(x) \in Nat
  BY Counted DEF auxHolds, ioHolds
<1>3. ASSUME NEW x \in Page PROVE ram'.ref[x] = Holders(x)'
  <2>1. Holders(x)' = Times(Seg, slot, x) + Times(Proc, new', x)
                        + auxHolds(x) + ioHolds(x)
    BY DEF Holders, Times, auxHolds, ioHolds
  <2>2. ram.ref[x] = Times(Seg, slot, x) + Times(Proc, new, x)
                       + auxHolds(x) + ioHolds(x)
    BY DEF IInv, Books, Holders
  <2>3. Is(w, x) \in Int /\ Is(new[p], x) \in Int
    BY DEF Is
  <2>4. PICK a : a = Is(w, x) - Is(new[p], x)
    OBVIOUS
  <2>5. a \in Int
    BY <2>3, <2>4
  <2>6. Times(Proc, new', x) = Times(Proc, new, x) + a
    BY <2>3, <2>4, <1>1, <1>2
  <2>7. ram'.ref[x] = ram.ref[x] + a
    BY <2>2, <2>3, <2>4, <1>2
  <2> QED
    BY <2>1, <2>2, <2>5, <2>6, <2>7, <1>2
<1>4. swmap' = [d \in Swap |-> Times(Seg, slot', d)]
  BY DEF IInv, Books
<1> QED
  BY <1>3, <1>4 DEF Books, Times

LEMMA EnterBooks ==
    ASSUME IInv, Kept(ram'), NEW s \in Seg, NEW v, Puts(s, v),
           NEW p \in Proc, NEW w, Gets(p, w), UNCHANGED <<aux, io>>,
           \A x \in Page : ram'.ref[x] = ram.ref[x] + Is(v, x) - Is(slot[s], x)
                                         + Is(w, x) - Is(new[p], x),
           swmap' = [d \in Swap |-> swmap[d] + Is(v, d) - Is(slot[s], d)]
    PROVE  Books'
<1>1. \A x : Times(Seg, slot', x) = Times(Seg, slot, x) + Is(v, x) - Is(slot[s], x)
  BY Slotted DEF IInv
<1>2. \A x : Times(Proc, new', x) = Times(Proc, new, x) + Is(w, x) - Is(new[p], x)
  BY Newed DEF IInv
<1>3. \A x : /\ Times(Seg, slot, x) \in Nat /\ Times(Proc, new, x) \in Nat
             /\ auxHolds(x) \in Nat /\ ioHolds(x) \in Nat
  BY Counted DEF auxHolds, ioHolds
<1>4. ASSUME NEW x \in Page PROVE ram'.ref[x] = Holders(x)'
  <2>1. Holders(x)' = Times(Seg, slot', x) + Times(Proc, new', x)
                        + auxHolds(x) + ioHolds(x)
    BY DEF Holders, Times, auxHolds, ioHolds
  <2>2. ram.ref[x] = Times(Seg, slot, x) + Times(Proc, new, x)
                       + auxHolds(x) + ioHolds(x)
    BY DEF IInv, Books, Holders
  <2>3. /\ Is(v, x) \in Int /\ Is(slot[s], x) \in Int
        /\ Is(w, x) \in Int /\ Is(new[p], x) \in Int
    BY DEF Is
  <2>4. PICK a : a = Is(v, x) - Is(slot[s], x)
    OBVIOUS
  <2>5. PICK b : b = Is(w, x) - Is(new[p], x)
    OBVIOUS
  <2>6. a \in Int /\ b \in Int
    BY <2>3, <2>4, <2>5
  <2>7. Times(Seg, slot', x) = Times(Seg, slot, x) + a
    BY <2>3, <2>4, <1>1, <1>3
  <2>8. Times(Proc, new', x) = Times(Proc, new, x) + b
    BY <2>3, <2>5, <1>2, <1>3
  <2>9. ram'.ref[x] = ram.ref[x] + a + b
    BY <2>2, <2>3, <2>4, <2>5, <1>3
  <2> QED
    BY <2>1, <2>2, <2>6, <2>7, <2>8, <2>9, <1>3
<1>5. swmap' = [d \in Swap |-> Times(Seg, slot', d)]
  <2>1. \A d \in Swap : swmap[d] = Times(Seg, slot, d)
    BY DEF IInv, Books
  <2> QED
    BY <2>1, <1>1
<1> QED
  BY <1>4, <1>5 DEF Books, Times

\* The faults of the others in a step of the fault of p.
LEMMA OthersFaulting ==
    ASSUME IInv, NEW p \in Proc, seg[p] \in Seg, NEW q \in Proc \ {p},
           pc'[q] = pc[q] /\ new'[q] = new[q] /\ rec'[q] = rec[q] /\ seg' = seg,
           \/ slot' = slot
           \/ \E v \in Page : Puts(seg[p], v),
           \/ lk' = lk
           \/ /\ lk[seg[p]] \in {nil, p}
              /\ \E v \in {nil, p} : lk' = [lk EXCEPT ![seg[p]] = v],
           new[q] # nil =>
             /\ ram'.ref[new[q]] = ram.ref[new[q]]
             /\ \A t \in Tag : cachedAs(ram', new[q], t) => cachedAs(ram, new[q], t)
    PROVE  Faulting(q)'
<1>1. \A s \in Seg : lk'[s] = q <=> lk[s] = q
  BY PagesAssumption DEF IInv, TypeOK
<1>2. Faulting(q)
  BY DEF IInv
<1>3. \/ slot'[seg[q]] = slot[seg[q]] \/ slot'[seg[q]] \in Page
      \/ pc[q] \notin {"common", "dup", "load", "reload"}
  BY <1>2 DEF IInv, TypeOK, Faulting, Puts
<1> QED
  BY <1>1, <1>2, <1>3, StillFaulting

LEMMA OwnSegment ==
    ASSUME IInv, NEW p \in Proc, pc[p] # "user" PROVE seg[p] \in Seg
  BY DEF IInv, TypeOK, Faulting

LEMMA StillUsed ==
    ASSUME IInv, NEW p \in Proc, seg[p] \in Seg, seg' = seg, NEW v,
           Puts(seg[p], v)
    PROVE  Used'
  BY DEF IInv, Used, TypeOK, Puts

LEMMA ZerofillStep ==
    ASSUME IInv, NEW p \in Proc, zerofill(p) PROVE IInv'
<1>1. seg[p] \in Seg /\ slot[seg[p]] = nil /\ pc[p] = "fault" /\ lk[seg[p]] = nil
  BY OwnSegment DEF zerofill, Goto, zerofilled, Page0, acquire
<1>2. PICK pg, s, r : pg = Head(ram.free) /\ s = seg[p] /\ r = ram'
  OBVIOUS
<1>3. /\ Puts(s, pg) /\ lk' = [lk EXCEPT ![s] = p]
      /\ pc' = [pc EXCEPT ![p] = "common"]
      /\ UNCHANGED <<type, seg, disk, io, swmap, write, rec, new, entry, tlb, aux>>
  BY <1>2 DEF zerofill, Goto, acquire, fill, pager, Puts
<1>4. /\ pg \in Page /\ ram.ref[pg] = 0
      /\ Kept(r) /\ r.ref = [ram.ref EXCEPT ![pg] = 1]
      /\ r.data = [ram.data EXCEPT ![pg] = "init"]
      /\ \A x \in Page, t \in Tag :
           cachedAs(r, x, t) <=> cachedAs(ram, x, t) /\ x # pg
  <2>1. r = Written(newpage(ram), pg, "init") /\ "init" \in Datum /\ Kept(ram)
    BY <1>2 DEF zerofill, Written, Datum, IInv, Books
  <2>2. ram.free # <<>>
    BY PagesAssumption DEF zerofill, plenty
  <2> QED
    BY <2>1, <2>2, <1>2, Filled
<1>5. TypeOK'
  BY <1>1, <1>2, <1>3, <1>4 DEF IInv, TypeOK, Places, Puts
<1>6. Books'
  <2>1. \A x \in Page : r.ref[x] = ram.ref[x] + Is(pg, x) - Is(slot[s], x)
    BY <1>1, <1>2, <1>4, PagesAssumption DEF Is, IInv, Books, Kept, Ram
  <2>2. swmap' = [d \in Swap |-> swmap[d] + Is(pg, d) - Is(slot[s], d)]
    <3>1. \A d \in Swap : swmap[d] \in Int /\ Is(pg, d) = 0 /\ Is(slot[s], d) = 0
      BY <1>1, <1>2, <1>4, PagesAssumption, Counted DEF Is, IInv, Books
    <3>2. swmap = [d \in Swap |-> swmap[d]]
      BY DEF IInv, Books
    <3> QED
      BY <3>1, <3>2, <1>3
  <2> QED
    BY <2>1, <2>2, <1>1, <1>2, <1>3, <1>4, SlotBooks
<1>7. Used'
  BY <1>1, <1>2, <1>3, StillUsed
<1>8. ASSUME NEW q \in Proc \ {p} PROVE Faulting(q)'
  <2>1. new[q] # nil => new[q] \in Page /\ new[q] # pg
    BY <1>4, Counted DEF IInv, TypeOK
  <2>2. new[q] # nil => /\ r.ref[new[q]] = ram.ref[new[q]]
                        /\ \A t \in Tag : cachedAs(r, new[q], t) => cachedAs(ram, new[q], t)
    BY <2>1, <1>4 DEF IInv, Books, Kept, Ram
  <2> QED
    BY <2>2, <1>1, <1>2, <1>3, <1>4, OthersFaulting DEF IInv, TypeOK
<1>9. Faulting(p)'
  BY <1>1, <1>2, <1>3, <1>4, PagesAssumption DEF IInv, TypeOK, Faulting, Page0, Puts
<1> QED
  BY <1>5, <1>6, <1>7, <1>8, <1>9 DEF IInv

\* A swap address that leaves the page table of a segment.
LEMMA SwapLeft ==
    ASSUME IInv, NEW s \in Seg, NEW v, v \notin Swap,
           swmap' = IF slot[s] \in Swap THEN putswap(slot[s]) ELSE swmap
    PROVE  swmap' = [d \in Swap |-> swmap[d] + Is(v, d) - Is(slot[s], d)]
<1>1. swmap = [d \in Swap |-> swmap[d]] /\ \A d \in Swap : swmap[d] \in Int
  BY Counted DEF IInv, Books
<1>2. \A d \in Swap : Is(v, d) = 0 /\ Is(slot[s], d) = IF slot[s] = d THEN 1 ELSE 0
  BY DEF Is
<1>3. CASE slot[s] \in Swap
  BY <1>1, <1>2, <1>3 DEF putswap
<1>4. CASE slot[s] \notin Swap
  <2>1. \A d \in Swap : swmap[d] + Is(v, d) - Is(slot[s], d) = swmap[d]
    BY <1>1, <1>2, <1>4
  <2> QED
    BY <2>1, <1>1, <1>4
<1> QED
  BY <1>3, <1>4

LEMMA PiocachedStep ==
    ASSUME IInv, NEW p \in Proc, piocached(p) PROVE IInv'
<1>1. seg[p] \in Seg /\ pc[p] = "fault" /\ lk[seg[p]] = nil
  BY OwnSegment DEF piocached, Goto, acquire
<1>2. PICK pg, s, r, t : /\ s = seg[p] /\ r = ram' /\ t = place(slot[s])
                         /\ pg = Head(ram.chain[t])
  OBVIOUS
<1>3. /\ slot[s] \in Swap \cup {nil} /\ t \in Tag
      /\ IF slot[s] \in Swap THEN t = slot[s] ELSE t \notin Swap
  <2>1. slot[s] \in Swap \cup {nil}
    BY <1>1, <1>2 DEF piocached, Page0, IInv, TypeOK
  <2> QED
    BY <2>1, <1>2, PagesAssumption DEF place, Tag
<1>4. /\ Puts(s, pg) /\ lk' = [lk EXCEPT ![s] = p]
      /\ pc' = [pc EXCEPT ![p] = "common"]
      /\ UNCHANGED <<type, seg, disk, io, write, rec, new, entry, tlb, aux>>
  BY <1>2 DEF piocached, Goto, acquire, fill, pager, Puts, Page0
<1>5. swmap' = IF slot[s] \in Swap THEN putswap(slot[s]) ELSE swmap
  BY <1>2, <1>3 DEF piocached, Page0
<1>6. /\ pg \in Page /\ cachedAs(ram, pg, t)
      /\ Kept(r) /\ r.ref = [ram.ref EXCEPT ![pg] = @ + 1]
      /\ r.chain = ram.chain /\ r.data = ram.data
      /\ \A x, u : cachedAs(r, x, u) <=> cachedAs(ram, x, u)
  <2>1. PICK m : m = ram
    OBVIOUS
  <2>2. r = lookpage(m, t) /\ found(m, t) /\ Kept(m) /\ pg = Head(m.chain[t])
    BY <1>2, <2>1 DEF piocached, IInv, Books, Page0
  <2>3. /\ pg \in Page /\ cachedAs(m, pg, t)
        /\ Kept(r) /\ r.ref = [m.ref EXCEPT ![pg] = @ + 1]
        /\ r.chain = m.chain /\ r.data = m.data
        /\ \A x, u : cachedAs(r, x, u) <=> cachedAs(m, x, u)
    BY <2>2, <1>3, Looked
  <2> QED
    BY <2>1, <2>3
<1>7. TypeOK'
  <2>1. swmap' = swmap' /\ slot' \in [Seg -> Page \cup Swap \cup {nil}]
    BY <1>1, <1>2, <1>4, <1>6 DEF IInv, TypeOK, Puts
  <2> QED
    BY <2>1, <1>1, <1>2, <1>4 DEF IInv, TypeOK, Places
<1>8. Books'
  <2>1. \A x \in Page : r.ref[x] = ram.ref[x] + Is(pg, x) - Is(slot[s], x)
    <3>1. ram.ref \in [Page -> Nat] /\ slot[s] \notin Page
      BY <1>3, PagesAssumption DEF IInv, Books, Kept, Ram
    <3> QED
      BY <3>1, <1>6 DEF Is
  <2>2. swmap' = [d \in Swap |-> swmap[d] + Is(pg, d) - Is(slot[s], d)]
    <3>1. s \in Seg /\ pg \notin Swap
      BY <1>1, <1>2, <1>6, PagesAssumption
    <3> QED
      BY <3>1, <1>5, SwapLeft
  <2>3. s \in Seg /\ Puts(s, pg) /\ UNCHANGED <<new, aux, io>> /\ Kept(ram')
    BY <1>1, <1>2, <1>4, <1>6
  <2> QED
    BY <2>1, <2>2, <2>3, <1>2, SlotBooks
<1>9. Used'
  BY <1>1, <1>2, <1>4, StillUsed
<1>10. ASSUME NEW q \in Proc \ {p} PROVE Faulting(q)'
  <2>1. new[q] # nil => new[q] \in Page /\ new[q] # pg
    BY <1>3, <1>6 DEF IInv, TypeOK, Faulting
  <2>2. new[q] # nil => /\ r.ref[new[q]] = ram.ref[new[q]]
                        /\ \A u \in Tag : cachedAs(r, new[q], u) => cachedAs(ram, new[q], u)
    BY <2>1, <1>6 DEF IInv, Books, Kept, Ram
  <2> QED
    BY <2>2, <1>1, <1>2, <1>4, <1>6, OthersFaulting DEF IInv, TypeOK
<1>11. Faulting(p)'
  <2>1. pc'[p] = "common" /\ new'[p] = nil /\ slot'[seg'[p]] \in Page /\ seg'[p] # nil
    BY <1>1, <1>2, <1>4, <1>6, PagesAssumption DEF IInv, TypeOK, Faulting, Puts
  <2>2. \A u \in Seg : lk'[u] = p <=> seg'[p] = u
    BY <1>1, <1>2, <1>4, PagesAssumption DEF IInv, TypeOK, Faulting
  <2> QED
    BY <2>1, <2>2 DEF Faulting, Page0
<1> QED
  BY <1>7, <1>8, <1>9, <1>10, <1>11 DEF IInv

LEMMA PioreadStep ==
    ASSUME IInv, NEW p \in Proc, pioread(p) PROVE IInv'
<1>1. seg[p] \in Seg /\ pc[p] = "load" /\ new[p] = nil
  BY OwnSegment DEF pioread, Goto, IInv, Faulting
<1>2. PICK pg, r, v : /\ pg = Head(ram.free) /\ r = ram'
                      /\ v = IF rec[p] = nil THEN "init" ELSE disk[rec[p]]
  OBVIOUS
<1>3. /\ Gets(p, pg) /\ pc' = [pc EXCEPT ![p] = "reload"]
      /\ UNCHANGED <<type, seg, slot, lk, swmap, disk, io, write, rec, entry, tlb, aux>>
  BY <1>2 DEF pioread, Goto, pager, Gets
<1>4. v \in Datum
  BY <1>2 DEF IInv, TypeOK, Datum
<1>5. /\ pg \in Page /\ ram.ref[pg] = 0
      /\ Kept(r) /\ r.ref = [ram.ref EXCEPT ![pg] = 1]
      /\ r.data = [ram.data EXCEPT ![pg] = v]
      /\ \A x \in Page, t \in Tag :
           cachedAs(r, x, t) <=> cachedAs(ram, x, t) /\ x # pg
  <2>1. r = Written(newpage(ram), pg, v) /\ Kept(ram)
    BY <1>2 DEF pioread, Written, IInv, Books
  <2>2. ram.free # <<>>
    BY PagesAssumption DEF pioread, plenty
  <2> QED
    BY <2>1, <2>2, <1>2, <1>4, Filled
<1>6. TypeOK'
  BY <1>3, <1>5 DEF IInv, TypeOK, Places, Gets
<1>7. Books'
  <2>1. \A x \in Page : r.ref[x] = ram.ref[x] + Is(pg, x) - Is(new[p], x)
    BY <1>1, <1>5, PagesAssumption DEF Is, IInv, Books, Kept, Ram
  <2> QED
    BY <2>1, <1>2, <1>3, <1>5, NewBooks
<1>8. Used'
  BY <1>3 DEF IInv, Used
<1>9. ASSUME NEW q \in Proc \ {p} PROVE Faulting(q)'
  <2>1. new[q] # nil => new[q] \in Page /\ new[q] # pg
    BY <1>5, Counted DEF IInv, TypeOK
  <2>2. new[q] # nil => /\ r.ref[new[q]] = ram.ref[new[q]]
                        /\ \A t \in Tag : cachedAs(r, new[q], t) => cachedAs(ram, new[q], t)
    BY <2>1, <1>5 DEF IInv, Books, Kept, Ram
  <2> QED
    BY <2>2, <1>1, <1>2, <1>3, OthersFaulting DEF IInv, TypeOK, Gets
<1>10. Faulting(p)'
  <2>1. r.ref[pg] = 1 /\ \A t \in Tag : ~cachedAs(r, pg, t)
    BY <1>5 DEF IInv, Books, Kept, Ram
  <2>2. new'[p] = pg /\ pg # nil
    BY <1>3, <1>5, PagesAssumption DEF IInv, TypeOK, Gets
  <2> QED
    BY <2>1, <2>2, <1>1, <1>2, <1>3 DEF IInv, TypeOK, Faulting, Page0
<1> QED
  BY <1>6, <1>7, <1>8, <1>9, <1>10 DEF IInv

LEMMA PioerrorStep ==
    ASSUME IInv, NEW p \in Proc, pioerror(p) PROVE IInv'
<1>1. seg[p] \in Seg /\ pc[p] = "reload"
  BY OwnSegment DEF pioerror, Goto
<1>2. PICK pg, r : pg = new[p] /\ r = ram'
  OBVIOUS
<1>3. /\ Gets(p, nil) /\ pc' = [pc EXCEPT ![p] = "user"]
      /\ rec' = [rec EXCEPT ![p] = nil] /\ write' = [write EXCEPT ![p] = FALSE]
      /\ UNCHANGED <<type, seg, slot, lk, swmap, disk, io, entry, tlb, aux>>
  BY <1>2 DEF pioerror, Goto, pager, Gets
<1>4. pg \in Page /\ ram.ref[pg] = 1
  BY <1>1, <1>2 DEF IInv, TypeOK, Faulting
<1>5. /\ Kept(r) /\ r.ref = [ram.ref EXCEPT ![pg] = @ - 1]
      /\ r.chain = ram.chain
      /\ \A x, t : cachedAs(r, x, t) <=> cachedAs(ram, x, t)
      /\ \A x \in Page : r.data[x] = Left(r, ram, x)
  <2>1. r = putpage(ram, pg) /\ Kept(ram) /\ ram.ref[pg] # 0
    BY <1>2, <1>4 DEF pioerror, IInv, Books
  <2> QED
    BY <2>1, <1>4, PutBack
<1>6. TypeOK'
  BY <1>3 DEF IInv, TypeOK, Places, Gets
<1>7. Books'
  <2>1. \A x \in Page : r.ref[x] = ram.ref[x] + Is(nil, x) - Is(new[p], x)
    BY <1>2, <1>4, <1>5, PagesAssumption DEF Is, IInv, Books, Kept, Ram
  <2> QED
    BY <2>1, <1>2, <1>3, <1>5, NewBooks
<1>8. Used'
  BY <1>3 DEF IInv, Used
<1>9. ASSUME NEW q \in Proc \ {p} PROVE Faulting(q)'
  <2>1. new[q] # nil => new[q] \in Page /\ new[q] # pg
    BY <1>2, Counted DEF IInv, TypeOK, Sole
  <2>2. new[q] # nil => /\ r.ref[new[q]] = ram.ref[new[q]]
                        /\ \A t \in Tag : cachedAs(r, new[q], t) => cachedAs(ram, new[q], t)
    BY <2>1, <1>5 DEF IInv, Books, Kept, Ram
  <2> QED
    BY <2>2, <1>1, <1>2, <1>3, OthersFaulting DEF IInv, TypeOK, Gets
<1>10. Faulting(p)'
  BY <1>1, <1>3 DEF IInv, TypeOK, Faulting, Page0, Gets
<1> QED
  BY <1>6, <1>7, <1>8, <1>9, <1>10 DEF IInv

\* The page that was read goes into the entry, or back.
LEMMA PioenterStep ==
    ASSUME IInv, NEW p \in Proc, pioenter(p) PROVE IInv'
<1>1. seg[p] \in Seg /\ pc[p] = "reload" /\ lk[seg[p]] = nil
  BY OwnSegment DEF pioenter, Goto
<1>2. PICK pg, s, r, t : pg = new[p] /\ s = seg[p] /\ r = ram' /\ t = place(rec[p])
  OBVIOUS
<1>3. PICK retry : retry = (slot[s] # rec[p] /\ rec[p] # nil /\ slot[s] \notin Page)
  OBVIOUS
<1>4. /\ Gets(p, nil) /\ pc' = [pc EXCEPT ![p] = IF retry THEN "fault" ELSE "common"]
      /\ rec' = [rec EXCEPT ![p] = nil]
      /\ lk' = [lk EXCEPT ![s] = IF retry THEN nil ELSE p]
      /\ UNCHANGED <<type, seg, write, disk, io, entry, tlb, aux>>
  BY <1>2, <1>3 DEF pioenter, Goto, pager, Gets, Page0
<1>5. /\ pg \in Page /\ ram.ref[pg] = 1 /\ \A u \in Tag : ~cachedAs(ram, pg, u)
      /\ Kept(ram) /\ rec[p] \in Swap \cup {nil}
  BY <1>1, <1>2 DEF IInv, TypeOK, Faulting, Books
<1>6. CASE slot[s] = rec[p]
  <2>1. /\ r = cachepage(ram, pg, t) /\ Puts(s, pg) /\ ~retry
        /\ swmap' = IF slot[s] \in Swap THEN putswap(slot[s]) ELSE swmap
    BY <1>2, <1>3, <1>5, <1>6, PagesAssumption DEF pioenter, fill, Puts, Page0
  <2>2. t \in Tag
    BY <1>2, <1>5 DEF place, Tag
  <2>3. /\ Kept(r) /\ r.ref = ram.ref /\ r.free = ram.free /\ r.data = ram.data
        /\ \A x \in Page, u \in Tag :
             cachedAs(r, x, u) <=> cachedAs(ram, x, u) \/ (x = pg /\ u = t)
    BY <2>1, <2>2, <1>5, NowCached
  <2>4. TypeOK'
    BY <2>1, <1>1, <1>2, <1>4, <1>5 DEF IInv, TypeOK, Places, Gets, Puts
  <2>5. Books'
    <3>1. \A x \in Page : r.ref[x] = ram.ref[x] + Is(pg, x) - Is(slot[s], x)
                                       + Is(nil, x) - Is(new[p], x)
      BY <2>3, <1>2, <1>5, <1>6, PagesAssumption DEF Is, Kept, Ram
    <3>2. swmap' = [d \in Swap |-> swmap[d] + Is(pg, d) - Is(slot[s], d)]
      BY <2>1, <1>1, <1>2, <1>5, PagesAssumption, SwapLeft
    <3> QED
      BY <3>1, <3>2, <2>1, <2>3, <1>1, <1>2, <1>4, EnterBooks
  <2>6. Used'
    BY <2>1, <1>1, <1>2, <1>4, StillUsed
  <2>7. ASSUME NEW q \in Proc \ {p} PROVE Faulting(q)'
    <3>1. new[q] # nil => new[q] \in Page /\ new[q] # pg
      BY <1>2, Counted DEF IInv, TypeOK, Sole
    <3>2. new[q] # nil => /\ r.ref[new[q]] = ram.ref[new[q]]
                          /\ \A u \in Tag : cachedAs(r, new[q], u) => cachedAs(ram, new[q], u)
      BY <3>1, <2>3
    <3> QED
      BY <3>2, <2>1, <1>1, <1>2, <1>4, <1>5, OthersFaulting DEF IInv, TypeOK, Gets
  <2>8. Faulting(p)'
    BY <2>1, <1>1, <1>2, <1>4, <1>5, PagesAssumption
       DEF IInv, TypeOK, Faulting, Page0, Gets, Puts
  <2> QED
    BY <2>4, <2>5, <2>6, <2>7, <2>8 DEF IInv
<1>7. CASE slot[s] # rec[p]
  <2>1. r = putpage(ram, pg) /\ UNCHANGED <<slot, swmap>> /\ ram.ref[pg] # 0
    BY <1>2, <1>5, <1>7 DEF pioenter, Page0
  <2>2. /\ Kept(r) /\ r.ref = [ram.ref EXCEPT ![pg] = @ - 1]
        /\ r.chain = ram.chain
        /\ \A x, u : cachedAs(r, x, u) <=> cachedAs(ram, x, u)
        /\ \A x \in Page : r.data[x] = Left(r, ram, x)
    BY <2>1, <1>5, PutBack
  <2>3. TypeOK'
    BY <2>1, <1>1, <1>2, <1>4 DEF IInv, TypeOK, Places, Gets
  <2>4. Books'
    <3>1. \A x \in Page : r.ref[x] = ram.ref[x] + Is(nil, x) - Is(new[p], x)
      BY <1>2, <1>5, <2>2, PagesAssumption DEF Is, Kept, Ram
    <3>2. Gets(p, nil) /\ UNCHANGED <<slot, swmap, aux, io>> /\ Kept(ram')
      BY <2>1, <2>2, <1>2, <1>4
    <3> QED
      BY <3>1, <3>2, <1>2, NewBooks
  <2>5. Used'
    BY <2>1, <1>4 DEF IInv, Used
  <2>6. ASSUME NEW q \in Proc \ {p} PROVE Faulting(q)'
    <3>1. new[q] # nil => new[q] \in Page /\ new[q] # pg
      BY <1>2, Counted DEF IInv, TypeOK, Sole
    <3>2. new[q] # nil => /\ r.ref[new[q]] = ram.ref[new[q]]
                          /\ \A u \in Tag : cachedAs(r, new[q], u) => cachedAs(ram, new[q], u)
      BY <3>1, <2>2, <1>5 DEF Kept, Ram
    <3> QED
      BY <3>2, <2>1, <1>1, <1>2, <1>4, OthersFaulting DEF IInv, TypeOK, Gets
  <2>7. ~retry => slot[s] \in Page
    <3>1. rec[p] = nil => slot[s] \in Page \cup {nil}
      BY <1>1, <1>2 DEF IInv, Faulting, Page0
    <3> QED
      BY <3>1, <1>3, <1>7
  <2>8. Faulting(p)'
    BY <2>1, <2>7, <1>1, <1>2, <1>4, PagesAssumption
       DEF IInv, TypeOK, Faulting, Page0, Gets
  <2> QED
    BY <2>3, <2>4, <2>5, <2>6, <2>8 DEF IInv
<1> QED
  BY <1>6, <1>7

LEMMA FinishTypes ==
    ASSUME IInv, NEW p \in Proc, NEW pg \in Page, NEW rw \in BOOLEAN, finish(p, pg, rw)
    PROVE  /\ entry' \in [Proc -> Entry \cup {nil}] /\ pc' \in [Proc -> Places]
           /\ lk' \in [Seg -> Proc \cup {nil}]
<1>1. [page |-> pg, rw |-> rw] \in Entry
  BY DEF Entry
<1> QED
  BY <1>1 DEF finish, release, IInv, TypeOK, Places

LEMMA CopyOnWriteStep ==
    ASSUME IInv, NEW p \in Proc, copyOnWrite(p) PROVE IInv'
<1>1. seg[p] \in Seg /\ pc[p] = "common" /\ lk[seg[p]] = p /\ slot[seg[p]] \in Page
  <2>1. pc[p] = "common"
    BY DEF copyOnWrite
  <2> QED
    BY <2>1, OwnSegment DEF IInv, Faulting, Page0
<1>2. PICK pg, s, np, r : /\ s = seg[p] /\ pg = slot[s] /\ np = Head(ram.free)
                          /\ r = ram'
  OBVIOUS
<1>3. UNCHANGED <<type, seg, swmap, disk, io, write, rec, new, tlb, aux>>
  BY DEF copyOnWrite, pager
<1>4. Kept(ram) /\ ram.ref[pg] # 0 /\ pg \in Page
  BY <1>1, <1>2, Counted DEF IInv, Books
<1>5. CASE plenty /\ ~swapfull
  <2>1. /\ r = Copy(ram, np, pg) /\ Puts(s, np) /\ finish(p, np, TRUE)
    BY <1>2, <1>5 DEF copyOnWrite, fill, Puts, Copy, Page0, Written
  <2>2. /\ np \in Page \ {pg} /\ ram.ref[np] = 0 /\ Kept(r)
        /\ r.ref[np] = 1 /\ r.ref[pg] = ram.ref[pg] - 1
        /\ \A x \in Page \ {np, pg} : r.ref[x] = ram.ref[x]
        /\ \A x \in Page, t \in Tag :
             cachedAs(r, x, t) <=> cachedAs(ram, x, t) /\ x # np
    <3>1. PICK m : m = ram
      OBVIOUS
    <3>2. m.free # <<>>
      BY <3>1, <1>5, PagesAssumption DEF plenty
    <3>3. Kept(m) /\ m.ref[pg] # 0 /\ np = Head(m.free) /\ r = Copy(m, np, pg)
      BY <3>1, <2>1, <1>2, <1>4
    <3>4. /\ np \in Page \ {pg} /\ m.ref[np] = 0 /\ Kept(r)
          /\ r.ref[np] = 1 /\ r.ref[pg] = m.ref[pg] - 1
          /\ \A x \in Page \ {np, pg} : r.ref[x] = m.ref[x]
          /\ r.data[np] = m.data[pg]
          /\ \A x \in Page \ {np} : r.data[x] = Left(r, m, x)
          /\ \A x \in Page, t \in Tag :
               cachedAs(r, x, t) <=> cachedAs(m, x, t) /\ x # np
      BY <3>2, <3>3, <1>4, Copied
    <3> QED
      BY <3>1, <3>4
  <2>3. /\ pc' = [pc EXCEPT ![p] = "putmmu"] /\ lk' = [lk EXCEPT ![s] = nil]
    BY <2>1, <1>2 DEF finish, release
  <2>4. TypeOK'
    <3>1. /\ entry' \in [Proc -> Entry \cup {nil}] /\ pc' \in [Proc -> Places]
          /\ lk' \in [Seg -> Proc \cup {nil}]
      BY <2>1, <2>2, FinishTypes
    <3> QED
      BY <3>1, <2>1, <2>2, <1>1, <1>2, <1>3 DEF IInv, TypeOK, Puts
  <2>5. Books'
    <3>1. \A x \in Page : r.ref[x] = ram.ref[x] + Is(np, x) - Is(slot[s], x)
      <4>1. ram.ref \in [Page -> Nat]
        BY <1>4 DEF Kept, Ram
      <4> QED
        BY <4>1, <2>2, <1>2, <1>4 DEF Is
    <3>2. swmap' = [d \in Swap |-> swmap[d] + Is(np, d) - Is(slot[s], d)]
      <4>1. swmap' = IF slot[s] \in Swap THEN putswap(slot[s]) ELSE swmap
        BY <1>2, <1>3, <1>4, PagesAssumption
      <4> QED
        BY <4>1, <2>2, <1>1, <1>2, PagesAssumption, SwapLeft
    <3>3. s \in Seg /\ Puts(s, np) /\ UNCHANGED <<new, aux, io>> /\ Kept(ram')
      BY <2>1, <2>2, <1>1, <1>2, <1>3
    <3> QED
      BY <3>1, <3>2, <3>3, <1>2, SlotBooks
  <2>6. Used'
    BY <2>1, <1>1, <1>2, <1>3, StillUsed
  <2>7. ASSUME NEW q \in Proc \ {p} PROVE Faulting(q)'
    <3>1. new[q] # nil => new[q] \in Page \ {np, pg}
      BY <2>2, <1>1, <1>2, Counted DEF IInv, TypeOK, Sole
    <3>2. new[q] # nil => /\ r.ref[new[q]] = ram.ref[new[q]]
                          /\ \A t \in Tag : cachedAs(r, new[q], t) => cachedAs(ram, new[q], t)
      BY <3>1, <2>2
    <3>3. pc'[q] = pc[q] /\ new'[q] = new[q] /\ rec'[q] = rec[q] /\ seg' = seg
      BY <2>3, <1>3 DEF IInv, TypeOK
    <3> QED
      BY <3>2, <3>3, <2>1, <2>2, <2>3, <1>1, <1>2, OthersFaulting
  <2>8. Faulting(p)'
    BY <2>1, <2>2, <2>3, <1>1, <1>2, <1>3, PagesAssumption
       DEF IInv, TypeOK, Faulting, Page0, Puts
  <2> QED
    BY <2>4, <2>5, <2>6, <2>7, <2>8 DEF IInv
<1>6. CASE ~(plenty /\ ~swapfull)
  <2>1. /\ pc' = [pc EXCEPT ![p] = IF swapfull THEN "user" ELSE "fault"]
        /\ lk' = [lk EXCEPT ![s] = nil] /\ UNCHANGED <<slot, ram, entry>>
    BY <1>2, <1>6 DEF copyOnWrite, Goto, release
  <2>2. Books' /\ Used'
    BY <2>1, <1>3, <1>4, QuietStep
  <2>3. TypeOK'
    BY <2>1, <1>1, <1>2, <1>3 DEF IInv, TypeOK, Places
  <2>4. ASSUME NEW q \in Proc \ {p} PROVE Faulting(q)'
    <3>1. pc'[q] = pc[q] /\ new'[q] = new[q] /\ rec'[q] = rec[q] /\ seg' = seg
      BY <2>1, <1>3 DEF IInv, TypeOK
    <3> QED
      BY <3>1, <2>1, <1>1, <1>2, OthersFaulting
  <2>5. Faulting(p)'
    <3>1. pc'[p] \in {"user", "fault"} /\ new[p] = nil
      BY <2>1, <1>1 DEF IInv, TypeOK, Faulting
    <3> QED
      BY <3>1, <2>1, <1>1, <1>2, <1>3, PagesAssumption DEF IInv, TypeOK, Faulting, Page0
  <2> QED
    BY <2>2, <2>3, <2>4, <2>5 DEF IInv
<1> QED
  BY <1>5, <1>6

LEMMA WriteInPlaceStep ==
    ASSUME IInv, NEW p \in Proc, writeInPlace(p) PROVE IInv'
<1>1. /\ seg[p] \in Seg /\ pc[p] \in {"common", "dup"} /\ lk[seg[p]] = p
      /\ slot[seg[p]] \in Page /\ new[p] = nil
  <2>1. pc[p] \in {"common", "dup"}
    BY DEF writeInPlace
  <2> QED
    BY <2>1, OwnSegment DEF IInv, Faulting, Page0
<1>2. PICK pg, s, r : s = seg[p] /\ pg = slot[s] /\ r = ram'
  OBVIOUS
<1>3. /\ finish(p, pg, TRUE)
      /\ UNCHANGED <<type, seg, slot, swmap, disk, io, write, rec, new, tlb, aux>>
  BY <1>2 DEF writeInPlace, pager, Page0
<1>4. Kept(ram) /\ ram.ref[pg] # 0 /\ pg \in Page
  BY <1>1, <1>2, Counted DEF IInv, Books
<1>5. /\ Kept(r) /\ r.ref = ram.ref
      /\ \A x \in Page, t \in Tag :
           cachedAs(r, x, t) => cachedAs(ram, x, t) \/ ram.ref[x] = 0
  <2>1. CASE r = ram
    BY <2>1, <1>4
  <2>2. CASE r = duppage(ram, pg)
    <3>1. PICK m : m = ram
      OBVIOUS
    <3>2. Kept(m) /\ m.ref[pg] # 0 /\ r = duppage(m, pg)
      BY <2>2, <3>1, <1>4
    <3>3. /\ Kept(r) /\ r.ref = m.ref
          /\ \/ Dropped(m, r, pg)
             \/ \E np \in Page \ {pg} : Replaced(m, r, pg, np)
      BY <3>2, <1>4, Duplicated
    <3> QED
      BY <3>1, <3>3 DEF Dropped, Replaced
  <2> QED
    BY <2>1, <2>2, <1>2 DEF writeInPlace, Page0
<1>6. Books' /\ Used'
  BY <1>2, <1>3, <1>5, QuietStep
<1>7. TypeOK'
  <2>1. /\ entry' \in [Proc -> Entry \cup {nil}] /\ pc' \in [Proc -> Places]
        /\ lk' \in [Seg -> Proc \cup {nil}]
    BY <1>3, <1>4, FinishTypes
  <2> QED
    BY <2>1, <1>3 DEF IInv, TypeOK
<1>8. pc' = [pc EXCEPT ![p] = "putmmu"] /\ lk' = [lk EXCEPT ![s] = nil]
  BY <1>2, <1>3 DEF finish, release
<1>9. ASSUME NEW q \in Proc \ {p} PROVE Faulting(q)'
  <2>1. new[q] # nil => new[q] \in Page /\ ram.ref[new[q]] # 0
    BY Counted DEF IInv, TypeOK
  <2>2. new[q] # nil => /\ r.ref[new[q]] = ram.ref[new[q]]
                        /\ \A t \in Tag : cachedAs(r, new[q], t) => cachedAs(ram, new[q], t)
    BY <2>1, <1>5
  <2>3. pc'[q] = pc[q] /\ new'[q] = new[q] /\ rec'[q] = rec[q] /\ seg' = seg
    BY <1>3, <1>8 DEF IInv, TypeOK
  <2> QED
    BY <2>2, <2>3, <1>1, <1>2, <1>3, <1>8, OthersFaulting
<1>10. Faulting(p)'
  BY <1>1, <1>2, <1>3, <1>8, PagesAssumption DEF IInv, TypeOK, Faulting, Page0
<1> QED
  BY <1>6, <1>7, <1>9, <1>10 DEF IInv

-----------------------------------------------------------------------------
(* Processes come and go.                                                  *)

LEMMA LeaveStep ==
    ASSUME IInv, NEW p \in Proc, User(p), leave(p), NEW v \in Seg \cup {nil},
           v # nil => Users(v) = {}, seg' = [seg EXCEPT ![p] = v],
           UNCHANGED <<type, lk, fault, pager, aux>>
    PROVE  IInv'
<1>1. seg[p] \in Seg /\ pc[p] = "user" /\ new[p] = nil
  BY DEF User, IInv, TypeOK, Faulting
<1>2. PICK s, r, last, x : /\ s = seg[p] /\ r = ram' /\ last = (Users(s) = {p})
                           /\ x = IF last THEN nil ELSE slot[s]
  OBVIOUS
<1>3. UNCHANGED <<type, lk, disk, io, pc, write, rec, new, entry, aux>>
  BY DEF fault, pager
<1>4. /\ Puts(s, x) /\ tlb' = [tlb EXCEPT ![p] = nil]
      /\ r = IF last /\ slot[s] \in Page THEN putpage(ram, slot[s]) ELSE ram
      /\ swmap' = IF last /\ slot[s] \in Swap THEN putswap(slot[s]) ELSE swmap
  BY <1>2 DEF leave, Puts
<1>5. Kept(ram) /\ ram.ref \in [Page -> Nat]
  BY DEF IInv, Books, Kept, Ram
<1>6. /\ Kept(r) /\ \A y, t : cachedAs(r, y, t) <=> cachedAs(ram, y, t)
      /\ r.ref = IF last /\ slot[s] \in Page THEN [ram.ref EXCEPT ![slot[s]] = @ - 1]
                 ELSE ram.ref
  <2>1. CASE last /\ slot[s] \in Page
    <3>1. PICK pg \in Page : pg = slot[s]
      BY <2>1
    <3>2. r = putpage(ram, pg) /\ ram.ref[pg] # 0
      BY <2>1, <3>1, <1>1, <1>2, <1>4, Counted
    <3>3. /\ Kept(r) /\ r.ref = [ram.ref EXCEPT ![pg] = @ - 1]
          /\ r.chain = ram.chain
          /\ \A y, t : cachedAs(r, y, t) <=> cachedAs(ram, y, t)
          /\ \A y \in Page : r.data[y] = Left(r, ram, y)
      BY <3>2, <1>5, PutBack
    <3> QED
      BY <2>1, <3>1, <3>3
  <2>2. CASE ~(last /\ slot[s] \in Page)
    BY <2>2, <1>4, <1>5
  <2> QED
    BY <2>1, <2>2
<1>7. TypeOK'
  BY <1>1, <1>2, <1>3, <1>4 DEF IInv, TypeOK, Puts
<1>8. Books'
  <2>1. CASE last
    <3>1. \A y \in Page : r.ref[y] = ram.ref[y] + Is(nil, y) - Is(slot[s], y)
      BY <2>1, <1>5, <1>6, PagesAssumption DEF Is
    <3>2. swmap' = [d \in Swap |-> swmap[d] + Is(nil, d) - Is(slot[s], d)]
      <4>1. swmap' = IF slot[s] \in Swap THEN putswap(slot[s]) ELSE swmap
        BY <2>1, <1>4
      <4> QED
        BY <4>1, <1>1, <1>2, PagesAssumption, SwapLeft
    <3>3. s \in Seg /\ Puts(s, nil) /\ UNCHANGED <<new, aux, io>> /\ Kept(ram')
      BY <2>1, <1>1, <1>2, <1>3, <1>4, <1>6
    <3> QED
      BY <3>1, <3>2, <3>3, <1>2, SlotBooks
  <2>2. CASE ~last
    <3>1. slot' = slot
      BY <2>2, <1>1, <1>2, <1>4 DEF Puts, IInv, TypeOK
    <3>2. ram' = ram /\ swmap' = swmap
      BY <2>2, <1>2, <1>4
    <3> QED
      BY <3>1, <3>2, <1>3, <1>5, SameBooks
  <2> QED
    BY <2>1, <2>2, <1>2
<1>9. \A q \in Proc \ {p} : seg'[q] = seg[q] /\ (seg[q] = s => slot' = slot)
  <2> SUFFICES ASSUME NEW q \in Proc \ {p}
               PROVE  seg'[q] = seg[q] /\ (seg[q] = s => slot' = slot)
    OBVIOUS
  <2>1. seg'[q] = seg[q]
    BY DEF IInv, TypeOK
  <2>2. ASSUME seg[q] = s PROVE slot' = slot
    <3>1. ~last
      BY <2>2, <1>2 DEF Users
    <3> QED
      BY <3>1, <1>1, <1>2, <1>4 DEF Puts, IInv, TypeOK
  <2> QED
    BY <2>1, <2>2
<1>10. seg'[p] = v /\ v # s
  <2>1. p \in Users(s)
    BY <1>2 DEF Users
  <2>2. s \in Seg /\ s # nil
    BY <1>1, <1>2, PagesAssumption
  <2> QED
    BY <2>1, <2>2 DEF IInv, TypeOK
<1>11. Used'
  <2> SUFFICES ASSUME NEW y \in Seg, slot'[y] # nil PROVE \E q \in Proc : seg'[q] = y
    BY DEF Used
  <2>1. CASE y = s
    <3>1. ~last
      BY <2>1, <1>1, <1>2, <1>4 DEF Puts, IInv, TypeOK
    <3>2. PICK q \in Proc \ {p} : seg[q] = s
      BY <3>1, <1>2 DEF Users
    <3> QED
      BY <3>2, <2>1, <1>9
  <2>2. CASE y # s
    <3>1. slot[y] # nil
      BY <2>2, <1>1, <1>2, <1>4 DEF Puts, IInv, TypeOK
    <3>2. PICK q \in Proc : seg[q] = y
      BY <3>1 DEF IInv, Used
    <3> QED
      BY <3>2, <2>2, <1>2, <1>9
  <2> QED
    BY <2>1, <2>2
<1>12. ASSUME NEW q \in Proc \ {p} PROVE Faulting(q)'
  <2>1. Faulting(q) /\ (pc[q] \notin {"user"} => seg[q] \in Seg)
    BY OwnSegment DEF IInv
  <2>2. seg[q] \in Seg => slot'[seg[q]] = slot[seg[q]]
    BY <1>1, <1>2, <1>4, <1>9 DEF Puts, IInv, TypeOK
  <2>3. new[q] # nil => new[q] \in Page /\ new[q] # slot[s]
    BY <1>1, <1>2, Counted DEF IInv, TypeOK, Sole
  <2>4. new[q] # nil => r.ref[new[q]] = ram.ref[new[q]]
    BY <2>3, <1>5, <1>6
  <2> QED
    BY <2>1, <2>2, <2>4, <1>2, <1>3, <1>6, <1>9, StillFaulting
<1>13. Faulting(p)'
  BY <1>1, <1>3, <1>10 DEF IInv, Faulting, Page0
<1> QED
  BY <1>7, <1>8, <1>11, <1>12, <1>13 DEF IInv

LEMMA LeaveSteps ==
    ASSUME IInv, NEW p \in Proc, exit(p) \/ exec(p) PROVE IInv'
<1>1. CASE exit(p)
  BY <1>1, LeaveStep DEF exit
<1>2. CASE exec(p)
  <2>1. PICK n \in Seg :
          /\ User(p) /\ Users(n) = {} /\ leave(p) /\ seg' = [seg EXCEPT ![p] = n]
          /\ UNCHANGED <<type, lk, fault, pager, aux>>
    BY <1>2 DEF exec
  <2> QED
    BY <2>1, LeaveStep
<1> QED
  BY <1>1, <1>2

\* The child of a fork has the segment of its parent.
LEMMA ShareStep ==
    ASSUME IInv, NEW p \in Proc, NEW q \in Proc, User(p), seg[q] = nil,
           seg' = [seg EXCEPT ![q] = seg[p]], tlb' = [tlb EXCEPT ![p] = nil],
           UNCHANGED <<slot, ram, swmap>>, UNCHANGED <<type, lk, fault, pager, aux>>
    PROVE  IInv'
<1>1. seg[p] \in Seg /\ pc[q] = "user" /\ new[q] = nil
  BY DEF User, IInv, TypeOK, Faulting
<1>2. UNCHANGED <<slot, ram, swmap, lk, disk, io, pc, write, rec, new, entry, aux>>
  BY DEF fault, pager
<1>3. TypeOK'
  BY <1>1, <1>2 DEF IInv, TypeOK
<1>4. Books'
  BY <1>2, SameBooks DEF IInv, Books
<1>5. \A r \in Proc \ {q} : seg'[r] = seg[r]
  BY DEF IInv, TypeOK
<1>6. Used'
  <2> SUFFICES ASSUME NEW y \in Seg, slot[y] # nil PROVE \E r \in Proc : seg'[r] = y
    BY <1>2 DEF Used
  <2>1. PICK r \in Proc : seg[r] = y
    BY DEF IInv, Used
  <2> QED
    BY <2>1, <1>5, PagesAssumption
<1>7. ASSUME NEW r \in Proc \ {q} PROVE Faulting(r)'
  <2>1. Faulting(r)
    BY DEF IInv
  <2> QED
    BY <2>1, <1>2, <1>5, StillFaulting
<1>8. Faulting(q)'
  BY <1>1, <1>2 DEF IInv, TypeOK, Faulting, Page0
<1> QED
  BY <1>3, <1>4, <1>6, <1>7, <1>8 DEF IInv

\* The child has a copy of the page table, in a segment that nobody had.
LEMMA CopyStep ==
    ASSUME IInv, NEW p \in Proc, NEW q \in Proc, NEW n \in Seg,
           User(p), seg[q] = nil, Users(n) = {},
           seg' = [seg EXCEPT ![q] = n], Puts(n, slot[seg[p]]), flush(seg[p]),
           ram' = IF slot[seg[p]] \in Page
                  THEN [ram EXCEPT !.ref[slot[seg[p]]] = @ + 1] ELSE ram,
           swmap' = IF slot[seg[p]] \in Swap
                    THEN [swmap EXCEPT ![slot[seg[p]]] = @ + 1] ELSE swmap,
           UNCHANGED <<type, lk, fault, pager, aux>>
    PROVE  IInv'
<1>1. seg[p] \in Seg /\ pc[q] = "user" /\ new[q] = nil /\ slot[n] = nil
  BY DEF User, IInv, TypeOK, Faulting, Used, Users
<1>2. PICK x, r : x = slot[seg[p]] /\ r = ram'
  OBVIOUS
<1>3. UNCHANGED <<lk, disk, io, pc, write, rec, new, entry, aux>>
  BY DEF fault, pager
<1>4. Kept(ram) /\ ram.ref \in [Page -> Nat] /\ x \in Page \cup Swap \cup {nil}
  BY <1>1, <1>2 DEF IInv, TypeOK, Books, Kept, Ram
<1>5. /\ Kept(r) /\ \A y, t : cachedAs(r, y, t) <=> cachedAs(ram, y, t)
      /\ r.ref = IF x \in Page THEN [ram.ref EXCEPT ![x] = @ + 1] ELSE ram.ref
  <2>1. CASE x \in Page
    <3>1. PICK k \in Nat \ {0} : k = ram.ref[x] + 1
      <4>1. ram.ref[x] + 1 \in Nat \ {0}
        BY <2>1, <1>4
      <4> QED
        BY <4>1
    <3>2. PICK m : m = ram
      OBVIOUS
    <3>3. Kept(m) /\ m.ref[x] # 0 /\ r = Referred(m, x, k)
      BY <2>1, <3>1, <3>2, <1>1, <1>2, <1>4, Counted DEF Referred
    <3>4. /\ Kept(r) /\ r.ref = [m.ref EXCEPT ![x] = k] /\ r.free = m.free
          /\ r.chain = m.chain /\ r.data = m.data
          /\ \A y, t : cachedAs(r, y, t) <=> cachedAs(m, y, t)
      BY <2>1, <3>3, Held
    <3> QED
      BY <2>1, <3>1, <3>2, <3>4
  <2>2. CASE x \notin Page
    BY <2>2, <1>2, <1>4
  <2> QED
    BY <2>1, <2>2
<1>6. TypeOK'
  <2>1. slot' \in [Seg -> Page \cup Swap \cup {nil}]
    BY <1>2, <1>4 DEF Puts, IInv, TypeOK
  <2>2. tlb' \in [Proc -> Entry \cup {nil}]
    BY DEF flush, IInv, TypeOK
  <2>3. seg' \in [Proc -> Seg \cup {nil}]
    BY DEF IInv, TypeOK
  <2> QED
    BY <2>1, <2>2, <2>3, <1>3 DEF IInv, TypeOK
<1>7. Books'
  <2>1. \A y \in Page : r.ref[y] = ram.ref[y] + Is(x, y) - Is(slot[n], y)
    BY <1>1, <1>4, <1>5, PagesAssumption DEF Is
  <2>2. swmap' = [d \in Swap |-> swmap[d] + Is(x, d) - Is(slot[n], d)]
    <3>1. swmap = [d \in Swap |-> swmap[d]] /\ \A d \in Swap : swmap[d] \in Int
      BY Counted DEF IInv, Books
    <3>2. \A d \in Swap : Is(slot[n], d) = 0 /\ Is(x, d) = IF x = d THEN 1 ELSE 0
      BY <1>1, PagesAssumption DEF Is
    <3>3. CASE x \in Swap
      BY <3>1, <3>2, <3>3, <1>2
    <3>4. CASE x \notin Swap
      <4>1. \A d \in Swap : swmap[d] + Is(x, d) - Is(slot[n], d) = swmap[d]
        BY <3>1, <3>2, <3>4
      <4> QED
        BY <4>1, <3>1, <3>4, <1>2
    <3> QED
      BY <3>3, <3>4
  <2>3. Puts(n, x) /\ UNCHANGED <<new, aux, io>> /\ Kept(ram')
    BY <1>2, <1>3, <1>5
  <2> QED
    BY <2>1, <2>2, <2>3, <1>2, SlotBooks
<1>8. \A z \in Proc \ {q} : seg'[z] = seg[z] /\ seg[z] # n
  BY DEF IInv, TypeOK, Users
<1>9. Used'
  <2> SUFFICES ASSUME NEW y \in Seg, slot'[y] # nil PROVE \E z \in Proc : seg'[z] = y
    BY DEF Used
  <2>1. CASE y = n
    BY <2>1 DEF IInv, TypeOK
  <2>2. CASE y # n
    <3>1. slot[y] # nil
      BY <2>2 DEF Puts, IInv, TypeOK
    <3>2. PICK z \in Proc : seg[z] = y
      BY <3>1 DEF IInv, Used
    <3> QED
      BY <3>2, <1>8, PagesAssumption
  <2> QED
    BY <2>1, <2>2
<1>10. ASSUME NEW z \in Proc \ {q} PROVE Faulting(z)'
  <2>1. Faulting(z) /\ (pc[z] \notin {"user"} => seg[z] \in Seg)
    BY OwnSegment DEF IInv
  <2>2. seg[z] \in Seg => slot'[seg[z]] = slot[seg[z]]
    BY <1>8 DEF Puts, IInv, TypeOK
  <2>3. new[z] # nil => new[z] \in Page /\ new[z] # x
    BY <1>1, <1>2, Counted DEF IInv, TypeOK, Sole
  <2>4. new[z] # nil => r.ref[new[z]] = ram.ref[new[z]]
    BY <2>3, <1>4, <1>5
  <2> QED
    BY <2>1, <2>2, <2>4, <1>2, <1>3, <1>5, <1>8, StillFaulting
<1>11. Faulting(q)'
  BY <1>1, <1>3 DEF IInv, TypeOK, Faulting, Page0
<1> QED
  BY <1>6, <1>7, <1>9, <1>10, <1>11 DEF IInv

LEMMA ForkStep ==
    ASSUME IInv, NEW p \in Proc, NEW q \in Proc, fork(p, q) PROVE IInv'
<1>1. /\ User(p) /\ seg[q] = nil /\ UNCHANGED <<type, lk, fault, pager, aux>>
  BY DEF fork
<1>2. CASE /\ seg' = [seg EXCEPT ![q] = seg[p]] /\ tlb' = [tlb EXCEPT ![p] = nil]
           /\ UNCHANGED <<slot, ram, swmap>>
  BY <1>1, <1>2, ShareStep
<1>3. ASSUME NEW n \in Seg, Users(n) = {}, seg' = [seg EXCEPT ![q] = n],
             slot' = [slot EXCEPT ![n] = Page0(p)],
             ram' = IF Page0(p) \in Page
                    THEN [ram EXCEPT !.ref[Page0(p)] = @ + 1] ELSE ram,
             swmap' = IF Page0(p) \in Swap
                      THEN [swmap EXCEPT ![Page0(p)] = @ + 1] ELSE swmap,
             flush(seg[p])
      PROVE  IInv'
  <2>1. /\ Puts(n, slot[seg[p]])
        /\ ram' = IF slot[seg[p]] \in Page
                  THEN [ram EXCEPT !.ref[slot[seg[p]]] = @ + 1] ELSE ram
        /\ swmap' = IF slot[seg[p]] \in Swap
                    THEN [swmap EXCEPT ![slot[seg[p]]] = @ + 1] ELSE swmap
    BY <1>3 DEF Puts, Page0
  <2> QED
    BY <2>1, <1>1, <1>3, CopyStep
<1> QED
  BY <1>2, <1>3 DEF fork

-----------------------------------------------------------------------------
(* The pager and the file cache.                                           *)

LEMMA SwapAddress ==
    ASSUME \E d \in Swap : swmap[d] = 0
    PROVE  newswap \in Swap /\ swmap[newswap] = 0
<1> DEFINE F == {d \in Swap : swmap[d] = 0}
<1>1. F \in SUBSET Nat /\ F # {}
  BY PagesAssumption
<1>2. PICK d \in F : \A e \in F : d <= e
  <2> HIDE DEF F
  <2> QED
    BY <1>1, Least
<1>3. d \in Swap /\ swmap[d] = 0 /\ \A e \in Swap : swmap[e] = 0 => d <= e
  BY <1>2
<1> QED
  BY <1>3 DEF newswap

\* The books when only what the file cache and the pager hold changes.
LEMMA OtherBooks ==
    ASSUME IInv, Kept(ram'), UNCHANGED <<slot, new, swmap>>,
           \A x \in Page : ram'.ref[x] = ram.ref[x] + auxHolds(x)' - auxHolds(x)
                                           + ioHolds(x)' - ioHolds(x)
    PROVE  Books'
<1>1. \A x : /\ Times(Seg, slot, x) \in Nat /\ Times(Proc, new, x) \in Nat
             /\ auxHolds(x) \in Nat /\ auxHolds(x)' \in Nat
             /\ ioHolds(x) \in Nat /\ ioHolds(x)' \in Nat
  BY Counted DEF auxHolds, ioHolds
<1>2. ASSUME NEW x \in Page PROVE ram'.ref[x] = Holders(x)'
  <2>1. Holders(x)' = Times(Seg, slot, x) + Times(Proc, new, x)
                        + auxHolds(x)' + ioHolds(x)'
    BY DEF Holders, Times
  <2>2. ram.ref[x] = Times(Seg, slot, x) + Times(Proc, new, x)
                       + auxHolds(x) + ioHolds(x)
    BY DEF IInv, Books, Holders
  <2> QED
    BY <2>1, <2>2, <1>1
<1>3. swmap' = [d \in Swap |-> Times(Seg, slot', d)]
  BY DEF IInv, Books
<1> QED
  BY <1>2, <1>3 DEF Books, Times

LEMMA PageoutTextStep ==
    ASSUME IInv, NEW s \in Seg, lk[s] = nil, slot[s] \in Page, flush(s),
           ram' = putpage(ram, slot[s]), Puts(s, nil),
           UNCHANGED <<swmap, io, type, seg, lk, disk, fault, aux>>
    PROVE  IInv'
<1>1. PICK out \in Page, r \in {ram'} : out = slot[s]
  OBVIOUS
<1>2. UNCHANGED <<swmap, io, seg, lk, disk, pc, write, rec, new, entry, aux>>
  BY DEF fault
<1>3. Kept(ram) /\ ram.ref \in [Page -> Nat] /\ ram.ref[out] # 0
  BY <1>1, Counted DEF IInv, Books, Kept, Ram
<1>4. /\ Kept(r) /\ r.ref = [ram.ref EXCEPT ![out] = @ - 1]
      /\ r.chain = ram.chain
      /\ \A x, t : cachedAs(r, x, t) <=> cachedAs(ram, x, t)
      /\ \A x \in Page : r.data[x] = Left(r, ram, x)
  <2>1. r = putpage(ram, out)
    BY <1>1
  <2> QED
    BY <2>1, <1>3, PutBack
<1>5. TypeOK'
  <2>1. tlb' \in [Proc -> Entry \cup {nil}]
    BY DEF flush, IInv, TypeOK
  <2> QED
    BY <2>1, <1>2 DEF IInv, TypeOK, Puts
<1>6. Books'
  <2>1. \A x \in Page : r.ref[x] = ram.ref[x] + Is(nil, x) - Is(slot[s], x)
    BY <1>1, <1>3, <1>4, PagesAssumption DEF Is
  <2>2. swmap' = [d \in Swap |-> swmap[d] + Is(nil, d) - Is(slot[s], d)]
    <3>1. swmap' = IF slot[s] \in Swap THEN putswap(slot[s]) ELSE swmap
      BY <1>2, PagesAssumption
    <3> QED
      BY <3>1, PagesAssumption, SwapLeft
  <2>3. \A x \in Page : ram'.ref[x] = ram.ref[x] + Is(nil, x) - Is(slot[s], x)
    BY <2>1, <1>1
  <2>4. Puts(s, nil) /\ UNCHANGED <<new, aux, io>> /\ Kept(ram')
    BY <1>1, <1>2, <1>4
  <2> QED
    BY <2>2, <2>3, <2>4, SlotBooks
<1>7. Used'
  BY <1>2 DEF IInv, Used, Puts, TypeOK
<1>8. ASSUME NEW q \in Proc PROVE Faulting(q)'
  <2>1. Faulting(q) /\ (pc[q] # "user" => seg[q] \in Seg)
    BY OwnSegment DEF IInv
  <2>2. \/ slot'[seg[q]] = slot[seg[q]]
        \/ pc[q] \notin {"common", "dup"} /\ slot'[seg[q]] = nil
        \/ pc[q] = "user"
    BY <2>1, PagesAssumption DEF Puts, IInv, TypeOK, Faulting
  <2>3. new[q] # nil => new[q] \in Page /\ new[q] # out
    BY <1>1, Counted DEF IInv, TypeOK, Sole
  <2>4. new[q] # nil => /\ ram'.ref[new[q]] = ram.ref[new[q]]
                        /\ \A t \in Tag : cachedAs(ram', new[q], t) => cachedAs(ram, new[q], t)
    BY <2>3, <1>1, <1>3, <1>4
  <2> QED
    BY <2>1, <2>2, <2>4, <1>2, StillFaulting
<1> QED
  BY <1>5, <1>6, <1>7, <1>8 DEF IInv

\* Nobody is in a fault on the segment that is paged out.
LEMMA PageoutSwapStep ==
    ASSUME IInv, NEW s \in Seg, lk[s] = nil, slot[s] \in Page, flush(s),
           \A q \in Users(s) : pc[q] \notin {"load", "reload"},
           io.at = "idle", \E d \in Swap : swmap[d] = 0,
           ram' = Sent(ram, slot[s], newswap), Puts(s, newswap),
           swmap' = [swmap EXCEPT ![newswap] = 1],
           io' = [page |-> slot[s], at |-> "write"],
           UNCHANGED <<type, seg, lk, disk, fault, aux>>
    PROVE  IInv'
<1>1. PICK out \in Page, r \in {ram'} : out = slot[s]
  OBVIOUS
<1>2. PICK t \in Swap : t = newswap /\ swmap[t] = 0
  BY SwapAddress
<1>3. UNCHANGED <<seg, lk, disk, pc, write, rec, new, entry, aux>>
  BY DEF fault
<1>4. Kept(ram) /\ ram.ref \in [Page -> Nat] /\ ram.ref[out] # 0
  BY <1>1, Counted DEF IInv, Books, Kept, Ram
<1>5. /\ Kept(r) /\ r.ref = [ram.ref EXCEPT ![out] = @ + 1]
      /\ \A x \in Page, u \in Tag :
           cachedAs(r, x, u) <=>
             IF x = out THEN u = t
             ELSE cachedAs(ram, x, u) /\ ~(u = t /\ x = Head(ram.chain[t]))
      /\ \A x \in Page : r.data[x] = Left(r, ram, x)
  <2>1. r = Sent(ram, out, t) /\ t \in Tag
    BY <1>1, <1>2 DEF Tag
  <2> QED
    BY <2>1, <1>4, SwappedOut
<1>6. TypeOK'
  <2>1. tlb' \in [Proc -> Entry \cup {nil}]
    BY DEF flush, IInv, TypeOK
  <2>2. /\ io' \in [page : Page \cup {nil}, at : {"idle", "write", "writing", "put"}]
        /\ io'.at # "idle" /\ io'.page # nil
    BY PagesAssumption
  <2>3. slot' \in [Seg -> Page \cup Swap \cup {nil}]
    BY <1>2 DEF IInv, TypeOK, Puts
  <2> QED
    BY <2>1, <2>2, <2>3, <1>3 DEF IInv, TypeOK
<1>7. Books'
  <2>1. \A x : Times(Seg, slot', x) = Times(Seg, slot, x) + Is(t, x) - Is(out, x)
    BY <1>1, <1>2, Slotted DEF IInv
  <2>2. \A x : Times(Seg, slot, x) \in Nat /\ Times(Proc, new, x) \in Nat
    BY Counted
  <2>3. ASSUME NEW x \in Page PROVE r.ref[x] = Holders(x)'
    <3>1. Times(Seg, slot', x) = Times(Seg, slot, x) - (IF x = out THEN 1 ELSE 0)
      <4>1. Is(t, x) = 0 /\ Is(out, x) = IF x = out THEN 1 ELSE 0
        BY PagesAssumption DEF Is
      <4> QED
        BY <4>1, <2>1, <2>2
    <3>2. ioHolds(x) = 0 /\ ioHolds(x)' = IF x = out THEN 2 ELSE 0
      BY <1>1, PagesAssumption DEF ioHolds, IInv, TypeOK
    <3>3. Holders(x)' = Times(Seg, slot', x) + Times(Proc, new, x) + auxHolds(x)
                          + ioHolds(x)'
      BY <1>3 DEF Holders, Times, auxHolds
    <3>4. ram.ref[x] = Times(Seg, slot, x) + Times(Proc, new, x) + auxHolds(x)
                         + ioHolds(x)
      BY DEF IInv, Books, Holders
    <3>5. auxHolds(x) \in Nat
      BY DEF auxHolds
    <3>6. r.ref[x] = ram.ref[x] + IF x = out THEN 1 ELSE 0
      BY <1>4, <1>5
    <3> QED
      BY <3>1, <3>2, <3>3, <3>4, <3>5, <3>6, <2>2
  <2>4. swmap' = [d \in Swap |-> Times(Seg, slot', d)]
    <3>1. \A d \in Swap : swmap[d] = Times(Seg, slot, d) /\ Is(out, d) = 0
      BY PagesAssumption DEF IInv, Books, Is
    <3>2. \A d \in Swap : Times(Seg, slot', d) = IF d = t THEN 1 ELSE swmap[d]
      BY <3>1, <2>1, <2>2, <1>2 DEF Is
    <3>3. swmap = [d \in Swap |-> swmap[d]]
      BY DEF IInv, Books
    <3> QED
      BY <3>2, <3>3, <1>2
  <2> QED
    BY <2>3, <2>4, <1>1, <1>5 DEF Books, Times
<1>8. Used'
  <2>1. slot[s] # nil
    BY PagesAssumption
  <2> QED
    BY <2>1, <1>3 DEF IInv, Used, Puts, TypeOK
<1>9. ASSUME NEW q \in Proc PROVE Faulting(q)'
  <2>1. Faulting(q) /\ (pc[q] # "user" => seg[q] \in Seg)
    BY OwnSegment DEF IInv
  <2>2. \/ slot'[seg[q]] = slot[seg[q]]
        \/ pc[q] \notin {"common", "dup", "load", "reload"}
    BY <2>1, PagesAssumption DEF Puts, IInv, TypeOK, Faulting, Users
  <2>3. new[q] # nil => new[q] \in Page /\ new[q] # out
    BY <1>1, Counted DEF IInv, TypeOK, Sole
  <2>4. new[q] # nil => /\ ram'.ref[new[q]] = ram.ref[new[q]]
                        /\ \A u \in Tag : cachedAs(ram', new[q], u) => cachedAs(ram, new[q], u)
    BY <2>3, <1>1, <1>4, <1>5
  <2> QED
    BY <2>1, <2>2, <2>4, <1>3, StillFaulting
<1> QED
  BY <1>6, <1>7, <1>8, <1>9 DEF IInv

LEMMA PageoutStep ==
    ASSUME IInv, "share" \notin Hazards, NEW s \in Seg, pageout(s) PROVE IInv'
<1>1. /\ io.at = "idle" /\ lk[s] = nil /\ slot[s] \in Page /\ flush(s)
      /\ UNCHANGED <<type, seg, lk, disk, fault, aux>>
  BY DEF pageout
<1>2. CASE /\ type = "text" /\ ram' = putpage(ram, slot[s])
           /\ slot' = [slot EXCEPT ![s] = nil] /\ UNCHANGED <<swmap, io>>
  BY <1>1, <1>2, PageoutTextStep DEF Puts
<1>3. CASE /\ type # "text" /\ \E d \in Swap : swmap[d] = 0
           /\ ram' = LET m == uncachepage(cachedel(ram, newswap), slot[s])
                     IN  cachepage([m EXCEPT !.ref[slot[s]] = @ + 1], slot[s], newswap)
           /\ swmap' = [swmap EXCEPT ![newswap] = 1]
           /\ slot' = [slot EXCEPT ![s] = newswap]
           /\ io' = [page |-> slot[s], at |-> "write"]
  <2>1. \A q \in Users(s) : pc[q] \notin {"load", "reload"}
    BY <1>3 DEF pageout
  <2>2. ram' = Sent(ram, slot[s], newswap) /\ Puts(s, newswap)
    BY <1>3 DEF Sent, Puts
  <2> QED
    BY <2>1, <2>2, <1>1, <1>3, PageoutSwapStep
<1> QED
  BY <1>2, <1>3 DEF pageout

\* A step that takes no page from a segment or a fault.
LEMMA AsideStep ==
    ASSUME IInv, Kept(ram'), UNCHANGED <<slot, new, swmap, seg, lk, pc, write, rec, entry>>,
           \A x \in Page : ram'.ref[x] = ram.ref[x] + auxHolds(x)' - auxHolds(x)
                                           + ioHolds(x)' - ioHolds(x),
           \A q \in Proc : new[q] # nil =>
             /\ ram'.ref[new[q]] = ram.ref[new[q]]
             /\ \A t \in Tag : cachedAs(ram', new[q], t) => cachedAs(ram, new[q], t)
    PROVE  Books' /\ Used' /\ \A q \in Proc : Faulting(q)'
<1>1. Books'
  BY OtherBooks
<1>2. Used'
  BY DEF IInv, Used
<1>3. \A q \in Proc : Faulting(q)'
  BY StillFaulting DEF IInv
<1> QED
  BY <1>1, <1>2, <1>3

LEMMA ExecuteioStep ==
    ASSUME IInv, executeio PROVE IInv'
<1>1. PICK pg \in Page : pg = io.page
  BY DEF executeio, IInv, TypeOK
<1>2. /\ Kept(ram) /\ ram.ref[pg] \in Nat /\ ram.ref[pg] # 0
      /\ io.at # "put" => ram.ref[pg] >= 2
      /\ io.at # "idle" /\ disk \in [Swap -> Datum]
  BY <1>1, Counted, PagesAssumption DEF IInv, Books, Kept, Ram, TypeOK
<1>3. UNCHANGED <<type, seg, slot, lk, swmap, pc, write, rec, new, entry, tlb, aux>>
  BY DEF executeio, fault
<1>4. /\ Kept(ram') /\ disk' \in [Swap -> Datum]
      /\ io' \in [page : Page \cup {nil}, at : {"idle", "write", "writing", "put"}]
      /\ io'.at = "idle" <=> io'.page = nil
      /\ \A x \in Page \ {pg} : ram'.ref[x] = ram.ref[x] /\ ioHolds(x) = 0 /\ ioHolds(x)' = 0
      /\ ioHolds(pg) \in Int /\ ioHolds(pg)' \in Int
      /\ ram'.ref[pg] = ram.ref[pg] + ioHolds(pg)' - ioHolds(pg)
      /\ \A x, t : cachedAs(ram', x, t) <=> cachedAs(ram, x, t)
  <2>1. \/ /\ io.at = "write" /\ io' = [io EXCEPT !.at = "writing"] /\ ram' = ram
           /\ \E d, v : v = "junk" /\ disk' = [disk EXCEPT ![d] = v]
        \/ /\ io.at = "writing" /\ io' = [io EXCEPT !.at = "put"]
           /\ ram' = [ram EXCEPT !.ref[pg] = @ - 1]
           /\ \E d, v : v = ram.data[pg] /\ disk' = [disk EXCEPT ![d] = v]
        \/ /\ io.at = "put" /\ io' = [page |-> nil, at |-> "idle"]
           /\ ram' = putpage(ram, pg) /\ disk' = disk
    BY <1>1 DEF executeio
  <2>2. ram.data[pg] \in Datum /\ "junk" \in Datum /\ pg # nil
    BY <1>2, PagesAssumption DEF Kept, Ram, Datum
  <2>3. disk' \in [Swap -> Datum]
    BY <2>1, <2>2, <1>2
  <2>4. /\ io' \in [page : Page \cup {nil}, at : {"idle", "write", "writing", "put"}]
        /\ io'.at = "idle" <=> io'.page = nil
    BY <2>1, <1>1, <2>2 DEF IInv, TypeOK
  <2>5. \A x \in Page \ {pg} : ioHolds(x) = 0 /\ ioHolds(x)' = 0
    BY <2>1, <1>1, PagesAssumption DEF ioHolds, IInv, TypeOK
  <2>6. PICK m, r : m = ram /\ r = ram'
    OBVIOUS
  <2>7. CASE io.at = "write"
    <3>1. ioHolds(pg) = 2 /\ ioHolds(pg)' = 2 /\ ram' = ram
      BY <2>1, <2>7, <1>1 DEF ioHolds, IInv, TypeOK
    <3> QED
      BY <3>1, <2>3, <2>4, <2>5, <1>2
  <2>8. CASE io.at = "writing"
    <3>1. ioHolds(pg) = 2 /\ ioHolds(pg)' = 1
      BY <2>1, <2>8, <1>1 DEF ioHolds, IInv, TypeOK
    <3>2. PICK n : n = m.ref[pg] - 1
      OBVIOUS
    <3>3. n \in Nat \ {0} /\ Kept(m) /\ m.ref[pg] # 0
      BY <3>2, <2>6, <2>8, <1>2
    <3>4. r = Referred(m, pg, n)
      BY <3>2, <2>1, <2>6, <2>8, <1>2 DEF Referred, Kept, Ram
    <3>5. /\ Kept(r) /\ r.ref = [m.ref EXCEPT ![pg] = n] /\ r.free = m.free
          /\ r.chain = m.chain /\ r.data = m.data
          /\ \A x, t : cachedAs(r, x, t) <=> cachedAs(m, x, t)
      BY <3>3, <3>4, Held
    <3>6. r.ref[pg] = m.ref[pg] - 1 /\ \A x \in Page \ {pg} : r.ref[x] = m.ref[x]
      BY <3>2, <3>3, <3>5 DEF Kept, Ram
    <3>7. /\ Kept(ram') /\ ram'.ref[pg] = ram.ref[pg] - 1
          /\ \A x \in Page \ {pg} : ram'.ref[x] = ram.ref[x]
          /\ \A x, t : cachedAs(ram', x, t) <=> cachedAs(ram, x, t)
      BY <3>5, <3>6, <2>6
    <3>8. /\ ioHolds(pg) \in Int /\ ioHolds(pg)' \in Int
          /\ ram'.ref[pg] = ram.ref[pg] + ioHolds(pg)' - ioHolds(pg)
      BY <3>1, <3>7, <1>2
    <3> QED
      BY <3>7, <3>8, <2>3, <2>4, <2>5
  <2>9. CASE io.at = "put"
    <3>1. ioHolds(pg) = 1 /\ ioHolds(pg)' = 0
      BY <2>1, <2>2, <2>9, <1>1 DEF ioHolds, IInv, TypeOK
    <3>2. r = putpage(m, pg) /\ Kept(m) /\ m.ref[pg] # 0
      BY <2>1, <2>6, <2>9, <1>2
    <3>3. /\ Kept(r) /\ r.ref = [m.ref EXCEPT ![pg] = @ - 1]
          /\ r.chain = m.chain
          /\ \A x, t : cachedAs(r, x, t) <=> cachedAs(m, x, t)
          /\ \A x \in Page : r.data[x] = Left(r, m, x)
      BY <3>2, PutBack
    <3>4. r.ref[pg] = m.ref[pg] - 1 /\ \A x \in Page \ {pg} : r.ref[x] = m.ref[x]
      BY <3>2, <3>3 DEF Kept, Ram
    <3>5. /\ Kept(ram') /\ ram'.ref[pg] = ram.ref[pg] - 1
          /\ \A x \in Page \ {pg} : ram'.ref[x] = ram.ref[x]
          /\ \A x, t : cachedAs(ram', x, t) <=> cachedAs(ram, x, t)
      BY <3>3, <3>4, <2>6
    <3>6. /\ ioHolds(pg) \in Int /\ ioHolds(pg)' \in Int
          /\ ram'.ref[pg] = ram.ref[pg] + ioHolds(pg)' - ioHolds(pg)
      BY <3>1, <3>5, <1>2
    <3> QED
      BY <3>5, <3>6, <2>3, <2>4, <2>5
  <2> QED
    BY <2>1, <2>7, <2>8, <2>9
<1>5. TypeOK'
  BY <1>3, <1>4 DEF IInv, TypeOK
<1>6. \A x \in Page : ram'.ref[x] = ram.ref[x] + auxHolds(x)' - auxHolds(x)
                                      + ioHolds(x)' - ioHolds(x)
  <2> TAKE x \in Page
  <2>1. auxHolds(x)' = auxHolds(x) /\ auxHolds(x) \in Int /\ ram.ref[x] \in Int
    BY <1>2, <1>3 DEF auxHolds, Kept, Ram
  <2>2. CASE x = pg
    BY <2>1, <2>2, <1>4
  <2>3. CASE x # pg
    BY <2>1, <2>3, <1>4
  <2> QED
    BY <2>2, <2>3
<1>7. \A q \in Proc : new[q] # nil =>
        /\ ram'.ref[new[q]] = ram.ref[new[q]]
        /\ \A t \in Tag : cachedAs(ram', new[q], t) => cachedAs(ram, new[q], t)
  BY <1>1, <1>4, Counted DEF IInv, TypeOK, Sole
<1>8. Books' /\ Used' /\ \A q \in Proc : Faulting(q)'
  BY <1>3, <1>4, <1>6, <1>7, AsideStep
<1> QED
  BY <1>5, <1>8 DEF IInv

LEMMA AuxpageStep ==
    ASSUME IInv, auxpage PROVE IInv'
<1>1. PICK pg, m, r : pg = Head(ram.free) /\ m = ram /\ r = ram'
  OBVIOUS
<1>2. /\ aux' = aux \cup {pg}
      /\ UNCHANGED <<type, seg, slot, lk, swmap, pc, write, rec, new, entry, tlb, disk, io>>
  BY <1>1 DEF auxpage, fault, pager
<1>3. /\ pg \in Page /\ m.ref[pg] = 0
      /\ Kept(r) /\ r.ref = [m.ref EXCEPT ![pg] = 1]
      /\ r.data = [m.data EXCEPT ![pg] = "junk"]
      /\ \A x \in Page, t \in Tag :
           cachedAs(r, x, t) <=> cachedAs(m, x, t) /\ x # pg
  <2>1. r = newpage(m) /\ Kept(m) /\ m.free # <<>> /\ pg = Head(m.free)
    BY <1>1 DEF auxpage, IInv, Books
  <2> QED
    BY <2>1, Taken
<1>4. pg \notin aux
  BY <1>1, <1>3, Counted
<1>5. TypeOK'
  BY <1>2, <1>3 DEF IInv, TypeOK
<1>6. \A x \in Page : ram'.ref[x] = ram.ref[x] + auxHolds(x)' - auxHolds(x)
                                      + ioHolds(x)' - ioHolds(x)
  <2> TAKE x \in Page
  <2>1. /\ ioHolds(x)' = ioHolds(x) /\ ioHolds(x) \in Int
        /\ ram.ref \in [Page -> Nat]
    BY <1>2 DEF ioHolds, IInv, Books, Kept, Ram
  <2>2. auxHolds(x) = (IF x \in aux THEN 1 ELSE 0)
        /\ auxHolds(x)' = (IF x \in aux \/ x = pg THEN 1 ELSE 0)
    BY <1>2 DEF auxHolds
  <2>3. r.ref[x] = IF x = pg THEN 1 ELSE ram.ref[x]
    BY <2>1, <1>1, <1>3
  <2>4. ram.ref[pg] = 0
    BY <1>1, <1>3
  <2> QED
    BY <2>1, <2>2, <2>3, <2>4, <1>1, <1>4
<1>7. \A q \in Proc : new[q] # nil =>
        /\ ram'.ref[new[q]] = ram.ref[new[q]]
        /\ \A t \in Tag : cachedAs(ram', new[q], t) => cachedAs(ram, new[q], t)
  <2>1. \A q \in Proc : new[q] # nil => new[q] \in Page /\ new[q] # pg
    BY <1>1, <1>3, Counted DEF IInv, TypeOK
  <2>2. ram.ref \in [Page -> Nat]
    BY DEF IInv, Books, Kept, Ram
  <2> QED
    BY <2>1, <2>2, <1>1, <1>3
<1>8. Books' /\ Used' /\ \A q \in Proc : Faulting(q)'
  BY <1>1, <1>2, <1>3, <1>6, <1>7, AsideStep
<1> QED
  BY <1>5, <1>8 DEF IInv

LEMMA AuxfreeStep ==
    ASSUME IInv, auxfree PROVE IInv'
<1>1. PICK pg \in aux : ram' = putpage(ram, pg) /\ aux' = aux \ {pg}
  BY DEF auxfree
<1>2. UNCHANGED <<type, seg, slot, lk, swmap, pc, write, rec, new, entry, tlb, disk, io>>
  BY DEF auxfree, fault, pager
<1>3. PICK m, r : m = ram /\ r = ram'
  OBVIOUS
<1>4. pg \in Page /\ Kept(m) /\ m.ref[pg] # 0 /\ m.ref \in [Page -> Nat]
  BY <1>3, Counted DEF IInv, TypeOK, Books, Kept, Ram
<1>5. /\ Kept(r) /\ r.ref = [m.ref EXCEPT ![pg] = @ - 1]
      /\ r.chain = m.chain
      /\ \A x, t : cachedAs(r, x, t) <=> cachedAs(m, x, t)
      /\ \A x \in Page : r.data[x] = Left(r, m, x)
  <2>1. r = putpage(m, pg)
    BY <1>1, <1>3
  <2> QED
    BY <2>1, <1>4, PutBack
<1>6. TypeOK'
  BY <1>1, <1>2 DEF IInv, TypeOK
<1>7. \A x \in Page : ram'.ref[x] = ram.ref[x] + auxHolds(x)' - auxHolds(x)
                                      + ioHolds(x)' - ioHolds(x)
  <2> TAKE x \in Page
  <2>1. ioHolds(x)' = ioHolds(x) /\ ioHolds(x) \in Int
    BY <1>2 DEF ioHolds
  <2>2. auxHolds(x) = (IF x \in aux THEN 1 ELSE 0)
        /\ auxHolds(x)' = (IF x \in aux /\ x # pg THEN 1 ELSE 0)
    BY <1>1 DEF auxHolds
  <2>3. r.ref[x] = IF x = pg THEN m.ref[x] - 1 ELSE m.ref[x]
    BY <1>4, <1>5
  <2> QED
    BY <2>1, <2>2, <2>3, <1>1, <1>3, <1>4
<1>8. \A q \in Proc : new[q] # nil =>
        /\ ram'.ref[new[q]] = ram.ref[new[q]]
        /\ \A t \in Tag : cachedAs(ram', new[q], t) => cachedAs(ram, new[q], t)
  <2>1. \A q \in Proc : new[q] # nil => new[q] \in Page /\ new[q] # pg
    BY Counted DEF IInv, TypeOK, Sole
  <2> QED
    BY <2>1, <1>3, <1>4, <1>5
<1>9. Books' /\ Used' /\ \A q \in Proc : Faulting(q)'
  BY <1>2, <1>3, <1>5, <1>7, <1>8, AsideStep
<1> QED
  BY <1>6, <1>9 DEF IInv

LEMMA ImagereclaimStep ==
    ASSUME IInv, imagereclaim PROVE IInv'
<1>1. UNCHANGED <<type, seg, slot, lk, swmap, pc, write, rec, new, entry, tlb, disk, io, aux>>
  BY DEF imagereclaim, fault, pager
<1>2. PICK m, r : m = ram /\ r = ram'
  OBVIOUS
<1>3. /\ Kept(r) /\ r.ref = m.ref /\ r.free = m.free
      /\ \A x \in Page, t \in Tag :
           cachedAs(r, x, t) <=> cachedAs(m, x, t) /\ m.ref[x] # 0
      /\ \A pg \in Page : r.data[pg] = Left(r, m, pg)
  <2>1. Kept(m) /\ r = Reclaim(m)
    BY <1>2 DEF imagereclaim, Reclaim, IInv, Books
  <2> QED
    BY <2>1, Reclaimed
<1>4. TypeOK'
  BY <1>1 DEF IInv, TypeOK
<1>5. Books' /\ Used'
  BY <1>1, <1>2, <1>3, QuietStep
<1>6. \A q \in Proc : Faulting(q)'
  BY <1>1, <1>2, <1>3, StillFaulting DEF IInv, TypeOK
<1> QED
  BY <1>4, <1>5, <1>6 DEF IInv
-----------------------------------------------------------------------------
(* The invariant holds.                                                    *)

LEMMA Initially ==
    ASSUME Init PROVE IInv
<1>1. /\ ram.free \in Seq(Page) /\ Once(ram.free) /\ \A x : On(x, ram.free) <=> x \in Page
      /\ ram.ref = [pg \in Page |-> 0] /\ ram.chain = [t \in Tag |-> <<>>]
      /\ ram \in Ram
  <2>1. PICK f \in SetToSeqs(Page) :
          ram = [ref   |-> [pg \in Page |-> 0], free  |-> f,
                 chain |-> [t \in Tag |-> <<>>],
                 data  |-> [pg \in Page |-> "junk"]]
    BY DEF Init
  <2>2. f \in Seq(Page) /\ Once(f) /\ \A x : On(x, f) <=> x \in Page
    BY PagesAssumption, OrderQueue
  <2>3. <<>> \in Seq(Page) /\ "junk" \in Datum
    BY DEF Datum
  <2>4. ram \in Ram
    BY <2>1, <2>2, <2>3 DEF Ram
  <2> QED
    BY <2>1, <2>2, <2>4
<1>2. \A x, t : t \in Tag => ~cachedAs(ram, x, t)
  BY <1>1, CachedOn DEF On
<1>3. Kept(ram)
  BY <1>1, <1>2 DEF Kept, Once
<1>4. TypeOK
  BY PagesAssumption DEF Init, TypeOK, Places, Datum
<1>5. \A x : x # nil => Times(Seg, slot, x) = 0 /\ Times(Proc, new, x) = 0
  BY PagesAssumption, Timed DEF Init
<1>6. Books
  <2>1. \A pg \in Page : Holders(pg) = 0
    BY <1>5, PagesAssumption DEF Init, Holders, auxHolds, ioHolds
  <2>2. \A d \in Swap : Times(Seg, slot, d) = 0
    BY <1>5, PagesAssumption
  <2>3. swmap = [d \in Swap |-> Times(Seg, slot, d)]
    BY <2>2 DEF Init
  <2> QED
    BY <1>1, <1>3, <2>1, <2>3 DEF Books
<1>7. \A q \in Proc : Faulting(q)
  BY PagesAssumption DEF Init, Faulting
<1>8. Used
  BY DEF Init, Used
<1> QED
  BY <1>4, <1>6, <1>7, <1>8 DEF IInv

LEMMA Stutter ==
    ASSUME IInv, UNCHANGED vars PROVE IInv'
<1>1. UNCHANGED <<ram, slot, new, aux, io, swmap, seg, lk, pc, write, rec, entry, tlb, disk>>
  BY DEF vars
<1>2. TypeOK'
  BY <1>1 DEF IInv, TypeOK
<1>3. Books' /\ Used'
  BY <1>1, QuietStep DEF IInv, Books
<1>4. \A q \in Proc : Faulting(q)'
  BY <1>1, StillFaulting DEF IInv
<1> QED
  BY <1>2, <1>3, <1>4 DEF IInv

LEMMA Inductive ==
    ASSUME "share" \notin Hazards, IInv, [Next]_vars PROVE IInv'
<1>1. ASSUME NEW p \in Proc, waits(p) PROVE IInv'
  BY <1>1, QuietSteps, ZerofillStep, PiocachedStep, PioreadStep, PioenterStep,
     PioerrorStep DEF waits
<1>2. ASSUME NEW p \in Proc, holds(p) PROVE IInv'
  BY <1>2, QuietSteps, CopyOnWriteStep, WriteInPlaceStep DEF holds
<1>3. ASSUME NEW p \in Proc, store(p) PROVE IInv'
  BY <1>3, StoreStep
<1>4. ASSUME NEW p \in Proc, touch(p, TRUE) \/ touch(p, FALSE) PROVE IInv'
  BY <1>4, QuietSteps
<1>5. ASSUME NEW p \in Proc, exit(p) \/ exec(p) PROVE IInv'
  BY <1>5, LeaveSteps
<1>6. ASSUME NEW p \in Proc, NEW q \in Proc, fork(p, q) PROVE IInv'
  BY <1>6, ForkStep
<1>7. ASSUME NEW s \in Seg, pageout(s) PROVE IInv'
  BY <1>7, PageoutStep
<1>8. ASSUME executeio \/ auxpage \/ auxfree \/ imagereclaim PROVE IInv'
  BY <1>8, ExecuteioStep, AuxpageStep, AuxfreeStep, ImagereclaimStep
<1>9. ASSUME UNCHANGED vars PROVE IInv'
  BY <1>9, Stutter
<1> QED
  BY <1>1, <1>2, <1>3, <1>4, <1>5, <1>6, <1>7, <1>8, <1>9 DEF Next

LEMMA BooksKept ==
    ASSUME IInv PROVE PagesOK
<1>1. \A pg \in Page :
        /\ ram.ref[pg] = count(pg)
             + Cardinality({p \in Proc : new[p] = pg})
             + (IF pg \in aux THEN 1 ELSE 0)
             + (IF pg # io.page THEN 0 ELSE IF io.at = "put" THEN 1 ELSE 2)
        /\ pg \in ToSet(ram.free) <=> ram.ref[pg] = 0
  BY OnToSet DEF IInv, Books, Kept, Holders, Times, count, auxHolds, ioHolds
<1>2. ASSUME NEW pg \in Page PROVE Cardinality({t \in Tag : cachedAs(ram, pg, t)}) <= 1
  <2>1. PICK C : C = {t \in Tag : cachedAs(ram, pg, t)}
    OBVIOUS
  <2>2. \A t, u \in C : t = u
    BY <2>1 DEF IInv, Books, Kept
  <2>3. CASE C = {}
    BY <2>1, <2>3, FS_EmptySet
  <2>4. CASE C # {}
    <3>1. PICK t \in C : C = {t}
      BY <2>2, <2>4
    <3>2. Cardinality({t}) = 1
      BY FS_Singleton
    <3> QED
      BY <2>1, <3>1, <3>2
  <2> QED
    BY <2>3, <2>4
<1>3. IsInjective(ram.free) /\ \A t \in Tag : IsInjective(ram.chain[t])
  BY DEF IInv, Books, Kept, Once, IsInjective
<1>4. \A d \in Swap : swmap[d] = count(d)
  BY DEF IInv, Books, Times, count
<1>5. FaultHasPage
  BY DEF IInv, Faulting, FaultHasPage
<1> QED
  BY <1>1, <1>2, <1>3, <1>4, <1>5 DEF PagesOK

\* Unless a segment of several processes is paged out while one of them is in
\* a fault, nothing is counted wrong whatever interleaves with what: every page
\* has a reference of each page table, fault, file and page out that holds it
\* and of nobody else (page.c, fault.c), the free list has the pages without
\* references, a page is in the cache once, the swap map counts the page tables
\* (swap.c), and a fault goes on with a page (label common of fixfault).
THEOREM PagesSound ==
    ASSUME "share" \notin Hazards PROVE Spec => []PagesOK
<1>1. Init => IInv
  BY Initially
<1>2. IInv /\ [Next]_vars => IInv'
  BY Inductive
<1>3. IInv => PagesOK
  BY BooksKept
<1> QED
  BY <1>1, <1>2, <1>3, PTL DEF Spec

-----------------------------------------------------------------------------
(***************************************************************************)
(* What a process sees of memory, without the interleavings named in       *)
(* Hazards and as long as the swap device does not look full: its own      *)
(* stores and those of the processes it shares the segment with.           *)
(***************************************************************************)

Quiet == Hazards = {} /\ ~swapfull

Loading(q) == pc[q] \in {"load", "reload"}
Writing == io.at \in {"write", "writing"}

\* A swap address is in the cache once, and on the way to the device stays
\* there.  What is cached is what would be read.
Cache ==
    /\ \A d \in Swap, f, g \in Page :
         cachedAs(ram, f, d) /\ cachedAs(ram, g, d) => f = g
    /\ Writing => \E d \in Swap : cachedAs(ram, io.page, d)
    /\ \A x \in Page : cachedAs(ram, x, image) => ram.data[x] = "init"
    /\ \A x \in Page, d \in Swap : cachedAs(ram, x, d) /\ swmap[d] # 0 =>
         disk[d] = ram.data[x] \/ (Writing /\ io.page = x)

\* One process reads a swap address, which nobody has in the cache meanwhile,
\* and it gets what is on the device.
Reads(q) ==
    /\ Loading(q) /\ rec[q] # nil =>
         /\ Page0(q) = rec[q] /\ \A x \in Page : ~cachedAs(ram, x, rec[q])
         /\ \A o \in Proc : Loading(o) /\ rec[o] = rec[q] => o = q
    /\ pc[q] = "reload" =>
         ram.data[new[q]] = IF rec[q] = nil THEN "init" ELSE disk[rec[q]]

\* A program text is never written.
Text == type = "text" =>
    \A s \in Seg : /\ slot[s] \notin Swap
                   /\ slot[s] \in Page => ram.data[slot[s]] = "init"

\* No other page table has the page, and none its swap address.
Private(m, w, pg) ==
    m.ref[pg] = 1 /\ \A d \in Swap : cachedAs(m, pg, d) => w[d] = 0

\* An entry e of q for the MMU is right.
Right(q, e) ==
    /\ e.page = Page0(q)
    /\ IF e.rw
       THEN /\ type # "text" /\ Private(ram, swmap, e.page)
            /\ ~cachedAs(ram, e.page, image)
       ELSE type = "text" \/ Users(seg[q]) = {q}

Mapped(q) ==
    /\ pc[q] # "putmmu" => entry[q] = nil
    /\ entry[q] # nil => Right(q, entry[q])
    /\ tlb[q] # nil /\ pc[q] # "putmmu" => Right(q, tlb[q])
    /\ seg[q] = nil => tlb[q] = nil
    /\ pc[q] = "dup" => type # "text" /\ Private(ram, swmap, Page0(q))

MInv == IInv /\ Cache /\ Text /\ \A q \in Proc : Reads(q) /\ Mapped(q)

\* What a swap address and a segment hold.
OnSwap(d, v) ==
    /\ \A x \in Page : cachedAs(ram, x, d) => ram.data[x] = v
    /\ (\A x \in Page : ~cachedAs(ram, x, d)) => disk[d] = v

Holds(s, v) ==
    IF slot[s] \in Page THEN ram.data[slot[s]] = v
    ELSE IF slot[s] \in Swap THEN OnSwap(slot[s], v) ELSE v = "init"

\* A step from the pages m to the pages r that changes no page that is held,
\* puts none of them into a cache, and takes none of them off the cache of its
\* swap address.
Still(m, r) ==
    /\ \A x \in Page : m.ref[x] # 0 /\ r.ref[x] # 0 => r.data[x] = m.data[x]
    /\ \A x \in Page, t \in Tag : cachedAs(r, x, t) =>
         \/ cachedAs(m, x, t) /\ r.data[x] = m.data[x]
         \/ m.ref[x] = 0 /\ t = image /\ r.data[x] = "init"
    /\ \A x \in Page, t \in Tag : cachedAs(m, x, t) /\ ~cachedAs(r, x, t) =>
         m.ref[x] = 0 \/ t = image

-----------------------------------------------------------------------------
(* The state.                                                              *)

LEMMA Shared ==
    ASSUME IInv, NEW pg \in Page, ram.ref[pg] # 0
    PROVE  /\ sharing(pg) <= 1 <=> Private(ram, swmap, pg)
           /\ Private(ram, swmap, pg) => sharing(pg) = 1
           /\ sharing(pg) > 1 <=> ~Private(ram, swmap, pg)
<1>1. ram.ref[pg] \in Nat \ {0} /\ \A d \in Swap : swmap[d] \in Nat
  BY Counted DEF IInv, Books, Kept, Ram
<1>2. CASE \A d \in Swap : ~cachedAs(ram, pg, d)
  <2>1. sharing(pg) = ram.ref[pg]
    BY <1>1, <1>2 DEF sharing, swapcount
  <2> QED
    BY <2>1, <1>1, <1>2 DEF Private
<1>3. CASE \E d \in Swap : cachedAs(ram, pg, d)
  <2>1. PICK d \in Swap : d = CHOOSE e \in Swap : cachedAs(ram, pg, e)
    BY <1>3
  <2>2. cachedAs(ram, pg, d)
    BY <2>1, <1>3
  <2>3. \A e \in Swap : cachedAs(ram, pg, e) => e = d
    BY <2>2 DEF IInv, Books, Kept, Tag
  <2>4. sharing(pg) = ram.ref[pg] + swmap[d]
    BY <2>1, <1>3 DEF sharing, swapcount
  <2>5. Private(ram, swmap, pg) <=> ram.ref[pg] = 1 /\ swmap[d] = 0
    BY <2>2, <2>3 DEF Private
  <2> QED
    BY <2>4, <2>5, <1>1
<1> QED
  BY <1>2, <1>3

\* Who else has a page that is private to a segment.
LEMMA Alone ==
    ASSUME IInv, NEW s \in Seg, NEW pg \in Page, slot[s] = pg, ram.ref[pg] = 1
    PROVE  /\ \A o \in Seg \ {s} : slot[o] # pg
           /\ \A q \in Proc : new[q] # pg
           /\ pg \notin aux /\ pg # io.page
<1>1. Holders(pg) = 1
  BY DEF IInv, Books
<1>2. Times(Seg, slot, pg) \in Nat \ {0} /\ Times(Proc, new, pg) \in Nat
  BY PagesAssumption, Timed
<1>3. auxHolds(pg) \in Nat /\ ioHolds(pg) \in Nat
  BY DEF auxHolds, ioHolds
<1>4. /\ Times(Seg, slot, pg) = 1 /\ Times(Proc, new, pg) = 0
      /\ auxHolds(pg) = 0 /\ ioHolds(pg) = 0
  BY <1>1, <1>2, <1>3 DEF Holders
<1>5. ASSUME NEW o \in Seg \ {s}, slot[o] = pg PROVE FALSE
  <2>1. Times(Seg, slot, pg) >= 2
    BY <1>5, PagesAssumption, Timed
  <2> QED
    BY <2>1, <1>4
<1>6. \A q \in Proc : new[q] # pg
  BY <1>4, PagesAssumption, Timed
<1> QED
  BY <1>4, <1>5, <1>6 DEF auxHolds, ioHolds

\* In the next state as well.
LEMMA EntriesHeld ==
    IInv => \A s \in Seg : slot[s] \in Page => ram.ref[slot[s]] # 0
  BY Counted

LEMMA EntriesHeldNext ==
    (IInv => \A s \in Seg : slot[s] \in Page => ram.ref[slot[s]] # 0)'
  BY EntriesHeld, PTL

LEMMA ContentsHeld ==
    IInv /\ Cache => \A s \in Seg : Users(s) # {} =>
      /\ Holds(s, contents(s))
      /\ \A v : Holds(s, v) => v = contents(s)
<1> SUFFICES ASSUME IInv, Cache, NEW s \in Seg, Users(s) # {}
             PROVE  /\ Holds(s, contents(s))
                    /\ \A v : Holds(s, v) => v = contents(s)
  OBVIOUS
<1>1. slot[s] \in Page \cup Swap \cup {nil}
  BY DEF IInv, TypeOK
<1>2. CASE slot[s] \in Page
  BY <1>2 DEF contents, Holds
<1>3. CASE slot[s] = nil
  <2>1. slot[s] \notin Page /\ slot[s] \notin Swap
    BY <1>3, PagesAssumption
  <2>2. Kept(ram) /\ image \in Tag
    BY DEF IInv, Books, Tag
  <2>3. found(ram, image) => ram.data[Head(ram.chain[image])] = "init"
    BY <2>2, FoundCached DEF Cache
  <2>4. contents(s) = "init"
    BY <2>1, <2>3, <1>3 DEF contents, place
  <2> QED
    BY <2>1, <2>4 DEF Holds
<1>4. CASE slot[s] \in Swap
  <2>1. PICK d \in Swap : d = slot[s]
    BY <1>4
  <2>2. d \notin Page /\ d # nil /\ d # image /\ place(d) = d /\ d \in Tag
    BY PagesAssumption DEF place, Tag
  <2>3. contents(s) = IF found(ram, d) THEN ram.data[Head(ram.chain[d])] ELSE disk[d]
    BY <2>1, <2>2 DEF contents
  <2>4. Kept(ram)
    BY DEF IInv, Books
  <2>5. CASE found(ram, d)
    <3>1. PICK x \in Page : x = Head(ram.chain[d]) /\ cachedAs(ram, x, d)
      BY <2>2, <2>4, <2>5, FoundCached
    <3>2. \A y \in Page : cachedAs(ram, y, d) <=> y = x
      BY <3>1 DEF Cache
    <3> QED
      BY <3>1, <3>2, <2>1, <2>2, <2>3, <2>5 DEF Holds, OnSwap
  <2>6. CASE ~found(ram, d)
    <3>1. \A y : ~cachedAs(ram, y, d)
      BY <2>2, <2>4, <2>6, FoundCached
    <3> QED
      BY <3>1, <2>1, <2>2, <2>3, <2>6 DEF Holds, OnSwap
  <2> QED
    BY <2>5, <2>6
<1> QED
  BY <1>1, <1>2, <1>3, <1>4

LEMMA ContentsNext ==
    (IInv /\ Cache => \A s \in Seg : Users(s) # {} =>
      /\ Holds(s, contents(s))
      /\ \A v : Holds(s, v) => v = contents(s))'
  BY ContentsHeld, PTL

-----------------------------------------------------------------------------
(* What a step leaves as it is when it is a Still one for the pages.       *)

LEMMA StillCache ==
    ASSUME IInv, Cache, Still(ram, ram'), disk' = disk, io' = io,
           \A d \in Swap : swmap'[d] # 0 => swmap[d] # 0
    PROVE  Cache'
<1>1. image \in Tag /\ Swap \subseteq Tag /\ \A d \in Swap : d # image
  BY PagesAssumption DEF Tag
<1>2. \A x, t : cachedAs(ram, x, t)' <=> cachedAs(ram', x, t)
  BY DEF cachedAs
<1>3. \A x \in Page, d \in Swap :
        cachedAs(ram', x, d) => cachedAs(ram, x, d) /\ ram'.data[x] = ram.data[x]
  BY <1>1 DEF Still
<1>4. \A x \in Page : cachedAs(ram', x, image) => ram'.data[x] = "init"
  BY <1>1 DEF Still, Cache
<1>5. Writing => \E d \in Swap : cachedAs(ram', io.page, d)
  <2> SUFFICES ASSUME Writing PROVE \E d \in Swap : cachedAs(ram', io.page, d)
    OBVIOUS
  <2>1. PICK d \in Swap : cachedAs(ram, io.page, d)
    BY DEF Cache
  <2>2. io.page \in Page /\ ram.ref[io.page] # 0
    BY Counted DEF Writing, IInv, TypeOK
  <2> QED
    BY <2>1, <2>2, <1>1 DEF Still
<1> QED
  BY <1>2, <1>3, <1>4, <1>5 DEF Cache, Writing

\* What is not in the cache stays as it is on the device.
DiskKept == \A d \in Swap :
    disk'[d] = disk[d] \/ \E x \in Page : cachedAs(ram', x, d)

LEMMA StillReads ==
    ASSUME IInv, IInv', Still(ram, ram'), DiskKept, NEW q \in Proc, Reads(q),
           pc'[q] = pc[q], new'[q] = new[q], rec'[q] = rec[q],
           Loading(q) /\ rec[q] # nil => slot'[seg'[q]] = slot[seg[q]],
           \A o \in Proc : Loading(o)' /\ rec'[o] \in Swap =>
             Loading(o) /\ rec'[o] = rec[o]
    PROVE  Reads(q)'
<1>1. \A x, t : cachedAs(ram, x, t)' <=> cachedAs(ram', x, t)
  BY DEF cachedAs
<1>2. rec[q] \in Swap \cup {nil} /\ \A d \in Swap : d # image /\ d \in Tag
  BY PagesAssumption DEF IInv, TypeOK, Tag
<1>3. pc[q] = "reload" => new[q] \in Page /\ ram.ref[new[q]] = 1
  BY DEF IInv, TypeOK, Faulting
<1>4. pc[q] = "reload" => ram'.ref[new[q]] = 1
  BY <1>3 DEF IInv, Faulting
<1>5. pc[q] = "reload" => ram'.data[new[q]] = ram.data[new[q]]
  BY <1>3, <1>4 DEF Still
<1>6. Loading(q) /\ rec[q] # nil => /\ \A x \in Page : ~cachedAs(ram', x, rec[q])
                                   /\ disk'[rec[q]] = disk[rec[q]]
  BY <1>2 DEF Still, Reads, DiskKept
<1>7. Loading(q)' <=> Loading(q)
  BY DEF Loading
<1>8. Loading(q) /\ rec[q] # nil => \A o \in Proc : Loading(o)' /\ rec'[o] = rec[q] => o = q
  BY <1>2 DEF Reads
<1>9. pc[q] = "reload" => Loading(q)
  BY DEF Loading
<1> QED
  BY <1>1, <1>5, <1>6, <1>7, <1>8, <1>9 DEF Reads, Page0

\* A segment holds what it held, wherever its page is now.
LEMMA StillHolds ==
    ASSUME IInv, IInv', Cache, Still(ram, ram'), DiskKept,
           NEW s \in Seg, slot'[s] = slot[s], NEW v, Holds(s, v)
    PROVE  Holds(s, v)'
<1>1. slot[s] \in Page => ram'.data[slot[s]] = ram.data[slot[s]]
  <2> SUFFICES ASSUME slot[s] \in Page PROVE ram'.data[slot[s]] = ram.data[slot[s]]
    OBVIOUS
  <2>1. ram.ref[slot[s]] # 0
    BY Counted
  <2>2. ram'.ref[slot[s]] # 0
    BY EntriesHeldNext
  <2> QED
    BY <2>1, <2>2 DEF Still
<1>2. ASSUME slot[s] \in Swap PROVE OnSwap(slot[s], v)'
  <2>1. PICK d \in Swap : d = slot[s]
    BY <1>2
  <2>2. d \notin Page /\ d \in Tag /\ d # image /\ swmap[d] # 0
    BY <2>1, PagesAssumption, Counted DEF Tag
  <2>3. OnSwap(d, v)
    BY <2>1, <2>2 DEF Holds
  <2>4. \A x \in Page : cachedAs(ram', x, d) => ram'.data[x] = v
    BY <2>2, <2>3 DEF Still, OnSwap
  <2>5. ASSUME \A x \in Page : ~cachedAs(ram', x, d) PROVE disk[d] = v
    <3>1. CASE \A x \in Page : ~cachedAs(ram, x, d)
      BY <3>1, <2>3 DEF OnSwap
    <3>2. ASSUME NEW x \in Page, cachedAs(ram, x, d) PROVE disk[d] = v
      <4>1. ram.data[x] = v
        BY <3>2, <2>3 DEF OnSwap
      <4>2. ram.ref[x] = 0
        BY <3>2, <2>2, <2>5 DEF Still
      <4>3. ~(Writing /\ io.page = x)
        BY <4>2, PagesAssumption, Counted
      <4> QED
        BY <3>2, <4>1, <4>3, <2>2 DEF Cache
    <3> QED
      BY <3>1, <3>2
  <2>6. \A x, t : cachedAs(ram, x, t)' <=> cachedAs(ram', x, t)
    BY DEF cachedAs
  <2>7. ASSUME \A x \in Page : ~cachedAs(ram', x, d) PROVE disk'[d] = v
    BY <2>2, <2>5, <2>7 DEF DiskKept
  <2> QED
    BY <2>1, <2>4, <2>6, <2>7 DEF OnSwap
<1> QED
  BY <1>1, <1>2 DEF Holds

\* A step lets a process q keep its entries, or leaves it without any.
Spared(q) ==
    /\ slot'[seg[q]] = slot[seg[q]]
    /\ Users(seg[q]) = {q} => Users(seg[q])' = {q}
    /\ \A pg \in Page :
         /\ slot[seg[q]] = pg /\ Private(ram, swmap, pg)
         /\ cachedAs(ram, pg, image) => pc[q] = "dup"
         => /\ ram'.ref[pg] = 1
            /\ \A t \in Tag : cachedAs(ram', pg, t) => cachedAs(ram, pg, t)
            /\ \A d \in Swap : cachedAs(ram', pg, d) => swmap'[d] = 0

Bare(q) == /\ tlb'[q] = nil \/ pc[q] = "putmmu"
           /\ entry[q] = nil /\ pc[q] # "dup"

LEMMA StillMapped ==
    ASSUME IInv, NEW q \in Proc, Mapped(q), type' = type,
           seg'[q] = seg[q], entry'[q] = entry[q], tlb'[q] \in {tlb[q], nil},
           \/ pc'[q] = pc[q]
           \/ pc[q] # "putmmu" /\ pc'[q] \notin {"putmmu", "dup"},
           Bare(q) \/ Spared(q)
    PROVE  Mapped(q)'
<1>1. Private(ram, swmap, Page0(q))' <=> Private(ram', swmap', slot'[seg'[q]])
  BY DEF Private, Page0, cachedAs
<1>3. CASE Bare(q)
  BY <1>3 DEF Bare, Mapped
<1>4. CASE Spared(q)
  <2>1. image \in Tag /\ Swap \subseteq Tag
    BY DEF Tag
  <2>2. \A pg \in Page :
          /\ slot[seg[q]] = pg /\ Private(ram, swmap, pg)
          /\ cachedAs(ram, pg, image) => pc[q] = "dup"
          => /\ Private(ram', swmap', pg)
             /\ cachedAs(ram', pg, image) => cachedAs(ram, pg, image)
    BY <1>4, <2>1 DEF Private, Spared
  <2>3. ASSUME NEW e \in Entry, Right(q, e) PROVE Right(q, e)'
    <3>1. e.page \in Page /\ e.page = slot[seg[q]]
      BY <2>3 DEF Entry, Right, Page0
    <3>2. Right(q, e)' <=>
            /\ e.page = slot'[seg'[q]]
            /\ IF e.rw
               THEN /\ type' # "text" /\ Private(ram', swmap', e.page)
                    /\ ~cachedAs(ram', e.page, image)
               ELSE type' = "text" \/ Users(seg[q])' = {q}
      BY DEF Right, Page0, Private, cachedAs, Users
    <3> QED
      BY <3>1, <3>2, <2>2, <2>3, <1>4 DEF Right, Page0, Spared
  <2>4. entry[q] # nil => entry[q] \in Entry
    BY DEF IInv, TypeOK
  <2>5. tlb[q] # nil => tlb[q] \in Entry
    BY DEF IInv, TypeOK
  <2>6. entry[q] # nil => Right(q, entry[q])'
    <3>1. PICK e : e = entry[q]
      OBVIOUS
    <3>2. e # nil => Right(q, e)'
      BY <3>1, <2>3, <2>4 DEF Mapped
    <3>3. e = entry'[q]
      BY <3>1
    <3> QED
      BY <3>1, <3>2, <3>3 DEF Right
  <2>7. tlb'[q] # nil /\ pc[q] # "putmmu" => Right(q, tlb[q])'
    <3>1. PICK e : e = tlb[q]
      OBVIOUS
    <3>2. e # nil /\ pc[q] # "putmmu" => Right(q, e)'
      BY <3>1, <2>3, <2>5 DEF Mapped
    <3>3. tlb'[q] # nil => e = tlb'[q]
      BY <3>1
    <3> QED
      BY <3>1, <3>2, <3>3 DEF Right
  <2>8. pc[q] = "dup" => type # "text" /\ Private(ram', swmap', slot[seg[q]])
    BY <2>2 DEF Mapped, Page0, IInv, Faulting
  <2> QED
    BY <2>6, <2>7, <2>8, <1>1, <1>4 DEF Mapped, Spared
<1> QED
  BY <1>3, <1>4

\* What a Still step needs to spare a process.
LEMMA StillSpared ==
    ASSUME IInv, Still(ram, ram'), NEW q \in Proc,
           slot'[seg[q]] = slot[seg[q]],
           Users(seg[q]) = {q} => Users(seg[q])' = {q},
           \A pg \in Page :
             /\ slot[seg[q]] = pg /\ Private(ram, swmap, pg)
             /\ cachedAs(ram, pg, image) => pc[q] = "dup"
             => /\ ram'.ref[pg] = 1
                /\ \A d \in Swap : cachedAs(ram, pg, d) => swmap'[d] = 0
    PROVE  Spared(q)
<1>1. Swap \subseteq Tag
  BY DEF Tag
<1>2. ASSUME NEW pg \in Page, ram.ref[pg] = 1, ram'.ref[pg] = 1, NEW t \in Tag,
             cachedAs(ram', pg, t)
      PROVE  cachedAs(ram, pg, t)
  BY <1>2 DEF Still
<1> QED
  BY <1>1, <1>2 DEF Spared, Private

\* A process whose segment has no page has no entry.
LEMMA Unmapped ==
    ASSUME IInv, NEW q \in Proc, Mapped(q), slot[seg[q]] \notin Page
    PROVE  /\ tlb[q] = nil \/ pc[q] = "putmmu"
           /\ entry[q] = nil /\ pc[q] # "dup"
<1>1. \A e \in Entry : ~Right(q, e)
  BY DEF Entry, Right, Page0
<1> QED
  BY <1>1 DEF IInv, TypeOK, Mapped, Faulting, Page0

\* No segment in use has other contents after the step.
Unseen == \A s \in Seg : \A v : Users(s) # {} /\ Holds(s, v) => Holds(s, v)'

\* A step that changes no page table.
LEMMA StillSeen ==
    ASSUME MInv, IInv', Still(ram, ram'), DiskKept, UNCHANGED <<type, slot>>
    PROVE  Text' /\ Unseen
<1>1. ASSUME NEW s \in Seg, NEW v, Holds(s, v) PROVE Holds(s, v)'
  BY <1>1, StillHolds DEF MInv
<1>2. Unseen
  BY <1>1 DEF Unseen
<1>3. Text'
  <2> SUFFICES ASSUME type = "text", NEW s \in Seg
               PROVE  /\ slot[s] \notin Swap
                      /\ slot[s] \in Page => ram'.data[slot[s]] = "init"
    BY DEF Text
  <2>1. slot[s] \notin Swap /\ (slot[s] \in Page => ram.data[slot[s]] = "init")
    BY DEF MInv, Text
  <2>2. slot[s] \in Page => ram.ref[slot[s]] # 0 /\ ram'.ref[slot[s]] # 0
    BY EntriesHeld, EntriesHeldNext DEF MInv
  <2> QED
    BY <2>1, <2>2 DEF Still
<1> QED
  BY <1>2, <1>3

LEMMA StillStep ==
    ASSUME MInv, IInv', Still(ram, ram'), UNCHANGED <<disk, io, type, slot, swmap>>
    PROVE  Cache' /\ Text' /\ Unseen
  BY StillCache, StillSeen DEF MInv, DiskKept

LEMMA StillOthers ==
    ASSUME MInv, IInv', Still(ram, ram'), DiskKept, UNCHANGED <<type, slot, swmap, seg>>,
           NEW q \in Proc, pc'[q] = pc[q], new'[q] = new[q], rec'[q] = rec[q],
           entry'[q] = entry[q], tlb'[q] = tlb[q],
           \A o \in Proc : Loading(o)' /\ rec'[o] \in Swap =>
             Loading(o) /\ rec'[o] = rec[o],
           \A pg \in Page : ram.ref[pg] = 1 /\ slot[seg[q]] = pg => ram'.ref[pg] = 1
    PROVE  Reads(q)' /\ Mapped(q)'
<1>1. Reads(q)'
  <2>1. IInv /\ Reads(q)
    BY DEF MInv
  <2> QED
    BY <2>1, StillReads
<1>2. Users(seg[q])' = Users(seg[q])
  BY DEF Users
<1>4. Spared(q)
  BY <1>2, StillSpared DEF MInv, Private
<1>3. Mapped(q)'
  BY <1>4, StillMapped DEF MInv
<1> QED
  BY <1>1, <1>3

LEMMA RightSame ==
    ASSUME UNCHANGED <<type, slot, seg, ram, swmap>>, NEW q, NEW e
    PROVE  Right(q, e)' <=> Right(q, e)
  BY DEF Right, Page0, Private, cachedAs, Users

\* The steps of a fault that leave the pages as they are.
LEMMA FaultMInv ==
    ASSUME Quiet, MInv, IInv', NEW p \in Proc,
           \/ touch(p, TRUE) \/ touch(p, FALSE) \/ resident(p) \/ piomissing(p)
           \/ readOnly(p) \/ dupretry(p) \/ putmmu(p)
    PROVE  MInv' /\ Unseen /\ seg' = seg
<1>1. UNCHANGED <<type, seg, slot, ram, swmap, disk, io, new, aux>>
  BY DEF touch, resident, piomissing, readOnly, dupretry, putmmu, pager
<1>2. Still(ram, ram') /\ DiskKept
  BY <1>1 DEF Still, DiskKept
<1>3. Cache' /\ Text' /\ Unseen
  BY <1>1, <1>2, StillStep
<1>4. \A q \in Proc \ {p} : /\ pc'[q] = pc[q] /\ new'[q] = new[q] /\ rec'[q] = rec[q]
                            /\ entry'[q] = entry[q] /\ tlb'[q] = tlb[q]
  BY <1>1 DEF MInv, IInv, TypeOK, touch, resident, piomissing, readOnly, dupretry,
     putmmu, Goto, finish
<1>5. ASSUME NEW q \in Proc PROVE Reads(q)'
  <2>1. CASE piomissing(p)
    <3>1. /\ pc'[p] = "load" /\ rec'[p] = slot[seg[p]] /\ pc[p] = "fault"
          /\ ~found(ram, place(slot[seg[p]])) /\ seg[p] \in Seg /\ slot[seg[p]] \notin Page
          /\ \/ place(slot[seg[p]]) = image
             \/ \A o \in Proc : Loading(o) => rec[o] # place(slot[seg[p]])
      BY <2>1, OwnSegment DEF Quiet, MInv, IInv, TypeOK, piomissing, Goto, Page0, Loading
    <3>2. PICK d \in Swap \cup {nil} : d = slot[seg[p]]
      BY <3>1 DEF MInv, IInv, TypeOK
    <3>3. d # nil => /\ place(d) = d /\ d # image
                     /\ \A x \in Page : ~cachedAs(ram, x, d)
                     /\ \A o \in Proc : Loading(o) => rec[o] # d
      <4> SUFFICES ASSUME d # nil
                   PROVE  /\ place(d) = d /\ d # image
                          /\ \A x \in Page : ~cachedAs(ram, x, d)
                          /\ \A o \in Proc : Loading(o) => rec[o] # d
        OBVIOUS
      <4>1. place(d) = d /\ d # image /\ d \in Tag
        BY PagesAssumption DEF place, Tag
      <4>2. Kept(ram) /\ ~found(ram, d)
        BY <3>1, <3>2, <4>1 DEF MInv, IInv, Books
      <4> QED
        BY <3>1, <3>2, <4>1, <4>2, FoundCached
    <3>4. \A x, t : cachedAs(ram, x, t)' <=> cachedAs(ram, x, t)
      BY <1>1 DEF cachedAs
    <3>5. \A o \in Proc \ {p} : (Loading(o)' <=> Loading(o)) /\ rec'[o] = rec[o]
      BY <1>4 DEF Loading
    <3>6. CASE q = p
      BY <1>1, <3>1, <3>2, <3>3, <3>4, <3>5, <3>6 DEF Reads, Loading, Page0
    <3>7. CASE q # p
      <4>1. Loading(q) /\ rec[q] # nil => rec'[p] # rec[q]
        BY <3>1, <3>2, <3>3
      <4>2. Reads(q) /\ pc'[q] = pc[q] /\ Loading(q)' = Loading(q)
        BY <3>7, <1>4 DEF MInv, Loading
      <4> QED
        BY <1>1, <1>4, <3>4, <3>5, <3>7, <4>1, <4>2 DEF Reads, Page0
    <3> QED
      BY <3>6, <3>7
  <2>2. CASE ~piomissing(p)
    <3>1. pc[p] \notin {"load", "reload"} /\ pc'[p] \notin {"load", "reload"} /\ rec' = rec
      BY <2>2 DEF MInv, IInv, TypeOK, touch, resident, readOnly, dupretry, putmmu, Goto, finish
    <3>2. \A o \in Proc : Loading(o)' <=> Loading(o)
      BY <3>1, <1>4 DEF Loading
    <3>3. CASE q = p
      BY <3>1, <3>3 DEF Reads, Loading
    <3>4. CASE q # p
      <4>1. pc'[q] = pc[q] /\ new'[q] = new[q] /\ rec'[q] = rec[q]
        BY <3>4, <1>4
      <4> QED
        BY <1>1, <1>2, <3>1, <3>2, <4>1, StillReads DEF MInv
    <3> QED
      BY <3>3, <3>4
  <2> QED
    BY <2>1, <2>2
<1>6. ASSUME NEW q \in Proc \ {p} PROVE Mapped(q)'
  <2>1. Users(seg[q])' = Users(seg[q])
    BY <1>1 DEF Users
  <2>2. Spared(q)
    BY <2>1, <1>1, <1>2, StillSpared DEF MInv, Private
  <2> QED
    BY <2>2, <1>1, <1>4, StillMapped DEF MInv
<1>7. Mapped(p)'
  <2>1. Mapped(p) /\ seg[p] # nil
    BY DEF MInv, IInv, Faulting, touch, User, resident, piomissing, readOnly, dupretry,
       putmmu, Goto
  <2>2. PICK e, t : e = entry[p] /\ t = tlb[p]
    OBVIOUS
  <2>3. (Right(p, e)' <=> Right(p, e)) /\ (Right(p, t)' <=> Right(p, t))
    BY <1>1, RightSame
  <2>4. CASE touch(p, TRUE) \/ touch(p, FALSE) \/ resident(p) \/ piomissing(p)
    <3>1. pc[p] \notin {"putmmu", "dup"} /\ pc'[p] \notin {"putmmu", "dup"}
      BY <2>4 DEF MInv, IInv, TypeOK, touch, resident, piomissing, Goto
    <3>2. entry' = entry /\ tlb' = tlb
      BY <2>4 DEF touch, resident, piomissing, acquire
    <3> QED
      BY <1>1, <2>1, <2>2, <2>3, <3>1, <3>2 DEF Mapped
  <2>5. CASE readOnly(p)
    <3>1. PICK f : f = [page |-> Page0(p), rw |-> FALSE]
      OBVIOUS
    <3>2. Right(p, f)
      BY <2>5, <3>1 DEF readOnly, readable, Right
    <3>3. Right(p, f)'
      BY <3>2, <1>1, RightSame
    <3>4. pc'[p] = "putmmu" /\ entry'[p] = f
      BY <2>5, <3>1 DEF MInv, IInv, TypeOK, readOnly, finish
    <3> QED
      BY <1>1, <2>1, <3>3, <3>4 DEF Mapped
  <2>6. CASE dupretry(p)
    <3>1. pc[p] = "common" /\ pc'[p] = "dup" /\ entry' = entry /\ tlb' = tlb
      BY <2>6 DEF MInv, IInv, TypeOK, dupretry, Goto
    <3>2. type # "text" /\ sharing(Page0(p)) <= 1
      BY <2>6 DEF dupretry, readable
    <3>3. PICK pg \in Page : pg = Page0(p) /\ ram.ref[pg] # 0
      BY <3>1, OwnSegment, EntriesHeld DEF MInv, IInv, Faulting, Page0
    <3>4. Private(ram, swmap, pg)
      BY <3>2, <3>3, Shared DEF MInv
    <3>5. Private(ram, swmap, Page0(p))'
      BY <1>1, <3>3, <3>4 DEF Private, Page0, cachedAs
    <3> QED
      BY <1>1, <2>1, <2>2, <2>3, <3>1, <3>2, <3>5 DEF Mapped
  <2>7. CASE putmmu(p)
    <3>1. pc'[p] = "user" /\ entry'[p] = nil /\ tlb'[p] = e
      BY <2>2, <2>7 DEF MInv, IInv, TypeOK, putmmu, Goto
    <3> QED
      BY <1>1, <2>1, <2>2, <2>3, <3>1 DEF Mapped
  <2> QED
    BY <2>4, <2>5, <2>6, <2>7
<1> QED
  BY <1>1, <1>3, <1>5, <1>6, <1>7 DEF MInv

\* A step of which the processes see nothing: no page table, no entry.
LEMMA AsideDisk ==
    ASSUME MInv, IInv', Cache', Still(ram, ram'), DiskKept,
           UNCHANGED <<type, slot, swmap, seg, pc, new, rec, entry, tlb>>,
           \A s \in Seg, pg \in Page : slot[s] = pg /\ ram.ref[pg] = 1 => ram'.ref[pg] = 1
    PROVE  MInv' /\ Unseen
<1>1. Text' /\ Unseen
  BY StillSeen
<1>2. \A o \in Proc : Loading(o)' <=> Loading(o)
  BY DEF Loading
<1>3. ASSUME NEW q \in Proc PROVE Reads(q)' /\ Mapped(q)'
  <2>1. CASE seg[q] \in Seg
    BY <2>1, <1>2, StillOthers
  <2>2. CASE seg[q] = nil
    <3>1. pc[q] = "user" /\ tlb[q] = nil /\ entry[q] = nil
      BY <2>2 DEF MInv, IInv, Faulting, Mapped
    <3> QED
      BY <3>1 DEF Reads, Loading, Mapped
  <2> QED
    BY <2>1, <2>2 DEF MInv, IInv, TypeOK
<1> QED
  BY <1>1, <1>3 DEF MInv

LEMMA AsideMInv ==
    ASSUME MInv, IInv', Still(ram, ram'),
           UNCHANGED <<disk, type, slot, swmap, seg, io, pc, new, rec, entry, tlb>>,
           \A s \in Seg, pg \in Page : slot[s] = pg /\ ram.ref[pg] = 1 => ram'.ref[pg] = 1
    PROVE  MInv' /\ Unseen
<1>1. Cache' /\ DiskKept
  BY StillStep DEF DiskKept
<1> QED
  BY <1>1, AsideDisk

LEMMA StillTaken ==
    ASSUME NEW m, Kept(m), NEW pg \in Page, m.ref[pg] = 0, NEW v, NEW r,
           r.data = [m.data EXCEPT ![pg] = v],
           \A x \in Page, t \in Tag :
             cachedAs(r, x, t) <=> cachedAs(m, x, t) /\ x # pg
    PROVE  Still(m, r)
  BY DEF Still, Kept, Ram

LEMMA StillLeft ==
    ASSUME NEW m, NEW r,
           \A x, t : cachedAs(r, x, t) <=> cachedAs(m, x, t),
           \A x \in Page : r.data[x] = Left(r, m, x)
    PROVE  Still(m, r)
  BY DEF Still, Left

LEMMA AuxpageMInv ==
    ASSUME MInv, IInv', auxpage PROVE MInv' /\ Unseen /\ seg' = seg
<1>1. PICK pg, m, r : pg = Head(ram.free) /\ m = ram /\ r = ram'
  OBVIOUS
<1>2. UNCHANGED <<disk, type, slot, swmap, seg, io, pc, new, rec, entry, tlb>>
  BY DEF auxpage, fault, pager
<1>3. /\ pg \in Page /\ m.ref[pg] = 0
      /\ Kept(r) /\ r.ref = [m.ref EXCEPT ![pg] = 1]
      /\ r.data = [m.data EXCEPT ![pg] = "junk"]
      /\ \A x \in Page, t \in Tag :
           cachedAs(r, x, t) <=> cachedAs(m, x, t) /\ x # pg
  <2>1. r = newpage(m) /\ Kept(m) /\ m.free # <<>> /\ pg = Head(m.free)
    BY <1>1 DEF auxpage, MInv, IInv, Books
  <2> QED
    BY <2>1, Taken
<1>4. Kept(m)
  BY <1>1 DEF MInv, IInv, Books
<1>5. Still(m, r)
  BY <1>3, <1>4, StillTaken
<1>6. \A x \in Page : m.ref[x] = 1 => r.ref[x] = 1
  BY <1>3, <1>4 DEF Kept, Ram
<1> QED
  BY <1>1, <1>2, <1>5, <1>6, AsideMInv

LEMMA AuxfreeMInv ==
    ASSUME MInv, IInv', auxfree PROVE MInv' /\ Unseen /\ seg' = seg
<1>1. PICK pg \in aux : ram' = putpage(ram, pg)
  BY DEF auxfree
<1>2. UNCHANGED <<disk, type, slot, swmap, seg, io, pc, new, rec, entry, tlb>>
  BY DEF auxfree, fault, pager
<1>3. PICK m, r : m = ram /\ r = ram'
  OBVIOUS
<1>4. pg \in Page /\ Kept(m) /\ m.ref[pg] # 0 /\ m.ref \in [Page -> Nat]
  BY <1>3, Counted DEF MInv, IInv, TypeOK, Books, Kept, Ram
<1>5. /\ Kept(r) /\ r.ref = [m.ref EXCEPT ![pg] = @ - 1]
      /\ r.chain = m.chain
      /\ \A x, t : cachedAs(r, x, t) <=> cachedAs(m, x, t)
      /\ \A x \in Page : r.data[x] = Left(r, m, x)
  <2>1. r = putpage(m, pg)
    BY <1>1, <1>3
  <2> QED
    BY <2>1, <1>4, PutBack
<1>6. Still(m, r)
  BY <1>5, StillLeft
<1>7. \A s \in Seg, x \in Page : slot[s] = x /\ ram.ref[x] = 1 => x # pg
  BY Alone DEF MInv
<1>8. \A s \in Seg, x \in Page : slot[s] = x /\ ram.ref[x] = 1 => ram'.ref[x] = 1
  BY <1>3, <1>4, <1>5, <1>7
<1> QED
  BY <1>2, <1>3, <1>6, <1>8, AsideMInv

LEMMA ImagereclaimMInv ==
    ASSUME MInv, IInv', imagereclaim PROVE MInv' /\ Unseen /\ seg' = seg
<1>1. UNCHANGED <<disk, type, slot, swmap, seg, io, pc, new, rec, entry, tlb>>
  BY DEF imagereclaim, fault, pager
<1>2. PICK m, r : m = ram /\ r = ram'
  OBVIOUS
<1>3. /\ Kept(r) /\ r.ref = m.ref /\ r.free = m.free
      /\ \A x \in Page, t \in Tag :
           cachedAs(r, x, t) <=> cachedAs(m, x, t) /\ m.ref[x] # 0
      /\ \A pg \in Page : r.data[pg] = Left(r, m, pg)
  <2>1. Kept(m) /\ r = Reclaim(m)
    BY <1>2 DEF imagereclaim, Reclaim, MInv, IInv, Books
  <2> QED
    BY <2>1, Reclaimed
<1>4. Still(m, r)
  BY <1>3 DEF Still, Left
<1> QED
  BY <1>1, <1>2, <1>3, <1>4, AsideMInv

\* A fault reads a page that is not in memory.
LEMMA PioreadMInv ==
    ASSUME MInv, IInv', NEW p \in Proc, pioread(p) PROVE MInv' /\ Unseen /\ seg' = seg
<1>1. PICK pg, m, r, v : /\ pg = Head(ram.free) /\ m = ram /\ r = ram'
                         /\ v = IF rec[p] = nil THEN "init" ELSE disk[rec[p]]
  OBVIOUS
<1>2. /\ pc[p] = "load" /\ new' = [new EXCEPT ![p] = pg]
      /\ pc' = [pc EXCEPT ![p] = "reload"]
      /\ UNCHANGED <<type, seg, slot, swmap, disk, io, rec, entry, tlb>>
  BY <1>1 DEF pioread, Goto, pager
<1>3. v \in Datum
  BY <1>1 DEF MInv, IInv, TypeOK, Datum
<1>4. /\ pg \in Page /\ m.ref[pg] = 0
      /\ Kept(r) /\ r.ref = [m.ref EXCEPT ![pg] = 1]
      /\ r.data = [m.data EXCEPT ![pg] = v]
      /\ \A x \in Page, t \in Tag :
           cachedAs(r, x, t) <=> cachedAs(m, x, t) /\ x # pg
  <2>1. r = Written(newpage(m), pg, v) /\ Kept(m)
    BY <1>1 DEF pioread, Written, MInv, IInv, Books
  <2>2. m.free # <<>>
    BY <1>1, PagesAssumption DEF pioread, plenty
  <2> QED
    BY <2>1, <2>2, <1>1, <1>3, Filled
<1>5. Kept(m)
  BY <1>1 DEF MInv, IInv, Books
<1>6. Still(m, r) /\ DiskKept
  BY <1>2, <1>4, <1>5, StillTaken DEF DiskKept
<1>7. \A x \in Page : m.ref[x] = 1 => r.ref[x] = 1
  BY <1>4, <1>5 DEF Kept, Ram
<1>8. Cache' /\ Text' /\ Unseen
  BY <1>1, <1>2, <1>6, StillStep
<1>9. \A o \in Proc : (Loading(o)' <=> Loading(o)) /\ rec'[o] = rec[o]
  BY <1>2 DEF Loading, MInv, IInv, TypeOK
<1>10. ASSUME NEW q \in Proc \ {p} PROVE Reads(q)' /\ Mapped(q)'
  <2>1. pc'[q] = pc[q] /\ new'[q] = new[q] /\ rec'[q] = rec[q]
        /\ entry'[q] = entry[q] /\ tlb'[q] = tlb[q]
    BY <1>2 DEF MInv, IInv, TypeOK
  <2> QED
    BY <2>1, <1>1, <1>2, <1>6, <1>7, <1>9, StillOthers
<1>11. Reads(p)'
  <2>1. new'[p] = pg /\ ram'.data[pg] = v
    BY <1>1, <1>2, <1>4, <1>5 DEF MInv, IInv, TypeOK, Kept, Ram
  <2>2. Loading(p) /\ Reads(p)
    BY <1>2 DEF Loading, MInv
  <2>3. \A x, t : cachedAs(ram, x, t)' <=> cachedAs(r, x, t)
    BY <1>1 DEF cachedAs
  <2>4. rec[p] # nil => rec[p] \in Tag
    BY DEF MInv, IInv, TypeOK, Tag
  <2> QED
    BY <2>1, <2>2, <2>3, <2>4, <1>1, <1>2, <1>4, <1>9 DEF Reads, Page0
<1>12. Mapped(p)'
  <2>1. Users(seg[p])' = Users(seg[p])
    BY <1>2 DEF Users
  <2>2. Spared(p)
    BY <2>1, <1>1, <1>2, <1>6, <1>7, StillSpared DEF MInv, Private
  <2>3. pc'[p] = "reload"
    BY <1>2 DEF MInv, IInv, TypeOK
  <2> QED
    BY <2>2, <2>3, <1>2, StillMapped DEF MInv
<1> QED
  BY <1>2, <1>8, <1>10, <1>11, <1>12 DEF MInv

\* A fault puts back the page it has read.
LEMMA PutNew ==
    ASSUME MInv, IInv', NEW p \in Proc, NEW w \in {"user", "fault", "common"},
           pc[p] = "reload", pc' = [pc EXCEPT ![p] = w], new' = [new EXCEPT ![p] = nil],
           rec' = [rec EXCEPT ![p] = nil], ram' = putpage(ram, new[p]),
           UNCHANGED <<type, seg, slot, swmap, disk, io, entry, tlb>>
    PROVE  MInv' /\ Unseen
<1>1. PICK pg, m, r : pg = new[p] /\ m = ram /\ r = ram'
  OBVIOUS
<1>2. UNCHANGED <<type, seg, slot, swmap, disk, io, entry, tlb>>
  OBVIOUS
<1>3. pg \in Page /\ m.ref[pg] = 1 /\ Kept(m)
  BY <1>1, <1>2 DEF MInv, IInv, TypeOK, Faulting, Books
<1>4. /\ Kept(r) /\ r.ref = [m.ref EXCEPT ![pg] = @ - 1]
      /\ r.chain = m.chain
      /\ \A x, t : cachedAs(r, x, t) <=> cachedAs(m, x, t)
      /\ \A x \in Page : r.data[x] = Left(r, m, x)
  <2>1. r = putpage(m, pg) /\ m.ref[pg] # 0
    BY <1>1, <1>3
  <2> QED
    BY <2>1, <1>3, PutBack
<1>5. Still(m, r) /\ DiskKept
  BY <1>4, StillLeft DEF DiskKept
<1>6. \A s \in Seg : slot[s] # pg
  BY <1>1, <1>3, PagesAssumption, Counted DEF MInv, Sole
<1>7. \A s \in Seg, x \in Page : slot[s] = x /\ ram.ref[x] = 1 => ram'.ref[x] = 1
  BY <1>1, <1>3, <1>4, <1>6 DEF Kept, Ram
<1>8. Cache' /\ Text' /\ Unseen
  BY <1>1, <1>2, <1>5, StillStep
<1>9. \A o \in Proc : Loading(o)' /\ rec'[o] \in Swap => Loading(o) /\ rec'[o] = rec[o]
  BY <1>2 DEF Loading, MInv, IInv, TypeOK
<1>10. ASSUME NEW q \in Proc \ {p} PROVE Reads(q)' /\ Mapped(q)'
  <2>1. pc'[q] = pc[q] /\ new'[q] = new[q] /\ rec'[q] = rec[q]
        /\ entry'[q] = entry[q] /\ tlb'[q] = tlb[q]
    BY DEF MInv, IInv, TypeOK
  <2>2. CASE seg[q] \in Seg
    BY <2>1, <2>2, <1>1, <1>2, <1>5, <1>7, <1>9, StillOthers
  <2>3. CASE seg[q] = nil
    <3>1. pc[q] = "user" /\ tlb[q] = nil /\ entry[q] = nil
      BY <2>3 DEF MInv, IInv, Faulting, Mapped
    <3> QED
      BY <2>1, <3>1 DEF Reads, Loading, Mapped
  <2> QED
    BY <2>2, <2>3 DEF MInv, IInv, TypeOK
<1>11. Reads(p)'
  BY <1>2 DEF Reads, Loading, MInv, IInv, TypeOK
<1>12. Mapped(p)'
  <2>1. Users(seg[p])' = Users(seg[p]) /\ seg[p] \in Seg
    BY <1>2, OwnSegment DEF Users, MInv
  <2>2. Spared(p)
    BY <2>1, <1>1, <1>2, <1>5, <1>7, StillSpared DEF MInv, Private
  <2>3. pc'[p] \in {"user", "fault", "common"}
    BY DEF MInv, IInv, TypeOK
  <2> QED
    BY <2>2, <2>3, <1>2, StillMapped DEF MInv
<1> QED
  BY <1>2, <1>8, <1>10, <1>11, <1>12 DEF MInv

LEMMA PioerrorMInv ==
    ASSUME MInv, IInv', NEW p \in Proc, pioerror(p) PROVE MInv' /\ Unseen /\ seg' = seg
  BY PutNew DEF pioerror, Goto, pager

\* The pager writes a page to its swap address, of which the cache has the page
\* until it is there.
LEMMA ExecuteioMInv ==
    ASSUME MInv, IInv', executeio PROVE MInv' /\ Unseen /\ seg' = seg
<1>1. PICK m, r, pg : m = ram /\ r = ram' /\ pg = io.page
  OBVIOUS
<1>2. /\ Kept(m) /\ pg \in Page /\ m.ref[pg] \in Nat \ {0} /\ io.at # "idle"
      /\ io.at # "put" => m.ref[pg] >= 2
      /\ m.ref \in [Page -> Nat] /\ disk \in [Swap -> Datum]
      /\ io.page = pg
  BY <1>1, Counted, PagesAssumption DEF executeio, MInv, IInv, Books, Kept, Ram, TypeOK
<1>3. UNCHANGED <<type, seg, slot, swmap, pc, rec, new, entry, tlb>>
  BY DEF executeio, fault
<1>4. io.at # "put" => \E d \in Swap : cachedAs(m, pg, d)
  BY <1>1, <1>2 DEF MInv, IInv, TypeOK, Cache, Writing
<1>5. PICK d : d = CHOOSE e \in Swap : cachedAs(ram, io.page, e)
  OBVIOUS
<1>6. io.at # "put" => d \in Swap /\ cachedAs(m, pg, d)
  BY <1>1, <1>4, <1>5
<1>7. \/ /\ io.at = "write" /\ io'.at = "writing" /\ io'.page = pg /\ r = m
         /\ disk' = [disk EXCEPT ![d] = "junk"]
      \/ /\ io.at = "writing" /\ io'.at = "put" /\ io'.page = pg
         /\ r = [m EXCEPT !.ref[pg] = @ - 1]
         /\ disk' = [disk EXCEPT ![d] = m.data[pg]]
      \/ /\ io.at = "put" /\ io'.at = "idle" /\ r = putpage(m, pg) /\ disk' = disk
  BY <1>1, <1>2, <1>5 DEF executeio, MInv, IInv, TypeOK
<1>8. /\ \A x, t : cachedAs(r, x, t) <=> cachedAs(m, x, t)
      /\ \A x \in Page, t \in Tag : cachedAs(m, x, t) => r.data[x] = m.data[x]
      /\ Still(m, r)
      /\ \A x \in Page \ {pg} : r.ref[x] = m.ref[x]
      /\ io.at = "write" => r.ref[pg] = m.ref[pg]
  <2>1. CASE io.at = "write"
    <3>1. r = m
      BY <2>1, <1>7
    <3> QED
      BY <3>1 DEF Still
  <2>2. CASE io.at = "writing"
    <3>1. PICK n : n = m.ref[pg] - 1
      OBVIOUS
    <3>2. n \in Nat \ {0} /\ Kept(m) /\ pg \in Page /\ m.ref[pg] # 0
      BY <3>1, <2>2, <1>2
    <3>3. r = Referred(m, pg, n)
      BY <3>1, <2>2, <1>2, <1>7 DEF Referred, Kept, Ram
    <3>4. /\ Kept(r) /\ r.ref = [m.ref EXCEPT ![pg] = n] /\ r.free = m.free
          /\ r.chain = m.chain /\ r.data = m.data
          /\ \A x, t : cachedAs(r, x, t) <=> cachedAs(m, x, t)
      BY <3>2, <3>3, Held
    <3> QED
      BY <3>4, <2>2, <1>2 DEF Still
  <2>3. CASE io.at = "put"
    <3>1. /\ Kept(r) /\ r.ref = [m.ref EXCEPT ![pg] = @ - 1]
          /\ r.chain = m.chain
          /\ \A x, t : cachedAs(r, x, t) <=> cachedAs(m, x, t)
          /\ \A x \in Page : r.data[x] = Left(r, m, x)
      BY <2>3, <1>2, <1>7, PutBack
    <3>2. Still(m, r)
      BY <3>1, StillLeft
    <3> QED
      BY <3>1, <3>2, <2>3, <1>2 DEF Left
  <2> QED
    BY <2>1, <2>2, <2>3, <1>7
<1>9. \A e \in Swap : disk'[e] # disk[e] => io.at # "put" /\ e = d
  BY <1>2, <1>7
<1>10. DiskKept
  BY <1>1, <1>2, <1>6, <1>8, <1>9 DEF DiskKept
<1>11. Cache'
  <2>1. \A x, t : cachedAs(ram, x, t)' <=> cachedAs(m, x, t)
    BY <1>1, <1>8 DEF cachedAs
  <2>2. \A e \in Swap, f, g \in Page :
          cachedAs(m, f, e) /\ cachedAs(m, g, e) => f = g
    BY <1>1 DEF MInv, Cache
  <2>3. Writing' => io'.page = pg /\ \E e \in Swap : cachedAs(m, pg, e)
    BY <1>1, <1>4, <1>7 DEF Writing
  <2>4. \A x \in Page : cachedAs(m, x, image) => ram'.data[x] = "init"
    BY <1>1, <1>8 DEF MInv, Cache, Tag
  <2>5. ASSUME NEW x \in Page, NEW e \in Swap, cachedAs(m, x, e), swmap[e] # 0
        PROVE  disk'[e] = ram'.data[x] \/ (Writing' /\ io'.page = x)
    <3>1. ram'.data[x] = m.data[x]
      BY <1>1, <1>8, <2>5 DEF Tag
    <3>2. disk[e] = m.data[x] \/ (Writing /\ x = pg)
      BY <1>1, <2>5 DEF MInv, Cache
    <3>3. CASE io.at = "write"
      <4>1. Writing' /\ io'.page = pg
        BY <3>3, <1>7 DEF Writing
      <4>2. e = d => x = pg
        BY <2>2, <2>5, <3>3, <1>2, <1>6
      <4> QED
        BY <4>1, <4>2, <3>1, <3>2, <1>9
    <3>4. CASE io.at = "writing"
      <4>1. e = d => x = pg /\ disk'[e] = m.data[pg]
        BY <2>2, <2>5, <3>4, <1>2, <1>6, <1>7
      <4>2. x = pg => e = d
        BY <2>5, <3>4, <1>2, <1>6 DEF Kept, Tag
      <4> QED
        BY <4>1, <4>2, <3>1, <3>2, <1>9
    <3>5. CASE io.at = "put"
      BY <3>1, <3>2, <3>5, <1>9 DEF Writing
    <3> QED
      BY <3>3, <3>4, <3>5, <1>7
  <2>6. swmap' = swmap
    BY <1>3
  <2> QED
    BY <2>1, <2>2, <2>3, <2>4, <2>5, <2>6 DEF Cache
<1>12. \A s \in Seg, x \in Page : slot[s] = x /\ ram.ref[x] = 1 => ram'.ref[x] = 1
  <2>1. \A s \in Seg, x \in Page : slot[s] = x /\ ram.ref[x] = 1 => x # io.page
    BY Alone DEF MInv
  <2> QED
    BY <2>1, <1>1, <1>8
<1> QED
  BY <1>1, <1>3, <1>8, <1>10, <1>11, <1>12, AsideDisk

\* A page comes into the page table of a segment that has none, and no other
\* page table's page gets a holder, a cache or a use of its swap address.
LEMMA FillMapped ==
    ASSUME MInv, IInv', NEW s \in Seg, slot[s] \notin Page,
           \A o \in Seg \ {s} : slot'[o] = slot[o],
           NEW p \in Proc, seg[p] = s, pc[p] \in {"fault", "reload"}, pc'[p] = "common",
           \A q \in Proc \ {p} : pc'[q] = pc[q],
           UNCHANGED <<type, seg, entry, tlb>>,
           \A o \in Seg \ {s}, pg \in Page :
             /\ slot[o] = pg /\ Private(ram, swmap, pg)
             /\ cachedAs(ram, pg, image) => \E z \in Proc : pc[z] = "dup" /\ Page0(z) = pg
             => /\ ram'.ref[pg] = 1
                /\ \A t \in Tag : cachedAs(ram', pg, t) => cachedAs(ram, pg, t)
                /\ \A d \in Swap : cachedAs(ram', pg, d) => swmap'[d] = 0
    PROVE  \A q \in Proc : Mapped(q)'
<1>1. ASSUME NEW q \in Proc, seg[q] \notin Seg \ {s} PROVE Bare(q) \/ q = p
  <2>1. CASE seg[q] = s
    BY <2>1, Unmapped DEF MInv, Bare
  <2>2. CASE seg[q] = nil
    BY <2>2 DEF MInv, IInv, Mapped, Faulting, Bare
  <2> QED
    BY <1>1, <2>1, <2>2 DEF MInv, IInv, TypeOK
<1>2. ASSUME NEW q \in Proc, seg[q] \in Seg \ {s} PROVE Spared(q)
  <2>1. slot'[seg[q]] = slot[seg[q]]
    BY <1>2
  <2>2. Users(seg[q])' = Users(seg[q])
    BY DEF Users
  <2>3. ASSUME NEW pg \in Page, slot[seg[q]] = pg, Private(ram, swmap, pg),
               cachedAs(ram, pg, image) => pc[q] = "dup"
        PROVE  /\ ram'.ref[pg] = 1
               /\ \A t \in Tag : cachedAs(ram', pg, t) => cachedAs(ram, pg, t)
               /\ \A d \in Swap : cachedAs(ram', pg, d) => swmap'[d] = 0
    BY <1>2, <2>3 DEF Page0
  <2> QED
    BY <2>1, <2>2, <2>3 DEF Spared
<1>3. ASSUME NEW q \in Proc \ {p} PROVE Mapped(q)'
  <2>1. Bare(q) \/ Spared(q)
    BY <1>1, <1>2
  <2> QED
    BY <2>1, StillMapped DEF MInv
<1>4. Mapped(p)'
  <2>1. tlb[p] = nil /\ entry[p] = nil
    BY Unmapped DEF MInv
  <2> QED
    BY <2>1, PagesAssumption DEF Mapped
<1> QED
  BY <1>3, <1>4

LEMMA TextNext ==
    ASSUME MInv, IInv', Still(ram, ram'), type' = type,
           \A s \in Seg : type = "text" =>
             \/ slot'[s] \in {slot[s], nil}
             \/ slot'[s] \in Page /\ ram'.data[slot'[s]] = "init"
    PROVE  Text'
<1> SUFFICES ASSUME type = "text", NEW s \in Seg
             PROVE  /\ slot'[s] \notin Swap
                    /\ slot'[s] \in Page => ram'.data[slot'[s]] = "init"
  BY DEF Text
<1>1. slot[s] \notin Swap /\ (slot[s] \in Page => ram.data[slot[s]] = "init")
  BY DEF MInv, Text
<1>2. slot[s] \in Page => ram.ref[slot[s]] # 0
  BY EntriesHeld DEF MInv
<1>3. slot'[s] \in Page => ram'.ref[slot'[s]] # 0
  BY EntriesHeldNext
<1> QED
  BY <1>1, <1>2, <1>3, PagesAssumption DEF Still

\* The first use of a page of zeros.
LEMMA ZerofillMInv ==
    ASSUME MInv, IInv', NEW p \in Proc, zerofill(p) PROVE MInv' /\ Unseen /\ seg' = seg
<1>1. PICK pg, s, m, r : pg = Head(ram.free) /\ s = seg[p] /\ m = ram /\ r = ram'
  OBVIOUS
<1>2. s \in Seg /\ slot[s] = nil /\ pc[p] = "fault" /\ type = "bss"
  BY <1>1, OwnSegment DEF MInv, zerofill, Goto, zerofilled, Page0
<1>3. /\ slot' = [slot EXCEPT ![s] = pg] /\ pc' = [pc EXCEPT ![p] = "common"]
      /\ UNCHANGED <<type, seg, disk, io, swmap, rec, new, entry, tlb>>
  BY <1>1 DEF zerofill, Goto, fill, pager
<1>4. /\ pg \in Page /\ m.ref[pg] = 0
      /\ Kept(r) /\ r.ref = [m.ref EXCEPT ![pg] = 1]
      /\ r.data = [m.data EXCEPT ![pg] = "init"]
      /\ \A x \in Page, t \in Tag :
           cachedAs(r, x, t) <=> cachedAs(m, x, t) /\ x # pg
  <2>1. r = Written(newpage(m), pg, "init") /\ "init" \in Datum /\ Kept(m)
    BY <1>1 DEF zerofill, Written, Datum, MInv, IInv, Books
  <2>2. m.free # <<>>
    BY <1>1, PagesAssumption DEF zerofill, plenty
  <2> QED
    BY <2>1, <2>2, <1>1, Filled
<1>5. Kept(m) /\ m.ref \in [Page -> Nat] /\ m.data \in [Page -> Datum]
  BY <1>1 DEF MInv, IInv, Books, Kept, Ram
<1>6. Still(m, r) /\ DiskKept
  BY <1>3, <1>4, <1>5, StillTaken DEF DiskKept
<1>7. Cache'
  BY <1>1, <1>3, <1>6, StillCache DEF MInv
<1>8. Text'
  BY <1>2, <1>3 DEF Text
<1>9. \A o \in Seg \ {s} : slot'[o] = slot[o]
  BY <1>3 DEF MInv, IInv, TypeOK
<1>10. Unseen
  <2>1. ASSUME NEW o \in Seg \ {s}, NEW v, Holds(o, v) PROVE Holds(o, v)'
    BY <2>1, <1>1, <1>6, <1>9, StillHolds DEF MInv
  <2>2. ASSUME NEW v, Holds(s, v) PROVE Holds(s, v)'
    <3>1. v = "init"
      BY <2>2, <1>2, PagesAssumption DEF Holds
    <3>2. slot'[s] = pg /\ ram'.data[pg] = "init"
      BY <1>1, <1>2, <1>3, <1>4, <1>5 DEF MInv, IInv, TypeOK
    <3> QED
      BY <3>1, <3>2, <1>4 DEF Holds
  <2> QED
    BY <2>1, <2>2 DEF Unseen
<1>11. \A q \in Proc : Mapped(q)'
  <2>1. \A q \in Proc \ {p} : pc'[q] = pc[q]
    BY <1>3 DEF MInv, IInv, TypeOK
  <2>2. pc'[p] = "common"
    BY <1>3 DEF MInv, IInv, TypeOK
  <2>3. ASSUME NEW x \in Page, Private(ram, swmap, x)
        PROVE  /\ ram'.ref[x] = 1
               /\ \A t \in Tag : cachedAs(ram', x, t) => cachedAs(ram, x, t)
               /\ \A d \in Swap : cachedAs(ram', x, d) => swmap'[d] = 0
    BY <2>3, <1>1, <1>3, <1>4, <1>5 DEF Private, Tag
  <2> QED
    BY <2>1, <2>2, <2>3, <1>1, <1>2, <1>3, <1>9, PagesAssumption, FillMapped
<1>12. ASSUME NEW q \in Proc PROVE Reads(q)'
  <2>1. CASE q = p
    <3>1. pc'[p] = "common"
      BY <1>3 DEF MInv, IInv, TypeOK
    <3> QED
      BY <2>1, <3>1 DEF Reads, Loading
  <2>2. CASE q # p
    <3>1. pc'[q] = pc[q] /\ new'[q] = new[q] /\ rec'[q] = rec[q]
      BY <2>2, <1>3 DEF MInv, IInv, TypeOK
    <3>2. Loading(q) /\ rec[q] # nil => slot'[seg'[q]] = slot[seg[q]]
      <4>1. Loading(q) /\ rec[q] # nil => seg[q] # s /\ seg[q] \in Seg
        BY <1>2, OwnSegment DEF MInv, Reads, Page0, Loading
      <4> QED
        BY <4>1, <1>3, <1>9
    <3>3. \A o \in Proc : Loading(o)' /\ rec'[o] \in Swap => Loading(o) /\ rec'[o] = rec[o]
      BY <1>3 DEF MInv, IInv, TypeOK, Loading
    <3>4. IInv /\ Reads(q) /\ Still(ram, ram')
      BY <1>1, <1>6 DEF MInv
    <3> QED
      BY <3>1, <3>2, <3>3, <3>4, <1>6, StillReads
  <2> QED
    BY <2>1, <2>2
<1> QED
  BY <1>3, <1>7, <1>8, <1>10, <1>11, <1>12 DEF MInv

\* A fault finds the page in the cache.
LEMMA PiocachedMInv ==
    ASSUME Quiet, MInv, IInv', NEW p \in Proc, piocached(p)
    PROVE  MInv' /\ Unseen /\ seg' = seg
<1>1. PICK pg, s, m, r, t : /\ s = seg[p] /\ m = ram /\ r = ram' /\ t = place(slot[s])
                            /\ pg = Head(ram.chain[t])
  OBVIOUS
<1>2. s \in Seg /\ pc[p] = "fault" /\ slot[s] \in Swap \cup {nil} /\ slot[s] \notin Page
  <2>1. s \in Seg /\ pc[p] = "fault" /\ slot[s] \notin Page
    BY <1>1, OwnSegment DEF MInv, piocached, Goto, Page0
  <2> QED
    BY <2>1 DEF MInv, IInv, TypeOK
<1>3. t \in Tag /\ IF slot[s] \in Swap THEN t = slot[s] ELSE t = image /\ slot[s] = nil
  BY <1>1, <1>2, PagesAssumption DEF place, Tag
<1>4. /\ slot' = [slot EXCEPT ![s] = pg] /\ pc' = [pc EXCEPT ![p] = "common"]
      /\ UNCHANGED <<type, seg, disk, io, rec, new, entry, tlb>>
  BY <1>1 DEF piocached, Goto, fill, pager, Page0
<1>5. swmap' = IF t \in Swap THEN putswap(t) ELSE swmap
  BY <1>1 DEF piocached, Page0
<1>6. /\ pg \in Page /\ cachedAs(m, pg, t) /\ Kept(m)
      /\ Kept(r) /\ r.ref = [m.ref EXCEPT ![pg] = @ + 1]
      /\ r.chain = m.chain /\ r.data = m.data
      /\ \A x, u : cachedAs(r, x, u) <=> cachedAs(m, x, u)
  <2>1. r = lookpage(m, t) /\ found(m, t) /\ Kept(m) /\ pg = Head(m.chain[t])
    BY <1>1 DEF piocached, MInv, IInv, Books, Page0
  <2> QED
    BY <2>1, <1>3, Looked
<1>7. \A q \in Proc : pc[q] = "dup" => Page0(q) # pg
  BY <1>1 DEF piocached, Quiet, Page0
<1>8. m.ref \in [Page -> Nat] /\ \A d \in Swap : swmap[d] \in Nat
  BY <1>6, Counted DEF MInv, IInv, Books, Kept, Ram
<1>9. Still(m, r) /\ DiskKept
  BY <1>4, <1>6 DEF DiskKept, Still
<1>10. t \in Swap => swmap[t] # 0
  BY <1>2, <1>3, Counted, PagesAssumption DEF MInv
<1>11. \A d \in Swap : swmap'[d] # 0 => swmap[d] # 0
  <2>1. swmap = [d \in Swap |-> swmap[d]]
    BY DEF MInv, IInv, Books
  <2> QED
    BY <2>1, <1>5, <1>8, <1>10 DEF putswap
<1>12. Cache'
  BY <1>1, <1>4, <1>9, <1>11, StillCache DEF MInv
<1>13. \A o \in Seg \ {s} : slot'[o] = slot[o]
  BY <1>4 DEF MInv, IInv, TypeOK
<1>14. slot'[s] = pg
  BY <1>2, <1>4 DEF MInv, IInv, TypeOK
<1>15. \A v : Holds(s, v) => r.data[pg] = v
  <2>1. r.data[pg] = ram.data[pg]
    BY <1>1, <1>6
  <2>2. CASE slot[s] \in Swap
    <3>1. cachedAs(ram, pg, slot[s])
      BY <2>2, <1>1, <1>3, <1>6
    <3> QED
      BY <3>1, <2>1, <2>2, <1>2, <1>6 DEF Holds, OnSwap
  <2>3. CASE slot[s] \notin Swap
    <3>1. cachedAs(ram, pg, image)
      BY <2>3, <1>1, <1>3, <1>6
    <3>2. ram.data[pg] = "init"
      BY <3>1, <1>6 DEF MInv, Cache
    <3> QED
      BY <3>2, <2>1, <2>3, <1>2 DEF Holds
  <2> QED
    BY <2>2, <2>3
<1>16. Text'
  <2>1. ASSUME type = "text" PROVE r.data[pg] = "init"
    <3>1. slot[s] \notin Swap
      BY <2>1, <1>2 DEF MInv, Text
    <3>2. Holds(s, "init")
      BY <3>1, <1>2 DEF Holds
    <3> QED
      BY <3>2, <1>15
  <2>2. ASSUME NEW o \in Seg, type = "text"
        PROVE  slot'[o] \in {slot[o], nil} \/ (slot'[o] \in Page /\ ram'.data[slot'[o]] = "init")
    BY <2>1, <2>2, <1>1, <1>6, <1>13, <1>14
  <2>3. type' = type /\ Still(ram, ram')
    BY <1>1, <1>4, <1>9
  <2> QED
    BY <2>2, <2>3, TextNext
<1>17. Unseen
  <2>1. ASSUME NEW o \in Seg \ {s}, NEW v, Holds(o, v) PROVE Holds(o, v)'
    BY <2>1, <1>1, <1>9, <1>13, StillHolds DEF MInv
  <2>2. ASSUME NEW v, Holds(s, v) PROVE Holds(s, v)'
    BY <2>2, <1>1, <1>6, <1>14, <1>15 DEF Holds
  <2> QED
    BY <2>1, <2>2 DEF Unseen
<1>18. \A q \in Proc : Mapped(q)'
  <2>1. \A q \in Proc \ {p} : pc'[q] = pc[q]
    BY <1>4 DEF MInv, IInv, TypeOK
  <2>2. pc'[p] = "common"
    BY <1>4 DEF MInv, IInv, TypeOK
  <2>3. ASSUME NEW x \in Page, Private(ram, swmap, x),
               cachedAs(ram, x, image) => \E z \in Proc : pc[z] = "dup" /\ Page0(z) = x
        PROVE  /\ ram'.ref[x] = 1
               /\ \A u \in Tag : cachedAs(ram', x, u) => cachedAs(ram, x, u)
               /\ \A d \in Swap : cachedAs(ram', x, d) => swmap'[d] = 0
    <3>1. x # pg
      <4>1. t \in Swap => ~Private(ram, swmap, pg)
        BY <1>1, <1>6, <1>10 DEF Private
      <4>2. t = image => cachedAs(ram, pg, image)
        BY <1>1, <1>6
      <4> QED
        BY <2>3, <4>1, <4>2, <1>3, <1>7
    <3> QED
      BY <2>3, <3>1, <1>1, <1>6, <1>8, <1>11 DEF Private
  <2> QED
    BY <2>1, <2>2, <2>3, <1>1, <1>2, <1>4, <1>13, FillMapped
<1>19. ASSUME NEW q \in Proc PROVE Reads(q)'
  <2>1. CASE q = p
    <3>1. pc'[p] = "common"
      BY <1>4 DEF MInv, IInv, TypeOK
    <3> QED
      BY <2>1, <3>1 DEF Reads, Loading
  <2>2. CASE q # p
    <3>1. pc'[q] = pc[q] /\ new'[q] = new[q] /\ rec'[q] = rec[q]
      BY <2>2, <1>4 DEF MInv, IInv, TypeOK
    <3>2. Loading(q) /\ rec[q] # nil => slot'[seg'[q]] = slot[seg[q]]
      <4>1. Loading(q) /\ rec[q] # nil => seg[q] # s
        <5>1. SUFFICES ASSUME Loading(q), rec[q] # nil, seg[q] = s PROVE FALSE
          OBVIOUS
        <5>2. slot[s] = rec[q] /\ \A x \in Page : ~cachedAs(ram, x, rec[q])
          BY <5>1 DEF MInv, Reads, Page0
        <5>3. t = rec[q]
          BY <5>1, <5>2, <1>2, <1>3
        <5> QED
          BY <5>2, <5>3, <1>1, <1>6
      <4>2. Loading(q) => seg[q] \in Seg
        BY OwnSegment DEF MInv, Loading
      <4> QED
        BY <4>1, <4>2, <1>4, <1>13
    <3>3. \A o \in Proc : Loading(o)' /\ rec'[o] \in Swap => Loading(o) /\ rec'[o] = rec[o]
      BY <1>4 DEF MInv, IInv, TypeOK, Loading
    <3>4. IInv /\ Reads(q) /\ Still(ram, ram')
      BY <1>1, <1>9 DEF MInv
    <3> QED
      BY <3>1, <3>2, <3>3, <3>4, <1>9, StillReads
  <2> QED
    BY <2>1, <2>2
<1> QED
  BY <1>4, <1>12, <1>16, <1>17, <1>18, <1>19 DEF MInv

\* A fault enters the page it has read, of an entry that is still the same.
LEMMA EnterMInv ==
    ASSUME MInv, IInv', NEW p \in Proc, pioenter(p), slot[seg[p]] = rec[p]
    PROVE  MInv' /\ Unseen
<1>1. PICK pg, s, m, r, t : /\ pg = new[p] /\ s = seg[p] /\ m = ram /\ r = ram'
                            /\ t = place(slot[s])
  OBVIOUS
<1>2. /\ s \in Seg /\ pc[p] = "reload" /\ slot[s] = rec[p]
      /\ slot[s] \in Swap \cup {nil} /\ slot[s] \notin Page
  <2>1. s \in Seg /\ pc[p] = "reload" /\ rec[p] \in Swap \cup {nil}
    BY <1>1, OwnSegment DEF MInv, IInv, TypeOK, pioenter, Goto
  <2> QED
    BY <2>1, <1>1, PagesAssumption
<1>3. t \in Tag /\ IF slot[s] \in Swap THEN t = slot[s] ELSE t = image /\ slot[s] = nil
  BY <1>1, <1>2, PagesAssumption DEF place, Tag
<1>4. /\ slot' = [slot EXCEPT ![s] = pg] /\ pc' = [pc EXCEPT ![p] = "common"]
      /\ rec' = [rec EXCEPT ![p] = nil] /\ new' = [new EXCEPT ![p] = nil]
      /\ UNCHANGED <<type, seg, disk, io, entry, tlb>>
      /\ r = cachepage(m, pg, t)
      /\ swmap' = IF slot[s] = nil THEN swmap ELSE putswap(slot[s])
  BY <1>1, <1>2 DEF pioenter, Goto, fill, pager, Page0
<1>5. /\ pg \in Page /\ m.ref[pg] = 1 /\ \A u \in Tag : ~cachedAs(m, pg, u)
      /\ Kept(m) /\ m.data[pg] = IF slot[s] = nil THEN "init" ELSE disk[slot[s]]
  BY <1>1, <1>2 DEF MInv, IInv, TypeOK, Faulting, Books, Reads
<1>6. /\ Kept(r) /\ r.ref = m.ref /\ r.data = m.data
      /\ \A x \in Page, u \in Tag :
           cachedAs(r, x, u) <=> cachedAs(m, x, u) \/ (x = pg /\ u = t)
  BY <1>3, <1>4, <1>5, NowCached
<1>7. slot[s] \in Swap => \A x \in Page : ~cachedAs(m, x, t)
  BY <1>1, <1>2, <1>3, PagesAssumption DEF MInv, Reads, Loading
<1>8. \A d \in Swap : swmap'[d] # 0 => swmap[d] # 0
  <2>1. swmap = [d \in Swap |-> swmap[d]] /\ \A d \in Swap : swmap[d] \in Nat
    BY Counted DEF MInv, IInv, Books
  <2>2. slot[s] \in Swap => swmap[slot[s]] # 0
    BY <1>2, Counted DEF MInv
  <2> QED
    BY <2>1, <2>2, <1>2, <1>4 DEF putswap
<1>9. /\ \A o \in Seg \ {s} : slot'[o] = slot[o]
      /\ slot'[s] = pg
      /\ \A q \in Proc \ {p} : pc'[q] = pc[q] /\ new'[q] = new[q] /\ rec'[q] = rec[q]
      /\ pc'[p] = "common"
  BY <1>2, <1>4 DEF MInv, IInv, TypeOK
<1>10. \A x, u : cachedAs(ram, x, u)' <=> cachedAs(r, x, u)
  BY <1>1 DEF cachedAs
<1>11. Cache'
  <2>1. Swap \subseteq Tag /\ image \in Tag /\ image \notin Swap
    BY PagesAssumption DEF Tag
  <2>2. \A d \in Swap, f, g \in Page : cachedAs(r, f, d) /\ cachedAs(r, g, d) => f = g
    <3>1. \A d \in Swap, f, g \in Page : cachedAs(m, f, d) /\ cachedAs(m, g, d) => f = g
      BY <1>1 DEF MInv, Cache
    <3> QED
      BY <3>1, <2>1, <1>3, <1>6, <1>7
  <2>3. Writing => \E d \in Swap : cachedAs(r, io.page, d)
    <3>1. Writing => \E d \in Swap : cachedAs(m, io.page, d)
      BY <1>1 DEF MInv, Cache
    <3>2. Writing => io.page \in Page
      BY DEF MInv, IInv, TypeOK, Writing
    <3> QED
      BY <3>1, <3>2, <2>1, <1>6
  <2>4. \A x \in Page : cachedAs(r, x, image) => r.data[x] = "init"
    BY <2>1, <1>1, <1>3, <1>5, <1>6 DEF MInv, Cache
  <2>5. \A x \in Page, d \in Swap : cachedAs(r, x, d) /\ swmap'[d] # 0 =>
          disk[d] = r.data[x] \/ (Writing /\ io.page = x)
    <3> SUFFICES ASSUME NEW x \in Page, NEW d \in Swap, cachedAs(r, x, d), swmap'[d] # 0
                 PROVE  disk[d] = r.data[x] \/ (Writing /\ io.page = x)
      OBVIOUS
    <3>1. CASE cachedAs(m, x, d)
      BY <3>1, <1>1, <1>6, <1>8 DEF MInv, Cache
    <3>2. CASE x = pg /\ d = t
      BY <3>2, <1>3, <1>5, <1>6, PagesAssumption
    <3> QED
      BY <3>1, <3>2, <2>1, <1>6
  <2>6. Writing' <=> Writing
    BY <1>4 DEF Writing
  <2> QED
    BY <2>2, <2>3, <2>4, <2>5, <2>6, <1>1, <1>4, <1>10 DEF Cache
<1>12. Text'
  <2>1. type = "text" => slot[s] = nil
    BY <1>2 DEF MInv, Text
  <2> SUFFICES ASSUME type = "text", NEW o \in Seg
               PROVE  /\ slot'[o] \notin Swap
                      /\ slot'[o] \in Page => ram'.data[slot'[o]] = "init"
    BY <1>4 DEF Text
  <2>2. CASE o = s
    BY <2>1, <2>2, <1>1, <1>5, <1>6, <1>9, PagesAssumption
  <2>3. CASE o # s
    BY <2>3, <1>1, <1>6, <1>9 DEF MInv, Text
  <2> QED
    BY <2>2, <2>3
<1>13. Unseen
  <2>1. ASSUME NEW d \in Swap, NEW v, OnSwap(d, v) PROVE OnSwap(d, v)'
    <3>1. \A x \in Page : cachedAs(r, x, d) => r.data[x] = v
      <4>1. d = t => m.data[pg] = v
        BY <2>1, <1>1, <1>3, <1>5, <1>7, PagesAssumption DEF OnSwap
      <4> QED
        BY <4>1, <2>1, <1>1, <1>6 DEF OnSwap, Tag
    <3>2. (\A x \in Page : ~cachedAs(r, x, d)) => disk[d] = v
      BY <2>1, <1>1, <1>6 DEF OnSwap, Tag
    <3> QED
      BY <3>1, <3>2, <1>1, <1>4, <1>10 DEF OnSwap
  <2>2. ASSUME NEW o \in Seg \ {s}, NEW v, Holds(o, v) PROVE Holds(o, v)'
    <3>1. PICK e : e = slot[o] /\ e = slot'[o]
      BY <1>9
    <3>2. e \in Swap => OnSwap(e, v) \/ e \in Page
      BY <2>2, <3>1 DEF Holds
    <3>3. e \in Swap => OnSwap(e, v)' \/ e \in Page
      BY <3>2, <2>1
    <3>4. e \in Swap /\ e \notin Page => OnSwap(slot[o], v)'
      BY <3>1, <3>3 DEF OnSwap
    <3> QED
      BY <2>2, <3>1, <3>4, <1>1, <1>6 DEF Holds
  <2>3. ASSUME NEW v, Holds(s, v) PROVE Holds(s, v)'
    <3>1. r.data[pg] = v
      BY <2>3, <1>1, <1>2, <1>3, <1>5, <1>6, <1>7, PagesAssumption DEF Holds, OnSwap
    <3> QED
      BY <3>1, <1>1, <1>5, <1>9 DEF Holds
  <2> QED
    BY <2>2, <2>3 DEF Unseen
<1>14. \A q \in Proc : Mapped(q)'
  <2>1. ASSUME NEW o \in Seg \ {s}, NEW x \in Page, slot[o] = x, Private(ram, swmap, x)
        PROVE  /\ ram'.ref[x] = 1
               /\ \A u \in Tag : cachedAs(ram', x, u) => cachedAs(ram, x, u)
               /\ \A d \in Swap : cachedAs(ram', x, d) => swmap'[d] = 0
    <3>1. x # pg
      BY <2>1, <1>1, <1>2, <1>5, PagesAssumption, Counted DEF MInv, IInv, TypeOK, Sole
    <3> QED
      BY <2>1, <3>1, <1>1, <1>6, <1>8 DEF Private, Tag
  <2> QED
    BY <2>1, <1>1, <1>2, <1>4, <1>9, FillMapped
<1>15. ASSUME NEW q \in Proc PROVE Reads(q)'
  <2>1. CASE q = p
    BY <2>1, <1>9 DEF Reads, Loading
  <2>2. CASE q # p
    <3>1. pc'[q] = pc[q] /\ new'[q] = new[q] /\ rec'[q] = rec[q]
      BY <2>2, <1>9
    <3>2. Loading(q)' <=> Loading(q)
      BY <3>1 DEF Loading
    <3>3. Loading(q) /\ rec[q] # nil => rec[q] # t /\ seg[q] # s
      <4>1. Loading(p)
        BY <1>2 DEF Loading
      <4>2. t \in Swap => rec[p] = t
        BY <1>2, <1>3, PagesAssumption
      <4>3. Loading(q) /\ rec[q] # nil => /\ rec[q] # rec[p] /\ rec[q] \in Swap
                                          /\ slot[seg[q]] = rec[q]
        BY <4>1, <2>2 DEF MInv, IInv, TypeOK, Reads, Page0
      <4> QED
        BY <4>2, <4>3, <1>2
    <3>4. \A o \in Proc : Loading(o)' /\ rec'[o] \in Swap => Loading(o) /\ rec'[o] = rec[o]
      BY <1>9 DEF Loading
    <3>5. Loading(q) /\ rec[q] # nil =>
            /\ slot'[seg'[q]] = rec[q] /\ \A x \in Page : ~cachedAs(r, x, rec[q])
            /\ \A o \in Proc : Loading(o)' /\ rec'[o] = rec[q] => o = q
      <4> SUFFICES ASSUME Loading(q), rec[q] # nil
                   PROVE  /\ slot'[seg'[q]] = rec[q] /\ \A x \in Page : ~cachedAs(r, x, rec[q])
                          /\ \A o \in Proc : Loading(o)' /\ rec'[o] = rec[q] => o = q
        OBVIOUS
      <4>1. seg[q] \in Seg \ {s} /\ rec[q] \in Swap /\ rec[q] \in Tag
        BY <3>3, OwnSegment DEF MInv, IInv, TypeOK, Loading, Tag
      <4>2. /\ slot[seg[q]] = rec[q] /\ \A x \in Page : ~cachedAs(m, x, rec[q])
            /\ \A o \in Proc : Loading(o) /\ rec[o] = rec[q] => o = q
        BY <1>1 DEF MInv, Reads, Page0
      <4> QED
        BY <4>1, <4>2, <3>3, <3>4, <1>4, <1>6, <1>9
    <3>6. pc[q] = "reload" =>
            r.data[new[q]] = IF rec[q] = nil THEN "init" ELSE disk[rec[q]]
      BY <1>1, <1>6 DEF MInv, Reads
    <3> QED
      BY <3>1, <3>2, <3>5, <3>6, <1>1, <1>4, <1>10 DEF Reads, Page0
  <2> QED
    BY <2>1, <2>2
<1> QED
  BY <1>11, <1>12, <1>13, <1>14, <1>15 DEF MInv

LEMMA PioenterMInv ==
    ASSUME MInv, IInv', NEW p \in Proc, pioenter(p) PROVE MInv' /\ Unseen /\ seg' = seg
<1>1. seg' = seg
  BY DEF pioenter
<1>2. CASE slot[seg[p]] = rec[p]
  BY <1>1, <1>2, EnterMInv
<1>3. CASE slot[seg[p]] # rec[p]
  <2>1. PICK w \in {"fault", "common"} : pc' = [pc EXCEPT ![p] = w]
    BY DEF pioenter, Goto
  <2>2. /\ pc[p] = "reload" /\ new' = [new EXCEPT ![p] = nil]
        /\ rec' = [rec EXCEPT ![p] = nil] /\ ram' = putpage(ram, new[p])
        /\ UNCHANGED <<type, seg, slot, swmap, disk, io, entry, tlb>>
    BY <1>3 DEF pioenter, Goto, Page0, pager
  <2> QED
    BY <2>1, <2>2, PutNew
<1> QED
  BY <1>2, <1>3

\* Of a segment with another user and a page that is shared nobody has an entry.
LEMMA Unwritten ==
    ASSUME IInv, NEW p \in Proc, NEW q \in Proc \ {p}, seg[q] = seg[p], Mapped(q),
           type # "text", ~Private(ram, swmap, slot[seg[p]])
    PROVE  (tlb[q] = nil \/ pc[q] = "putmmu") /\ entry[q] = nil /\ pc[q] # "dup"
<1>1. \A e : ~Right(q, e)
  BY DEF Right, Page0, Users
<1> QED
  BY <1>1 DEF Mapped, Page0

\* A store into a page that others have: the process gets a copy of its own.
LEMMA CopyOnWriteMInv ==
    ASSUME Quiet, MInv, IInv', NEW p \in Proc, copyOnWrite(p)
    PROVE  MInv' /\ Unseen /\ seg' = seg
<1>1. /\ seg[p] \in Seg /\ pc[p] = "common" /\ lk[seg[p]] = p /\ slot[seg[p]] \in Page
      /\ type # "text"
  <2>1. pc[p] = "common" /\ type # "text"
    BY DEF copyOnWrite, readable
  <2> QED
    BY <2>1, OwnSegment DEF MInv, IInv, Faulting, Page0
<1>2. PICK pg, s, np, m, r : /\ s = seg[p] /\ pg = slot[s] /\ np = Head(ram.free)
                             /\ m = ram /\ r = ram'
  OBVIOUS
<1>3. UNCHANGED <<type, seg, swmap, disk, io, rec, new, tlb>>
  BY DEF copyOnWrite, pager
<1>4. Kept(m) /\ m.ref[pg] # 0 /\ pg \in Page /\ s \in Seg
  BY <1>1, <1>2, Counted DEF MInv, IInv, Books
<1>5. ~Private(m, swmap, pg)
  <2>1. sharing(pg) > 1
    BY <1>2 DEF copyOnWrite, Page0
  <2> QED
    BY <2>1, <1>2, <1>4, Shared DEF MInv
<1>6. \A q \in Proc \ {p} : pc'[q] = pc[q] /\ entry'[q] = entry[q]
  BY DEF copyOnWrite, finish, Goto, MInv, IInv, TypeOK
<1>7. ~Loading(p) /\ pc'[p] \in {"putmmu", "user", "fault"}
  BY <1>1 DEF copyOnWrite, finish, Goto, MInv, IInv, TypeOK, Loading
<1>8. \A o \in Proc : Loading(o)' <=> Loading(o)
  BY <1>6, <1>7 DEF Loading
<1>9. CASE plenty /\ ~swapfull
  <2>1. /\ r = Copy(m, np, pg) /\ slot' = [slot EXCEPT ![s] = np] /\ finish(p, np, TRUE)
    BY <1>2, <1>9 DEF copyOnWrite, fill, Copy, Page0, Written
  <2>2. /\ np \in Page \ {pg} /\ m.ref[np] = 0 /\ Kept(r)
        /\ r.ref[np] = 1 /\ r.ref[pg] = m.ref[pg] - 1
        /\ \A x \in Page \ {np, pg} : r.ref[x] = m.ref[x]
        /\ r.data[np] = m.data[pg]
        /\ \A x \in Page \ {np} : r.data[x] = Left(r, m, x)
        /\ \A x \in Page, t \in Tag :
             cachedAs(r, x, t) <=> cachedAs(m, x, t) /\ x # np
    <3>1. m.free # <<>>
      BY <1>2, <1>9, PagesAssumption DEF plenty
    <3>2. Kept(m) /\ m.ref[pg] # 0 /\ np = Head(m.free)
      BY <1>2, <1>4
    <3> QED
      BY <3>1, <3>2, <2>1, <1>4, Copied
  <2>3. Still(m, r)
    BY <2>2 DEF Still, Left
  <2>4. DiskKept
    BY <1>3 DEF DiskKept
  <2>5. /\ \A o \in Seg \ {s} : slot'[o] = slot[o]
        /\ slot'[s] = np /\ pc'[p] = "putmmu" /\ entry'[p] = [page |-> np, rw |-> TRUE]
    BY <2>1, <1>4 DEF finish, MInv, IInv, TypeOK
  <2>6. Cache'
    BY <2>3, <1>2, <1>3, StillCache DEF MInv
  <2>7. Text'
    BY <1>1, <1>3 DEF Text
  <2>8. Unseen
    <3>1. ASSUME NEW o \in Seg \ {s}, NEW v, Holds(o, v) PROVE Holds(o, v)'
      BY <3>1, <2>3, <2>4, <2>5, <1>2, StillHolds DEF MInv
    <3>2. ASSUME NEW v, Holds(s, v) PROVE Holds(s, v)'
      BY <3>2, <2>2, <2>5, <1>2, <1>4 DEF Holds
    <3> QED
      BY <3>1, <3>2 DEF Unseen
  <2>9. ASSUME NEW q \in Proc PROVE Reads(q)'
    <3>1. CASE q = p
      BY <3>1, <2>5 DEF Reads, Loading
    <3>2. CASE q # p
      <4>1. pc'[q] = pc[q] /\ new'[q] = new[q] /\ rec'[q] = rec[q]
        BY <3>2, <1>3, <1>6
      <4>2. Loading(q) /\ rec[q] # nil => slot'[seg'[q]] = slot[seg[q]]
        <5>1. Loading(q) /\ rec[q] # nil => seg[q] \in Seg /\ slot[seg[q]] \in Swap
          BY OwnSegment DEF MInv, IInv, TypeOK, Reads, Loading, Page0
        <5> QED
          BY <5>1, <2>5, <1>2, <1>3, <1>4, PagesAssumption
      <4>3. \A o \in Proc : Loading(o)' /\ rec'[o] \in Swap =>
              Loading(o) /\ rec'[o] = rec[o]
        BY <1>3, <1>8
      <4>4. IInv /\ Reads(q) /\ Still(ram, ram')
        BY <2>3, <1>2 DEF MInv
      <4> QED
        BY <4>1, <4>2, <4>3, <4>4, <2>4, StillReads
    <3> QED
      BY <3>1, <3>2
  <2>10. ASSUME NEW q \in Proc \ {p} PROVE Mapped(q)'
    <3>1. Bare(q) \/ Spared(q)
      <4>1. CASE seg[q] = s
        <5>1. (tlb[q] = nil \/ pc[q] = "putmmu") /\ entry[q] = nil /\ pc[q] # "dup"
          BY <4>1, <1>1, <1>2, <1>5, Unwritten DEF MInv, Bare
        <5> QED
          BY <5>1, <1>3 DEF Bare
      <4>2. CASE seg[q] = nil
        BY <4>2, <1>3 DEF MInv, IInv, Mapped, Faulting, Bare
      <4>3. CASE seg[q] \in Seg \ {s}
        <5>1. Users(seg[q])' = Users(seg[q])
          BY <1>3 DEF Users
        <5>2. slot'[seg[q]] = slot[seg[q]] /\ slot[seg[q]] # np
          BY <4>3, <2>2, <2>5, <1>2, Counted DEF MInv
        <5>3. \A x \in Page : slot[seg[q]] = x /\ Private(m, swmap, x) =>
                                x \notin {np, pg} /\ r.ref[x] = 1
          BY <5>2, <2>2, <1>5 DEF Private
        <5>4. \A x \in Page : slot[seg[q]] = x /\ Private(ram, swmap, x) =>
                /\ ram'.ref[x] = 1 /\ \A d \in Swap : cachedAs(ram, x, d) => swmap'[d] = 0
          BY <5>3, <1>2, <1>3 DEF Private
        <5> QED
          BY <5>1, <5>2, <5>4, <2>3, <1>2, StillSpared DEF MInv
      <4> QED
        BY <4>1, <4>2, <4>3 DEF MInv, IInv, TypeOK
    <3>2. Mapped(q) /\ IInv
      BY DEF MInv
    <3> QED
      BY <3>1, <3>2, <1>3, <1>6, StillMapped
  <2>11. Mapped(p)'
    <3>1. \A t \in Tag : ~cachedAs(r, np, t)
      BY <2>2
    <3>2. Right(p, entry[p])'
      BY <3>1, <2>2, <2>5, <1>1, <1>2, <1>3 DEF Right, Private, Page0, cachedAs, Tag
    <3> QED
      BY <3>2, <2>5, <1>1, <1>3, PagesAssumption DEF Mapped
  <2> QED
    BY <2>6, <2>7, <2>8, <2>9, <2>10, <2>11, <1>3 DEF MInv
<1>10. CASE ~plenty
  <2>1. UNCHANGED <<slot, ram, entry>> /\ pc'[p] = "fault"
    BY <1>1, <1>10 DEF Quiet, copyOnWrite, Goto, MInv, IInv, TypeOK
  <2>2. Still(ram, ram') /\ DiskKept
    BY <2>1, <1>3 DEF Still, DiskKept
  <2>3. Cache' /\ Text' /\ Unseen
    BY <2>1, <2>2, <1>3, StillStep
  <2>4. ASSUME NEW q \in Proc \ {p} PROVE Reads(q)' /\ Mapped(q)'
    BY <2>1, <2>2, <1>3, <1>6, <1>8, StillOthers
  <2>5. Reads(p)'
    BY <2>1 DEF Reads, Loading
  <2>6. Mapped(p)'
    <3>1. Users(seg[p])' = Users(seg[p])
      BY <1>3 DEF Users
    <3>2. Spared(p)
      BY <3>1, <2>1, <2>2, <1>3, StillSpared DEF MInv, Private
    <3>3. Mapped(p) /\ IInv
      BY DEF MInv
    <3> QED
      BY <3>2, <3>3, <2>1, <1>1, <1>3, StillMapped
  <2> QED
    BY <2>3, <2>4, <2>5, <2>6, <1>3 DEF MInv
<1> QED
  BY <1>9, <1>10 DEF Quiet

\* A store into a page that nobody else has; what was the cache of the image
\* is not, any more.
LEMMA WriteInPlaceMInv ==
    ASSUME Quiet, MInv, IInv', NEW p \in Proc, writeInPlace(p)
    PROVE  MInv' /\ Unseen /\ seg' = seg
<1>1. /\ seg[p] \in Seg /\ pc[p] \in {"common", "dup"} /\ slot[seg[p]] \in Page
  <2>1. pc[p] \in {"common", "dup"}
    BY DEF writeInPlace
  <2> QED
    BY <2>1, OwnSegment DEF MInv, IInv, Faulting, Page0
<1>2. PICK pg, s, m, r : s = seg[p] /\ pg = slot[s] /\ m = ram /\ r = ram'
  OBVIOUS
<1>3. UNCHANGED <<type, seg, slot, swmap, disk, io, rec, new, tlb>>
  BY DEF writeInPlace, pager
<1>4. Kept(m) /\ m.ref[pg] # 0 /\ pg \in Page /\ s \in Seg
  BY <1>1, <1>2, Counted DEF MInv, IInv, Books
<1>5. type # "text" /\ Private(m, swmap, pg)
  <2>1. CASE pc[p] = "dup"
    BY <2>1, <1>2 DEF MInv, Mapped, Page0
  <2>2. CASE pc[p] = "common"
    <3>1. type # "text" /\ sharing(pg) <= 1
      BY <2>2, <1>2 DEF writeInPlace, readable, Page0
    <3> QED
      BY <3>1, <1>2, <1>4, Shared DEF MInv
  <2> QED
    BY <2>1, <2>2, <1>1
<1>6. /\ pc'[p] = "putmmu" /\ entry'[p] = [page |-> pg, rw |-> TRUE]
      /\ \A q \in Proc \ {p} : pc'[q] = pc[q] /\ entry'[q] = entry[q]
  BY <1>2 DEF writeInPlace, finish, Page0, MInv, IInv, TypeOK
<1>7. /\ r.ref = m.ref /\ Still(m, r) /\ ~cachedAs(r, pg, image)
  <2>1. CASE cachedAs(m, pg, image)
    <3>1. r = duppage(m, pg)
      BY <2>1, <1>2 DEF Quiet, writeInPlace, Page0
    <3>2. image \in Tag /\ \A t \in Tag : cachedAs(m, pg, t) => t = image
      BY <2>1, <1>4 DEF Kept, Tag
    <3>3. m.data[pg] = "init" /\ m.data \in [Page -> Datum]
      BY <2>1, <1>2, <1>4 DEF MInv, Cache, Kept, Ram
    <3>4. /\ Kept(r) /\ r.ref = m.ref
          /\ \/ Dropped(m, r, pg)
             \/ \E np \in Page \ {pg} : Replaced(m, r, pg, np)
      BY <3>1, <1>4, Duplicated
    <3>5. CASE Dropped(m, r, pg)
      BY <3>2, <3>4, <3>5, <1>4 DEF Dropped, Still
    <3>6. ASSUME NEW np \in Page \ {pg}, Replaced(m, r, pg, np)
          PROVE  Still(m, r) /\ ~cachedAs(r, pg, image)
      <4>1. /\ m.ref[np] = 0 /\ r.data[np] = "init"
            /\ \A x \in Page \ {np} : r.data[x] = m.data[x]
        BY <3>3, <3>6 DEF Replaced
      <4>2. \A x \in Page, t \in Tag :
              cachedAs(r, x, t) <=> \/ cachedAs(m, x, t) /\ x \notin {pg, np}
                                    \/ x = np /\ t = image
        BY <3>6 DEF Replaced
      <4> QED
        BY <4>1, <4>2, <3>2, <1>4 DEF Still
    <3> QED
      BY <3>4, <3>5, <3>6
  <2>2. CASE ~cachedAs(m, pg, image)
    <3>1. r = m
      BY <2>2, <1>2 DEF writeInPlace, Page0
    <3> QED
      BY <3>1, <2>2 DEF Still
  <2> QED
    BY <2>1, <2>2
<1>8. DiskKept
  BY <1>3 DEF DiskKept
<1>9. Cache' /\ Text' /\ Unseen
  BY <1>2, <1>3, <1>7, StillStep
<1>10. \A o \in Proc : Loading(o)' /\ rec'[o] \in Swap => Loading(o) /\ rec'[o] = rec[o]
  BY <1>3, <1>6 DEF Loading
<1>11. ASSUME NEW q \in Proc \ {p} PROVE Reads(q)' /\ Mapped(q)'
  BY <1>2, <1>3, <1>6, <1>7, <1>8, <1>10, StillOthers
<1>12. Reads(p)'
  BY <1>6 DEF Reads, Loading
<1>13. Mapped(p)'
  <2>1. \A d \in Swap : cachedAs(r, pg, d) => swmap[d] = 0
    BY <1>4, <1>5, <1>7, PagesAssumption DEF Private, Still, Tag
  <2>2. Right(p, entry[p])'
    BY <2>1, <1>1, <1>2, <1>3, <1>5, <1>6, <1>7 DEF Right, Private, Page0, cachedAs
  <2> QED
    BY <2>2, <1>1, <1>3, <1>6, PagesAssumption DEF Mapped
<1> QED
  BY <1>3, <1>9, <1>11, <1>12, <1>13 DEF MInv

\* A store through the MMU is seen in the segment of the process, and in no
\* other.
LEMMA StoreMInv ==
    ASSUME MInv, IInv', NEW p \in Proc, store(p)
    PROVE  /\ MInv' /\ seg' = seg /\ Holds(seg[p], p)'
           /\ \A o \in Seg \ {seg[p]} : \A v : Holds(o, v) => Holds(o, v)'
<1>1. PICK pg, s, m, r : s = seg[p] /\ pg = slot[s] /\ m = ram /\ r = ram'
  OBVIOUS
<1>2. /\ s \in Seg /\ UNCHANGED <<type, seg, slot, swmap, disk, io, pc, rec, new, entry, tlb>>
  BY <1>1 DEF store, User, fault, pager, MInv, IInv, TypeOK
<1>3. /\ pg \in Page /\ pg = tlb[p].page /\ type # "text" /\ Private(m, swmap, pg)
      /\ ~cachedAs(m, pg, image)
  <2>1. tlb[p] # nil /\ pc[p] = "user" /\ tlb[p].rw
    BY DEF store, User
  <2>2. PICK e \in Entry : e = tlb[p]
    BY <2>1 DEF MInv, IInv, TypeOK
  <2>3. Right(p, e)
    BY <2>1, <2>2 DEF MInv, Mapped
  <2> QED
    BY <2>1, <2>2, <2>3, <1>1 DEF Right, Page0, Entry
<1>4. Kept(m) /\ m.ref[pg] = 1 /\ \A d \in Swap : cachedAs(m, pg, d) => swmap[d] = 0
  BY <1>1, <1>3 DEF MInv, IInv, Books, Private
<1>5. /\ Kept(r) /\ r.ref = m.ref /\ r.data = [m.data EXCEPT ![pg] = p]
      /\ \A x, t : cachedAs(r, x, t) <=> cachedAs(m, x, t)
  <2>1. p \in Datum /\ r = Written(m, pg, p)
    BY <1>1, <1>3 DEF store, Written, Datum
  <2> QED
    BY <2>1, <1>3, <1>4, Wrote
<1>6. r.data[pg] = p /\ \A x \in Page \ {pg} : r.data[x] = m.data[x]
  BY <1>3, <1>4, <1>5 DEF Kept, Ram
<1>7. /\ \A o \in Seg \ {s} : slot[o] # pg
      /\ \A q \in Proc : new[q] # pg
  BY <1>1, <1>2, <1>3, <1>4, Alone DEF MInv
<1>8. \A x, t : cachedAs(ram, x, t)' <=> cachedAs(m, x, t)
  BY <1>1, <1>5 DEF cachedAs
<1>9. Cache'
  <2>1. \A x \in Page, d \in Swap : cachedAs(m, x, d) /\ swmap[d] # 0 =>
          r.data[x] = m.data[x]
    BY <1>4, <1>6
  <2>2. \A x \in Page : cachedAs(m, x, image) => r.data[x] = m.data[x]
    BY <1>3, <1>6
  <2>3. Writing' <=> Writing
    BY <1>2 DEF Writing
  <2> QED
    BY <2>1, <2>2, <2>3, <1>1, <1>2, <1>8 DEF MInv, Cache
<1>10. Text'
  BY <1>2, <1>3 DEF Text
<1>11. Holds(s, p)'
  BY <1>1, <1>2, <1>3, <1>6 DEF Holds
<1>12. ASSUME NEW o \in Seg \ {s}, NEW v, Holds(o, v) PROVE Holds(o, v)'
  <2>1. slot[o] \in Page => r.data[slot[o]] = m.data[slot[o]]
    BY <1>6, <1>7
  <2>2. slot[o] \in Swap => \A x \in Page : cachedAs(m, x, slot[o]) =>
                              r.data[x] = m.data[x]
    BY <1>4, <1>6, Counted DEF MInv
  <2> QED
    BY <2>1, <2>2, <1>1, <1>2, <1>8, <1>12 DEF Holds, OnSwap
<1>13. ASSUME NEW q \in Proc PROVE Reads(q)'
  <2>1. pc[q] = "reload" => r.data[new[q]] = m.data[new[q]]
    BY <1>6, <1>7 DEF MInv, IInv, TypeOK, Faulting
  <2>2. \A o \in Proc : Loading(o)' <=> Loading(o)
    BY <1>2 DEF Loading
  <2> QED
    BY <2>1, <2>2, <1>1, <1>2, <1>8 DEF MInv, Reads, Page0
<1>14. ASSUME NEW q \in Proc PROVE Mapped(q)'
  <2>1. \A x : Private(ram, swmap, x)' <=> Private(ram, swmap, x)
    BY <1>1, <1>2, <1>5, <1>8 DEF Private
  <2>2. Users(seg[q])' = Users(seg[q])
    BY <1>2 DEF Users
  <2>3. \A e : (e.page = Page0(q))' <=> e.page = Page0(q)
    BY <1>2 DEF Page0
  <2>4. PICK e, f : e = entry[q] /\ f = tlb[q]
    OBVIOUS
  <2>5. (Right(q, e)' <=> Right(q, e)) /\ (Right(q, f)' <=> Right(q, f))
    BY <2>1, <2>2, <1>1, <1>2, <1>8 DEF Right, Page0
  <2>6. Mapped(q)
    BY DEF MInv
  <2> QED
    BY <2>1, <2>4, <2>5, <2>6, <1>2 DEF Mapped, Page0
<1> QED
  BY <1>1, <1>2, <1>9, <1>10, <1>11, <1>12, <1>13, <1>14 DEF MInv

\* A process leaves its segment, for another one when it starts a program.
LEMMA LeaveMInv ==
    ASSUME MInv, IInv', NEW p \in Proc, User(p), leave(p), NEW w \in Seg \cup {nil},
           w # nil => Users(w) = {} /\ type # "text", seg' = [seg EXCEPT ![p] = w],
           UNCHANGED <<type, lk, fault, pager, aux>>
    PROVE  /\ MInv'
           /\ \A o \in Seg : \A v : ~(Users(o) \subseteq {p}) /\ Holds(o, v) => Holds(o, v)'
           /\ w # nil => slot'[w] = nil
<1>1. seg[p] \in Seg /\ pc[p] = "user" /\ entry[p] = nil
  BY DEF User, MInv, IInv, TypeOK, Mapped
<1>2. PICK s, m, r, last : /\ s = seg[p] /\ m = ram /\ r = ram'
                           /\ last = (Users(s) = {p})
  OBVIOUS
<1>3. UNCHANGED <<type, disk, io, pc, rec, new, entry>>
  BY DEF fault, pager
<1>4. /\ slot' = [slot EXCEPT ![s] = IF last THEN nil ELSE @]
      /\ tlb' = [tlb EXCEPT ![p] = nil]
      /\ r = IF last /\ slot[s] \in Page THEN putpage(m, slot[s]) ELSE m
      /\ swmap' = IF last /\ slot[s] \in Swap THEN putswap(slot[s]) ELSE swmap
  BY <1>2 DEF leave
<1>5. Kept(m) /\ m.ref \in [Page -> Nat] /\ s \in Seg
  BY <1>1, <1>2 DEF MInv, IInv, Books, Kept, Ram
<1>6. /\ Still(m, r)
      /\ \A x \in Page : (last => x # slot[s]) => r.ref[x] = m.ref[x]
  <2>1. CASE last /\ slot[s] \in Page
    <3>1. m.ref[slot[s]] # 0
      BY <2>1, <1>2, <1>5, Counted DEF MInv
    <3>2. PICK pg \in Page : pg = slot[s]
      BY <2>1
    <3>3. /\ Kept(r) /\ r.ref = [m.ref EXCEPT ![pg] = @ - 1]
          /\ r.chain = m.chain
          /\ \A x, t : cachedAs(r, x, t) <=> cachedAs(m, x, t)
          /\ \A x \in Page : r.data[x] = Left(r, m, x)
      BY <2>1, <3>1, <3>2, <1>4, <1>5, PutBack
    <3>4. Still(m, r)
      BY <3>3, StillLeft
    <3> QED
      BY <2>1, <3>2, <3>3, <3>4, <1>5
  <2>2. CASE ~(last /\ slot[s] \in Page)
    <3>1. r = m
      BY <2>2, <1>4
    <3> QED
      BY <3>1 DEF Still
  <2> QED
    BY <2>1, <2>2
<1>7. DiskKept
  BY <1>3 DEF DiskKept
<1>8. /\ \A o \in Seg : slot'[o] = slot[o] \/ (o = s /\ last /\ slot'[o] = nil)
      /\ \A z \in Proc \ {p} : seg'[z] = seg[z] /\ tlb'[z] = tlb[z]
      /\ tlb'[p] = nil /\ seg'[p] = w
  BY <1>4, <1>5 DEF MInv, IInv, TypeOK
<1>9. /\ \A d \in Swap : swmap'[d] # 0 => swmap[d] # 0
      /\ \A d \in Swap : swmap[d] = 0 => swmap'[d] = 0
  <2>1. swmap = [d \in Swap |-> swmap[d]] /\ \A d \in Swap : swmap[d] \in Nat
    BY Counted DEF MInv, IInv, Books
  <2>2. slot[s] \in Swap => swmap[slot[s]] # 0
    BY <1>5, Counted DEF MInv
  <2> QED
    BY <2>1, <2>2, <1>4 DEF putswap
<1>10. Cache'
  BY <1>2, <1>3, <1>6, <1>9, StillCache DEF MInv
<1>11. Text'
  BY <1>2, <1>3, <1>6, <1>8, TextNext
<1>12. ASSUME NEW o \in Seg, NEW v, ~(Users(o) \subseteq {p}), Holds(o, v)
       PROVE  Holds(o, v)'
  <2>1. slot'[o] = slot[o]
    BY <1>2, <1>8, <1>12
  <2> QED
    BY <2>1, <1>2, <1>6, <1>7, <1>12, StillHolds DEF MInv
<1>13. w # nil => slot'[w] = nil
  BY <1>8, PagesAssumption DEF MInv, IInv, Used, Users
<1>14. \A o \in Proc : Loading(o)' <=> Loading(o)
  BY <1>3 DEF Loading
<1>15. ASSUME NEW q \in Proc PROVE Reads(q)'
  <2>1. CASE q = p
    BY <2>1, <1>1, <1>3 DEF Reads, Loading
  <2>2. CASE q # p
    <3>1. Loading(q) => seg[q] \in Seg /\ slot'[seg'[q]] = slot[seg[q]]
      <4>1. seg'[q] = seg[q] /\ (seg[q] = s => ~last)
        BY <2>2, <1>2, <1>8 DEF Users
      <4>2. Loading(q) => seg[q] \in Seg
        BY OwnSegment DEF MInv, Loading
      <4> QED
        BY <4>1, <4>2, <1>8
    <3>2. IInv /\ Reads(q) /\ Still(ram, ram')
      BY <1>2, <1>6 DEF MInv
    <3> QED
      BY <3>1, <3>2, <1>3, <1>7, <1>14, StillReads
  <2> QED
    BY <2>1, <2>2
<1>16. ASSUME NEW q \in Proc \ {p} PROVE Mapped(q)'
  <2>1. CASE seg[q] \in Seg
    <3>1. seg'[q] = seg[q] /\ (seg[q] = s => ~last) /\ w # seg[q]
      BY <2>1, <1>2, <1>8, PagesAssumption DEF Users
    <3>2. slot'[seg[q]] = slot[seg[q]]
      BY <2>1, <3>1, <1>8
    <3>3. Users(seg[q]) = {q} => Users(seg[q])' = {q}
      BY <3>1, <1>8 DEF Users
    <3>4. ASSUME NEW x \in Page, slot[seg[q]] = x, Private(ram, swmap, x)
          PROVE  ram'.ref[x] = 1
      <4>1. last => x # slot[s]
        BY <2>1, <3>1, <3>4, <1>2, <1>5, Alone DEF MInv, Private
      <4> QED
        BY <4>1, <3>4, <1>2, <1>6 DEF Private
    <3>5. \A x \in Page : slot[seg[q]] = x /\ Private(ram, swmap, x) =>
            /\ ram'.ref[x] = 1
            /\ \A d \in Swap : cachedAs(ram, x, d) => swmap'[d] = 0
      BY <3>4, <1>9 DEF Private
    <3>6. Spared(q)
      BY <3>2, <3>3, <3>5, <1>2, <1>6, StillSpared DEF MInv
    <3>7. Mapped(q) /\ IInv
      BY DEF MInv
    <3> QED
      BY <3>1, <3>6, <3>7, <1>3, <1>8, StillMapped
  <2>2. CASE seg[q] = nil
    BY <2>2, <1>3, <1>8, PagesAssumption DEF MInv, IInv, Faulting, Mapped
  <2> QED
    BY <2>1, <2>2 DEF MInv, IInv, TypeOK
<1>17. Mapped(p)'
  BY <1>1, <1>3, <1>8 DEF Mapped
<1> QED
  BY <1>10, <1>11, <1>12, <1>13, <1>15, <1>16, <1>17 DEF MInv

\* The child of a fork has the segment of its parent, which has no entry then.
LEMMA ShareMInv ==
    ASSUME MInv, IInv', NEW p \in Proc, NEW q \in Proc, User(p), seg[q] = nil,
           seg' = [seg EXCEPT ![q] = seg[p]], tlb' = [tlb EXCEPT ![p] = nil],
           UNCHANGED <<slot, ram, swmap>>, UNCHANGED <<type, lk, fault, pager, aux>>
    PROVE  /\ MInv' /\ \A o \in Seg : \A v : Holds(o, v) => Holds(o, v)'
<1>1. /\ seg[p] \in Seg /\ pc[p] = "user" /\ entry[p] = nil /\ p # q
      /\ pc[q] = "user" /\ entry[q] = nil /\ tlb[q] = nil
  BY PagesAssumption DEF User, MInv, IInv, TypeOK, Faulting, Mapped
<1>2. UNCHANGED <<type, disk, io, pc, rec, new, entry, slot, ram, swmap>>
  BY DEF fault, pager
<1>3. /\ \A z \in Proc \ {q} : seg'[z] = seg[z]
      /\ \A z \in Proc \ {p} : tlb'[z] = tlb[z]
      /\ tlb'[p] = nil /\ seg'[q] = seg[p]
  BY DEF MInv, IInv, TypeOK
<1>4. Still(ram, ram') /\ DiskKept
  BY <1>2 DEF Still, DiskKept
<1>5. Cache' /\ Text' /\ \A o \in Seg : \A v : Holds(o, v) => Holds(o, v)'
  <2>1. Cache' /\ Text'
    BY <1>2, <1>4, StillStep
  <2>2. \A o \in Seg : \A v : Holds(o, v) => Holds(o, v)'
    BY <1>2, <1>4, StillHolds DEF MInv
  <2> QED
    BY <2>1, <2>2
<1>6. \A z \in Proc : Loading(z)' <=> Loading(z)
  BY <1>2 DEF Loading
<1>7. ASSUME NEW z \in Proc PROVE Reads(z)'
  <2>1. CASE z = q
    BY <2>1, <1>1, <1>2 DEF Reads, Loading
  <2>2. CASE z # q
    <3>1. IInv /\ Reads(z) /\ seg'[z] = seg[z]
      BY <2>2, <1>3 DEF MInv
    <3> QED
      BY <3>1, <1>2, <1>4, <1>6, StillReads
  <2> QED
    BY <2>1, <2>2
<1>8. ASSUME NEW z \in Proc \ {p, q} PROVE Mapped(z)'
  <2>1. Users(seg[z]) = {z} => Users(seg[z])' = {z}
    BY <1>1, <1>3 DEF Users
  <2>2. Spared(z)
    BY <2>1, <1>2, <1>4, StillSpared DEF MInv, Private
  <2>3. Mapped(z) /\ IInv
    BY DEF MInv
  <2> QED
    BY <2>2, <2>3, <1>2, <1>3, StillMapped
<1>9. Mapped(p)' /\ Mapped(q)'
  BY <1>1, <1>2, <1>3 DEF Mapped
<1> QED
  BY <1>5, <1>7, <1>8, <1>9 DEF MInv

\* The users of a segment whose lock is free and whose entries are taken away.
LEMMA Flushed ==
    ASSUME Quiet, MInv, NEW s \in Seg, lk[s] = nil, settled(s), flush(s), entry' = entry,
           NEW q \in Proc
    PROVE  /\ seg[q] \notin Seg \ {s} => Bare(q)
           /\ seg[q] # s => tlb'[q] = tlb[q]
           /\ tlb'[q] \in {tlb[q], nil}
<1>1. seg[q] = s => pc[q] # "putmmu"
  BY DEF settled, Quiet, Users
<1>2. tlb'[q] = IF seg[q] = s THEN nil ELSE tlb[q]
  BY DEF flush, Users
<1>3. CASE seg[q] = s
  <2>1. pc[q] # "dup"
    BY <1>3, PagesAssumption DEF MInv, IInv, Faulting
  <2> QED
    BY <2>1, <1>1, <1>2, <1>3 DEF MInv, Mapped, Bare
<1>4. CASE seg[q] = nil
  BY <1>2, <1>4 DEF MInv, IInv, Mapped, Faulting, Bare
<1> QED
  BY <1>2, <1>3, <1>4 DEF MInv, IInv, TypeOK

\* The child has a copy of the page table: nobody may write the page in place
\* any more.
LEMMA CopyMInv ==
    ASSUME Quiet, MInv, IInv', NEW p \in Proc, NEW q \in Proc, NEW n \in Seg,
           User(p), seg[q] = nil, lk[seg[p]] = nil, type # "text", Users(n) = {},
           settled(seg[p]), flush(seg[p]),
           seg' = [seg EXCEPT ![q] = n], slot' = [slot EXCEPT ![n] = slot[seg[p]]],
           ram' = IF slot[seg[p]] \in Page
                  THEN [ram EXCEPT !.ref[slot[seg[p]]] = @ + 1] ELSE ram,
           swmap' = IF slot[seg[p]] \in Swap
                    THEN [swmap EXCEPT ![slot[seg[p]]] = @ + 1] ELSE swmap,
           UNCHANGED <<type, lk, fault, pager, aux>>
    PROVE  /\ MInv' /\ \A o \in Seg \ {n} : \A v : Holds(o, v) => Holds(o, v)'
           /\ \A v : Holds(seg[p], v) => Holds(n, v)'
<1>1. seg[p] \in Seg \ {n} /\ pc[q] = "user" /\ entry[q] = nil /\ tlb[q] = nil
  BY PagesAssumption DEF User, MInv, IInv, TypeOK, Faulting, Mapped, Users
<1>2. PICK s, m, r, x : s = seg[p] /\ m = ram /\ r = ram' /\ x = slot[s]
  OBVIOUS
<1>3. UNCHANGED <<type, disk, io, pc, rec, new, entry>>
  BY DEF fault, pager
<1>4. Kept(m) /\ m.ref \in [Page -> Nat] /\ s \in Seg \ {n} /\ x \in Page \cup Swap \cup {nil}
  BY <1>1, <1>2 DEF MInv, IInv, TypeOK, Books, Kept, Ram
<1>5. /\ Still(m, r)
      /\ \A y \in Page \ {x} : r.ref[y] = m.ref[y]
  <2>1. CASE x \in Page
    <3>1. PICK k : k = m.ref[x] + 1
      OBVIOUS
    <3>2. m.ref[x] # 0 /\ k \in Nat \ {0}
      BY <2>1, <3>1, <1>2, <1>4, Counted DEF MInv
    <3>3. r = Referred(m, x, k)
      BY <2>1, <3>1, <1>2, <1>4 DEF Referred, Kept, Ram
    <3>4. /\ Kept(r) /\ r.ref = [m.ref EXCEPT ![x] = k] /\ r.free = m.free
          /\ r.chain = m.chain /\ r.data = m.data
          /\ \A y, t : cachedAs(r, y, t) <=> cachedAs(m, y, t)
      BY <2>1, <3>2, <3>3, <1>4, Held
    <3> QED
      BY <3>4, <1>4 DEF Still
  <2>2. CASE x \notin Page
    <3>1. r = m
      BY <2>2, <1>2
    <3> QED
      BY <3>1 DEF Still
  <2> QED
    BY <2>1, <2>2
<1>6. /\ \A o \in Seg \ {n} : slot'[o] = slot[o]
      /\ slot'[n] = x /\ seg'[q] = n
      /\ \A z \in Proc \ {q} : seg'[z] = seg[z]
  BY <1>2 DEF MInv, IInv, TypeOK
<1>7. /\ \A d \in Swap : swmap'[d] # 0 => swmap[d] # 0
      /\ \A d \in Swap : swmap[d] = 0 => swmap'[d] = 0
  <2>1. swmap = [d \in Swap |-> swmap[d]] /\ \A d \in Swap : swmap[d] \in Nat
    BY Counted DEF MInv, IInv, Books
  <2>2. x \in Swap => swmap[x] # 0
    BY <1>2, <1>4, Counted DEF MInv
  <2> QED
    BY <2>1, <2>2, <1>2
<1>8. DiskKept
  BY <1>3 DEF DiskKept
<1>9. Cache'
  BY <1>2, <1>3, <1>5, <1>7, StillCache DEF MInv
<1>10. Text'
  BY <1>3 DEF Text
<1>11. \A o \in Seg \ {n} : \A v : Holds(o, v) => Holds(o, v)'
  BY <1>2, <1>5, <1>6, <1>8, StillHolds DEF MInv
<1>12. ASSUME NEW v, Holds(s, v) PROVE Holds(n, v)'
  <2>1. Holds(s, v)'
    BY <1>4, <1>11, <1>12
  <2>2. slot'[n] = slot'[s]
    BY <1>2, <1>4, <1>6
  <2> QED
    BY <2>1, <2>2 DEF Holds, OnSwap
<1>13. \A o \in Proc : Loading(o)' <=> Loading(o)
  BY <1>3 DEF Loading
<1>14. ASSUME NEW z \in Proc PROVE Reads(z)'
  <2>1. CASE z = q
    BY <2>1, <1>1, <1>3 DEF Reads, Loading
  <2>2. CASE z # q
    <3>1. Loading(z) => slot'[seg'[z]] = slot[seg[z]]
      <4>1. Loading(z) => seg[z] \in Seg
        BY OwnSegment DEF MInv, Loading
      <4> QED
        BY <2>2, <4>1, <1>6 DEF Users
    <3>2. IInv /\ Reads(z) /\ Still(ram, ram')
      BY <1>2, <1>5 DEF MInv
    <3> QED
      BY <3>1, <3>2, <1>3, <1>8, <1>13, StillReads
  <2> QED
    BY <2>1, <2>2
<1>15. ASSUME NEW z \in Proc \ {q} PROVE Mapped(z)'
  <2>1. /\ seg[z] \notin Seg \ {s} => Bare(z)
        /\ tlb'[z] \in {tlb[z], nil}
    BY <1>1, <1>2, <1>3, Flushed
  <2>2. ASSUME seg[z] \in Seg \ {s} PROVE Spared(z)
    <3>1. slot'[seg[z]] = slot[seg[z]] /\ seg[z] # n
      BY <2>2, <1>6 DEF Users
    <3>2. Users(seg[z]) = {z} => Users(seg[z])' = {z}
      BY <3>1, <1>6 DEF Users
    <3>3. ASSUME NEW y \in Page, slot[seg[z]] = y, Private(ram, swmap, y)
          PROVE  ram'.ref[y] = 1
      <4>1. y # x
        BY <2>2, <3>3, <1>2, <1>4, Alone DEF MInv, Private
      <4> QED
        BY <3>3, <4>1, <1>2, <1>5 DEF Private
    <3>4. \A y \in Page : slot[seg[z]] = y /\ Private(ram, swmap, y) =>
            /\ ram'.ref[y] = 1
            /\ \A d \in Swap : cachedAs(ram, y, d) => swmap'[d] = 0
      BY <3>3, <1>7 DEF Private
    <3> QED
      BY <3>1, <3>2, <3>4, <1>2, <1>5, StillSpared DEF MInv
  <2>3. Mapped(z) /\ IInv
    BY DEF MInv
  <2> QED
    BY <2>1, <2>2, <2>3, <1>3, <1>6, StillMapped
<1>16. Mapped(q)'
  <2>1. tlb'[q] = nil
    BY <1>1, <1>2, <1>3, Flushed
  <2> QED
    BY <2>1, <1>1, <1>3 DEF Mapped
<1> QED
  BY <1>2, <1>9, <1>10, <1>11, <1>12, <1>14, <1>15, <1>16 DEF MInv

\* After a page out the entries for the MMU are right: the flush has taken away
\* those of the processes that use the segment, and spares the others.
LEMMA OutMapped ==
    ASSUME Quiet, MInv, NEW s \in Seg, slot[s] \in Page,
           lk[s] = nil, settled(s), flush(s),
           \A o \in Seg \ {s} : slot'[o] = slot[o],
           \A x \in Page \ {slot[s]} :
             /\ ram'.ref[x] = ram.ref[x]
             /\ \A t \in Tag : cachedAs(ram', x, t) => cachedAs(ram, x, t)
             /\ \A d \in Swap : cachedAs(ram', x, d) /\ swmap[d] = 0 => swmap'[d] = 0,
           UNCHANGED <<type, seg, pc, entry>>, NEW q \in Proc
    PROVE  Mapped(q)'
<1>1. /\ seg[q] \notin Seg \ {s} => Bare(q)
      /\ tlb'[q] \in {tlb[q], nil}
  BY Flushed
<1>2. ASSUME seg[q] \in Seg \ {s} PROVE Spared(q)
  <2>1. slot'[seg[q]] = slot[seg[q]]
    BY <1>2
  <2>2. Users(seg[q])' = Users(seg[q])
    BY DEF Users
  <2>3. ASSUME NEW x \in Page, slot[seg[q]] = x, Private(ram, swmap, x)
        PROVE  /\ ram'.ref[x] = 1
               /\ \A t \in Tag : cachedAs(ram', x, t) => cachedAs(ram, x, t)
               /\ \A d \in Swap : cachedAs(ram', x, d) => swmap'[d] = 0
    <3>1. x # slot[s]
      BY <1>2, <2>3, Alone DEF MInv, Private
    <3> QED
      BY <2>3, <3>1 DEF Private, Tag
  <2> QED
    BY <2>1, <2>2, <2>3 DEF Spared
<1>3. Mapped(q) /\ IInv
  BY DEF MInv
<1> QED
  BY <1>1, <1>2, <1>3, StillMapped

\* The page of a program is given back: it will be read from the image again.
LEMMA PageoutTextMInv ==
    ASSUME Quiet, MInv, IInv', NEW s \in Seg, type = "text", lk[s] = nil,
           slot[s] \in Page, settled(s), flush(s),
           ram' = putpage(ram, slot[s]), slot' = [slot EXCEPT ![s] = nil],
           UNCHANGED <<swmap, io, type, seg, lk, disk, fault, aux>>
    PROVE  MInv' /\ Unseen
<1>1. PICK m, r, out : m = ram /\ r = ram' /\ out = slot[s]
  OBVIOUS
<1>2. UNCHANGED <<type, seg, disk, io, swmap, pc, rec, new, entry>>
  BY DEF fault
<1>3. Kept(m) /\ out \in Page /\ m.ref[out] # 0 /\ m.ref \in [Page -> Nat]
      /\ m.data[out] = "init"
  BY <1>1, Counted DEF MInv, IInv, Books, Kept, Ram, Text
<1>4. /\ Kept(r) /\ r.ref = [m.ref EXCEPT ![out] = @ - 1]
      /\ r.chain = m.chain
      /\ \A x, t : cachedAs(r, x, t) <=> cachedAs(m, x, t)
      /\ \A x \in Page : r.data[x] = Left(r, m, x)
  <2>1. r = putpage(m, out)
    BY <1>1
  <2> QED
    BY <2>1, <1>3, PutBack
<1>5. Still(m, r) /\ DiskKept
  BY <1>2, <1>4, StillLeft DEF DiskKept
<1>6. slot'[s] = nil /\ \A o \in Seg \ {s} : slot'[o] = slot[o]
  BY DEF MInv, IInv, TypeOK
<1>7. Cache'
  BY <1>1, <1>2, <1>5, StillCache DEF MInv
<1>8. Text'
  BY <1>1, <1>2, <1>5, <1>6, TextNext
<1>9. Unseen
  <2>1. ASSUME NEW o \in Seg \ {s}, NEW v, Holds(o, v) PROVE Holds(o, v)'
    BY <2>1, <1>1, <1>5, <1>6, StillHolds DEF MInv
  <2>2. ASSUME NEW v, Holds(s, v) PROVE Holds(s, v)'
    BY <2>2, <1>1, <1>3, <1>6, PagesAssumption DEF Holds
  <2> QED
    BY <2>1, <2>2 DEF Unseen
<1>10. ASSUME NEW q \in Proc PROVE Reads(q)'
  <2>1. Loading(q) /\ rec[q] # nil => slot'[seg'[q]] = slot[seg[q]]
    <3>1. Loading(q) /\ rec[q] # nil => seg[q] \in Seg /\ slot[seg[q]] \in Swap
      BY OwnSegment DEF MInv, IInv, TypeOK, Reads, Loading, Page0
    <3> QED
      BY <3>1, <1>2, <1>6, PagesAssumption
  <2>2. IInv /\ Reads(q) /\ Still(ram, ram')
    BY <1>1, <1>5 DEF MInv
  <2>3. \A o \in Proc : Loading(o)' <=> Loading(o)
    BY <1>2 DEF Loading
  <2> QED
    BY <2>1, <2>2, <2>3, <1>2, <1>5, StillReads
<1>11. ASSUME NEW q \in Proc PROVE Mapped(q)'
  <2>1. \A x \in Page \ {slot[s]} :
          /\ ram'.ref[x] = ram.ref[x]
          /\ \A t \in Tag : cachedAs(ram', x, t) => cachedAs(ram, x, t)
          /\ \A d \in Swap : cachedAs(ram', x, d) /\ swmap[d] = 0 => swmap'[d] = 0
    BY <1>1, <1>2, <1>3, <1>4
  <2> QED
    BY <2>1, <1>2, <1>6, OutMapped
<1> QED
  BY <1>7, <1>8, <1>9, <1>10, <1>11 DEF MInv

\* The page of a segment becomes the cache of a swap address that nobody has,
\* until the device has it.
LEMMA PageoutSwapMInv ==
    ASSUME Quiet, MInv, IInv', NEW s \in Seg, type # "text", lk[s] = nil,
           slot[s] \in Page, settled(s), flush(s), io.at = "idle",
           \E d \in Swap : swmap[d] = 0,
           ram' = Sent(ram, slot[s], newswap), slot' = [slot EXCEPT ![s] = newswap],
           swmap' = [swmap EXCEPT ![newswap] = 1],
           io' = [page |-> slot[s], at |-> "write"],
           UNCHANGED <<type, seg, lk, disk, fault, aux>>
    PROVE  MInv' /\ Unseen
<1>1. PICK m, r, out, d : m = ram /\ r = ram' /\ out = slot[s] /\ d = newswap
  OBVIOUS
<1>2. UNCHANGED <<type, seg, disk, pc, rec, new, entry>>
  BY DEF fault
<1>3. Kept(m) /\ out \in Page /\ m.ref[out] # 0 /\ m.ref \in [Page -> Nat]
  BY <1>1, Counted DEF MInv, IInv, Books, Kept, Ram
<1>4. d \in Swap /\ swmap[d] = 0 /\ d \in Tag /\ d # image
  BY <1>1, SwapAddress, PagesAssumption DEF Tag
<1>5. /\ Kept(r) /\ r.ref = [m.ref EXCEPT ![out] = @ + 1]
      /\ \A x \in Page, u \in Tag :
           cachedAs(r, x, u) <=>
             IF x = out THEN u = d
             ELSE cachedAs(m, x, u) /\ ~(u = d /\ x = Head(m.chain[d]))
      /\ \A x \in Page : r.data[x] = Left(r, m, x)
  <2>1. r = Sent(m, out, d)
    BY <1>1
  <2> QED
    BY <2>1, <1>3, <1>4, SwappedOut
<1>6. \A x \in Page : cachedAs(m, x, d) => x = Head(m.chain[d])
  <2>1. found(m, d) => cachedAs(m, Head(m.chain[d]), d) /\ Head(m.chain[d]) \in Page
    BY <1>3, <1>4, FoundCached
  <2>2. ~found(m, d) => \A x : ~cachedAs(m, x, d)
    BY <1>3, <1>4, FoundCached
  <2> QED
    BY <2>1, <2>2, <1>1, <1>4 DEF MInv, Cache
<1>7. /\ \A x \in Page : cachedAs(r, x, d) <=> x = out
      /\ \A x \in Page, u \in Tag \ {d} : cachedAs(r, x, u) <=> cachedAs(m, x, u) /\ x # out
  BY <1>4, <1>5, <1>6
<1>8. /\ \A x \in Page : r.ref[x] # 0 => r.data[x] = m.data[x]
      /\ \A x \in Page, u \in Tag : cachedAs(r, x, u) => r.data[x] = m.data[x]
      /\ r.ref[out] # 0 /\ r.data[out] = m.data[out]
      /\ \A x \in Page \ {out} : r.ref[x] = m.ref[x]
  <2>1. r.ref[out] # 0 /\ \A x \in Page \ {out} : r.ref[x] = m.ref[x]
    BY <1>3, <1>5
  <2> QED
    BY <2>1, <1>3, <1>5 DEF Left
<1>9. /\ \A e \in Swap \ {d} : swmap'[e] = swmap[e]
      /\ \A e \in Swap : swmap[e] # 0 => e # d /\ e \in Tag
  BY <1>1, <1>4 DEF MInv, IInv, Books, Tag
<1>10. slot'[s] = d /\ \A o \in Seg \ {s} : slot'[o] = slot[o]
  BY <1>1 DEF MInv, IInv, TypeOK
<1>11. \A x, t : cachedAs(ram, x, t)' <=> cachedAs(r, x, t)
  BY <1>1 DEF cachedAs
<1>12. \A x \in Page, e \in Swap : cachedAs(m, x, e) /\ swmap[e] # 0 => disk[e] = m.data[x]
  BY <1>1 DEF MInv, Cache, Writing
<1>13. Cache'
  <2>1. \A e \in Swap, f, g \in Page : cachedAs(r, f, e) /\ cachedAs(r, g, e) => f = g
    <3>1. \A e \in Swap, f, g \in Page : cachedAs(m, f, e) /\ cachedAs(m, g, e) => f = g
      BY <1>1 DEF MInv, Cache
    <3> QED
      BY <3>1, <1>7 DEF Tag
  <2>2. \E e \in Swap : cachedAs(r, io'.page, e)
    BY <1>1, <1>3, <1>4, <1>7
  <2>3. \A x \in Page : cachedAs(r, x, image) => r.data[x] = "init"
    BY <1>1, <1>4, <1>7, <1>8 DEF MInv, Cache, Tag
  <2>4. \A x \in Page, e \in Swap : cachedAs(r, x, e) /\ swmap'[e] # 0 =>
          disk[e] = r.data[x] \/ (Writing' /\ io'.page = x)
    <3> SUFFICES ASSUME NEW x \in Page, NEW e \in Swap, cachedAs(r, x, e), swmap'[e] # 0
                 PROVE  disk[e] = r.data[x] \/ (Writing' /\ io'.page = x)
      OBVIOUS
    <3>1. CASE e = d
      BY <3>1, <1>1, <1>7 DEF Writing
    <3>2. CASE e # d
      BY <3>2, <1>7, <1>8, <1>9, <1>12 DEF Tag
    <3> QED
      BY <3>1, <3>2
  <2> QED
    BY <2>1, <2>2, <2>3, <2>4, <1>1, <1>2, <1>11 DEF Cache
<1>14. Text'
  BY <1>2 DEF Text
<1>15. Unseen
  <2>1. ASSUME NEW o \in Seg \ {s}, NEW v, Holds(o, v) PROVE Holds(o, v)'
    <3>1. CASE slot[o] \in Page
      <4>1. slot'[o] = slot[o] /\ slot'[o] \in Page
        BY <3>1, <1>10
      <4>2. r.ref[slot[o]] # 0
        BY <4>1, <1>1, EntriesHeldNext
      <4> QED
        BY <2>1, <3>1, <4>1, <4>2, <1>1, <1>8 DEF Holds
    <3>2. CASE slot[o] \in Swap
      <4>1. PICK e \in Swap : e = slot[o]
        BY <3>2
      <4>2. swmap[e] # 0 /\ e # d /\ e \in Tag /\ e \notin Page
        BY <4>1, <1>9, Counted, PagesAssumption DEF MInv
      <4>3. OnSwap(e, v)
        BY <2>1, <4>1, <4>2 DEF Holds
      <4>4. \A x \in Page : cachedAs(r, x, e) => r.data[x] = v
        BY <4>2, <4>3, <1>1, <1>7, <1>8 DEF OnSwap
      <4>5. ASSUME \A x \in Page : ~cachedAs(r, x, e) PROVE disk[e] = v
        <5>1. CASE cachedAs(m, out, e)
          BY <4>2, <4>3, <5>1, <1>1, <1>3, <1>12 DEF OnSwap
        <5>2. CASE ~cachedAs(m, out, e)
          BY <4>2, <4>3, <4>5, <5>2, <1>1, <1>7 DEF OnSwap
        <5> QED
          BY <5>1, <5>2
      <4>6. OnSwap(e, v)'
        BY <4>4, <4>5, <1>1, <1>2, <1>11 DEF OnSwap
      <4>7. slot'[o] = e
        BY <4>1, <1>10
      <4> QED
        BY <4>2, <4>6, <4>7 DEF Holds, OnSwap
    <3>3. CASE slot[o] \notin Page /\ slot[o] \notin Swap
      BY <2>1, <3>3, <1>10 DEF Holds
    <3> QED
      BY <3>1, <3>2, <3>3
  <2>2. ASSUME NEW v, Holds(s, v) PROVE Holds(s, v)'
    <3>1. r.data[out] = v
      BY <2>2, <1>1, <1>3, <1>8 DEF Holds
    <3>2. \A x \in Page : cachedAs(r, x, d) => r.data[x] = v
      BY <3>1, <1>7
    <3>3. OnSwap(d, v)'
      BY <3>2, <1>1, <1>3, <1>7, <1>11 DEF OnSwap
    <3>4. slot'[s] = d /\ d \notin Page
      BY <1>4, <1>10, PagesAssumption
    <3> QED
      BY <3>3, <3>4, <1>4 DEF Holds, OnSwap
  <2> QED
    BY <2>1, <2>2 DEF Unseen
<1>16. ASSUME NEW q \in Proc PROVE Reads(q)'
  <2>1. \A o \in Proc : Loading(o)' <=> Loading(o)
    BY <1>2 DEF Loading
  <2>2. Loading(q) /\ rec[q] # nil =>
          /\ slot'[seg[q]] = rec[q] /\ \A x \in Page : ~cachedAs(r, x, rec[q])
          /\ \A o \in Proc : Loading(o) /\ rec[o] = rec[q] => o = q
    <3> SUFFICES ASSUME Loading(q), rec[q] # nil
                 PROVE  /\ slot'[seg[q]] = rec[q] /\ \A x \in Page : ~cachedAs(r, x, rec[q])
                        /\ \A o \in Proc : Loading(o) /\ rec[o] = rec[q] => o = q
      OBVIOUS
    <3>1. /\ seg[q] \in Seg /\ rec[q] \in Swap /\ slot[seg[q]] = rec[q]
          /\ \A x \in Page : ~cachedAs(m, x, rec[q])
          /\ \A o \in Proc : Loading(o) /\ rec[o] = rec[q] => o = q
      BY <1>1, OwnSegment DEF MInv, IInv, TypeOK, Reads, Loading, Page0
    <3>2. swmap[rec[q]] # 0
      BY <3>1, Counted DEF MInv
    <3>3. rec[q] # d /\ rec[q] \in Tag
      BY <3>1, <3>2, <1>9
    <3>4. seg[q] # s
      BY <3>1, <1>1, <1>3, PagesAssumption
    <3> QED
      BY <3>1, <3>3, <3>4, <1>7, <1>10
  <2>3. pc[q] = "reload" =>
          r.data[new[q]] = IF rec[q] = nil THEN "init" ELSE disk[rec[q]]
    <3> SUFFICES ASSUME pc[q] = "reload"
                 PROVE  r.data[new[q]] = IF rec[q] = nil THEN "init" ELSE disk[rec[q]]
      OBVIOUS
    <3>1. new[q] \in Page /\ ram.ref[new[q]] = 1
      BY DEF MInv, IInv, TypeOK, Faulting
    <3>2. new[q] # out
      BY <3>1, <1>1, PagesAssumption, Counted DEF MInv, IInv, Sole
    <3>3. r.data[new[q]] = m.data[new[q]]
      BY <3>1, <3>2, <1>1, <1>8
    <3> QED
      BY <3>3, <1>1 DEF MInv, Reads
  <2> QED
    BY <2>1, <2>2, <2>3, <1>1, <1>2, <1>11 DEF Reads, Page0
<1>17. ASSUME NEW q \in Proc PROVE Mapped(q)'
  <2>1. ASSUME NEW x \in Page \ {slot[s]}
        PROVE  /\ ram'.ref[x] = ram.ref[x]
               /\ \A t \in Tag : cachedAs(ram', x, t) => cachedAs(ram, x, t)
               /\ \A e \in Swap : cachedAs(ram', x, e) /\ swmap[e] = 0 => swmap'[e] = 0
    BY <1>1, <1>5, <1>7, <1>8, <1>9 DEF Tag
  <2> QED
    BY <2>1, <1>2, <1>10, OutMapped
<1> QED
  BY <1>13, <1>14, <1>15, <1>16, <1>17 DEF MInv

LEMMA PageoutMInv ==
    ASSUME Quiet, MInv, IInv', NEW s \in Seg, pageout(s)
    PROVE  MInv' /\ Unseen /\ seg' = seg
<1>1. /\ io.at = "idle" /\ lk[s] = nil /\ slot[s] \in Page /\ settled(s) /\ flush(s)
      /\ UNCHANGED <<type, seg, lk, disk, fault, aux>>
  BY DEF pageout
<1>2. CASE /\ type = "text" /\ ram' = putpage(ram, slot[s])
           /\ slot' = [slot EXCEPT ![s] = nil] /\ UNCHANGED <<swmap, io>>
  BY <1>1, <1>2, PageoutTextMInv
<1>3. CASE /\ type # "text" /\ \E d \in Swap : swmap[d] = 0
           /\ ram' = LET m == uncachepage(cachedel(ram, newswap), slot[s])
                     IN  cachepage([m EXCEPT !.ref[slot[s]] = @ + 1], slot[s], newswap)
           /\ swmap' = [swmap EXCEPT ![newswap] = 1]
           /\ slot' = [slot EXCEPT ![s] = newswap]
           /\ io' = [page |-> slot[s], at |-> "write"]
  <2>1. ram' = Sent(ram, slot[s], newswap)
    BY <1>3 DEF Sent
  <2> QED
    BY <2>1, <1>1, <1>3, PageoutSwapMInv
<1> QED
  BY <1>2, <1>3, <1>1 DEF pageout

-----------------------------------------------------------------------------
(* The abstract memory.                                                    *)

Mem == [s \in Seg |-> contents(s)]

LEMMA MemNext ==
    ASSUME IInv', Cache', NEW s \in Seg
    PROVE  /\ \A v : Users(s)' # {} /\ Holds(s, v)' => contents(s)' = v
           /\ Users(s)' = {} => contents(s)' = nil
<1>1. ASSUME NEW v, Users(s)' # {}, Holds(s, v)' PROVE contents(s)' = v
  BY <1>1, ContentsNext
<1>2. Users(s)' = {} => contents(s)' = nil
  BY DEF contents
<1> QED
  BY <1>1, <1>2

\* A segment that keeps its users and what it holds.
LEMMA MemSame ==
    ASSUME MInv, IInv', Cache', NEW s \in Seg, Users(s) # {}, Users(s)' # {},
           \A v : Holds(s, v) => Holds(s, v)'
    PROVE  contents(s)' = contents(s)
<1>1. PICK v : v = contents(s)
  OBVIOUS
<1>2. Holds(s, v)
  BY <1>1, ContentsHeld DEF MInv
<1>3. contents(s)' = v
  BY <1>2, MemNext
<1> QED
  BY <1>1, <1>3

LEMMA MemStutter ==
    ASSUME MInv, MInv', Unseen, seg' = seg PROVE Mem' = Mem
<1>1. IInv' /\ Cache'
  BY DEF MInv
<1>2. ASSUME NEW s \in Seg PROVE contents(s)' = contents(s)
  <2>1. Users(s)' = Users(s)
    BY DEF Users
  <2>2. CASE Users(s) # {}
    BY <2>1, <2>2, <1>1, MemSame DEF Unseen
  <2>3. CASE Users(s) = {}
    <3>1. contents(s)' = nil
      BY <2>1, <2>3, <1>1, MemNext
    <3> QED
      BY <2>3, <3>1 DEF contents
  <2> QED
    BY <2>2, <2>3
<1> QED
  BY <1>2 DEF Mem

\* A store of the process is a store in the abstract memory.
LEMMA StoreMaps ==
    ASSUME MInv, IInv', NEW p \in Proc, store(p) PROVE MInv' /\ M!Store(p)
<1>1. /\ MInv' /\ seg' = seg /\ Holds(seg[p], p)'
      /\ \A o \in Seg \ {seg[p]} : \A v : Holds(o, v) => Holds(o, v)'
  BY StoreMInv
<1>2. IInv' /\ Cache'
  BY <1>1 DEF MInv
<1>3. seg[p] \in Seg /\ seg[p] # nil
  BY PagesAssumption DEF store, User, MInv, IInv, TypeOK
<1>4. \A o \in Seg : Users(o)' = Users(o)
  BY <1>1 DEF Users
<1>5. PICK s \in Seg : s = seg[p]
  BY <1>3
<1>6. contents(s)' = p
  <2>1. Users(s)' # {}
    BY <1>4, <1>5 DEF Users
  <2>2. Holds(s, p)'
    BY <1>1, <1>5 DEF Holds
  <2> QED
    BY <2>1, <2>2, <1>2, MemNext
<1>7. ASSUME NEW o \in Seg \ {s} PROVE contents(o)' = contents(o)
  <2>1. CASE Users(o) # {}
    BY <2>1, <1>1, <1>2, <1>4, <1>5, MemSame
  <2>2. CASE Users(o) = {}
    BY <2>2, <1>4 DEF contents
  <2> QED
    BY <2>1, <2>2
<1>8. Mem' = [Mem EXCEPT ![s] = p]
  BY <1>6, <1>7 DEF Mem
<1> QED
  BY <1>1, <1>3, <1>5, <1>8 DEF M!Store, Mem

\* A process that leaves its segment does so in the abstract memory.
LEMMA LeaveMaps ==
    ASSUME MInv, MInv', NEW p \in Proc, NEW w \in Seg \cup {nil},
           w # nil => Users(w) = {}, seg' = [seg EXCEPT ![p] = w],
           \A o \in Seg : \A v : ~(Users(o) \subseteq {p}) /\ Holds(o, v) => Holds(o, v)',
           w # nil => slot'[w] = nil
    PROVE  Mem' = IF w = nil THEN M!Without(p)
                  ELSE [M!Without(p) EXCEPT ![w] = "init"]
<1>1. IInv' /\ Cache'
  BY DEF MInv
<1>2. seg \in [Proc -> Seg \cup {nil}] /\ nil \notin Seg
  BY PagesAssumption DEF MInv, IInv, TypeOK
<1>3. ASSUME NEW o \in Seg, o # w PROVE contents(o)' = M!Without(p)[o]
  <2>1. Users(o)' = Users(o) \ {p}
    BY <1>2, <1>3 DEF Users
  <2>2. CASE Users(o) \subseteq {p}
    <3>1. contents(o)' = nil
      BY <2>1, <2>2, <1>1, MemNext
    <3> QED
      BY <2>2, <3>1 DEF M!Without, M!Users, Users
  <2>3. CASE ~(Users(o) \subseteq {p})
    <3>1. contents(o)' = contents(o)
      BY <2>1, <2>3, <1>1, MemSame
    <3> QED
      BY <2>3, <3>1 DEF M!Without, M!Users, Users
  <2> QED
    BY <2>2, <2>3
<1>4. w \in Seg => contents(w)' = "init"
  <2>1. w \in Seg => Users(w)' # {}
    BY <1>2 DEF Users
  <2>2. w \in Seg => Holds(w, "init")'
    BY <1>2, PagesAssumption DEF Holds
  <2> QED
    BY <2>1, <2>2, <1>1, MemNext
<1>5. M!Without(p) = [o \in Seg |-> M!Without(p)[o]]
  BY DEF M!Without
<1>6. \A o \in Seg : Mem'[o] = contents(o)'
  BY DEF Mem
<1>7. Mem' = [o \in Seg |-> Mem'[o]]
  BY DEF Mem
<1> QED
  BY <1>2, <1>3, <1>4, <1>5, <1>6, <1>7

\* The child of a fork has the segment of its parent, or one that holds the
\* same.
LEMMA ForkMaps ==
    ASSUME Quiet, MInv, IInv', NEW p \in Proc, NEW q \in Proc, fork(p, q)
    PROVE  MInv' /\ \E s \in Seg : M!Fork(p, q, s)
<1>1. /\ User(p) /\ seg[q] = nil /\ lk[seg[p]] = nil
      /\ UNCHANGED <<type, lk, fault, pager, aux>>
  BY DEF fork
<1>2. /\ seg[p] \in Seg /\ seg[p] # nil /\ nil \notin Seg
      /\ seg \in [Proc -> Seg \cup {nil}]
  BY <1>1, PagesAssumption DEF User, MInv, IInv, TypeOK
<1>3. PICK s \in Seg : s = seg[p]
  BY <1>2
<1>4. Users(s) # {}
  BY <1>3 DEF Users
<1>5. CASE /\ seg' = [seg EXCEPT ![q] = seg[p]] /\ tlb' = [tlb EXCEPT ![p] = nil]
           /\ UNCHANGED <<slot, ram, swmap>>
  <2>1. MInv' /\ \A o \in Seg : \A v : Holds(o, v) => Holds(o, v)'
    BY <1>1, <1>5, ShareMInv
  <2>2. IInv' /\ Cache'
    BY <2>1 DEF MInv
  <2>3. ASSUME NEW o \in Seg PROVE contents(o)' = contents(o)
    <3>1. Users(o)' = {} <=> Users(o) = {}
      BY <1>1, <1>2, <1>3, <1>5 DEF Users
    <3>2. CASE Users(o) = {}
      <4>1. contents(o)' = nil
        BY <3>1, <3>2, <2>2, MemNext
      <4> QED
        BY <3>2, <4>1 DEF contents
    <3>3. CASE Users(o) # {}
      BY <3>1, <3>3, <2>1, <2>2, MemSame
    <3> QED
      BY <3>2, <3>3
  <2>4. Mem' = [Mem EXCEPT ![s] = Mem[s]]
    BY <2>3 DEF Mem
  <2>5. M!Fork(p, q, s)
    BY <2>4, <1>1, <1>2, <1>3, <1>5 DEF M!Fork, Mem
  <2> QED
    BY <2>1, <2>5
<1>6. ASSUME NEW n \in Seg, type # "text", Users(n) = {}, settled(seg[p]),
             seg' = [seg EXCEPT ![q] = n], slot' = [slot EXCEPT ![n] = Page0(p)],
             ram' = IF Page0(p) \in Page
                    THEN [ram EXCEPT !.ref[Page0(p)] = @ + 1] ELSE ram,
             swmap' = IF Page0(p) \in Swap
                      THEN [swmap EXCEPT ![Page0(p)] = @ + 1] ELSE swmap,
             flush(seg[p])
      PROVE  MInv' /\ M!Fork(p, q, n)
  <2>1. /\ slot' = [slot EXCEPT ![n] = slot[seg[p]]]
        /\ ram' = IF slot[seg[p]] \in Page
                  THEN [ram EXCEPT !.ref[slot[seg[p]]] = @ + 1] ELSE ram
        /\ swmap' = IF slot[seg[p]] \in Swap
                    THEN [swmap EXCEPT ![slot[seg[p]]] = @ + 1] ELSE swmap
    BY <1>6 DEF Page0
  <2>2. /\ MInv' /\ \A o \in Seg \ {n} : \A v : Holds(o, v) => Holds(o, v)'
        /\ \A v : Holds(seg[p], v) => Holds(n, v)'
    BY <2>1, <1>1, <1>6, CopyMInv
  <2>3. IInv' /\ Cache'
    BY <2>2 DEF MInv
  <2>4. ASSUME NEW o \in Seg \ {n} PROVE contents(o)' = contents(o)
    <3>1. Users(o)' = Users(o)
      BY <1>1, <1>2, <1>6 DEF Users
    <3>2. CASE Users(o) = {}
      <4>1. contents(o)' = nil
        BY <3>1, <3>2, <2>3, MemNext
      <4> QED
        BY <3>2, <4>1 DEF contents
    <3>3. CASE Users(o) # {}
      BY <3>1, <3>3, <2>2, <2>3, MemSame
    <3> QED
      BY <3>2, <3>3
  <2>5. contents(n)' = contents(s)
    <3>1. PICK v : v = contents(s)
      OBVIOUS
    <3>2. Holds(s, v)
      BY <3>1, <1>4, ContentsHeld DEF MInv
    <3>3. Holds(n, v)'
      BY <3>2, <2>2, <1>3
    <3>4. Users(n)' # {}
      BY <1>2, <1>6 DEF Users
    <3>5. contents(n)' = v
      BY <3>3, <3>4, <2>3, MemNext
    <3> QED
      BY <3>1, <3>5
  <2>6. Mem' = [Mem EXCEPT ![n] = Mem[s]]
    BY <2>4, <2>5 DEF Mem
  <2>7. M!Fork(p, q, n)
    BY <2>6, <1>1, <1>2, <1>3, <1>6 DEF M!Fork, M!Users, Mem, Users
  <2> QED
    BY <2>2, <2>7
<1> QED
  BY <1>5, <1>6 DEF fork

-----------------------------------------------------------------------------
(* The theorems.                                                           *)

LEMMA FirstMInv ==
    ASSUME Init PROVE MInv /\ M!Init
<1>1. IInv
  BY Initially
<1>2. PICK p \in Proc, s \in Seg : seg = [q \in Proc |-> IF q = p THEN s ELSE nil]
  BY DEF Init
<1>3. /\ slot = [t \in Seg |-> nil] /\ swmap = [d \in Swap |-> 0]
      /\ pc = [q \in Proc |-> "user"] /\ entry = [q \in Proc |-> nil]
      /\ tlb = [q \in Proc |-> nil] /\ io.at = "idle"
      /\ ram.chain = [t \in Tag |-> <<>>]
  BY DEF Init
<1>4. \A x \in Page, t \in Tag : ~cachedAs(ram, x, t)
  <2>1. \A t \in Tag : ~found(ram, t)
    BY <1>3 DEF found
  <2> QED
    BY <2>1, <1>1, FoundCached DEF IInv, Books
<1>5. Cache
  BY <1>3, <1>4 DEF Cache, Writing, Tag
<1>6. Text
  BY <1>3, PagesAssumption DEF Text
<1>7. \A q \in Proc : Reads(q) /\ Mapped(q)
  BY <1>3 DEF Reads, Mapped, Loading
<1>8. MInv
  BY <1>1, <1>5, <1>6, <1>7 DEF MInv
<1>9. ASSUME NEW t \in Seg PROVE contents(t) = IF t = s THEN "init" ELSE nil
  <2>1. CASE t = s
    <3>1. Users(t) # {}
      BY <2>1, <1>2 DEF Users
    <3>2. Holds(t, "init")
      BY <1>3, PagesAssumption DEF Holds
    <3> QED
      BY <2>1, <3>1, <3>2, <1>1, <1>5, ContentsHeld
  <2>2. CASE t # s
    <3>1. Users(t) = {}
      BY <2>2, <1>2, PagesAssumption DEF Users
    <3> QED
      BY <2>2, <3>1 DEF contents
  <2> QED
    BY <2>1, <2>2
<1>10. Mem = [t \in Seg |-> IF t = s THEN "init" ELSE nil]
  BY <1>9 DEF Mem
<1> QED
  BY <1>2, <1>8, <1>10 DEF M!Init, Mem

LEMMA StutterMInv ==
    ASSUME MInv, UNCHANGED vars PROVE MInv' /\ UNCHANGED <<seg, Mem>>
<1>1. UNCHANGED <<type, seg, slot, ram, swmap, disk, pc, rec, new, entry, tlb, io>>
  BY DEF vars
<1>2. IInv'
  BY Stutter DEF MInv
<1>3. Still(ram, ram') /\ Cache'
  <2>1. Still(ram, ram')
    BY <1>1 DEF Still
  <2> QED
    BY <2>1, <1>1, <1>2, StillStep
<1>4. DiskKept
  BY <1>1 DEF DiskKept
<1>5. MInv' /\ Unseen
  BY <1>1, <1>2, <1>3, <1>4, AsideDisk
<1> QED
  BY <1>1, <1>5, MemStutter

\* Every step keeps the invariant, and is one of the abstract memory or
\* changes nothing there.
LEMMA Steps ==
    ASSUME Quiet, MInv, [Next]_vars PROVE MInv' /\ [M!Next]_<<seg, Mem>>
<1>1. IInv'
  BY Inductive DEF Quiet, MInv
<1>2. ASSUME MInv', Unseen, seg' = seg PROVE [M!Next]_<<seg, Mem>>
  BY <1>2, MemStutter
<1>3. ASSUME NEW p \in Proc, waits(p) PROVE MInv' /\ Unseen /\ seg' = seg
  BY <1>1, <1>3, FaultMInv, ZerofillMInv, PiocachedMInv, PioreadMInv, PioenterMInv,
     PioerrorMInv DEF waits
<1>4. ASSUME NEW p \in Proc, holds(p) PROVE MInv' /\ Unseen /\ seg' = seg
  BY <1>1, <1>4, FaultMInv, CopyOnWriteMInv, WriteInPlaceMInv DEF holds
<1>5. ASSUME NEW p \in Proc, touch(p, TRUE) \/ touch(p, FALSE)
      PROVE  MInv' /\ Unseen /\ seg' = seg
  BY <1>1, <1>5, FaultMInv
<1>6. CASE executeio \/ auxpage \/ auxfree \/ imagereclaim
  <2>1. MInv' /\ Unseen /\ seg' = seg
    BY <1>1, <1>6, ExecuteioMInv, AuxpageMInv, AuxfreeMInv, ImagereclaimMInv
  <2> QED
    BY <2>1, <1>2
<1>7. ASSUME NEW s \in Seg, pageout(s) PROVE MInv' /\ Unseen /\ seg' = seg
  BY <1>1, <1>7, PageoutMInv
<1>8. ASSUME NEW p \in Proc, store(p) PROVE MInv' /\ M!Next
  <2>1. MInv' /\ M!Store(p)
    BY <1>1, <1>8, StoreMaps
  <2> QED
    BY <2>1 DEF M!Next
<1>9. ASSUME NEW p \in Proc, exit(p) PROVE MInv' /\ M!Next
  <2>1. /\ User(p) /\ leave(p) /\ seg' = [seg EXCEPT ![p] = nil]
        /\ UNCHANGED <<type, lk, fault, pager, aux>>
    BY <1>9 DEF exit
  <2>2. MInv' /\ \A o \in Seg : \A v : ~(Users(o) \subseteq {p}) /\ Holds(o, v) => Holds(o, v)'
    BY <2>1, <1>1, LeaveMInv
  <2>3. Mem' = M!Without(p)
    BY <2>1, <2>2, LeaveMaps
  <2>4. M!Exit(p)
    BY <2>1, <2>3 DEF M!Exit, User, Mem
  <2> QED
    BY <2>2, <2>4 DEF M!Next
<1>10. ASSUME NEW p \in Proc, exec(p) PROVE MInv' /\ M!Next
  <2>1. PICK n \in Seg :
          /\ User(p) /\ Users(n) = {} /\ type # "text" /\ leave(p)
          /\ seg' = [seg EXCEPT ![p] = n]
          /\ UNCHANGED <<type, lk, fault, pager, aux>>
    BY <1>10 DEF exec
  <2>2. /\ MInv' /\ \A o \in Seg : \A v : ~(Users(o) \subseteq {p}) /\ Holds(o, v) => Holds(o, v)'
        /\ n # nil => slot'[n] = nil
    BY <2>1, <1>1, LeaveMInv
  <2>3. n # nil
    BY PagesAssumption
  <2>4. Mem' = [M!Without(p) EXCEPT ![n] = "init"]
    <3>1. Mem' = IF n = nil THEN M!Without(p)
                 ELSE [M!Without(p) EXCEPT ![n] = "init"]
      BY <2>1, <2>2, LeaveMaps
    <3> QED
      BY <3>1, <2>3
  <2>5. M!Exec(p, n)
    BY <2>1, <2>4 DEF M!Exec, M!Users, User, Users, Mem
  <2> QED
    BY <2>2, <2>5 DEF M!Next
<1>11. ASSUME NEW p \in Proc, NEW q \in Proc, fork(p, q) PROVE MInv' /\ M!Next
  <2>1. MInv' /\ \E s \in Seg : M!Fork(p, q, s)
    BY <1>1, <1>11, ForkMaps
  <2> QED
    BY <2>1 DEF M!Next
<1>12. CASE UNCHANGED vars
  BY <1>12, StutterMInv
<1> QED
  BY <1>2, <1>3, <1>4, <1>5, <1>6, <1>7, <1>8, <1>9, <1>10, <1>11, <1>12 DEF Next

\* What a process has in the MMU, and what is cached, is what its segment has.
LEMMA CachesRight ==
    ASSUME MInv PROVE CachesOK
<1>1. MmuOK
  <2> SUFFICES ASSUME NEW p \in Proc, pc[p] = "user", tlb[p] # nil
               PROVE  /\ tlb[p].page = Page0(p)
                      /\ tlb[p].rw => /\ sharing(tlb[p].page) = 1
                                      /\ ~cachedAs(ram, tlb[p].page, image)
    BY DEF MmuOK
  <2>1. PICK e \in Entry : e = tlb[p]
    BY DEF MInv, IInv, TypeOK
  <2>2. Right(p, e) /\ e.page \in Page
    BY <2>1 DEF MInv, Mapped, Entry
  <2>3. e.rw => sharing(e.page) = 1
    <3>1. e.rw => Private(ram, swmap, e.page) /\ ram.ref[e.page] # 0
      BY <2>2 DEF Right, Private
    <3> QED
      BY <3>1, <2>2, Shared DEF MInv
  <2> QED
    BY <2>1, <2>2, <2>3 DEF Right
<1>2. SwapCacheOK
  <2> SUFFICES ASSUME NEW d \in Swap, NEW f \in ToSet(ram.chain[d]),
                      NEW g \in ToSet(ram.chain[d])
               PROVE  ram.data[f] = ram.data[g]
    BY DEF SwapCacheOK
  <2>1. cachedAs(ram, f, d) /\ cachedAs(ram, g, d)
    BY DEF cachedAs
  <2>2. f \in Page /\ g \in Page
    <3>1. ram.chain[d] \in Seq(Page)
      BY DEF MInv, IInv, Books, Kept, Ram, Tag
    <3> QED
      BY <2>1, <3>1, CachedOn DEF On
  <2> QED
    BY <2>1, <2>2 DEF MInv, Cache
<1> QED
  BY <1>1, <1>2 DEF CachesOK

\* No entry that is stale, or that allows a store others would see, is ever in
\* the MMU, and a swap address is cached once: fixfault (port/fault.c) and the
\* pager (port/swap.c) keep each other's pages apart by lock(s->lk), the flush
\* of canpage and the counts of swapcount.
THEOREM CachesSound ==
    ASSUME Hazards = {} PROVE Spec /\ []~swapfull => []CachesOK
<1>1. Init => MInv
  BY FirstMInv
<1>2. MInv /\ ~swapfull /\ [Next]_vars => MInv'
  BY Steps DEF Quiet
<1>3. MInv => CachesOK
  BY CachesRight
<1> QED
  BY <1>1, <1>2, <1>3, PTL DEF Spec

\* A segment holds what its own users stored in it last: sharing, copies on
\* write, demand loading, the cache and the swap device are invisible.
THEOREM MemoryRefinement ==
    ASSUME Hazards = {} PROVE Spec /\ []~swapfull => ImplementsMemory
<1>1. Init => MInv /\ M!Init
  BY FirstMInv
<1>2. MInv /\ ~swapfull /\ [Next]_vars => MInv' /\ [M!Next]_<<seg, Mem>>
  BY Steps DEF Quiet
<1> QED
  BY <1>1, <1>2, PTL DEF Spec, ImplementsMemory, M!Spec, Mem
=============================================================================
