-------------------------------- MODULE Pages --------------------------------
(***************************************************************************)
(* Demand loading, copy on write and paging: port/fault.c, page.c, swap.c  *)
(* and what segment.c does to a page table entry.  Each segment has one    *)
(* page here.  Its entry (slot) is nil, a page, or an address on the swap  *)
(* device.  A page that is cached is found again by the place it was read  *)
(* from or is written to: the image of the program, or a swap address.     *)
(*                                                                         *)
(* A step is what is done under lock(&palloc), lock(page) or               *)
(* lock(&swapalloc), or one half of an I/O.  s->lk is held across steps.   *)
(* The entries of a process in the MMU (tlb) are used without any lock.    *)
(* The pager may look at any segment at any time when memory is short; the *)
(* reference bit, which only makes it pass over a page, is left out.       *)
(***************************************************************************)
EXTENDS Naturals, Sequences, SequencesExt, FiniteSetsExt, Positions

CONSTANTS Proc, Seg, Page,
          Swap,       \* the addresses on the swap device, a set of numbers
          Types,      \* the types of segment looked at
          HighWater,  \* swapalloc.highwater: pages kept for the kernel
          Headroom,   \* swapalloc.headroom: the pager works below this
          Reserve,    \* fewer free swap addresses than this is "swap full"
          MaxAux,     \* bound on the pages the file cache holds
          Hazards,    \* interleavings that are let happen, see below
          image, nil

\* "twice": two processes read the same swap address at the same time;
\* "share": a segment of several processes is paged out;
\* "window": a process loses its processor between qunlock and putmmu;
\* "retry": duppage finds palloc locked, and drops its lock to try again.
ASSUME PagesAssumption ==
    /\ Swap \subseteq Nat
    /\ {HighWater, Headroom, Reserve, MaxAux} \subseteq Nat
    /\ Types \subseteq {"data", "bss", "text"}
    /\ Hazards \subseteq {"twice", "share", "window", "retry"}
    /\ Page \cap Swap = {} /\ image \notin Swap
    /\ nil \notin Page \cup Swap \cup Seg \cup Proc
    /\ IsFiniteSet(Proc) /\ IsFiniteSet(Seg)
    /\ IsFiniteSet(Page) /\ IsFiniteSet(Swap)

VARIABLES
    type,    \* the type of all the segments; it never changes
    seg,     \* p->seg, nil when there is no process
    slot,    \* the page table entry of a segment
    lk,      \* who holds s->lk
    ram,     \* the pages: ref, the free list, the hash chains and the data
    swmap,   \* swapalloc.swmap
    disk,    \* what is on the swap device
    pc, write, rec, new,  \* a fault: where it is, whether it is a write,
                          \* loadrec, the page it has allocated
    entry,   \* mmuphys: the page and whether it may be written
    tlb,     \* what the MMU has for the process
    io,      \* the page being written to the swap device, and how far
    aux      \* pages of the file cache (auxpage)

vars == <<type, seg, slot, lk, ram, swmap, disk, pc, write, rec, new, entry,
          tlb, io, aux>>
fault == <<pc, write, rec, new, entry>>
pager == <<disk, io>>

Tag == Swap \cup {image}
Users(s) == {p \in Proc : seg[p] = s}
swapfull == Cardinality({d \in Swap : swmap[d] = 0}) < Reserve

-----------------------------------------------------------------------------
(* Operations on the pages: each takes the pages and returns the new ones. *)

cachedAs(m, pg, t) == pg \in ToSet(m.chain[t])

\* Nobody reads what is in a free page that is no cache.
forget(m) ==
    [m EXCEPT !.data = [pg \in Page |->
        IF m.ref[pg] = 0 /\ \A t \in Tag : ~cachedAs(m, pg, t) THEN "junk"
        ELSE m.data[pg]]]

uncachepage(m, pg) ==
    [m EXCEPT !.chain = [t \in Tag |-> RemoveFirst(m.chain[t], pg)]]

cachepage(m, pg, t) == [m EXCEPT !.chain[t] = <<pg>> \o @]

\* Mutant: the old cache of the swap address is left.
cachedelNot(m, t) == m

\* The first page on the chain loses its place, and no other.
cachedel(m, t) ==
    forget([m EXCEPT !.chain[t] = IF @ = <<>> THEN @ ELSE Tail(@)])

found(m, t) == m.chain[t] # <<>>

lookpage(m, t) ==
    LET f == Head(m.chain[t])
    IN  [m EXCEPT !.ref[f] = @ + 1, !.free = RemoveFirst(@, f)]

plenty == Len(ram.free) > HighWater

\* newpage takes the head of the free list, whatever it was the cache of.
newpage(m) ==
    LET pg == Head(m.free)
    IN  [uncachepage(m, pg) EXCEPT !.free = Tail(@), !.ref[pg] = 1,
                                   !.data[pg] = "junk"]

\* The pages of an image are used again last.
putpage(m, pg) ==
    forget([m EXCEPT !.ref[pg] = @ - 1,
                     !.free = IF m.ref[pg] > 1 THEN @
                              ELSE IF cachedAs(m, pg, image) THEN Append(@, pg)
                              ELSE <<pg>> \o @])

\* A free page becomes the cache of the image, so that pg can be written.
duppage(m, pg) ==
    IF m.free = <<>> \/ Len(m.free) < HighWater THEN uncachepage(m, pg)
    ELSE LET np == Head(m.free)
             n  == [uncachepage(m, np) EXCEPT !.free = Append(Tail(@), np),
                                              !.data[np] = m.data[pg]]
         IN  uncachepage(cachepage(n, np, image), pg)

putswap(d) == [swmap EXCEPT ![d] = @ - 1]

-----------------------------------------------------------------------------
Init == /\ type \in Types
        /\ \E p \in Proc, s \in Seg :
               seg = [q \in Proc |-> IF q = p THEN s ELSE nil]
        /\ slot = [s \in Seg |-> nil]
        /\ lk = [s \in Seg |-> nil]
        /\ \E f \in SetToSeqs(Page) :
               ram = [ref   |-> [pg \in Page |-> 0],
                      free  |-> f,
                      chain |-> [t \in Tag |-> <<>>],
                      data  |-> [pg \in Page |-> "junk"]]
        /\ swmap = [d \in Swap |-> 0]
        /\ disk = [d \in Swap |-> "junk"]
        /\ pc = [p \in Proc |-> "user"]
        /\ write = [p \in Proc |-> FALSE]
        /\ rec = [p \in Proc |-> nil]
        /\ new = [p \in Proc |-> nil]
        /\ entry = [p \in Proc |-> nil]
        /\ tlb = [p \in Proc |-> nil]
        /\ io = [page |-> nil, at |-> "idle"]
        /\ aux = {}

Goto(p, from, to) == pc[p] = from /\ pc' = [pc EXCEPT ![p] = to]
User(p) == pc[p] = "user" /\ seg[p] # nil
release(p) == lk' = [lk EXCEPT ![seg[p]] = nil]
acquire(p) == lk[seg[p]] = nil /\ lk' = [lk EXCEPT ![seg[p]] = p]
fill(p, x) == slot' = [slot EXCEPT ![seg[p]] = x]
Page0(p)   == slot[seg[p]]

\* A process stores through the MMU.
store(p) ==
    /\ User(p) /\ tlb[p] # nil /\ tlb[p].rw
    /\ ram.data[tlb[p].page] # p
    /\ ram' = [ram EXCEPT !.data[tlb[p].page] = p]
    /\ UNCHANGED <<type, seg, slot, lk, swmap, fault, tlb, pager, aux>>

\* The MMU has no entry for what the process does: fault().
touch(p, w) ==
    /\ User(p) /\ Goto(p, "user", "fault")
    /\ tlb[p] # nil => w /\ ~tlb[p].rw
    /\ w => type # "text"
    /\ write' = [write EXCEPT ![p] = w]
    /\ UNCHANGED <<type, seg, slot, lk, ram, swmap, rec, new, entry, tlb,
                   pager, aux>>

\* Where pio looks for the page.
place(x) == IF x = nil THEN image ELSE x

zerofilled(p) == type = "bss" /\ Page0(p) = nil

\* seg() returns with s->lk held, and the page is there.
resident(p) ==
    /\ Goto(p, "fault", "common") /\ acquire(p)
    /\ Page0(p) \in Page
    /\ UNCHANGED <<type, seg, slot, ram, swmap, write, rec, new, entry, tlb,
                   pager, aux>>

\* Without a page newpage(1, &s, ..) gives up s->lk, waits, and fault() starts
\* again.
zerofill(p) ==
    /\ Goto(p, "fault", "common") /\ acquire(p)
    /\ zerofilled(p) /\ plenty
    /\ ram' = [newpage(ram) EXCEPT !.data[Head(ram.free)] = "init"]
    /\ fill(p, Head(ram.free))
    /\ UNCHANGED <<type, seg, swmap, write, rec, new, entry, tlb, pager, aux>>

\* pio finds the page in the cache ...
piocached(p) ==
    LET t == place(Page0(p))
    IN  /\ Goto(p, "fault", "common") /\ acquire(p)
        /\ Page0(p) \notin Page /\ ~zerofilled(p) /\ found(ram, t)
        /\ \/ "retry" \in Hazards
           \/ \A q \in Proc : pc[q] = "dup" => Page0(q) # Head(ram.chain[t])
        /\ ram' = lookpage(ram, t)
        /\ fill(p, Head(ram.chain[t]))
        /\ swmap' = IF t \in Swap THEN putswap(t) ELSE swmap
        /\ UNCHANGED <<type, seg, write, rec, new, entry, tlb, pager, aux>>

\* ... or drops s->lk to read it.
piomissing(p) ==
    LET t == place(Page0(p))
    IN  /\ Goto(p, "fault", "load") /\ lk[seg[p]] = nil
        /\ Page0(p) \notin Page /\ ~zerofilled(p) /\ ~found(ram, t)
        /\ \/ t = image \/ "twice" \in Hazards
           \/ \A q \in Proc : pc[q] \in {"load", "reload"} => rec[q] # t
        /\ rec' = [rec EXCEPT ![p] = Page0(p)]
        /\ UNCHANGED <<type, seg, slot, lk, ram, swmap, write, new, entry, tlb,
                       pager, aux>>

\* newpage(0, 0, addr) waits until there is a page, and the page is read.
pioread(p) ==
    /\ plenty /\ Goto(p, "load", "reload")
    /\ new' = [new EXCEPT ![p] = Head(ram.free)]
    /\ ram' = [newpage(ram) EXCEPT !.data[Head(ram.free)] =
                  IF rec[p] = nil THEN "init" ELSE disk[rec[p]]]
    /\ UNCHANGED <<type, seg, slot, lk, swmap, write, rec, entry, tlb, pager,
                   aux>>

\* Mutant: the page is not put back.
pioerrorKept(p) ==
    /\ Goto(p, "reload", "user")
    /\ new' = [new EXCEPT ![p] = nil] /\ rec' = [rec EXCEPT ![p] = nil]
    /\ write' = [write EXCEPT ![p] = FALSE]
    /\ UNCHANGED <<type, seg, slot, lk, ram, swmap, entry, tlb, pager, aux>>

\* Or it is not: faulterror(), the page is put back and the process has a
\* note.
pioerror(p) ==
    /\ Goto(p, "reload", "user")
    /\ ram' = putpage(ram, new[p])
    /\ new' = [new EXCEPT ![p] = nil] /\ rec' = [rec EXCEPT ![p] = nil]
    /\ write' = [write EXCEPT ![p] = FALSE]
    /\ UNCHANGED <<type, seg, slot, lk, swmap, entry, tlb, pager, aux>>

\* pio has s->lk again, and the entry may be another one by now.  One that
\* was nil is not looked at again; one that was on swap is, from the start.
pioenter(p) ==
    LET same  == Page0(p) = rec[p]
        retry == ~same /\ rec[p] # nil /\ Page0(p) \notin Page
    IN  /\ Goto(p, "reload", IF retry THEN "fault" ELSE "common")
        /\ lk[seg[p]] = nil
        /\ lk' = [lk EXCEPT ![seg[p]] = IF retry THEN nil ELSE p]
        /\ new' = [new EXCEPT ![p] = nil] /\ rec' = [rec EXCEPT ![p] = nil]
        /\ IF same
           THEN /\ ram' = cachepage(ram, new[p], place(rec[p]))
                /\ fill(p, new[p])
                /\ swmap' = IF rec[p] = nil THEN swmap ELSE putswap(rec[p])
           ELSE /\ ram' = putpage(ram, new[p])
                /\ UNCHANGED <<slot, swmap>>
        /\ UNCHANGED <<type, seg, write, entry, tlb, pager, aux>>

-----------------------------------------------------------------------------
(* The rest of fixfault, with the page in memory: label common.            *)

\* Mutant: page tables on the swap address of the page do not count.
sharingRefOnly(pg) == ram.ref[pg]

\* How many may be looking at the page, on its swap address included.
swapcount(pg) == IF \A d \in Swap : ~cachedAs(ram, pg, d) THEN 0
                 ELSE swmap[CHOOSE d \in Swap : cachedAs(ram, pg, d)]
sharing(pg) == ram.ref[pg] + swapcount(pg)

readable(p) == type = "text" \/ (~write[p] /\ Users(seg[p]) = {p})

\* qunlock(&s->lk), with the entry for putmmu at hand.
finish(p, pg, rw) ==
    /\ release(p) /\ pc' = [pc EXCEPT ![p] = "putmmu"]
    /\ entry' = [entry EXCEPT ![p] = [page |-> pg, rw |-> rw]]

readOnly(p) ==
    /\ pc[p] = "common" /\ readable(p)
    /\ finish(p, Page0(p), FALSE)
    /\ UNCHANGED <<type, seg, slot, ram, swmap, write, rec, new, tlb, pager,
                   aux>>

\* Others have the page, so nobody writes it while it is copied.  Without
\* memory for the copy newpage(0, &s, ..) gives up s->lk and fault() starts
\* again; with the swap device full the process has a note.
copyOnWrite(p) ==
    LET pg == Page0(p)
        np == Head(ram.free)
    IN  /\ pc[p] = "common" /\ ~readable(p) /\ sharing(pg) > 1
        /\ IF plenty /\ ~swapfull
           THEN /\ ram' = putpage([newpage(ram) EXCEPT !.data[np] = ram.data[pg]],
                                  pg)
                /\ fill(p, np) /\ finish(p, np, TRUE)
           ELSE /\ Goto(p, "common", IF swapfull THEN "user" ELSE "fault")
                /\ release(p)
                /\ UNCHANGED <<slot, ram, entry>>
        /\ UNCHANGED <<type, seg, swmap, write, rec, new, tlb, pager, aux>>

\* duppage may not wait for palloc with the page locked: it lets go of the
\* page and tries again.
dupretry(p) ==
    /\ Goto(p, "common", "dup")
    /\ ~readable(p) /\ sharing(Page0(p)) <= 1
    /\ cachedAs(ram, Page0(p), image) /\ ~swapfull
    /\ UNCHANGED <<type, seg, slot, lk, ram, swmap, write, rec, new, entry,
                   tlb, pager, aux>>

writeInPlace(p) ==
    LET pg == Page0(p)
    IN  /\ \/ pc[p] = "common" /\ ~readable(p) /\ sharing(pg) <= 1
           \/ pc[p] = "dup"
        /\ ram' = IF cachedAs(ram, pg, image) /\ ~swapfull
                  THEN duppage(ram, pg) ELSE ram
        /\ finish(p, pg, TRUE)
        /\ UNCHANGED <<type, seg, slot, swmap, write, rec, new, tlb, pager,
                       aux>>

putmmu(p) ==
    /\ Goto(p, "putmmu", "user")
    /\ tlb' = [tlb EXCEPT ![p] = entry[p]]
    /\ entry' = [entry EXCEPT ![p] = nil]
    /\ write' = [write EXCEPT ![p] = FALSE]
    /\ UNCHANGED <<type, seg, slot, lk, ram, swmap, rec, new, pager, aux>>

-----------------------------------------------------------------------------
(* Processes come and go.                                                  *)

\* putseg and freepte: the last user of a segment gives back its page or
\* swap address.
leave(p) ==
    LET s == seg[p]
        last == Users(s) = {p}
    IN  /\ slot' = [slot EXCEPT ![s] = IF last THEN nil ELSE @]
        /\ tlb' = [tlb EXCEPT ![p] = nil]
        /\ ram' = IF last /\ slot[s] \in Page THEN putpage(ram, slot[s])
                  ELSE ram
        /\ swmap' = IF last /\ slot[s] \in Swap THEN putswap(slot[s])
                    ELSE swmap

exit(p) ==
    /\ User(p) /\ \E q \in Proc \ {p} : seg[q] # nil
    /\ leave(p)
    /\ seg' = [seg EXCEPT ![p] = nil]
    /\ UNCHANGED <<type, lk, fault, pager, aux>>

\* The new program has its segment before the old one is left.
exec(p) ==
    \E n \in Seg :
        /\ User(p) /\ Users(n) = {} /\ type # "text"
        /\ leave(p)
        /\ seg' = [seg EXCEPT ![p] = n]
        /\ UNCHANGED <<type, lk, fault, pager, aux>>

\* Nobody is about to put an entry for the segment into the MMU.
settled(s) == "window" \in Hazards \/ \A p \in Users(s) : pc[p] # "putmmu"

\* Mutant: the processes keep what they have in the MMU.
flushNot(s) == UNCHANGED tlb

\* flushmmu, procflushseg and p->newtlb of canpage.
flush(s) == tlb' = [p \in Proc |-> IF p \in Users(s) THEN nil ELSE tlb[p]]

\* rfork: dupseg, with ptecpy for a segment that is not shared.
fork(p, q) ==
    /\ User(p) /\ seg[q] = nil /\ lk[seg[p]] = nil
    /\ \/ /\ seg' = [seg EXCEPT ![q] = seg[p]]
          /\ tlb' = [tlb EXCEPT ![p] = nil]
          /\ UNCHANGED <<slot, ram, swmap>>
       \/ \E n \in Seg :
             /\ type # "text" /\ Users(n) = {} /\ ~swapfull
             /\ settled(seg[p])
             /\ seg' = [seg EXCEPT ![q] = n]
             /\ slot' = [slot EXCEPT ![n] = Page0(p)]
             /\ ram' = IF Page0(p) \in Page
                       THEN [ram EXCEPT !.ref[Page0(p)] = @ + 1] ELSE ram
             /\ swmap' = IF Page0(p) \in Swap
                         THEN [swmap EXCEPT ![Page0(p)] = @ + 1] ELSE swmap
             /\ flush(seg[p])
    /\ UNCHANGED <<type, lk, fault, pager, aux>>

-----------------------------------------------------------------------------
(* The pager, and the file cache.                                          *)

newswap == CHOOSE d \in Swap : /\ swmap[d] = 0
                               /\ \A e \in Swap : swmap[e] = 0 => d <= e

\* pageout and pagepte.
pageout(s) ==
    /\ io.at = "idle" /\ Len(ram.free) < Headroom
    /\ Users(s) # {} /\ lk[s] = nil /\ slot[s] \in Page
    /\ \/ type = "text" \/ "share" \in Hazards
       \/ /\ Cardinality(Users(s)) = 1
          /\ \A p \in Users(s) : pc[p] \notin {"load", "reload"}
    /\ settled(s) /\ flush(s)
    /\ LET out == slot[s]
       IN  \/ /\ type = "text"              \* revert to demand load
              /\ ram' = putpage(ram, out)
              /\ slot' = [slot EXCEPT ![s] = nil]
              /\ UNCHANGED <<swmap, io>>
           \/ /\ type # "text" /\ \E d \in Swap : swmap[d] = 0
              /\ ram' = LET m == uncachepage(cachedel(ram, newswap), out)
                        IN  cachepage([m EXCEPT !.ref[out] = @ + 1], out,
                                      newswap)
              /\ swmap' = [swmap EXCEPT ![newswap] = 1]
              /\ slot' = [slot EXCEPT ![s] = newswap]
              /\ io' = [page |-> out, at |-> "write"]
    /\ UNCHANGED <<type, seg, lk, disk, fault, aux>>

\* executeio: the device has half of the page, then all of it, and only
\* then the page may go.
executeio ==
    LET d == CHOOSE e \in Swap : cachedAs(ram, io.page, e)
    IN  /\ \/ /\ io.at = "write"
              /\ disk' = [disk EXCEPT ![d] = "junk"]
              /\ io' = [io EXCEPT !.at = "writing"]
              /\ UNCHANGED ram
           \/ /\ io.at = "writing"
              /\ disk' = [disk EXCEPT ![d] = ram.data[io.page]]
              /\ io' = [io EXCEPT !.at = "put"]
              /\ ram' = [ram EXCEPT !.ref[io.page] = @ - 1]
           \/ /\ io.at = "put"
              /\ ram' = putpage(ram, io.page)
              /\ io' = [page |-> nil, at |-> "idle"]
              /\ UNCHANGED disk
        /\ UNCHANGED <<type, seg, slot, lk, swmap, fault, tlb, aux>>

auxpage ==
    /\ Cardinality(aux) < MaxAux
    /\ ram.free # <<>> /\ Len(ram.free) >= HighWater
    /\ ram' = newpage(ram) /\ aux' = aux \cup {Head(ram.free)}
    /\ UNCHANGED <<type, seg, slot, lk, swmap, fault, tlb, pager>>

auxfree ==
    \E pg \in aux :
        /\ ram' = putpage(ram, pg) /\ aux' = aux \ {pg}
        /\ UNCHANGED <<type, seg, slot, lk, swmap, fault, tlb, pager>>

\* No free page remains a cache.
imagereclaim ==
    /\ \E t \in Tag : \E pg \in ToSet(ram.free) : cachedAs(ram, pg, t)
    /\ ram' = forget([ram EXCEPT !.chain = [t \in Tag |->
                  At(ram.chain[t], {i \in DOMAIN ram.chain[t] :
                                      ram.ref[ram.chain[t][i]] # 0})]])
    /\ UNCHANGED <<type, seg, slot, lk, swmap, fault, tlb, pager, aux>>

-----------------------------------------------------------------------------
waits(p) == \/ resident(p) \/ zerofill(p) \/ piocached(p) \/ piomissing(p)
            \/ pioread(p) \/ pioenter(p) \/ pioerror(p)

holds(p) == \/ readOnly(p) \/ copyOnWrite(p) \/ dupretry(p)
            \/ writeInPlace(p) \/ putmmu(p)

Next == \/ \E p \in Proc :
               \/ store(p) \/ touch(p, TRUE) \/ touch(p, FALSE)
               \/ waits(p) \/ holds(p) \/ exit(p) \/ exec(p)
               \/ \E q \in Proc : fork(p, q)
        \/ \E s \in Seg : pageout(s)
        \/ executeio \/ auxpage \/ auxfree \/ imagereclaim

Spec == Init /\ [][Next]_vars

-----------------------------------------------------------------------------
(* Properties.                                                             *)

count(x) == Cardinality({s \in Seg : slot[s] = x})

\* Label common of fixfault is reached with the page in memory: the code goes
\* on without a test.
FaultHasPage ==
    \A p \in Proc : pc[p] \in {"common", "dup"} => Page0(p) \in Page

\* Nothing is counted wrong: a page's ref is the number of segments, faults,
\* files and writes that hold it; the free list has the pages nobody holds,
\* once; a page is the cache of one place at most; a swap address is as
\* often in the page tables as swmap says; and a fault has its page.
PagesOK ==
    /\ \A pg \in Page :
           /\ ram.ref[pg] = count(pg)
                + Cardinality({p \in Proc : new[p] = pg})
                + (IF pg \in aux THEN 1 ELSE 0)
                + (IF pg # io.page THEN 0 ELSE IF io.at = "put" THEN 1 ELSE 2)
           /\ pg \in ToSet(ram.free) <=> ram.ref[pg] = 0
           /\ Cardinality({t \in Tag : cachedAs(ram, pg, t)}) <= 1
    /\ IsInjective(ram.free) /\ \A t \in Tag : IsInjective(ram.chain[t])
    /\ \A d \in Swap : swmap[d] = count(d)
    /\ FaultHasPage

\* What the MMU lets a process do is right: its entry is the page its
\* segment has now, and it may write there only if no other segment, no
\* page table on that page's swap address and no image cache has the page.
MmuOK ==
    \A p \in Proc : pc[p] = "user" /\ tlb[p] # nil =>
        /\ tlb[p].page = Page0(p)
        /\ tlb[p].rw => /\ sharing(tlb[p].page) = 1
                        /\ ~cachedAs(ram, tlb[p].page, image)

\* "get a new swap address and clear any pages referring to it from the
\* cache" (pagepte): all the pages cached for a swap address that is in use
\* hold the same.
SwapCacheOK ==
    \A d \in Swap : swmap[d] > 0 =>
        \A f, g \in ToSet(ram.chain[d]) : ram.data[f] = ram.data[g]

\* What is kept of a page beside its entry is no other page: in the MMU, and
\* in the cache.
CachesOK == MmuOK /\ SwapCacheOK

\* What a fault on the segment would bring.
contents(s) ==
    LET t == place(slot[s])
    IN  IF Users(s) = {} THEN nil
        ELSE IF slot[s] \in Page THEN ram.data[slot[s]]
        ELSE IF type = "bss" /\ slot[s] = nil THEN "init"
        ELSE IF found(ram, t) THEN ram.data[Head(ram.chain[t])]
        ELSE IF t = image THEN "init" ELSE disk[t]

M == INSTANCE Memory WITH mem <- [s \in Seg |-> contents(s)]

\* Copies on write, page outs, half written swap pages and cached pages are
\* invisible: a segment holds what its own users stored last.
ImplementsMemory == M!Spec

=============================================================================
