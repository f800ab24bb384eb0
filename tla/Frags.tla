-------------------------------- MODULE Frags --------------------------------
(***************************************************************************)
(* Fragments of IP datagrams (ip/ip.c): how ipoput4 cuts a datagram, or a  *)
(* fragment that it forwards, into fragments, and how ip4reassemble puts   *)
(* them together.  Lengths and offsets are in units of eight bytes, and    *)
(* the data of a datagram are the pairs of it and an offset.               *)
(*                                                                         *)
(* A datagram is on its way from the time it is sent until life runs out.  *)
(* Meanwhile any piece that one of the Paths makes of it may arrive, at    *)
(* any time and any number of times: pieces are lost, repeated, and taken  *)
(* out of order.                                                           *)
(***************************************************************************)
EXTENDS Integers, Sequences, SequencesExt, FiniteSetsExt

CONSTANTS
    Dgram,   \* the datagrams
    ident,   \* ident[n], what tells it from others to the same host
    Size,    \* of each
    Paths,   \* sequences of what the networks on the way carry in a packet
    Nfrag,   \* how many Fragment4 there are, 100 in the code
    Age,     \* how long one of them is kept, 30000 in the code
    Life     \* how long packets are on their way

FragsAssumption ==
    /\ DOMAIN ident = Dgram
    /\ Paths \subseteq Seq(Nat \ {0})
    /\ {Size, Nfrag, Age, Life} \subseteq Nat \ {0}

VARIABLES
    life,     \* what remains of the life of a datagram, Life + 1 before it
    flist,    \* flisthead4, from the head; came is history: what has come
              \* for a Fragment4 since it was taken
    passed    \* what this step passed up

vars == <<life, flist, passed>>

-----------------------------------------------------------------------------
(* ipoput4                                                                 *)

packet(n) == [of |-> n, off |-> 0, len |-> Size, more |-> FALSE]

\* The last piece of a fragment has IP_MF if the fragment has.
fragment(p, seglen) ==
    IF p.len <= seglen THEN {p}
    ELSE {[p EXCEPT !.off  = p.off + k,
                    !.len  = Min({seglen, p.len - k}),
                    !.more = p.more \/ k + seglen < p.len] :
          k \in {x \in 0 .. p.len - 1 : x % seglen = 0}}

RECURSIVE pieces(_, _)
pieces(packets, path) ==
    IF path = <<>> THEN packets
    ELSE pieces(UNION {fragment(p, Head(path)) : p \in packets}, Tail(path))

coming(n) == IF life[n] \in 1 .. Life
             THEN UNION {pieces({packet(n)}, path) : path \in Paths} ELSE {}

-----------------------------------------------------------------------------
(* ip4reassemble                                                           *)

block(p) == [foff |-> p.off, flen |-> p.len, length |-> p.len, more |-> p.more,
             data |-> [k \in 1 .. p.len |-> <<p.of, p.off + k - 1>>]]

parts(p) == ToSet(block(p).data)

end(b) == b.foff + b.flen

\* From the right, as a fragment that begins before it says.
trimmed(b, fend) ==
    LET ovlap == fend - b.foff
    IN  IF ovlap <= 0 THEN b
        ELSE [b EXCEPT !.foff = fend, !.flen = @ - ovlap,
                       !.data = SubSeq(@, ovlap + 1, Len(@))]

\* Mutant: what b covers stays.
ontoKeeps(b, s) ==
    IF s = <<>> THEN <<b>> ELSE <<b, trimmed(Head(s), end(b))>> \o Tail(s)

\* b is put in front of s, in which nothing begins before it.
onto(b, s) ==
    LET left == SelectInSeq(s, LAMBDA x : end(x) > end(b))
    IN  IF left = 0 THEN <<b>>
        ELSE <<b, trimmed(s[left], end(b))>> \o SubSeq(s, left + 1, Len(s))

insert(s, b) ==
    LET k    == SelectInSeq(s \o <<b>>, LAMBDA x : x.foff >= b.foff) - 1
        rest == SubSeq(s, k + 1, Len(s))
        over == end(s[k]) - b.foff
    IN  IF k = 0 \/ over <= 0 THEN SubSeq(s, 1, k) \o onto(b, rest)
        ELSE IF over >= b.flen THEN s
        ELSE SubSeq(s, 1, k - 1) \o <<[s[k] EXCEPT !.flen = @ - over]>>
                \o onto(b, rest)

\* Mutant: and if something before it is missing.
completeGap(s) == \E i \in 1 .. Len(s) : ~s[i].more

\* "if we get to a fragment without IP_MF set, we're done"
complete(s) ==
    \E i \in 1 .. Len(s) :
        /\ ~s[i].more
        /\ \A j \in 1 .. i : s[j].foff = IF j = 1 THEN 0 ELSE end(s[j - 1])

\* The first has all that its header says, the others what was left of them.
assembled(s) ==
    FlattenSeq([i \in 1 .. Len(s) |->
                  IF i = 1 THEN SubSeq(s[i].data, 1, s[i].length)
                  ELSE SubSeq(s[i].data, 1, s[i].flen)])

\* What is left of the list when it was searched for x.
searched(x) ==
    LET at == SelectInSeq(flist, LAMBDA f : f.id = x)
        t  == IF at = 0 THEN Len(flist) ELSE at - 1
    IN  SelectSeq(SubSeq(flist, 1, t), LAMBDA f : f.age >= 0)
            \o SubSeq(flist, t + 1, Len(flist))

\* ipfragfree4
without(fl, x) == SelectSeq(fl, LAMBDA f : f.id # x)

\* ipfragallo4: the last one goes if there is no other.
allo(fl, f) == <<f>> \o (IF Len(fl) = Nfrag THEN Front(fl) ELSE fl)

Init ==
    /\ life = [n \in Dgram |-> Life + 1]
    /\ flist = <<>>
    /\ passed = <<>>

\* The ids go round: one is used again when no packet has it any more.
ipoput4(n) ==
    /\ life[n] = Life + 1
    /\ \A k \in Dgram \ {n} : ident[k] = ident[n] => life[k] \in {0, Life + 1}
    /\ life' = [life EXCEPT ![n] = Life]
    /\ passed' = <<>> /\ UNCHANGED flist

\* A packet that is no fragment does not come near the list.
ipiput4(n) ==
    /\ packet(n) \in coming(n)
    /\ passed' = block(packet(n)).data
    /\ UNCHANGED <<life, flist>>

fragments(n) == coming(n) \ {packet(n)}

reassembleFirst(n) ==
    \E p \in fragments(n) :
        LET fl == searched(ident[n])
        IN  /\ \A i \in DOMAIN fl : fl[i].id # ident[n]
            /\ flist' = allo(fl, [id |-> ident[n], age |-> Age,
                                  blist |-> <<block(p)>>, came |-> parts(p)])
            /\ passed' = <<>> /\ UNCHANGED life

reassemble(n) ==
    \E p \in fragments(n), i \in DOMAIN searched(ident[n]) :
        LET fl == searched(ident[n])
            s  == insert(fl[i].blist, block(p))
        IN  /\ fl[i].id = ident[n]
            /\ ~complete(s)
            /\ flist' = [fl EXCEPT ![i].blist = s, ![i].came = @ \cup parts(p)]
            /\ passed' = <<>> /\ UNCHANGED life

reassembleDone(n) ==
    \E p \in fragments(n), i \in DOMAIN searched(ident[n]) :
        LET fl == searched(ident[n])
            s  == insert(fl[i].blist, block(p))
        IN  /\ fl[i].id = ident[n]
            /\ complete(s)
            /\ passed' = assembled(s)
            /\ flist' = without(fl, ident[n])
            /\ UNCHANGED life

tick ==
    /\ life' = [n \in Dgram |-> IF life[n] \in 1 .. Life THEN life[n] - 1
                                ELSE life[n]]
    /\ flist' = [i \in DOMAIN flist |-> [flist[i] EXCEPT !.age = Max({@ - 1, -1})]]
    /\ <<life, flist>>' # <<life, flist>>
    /\ passed' = <<>>

Next == \/ tick
        \/ \E n \in Dgram : \/ ipoput4(n) \/ ipiput4(n) \/ reassembleFirst(n)
                            \/ reassemble(n) \/ reassembleDone(n)

Spec == Init /\ [][Next]_vars

-----------------------------------------------------------------------------
\* What is passed up is a datagram as it was sent.
Whole == passed = <<>> \/ \E n \in Dgram : passed = block(packet(n)).data

\* A Fragment4 has all that arrived for it, each part once and in order,
\* whatever was trimmed; and it is not all that there is.
FragsOK ==
    /\ Len(flist) <= Nfrag
    /\ \A i \in DOMAIN flist :
         LET s == flist[i].blist
         IN  /\ \A j \in DOMAIN s : s[j].flen > 0 /\ s[j].flen <= Len(s[j].data)
             /\ \A j \in 2 .. Len(s) : end(s[j - 1]) <= s[j].foff
             /\ UNION {{s[j].data[k] : k \in 1 .. s[j].flen} : j \in DOMAIN s}
                    = flist[i].came
             /\ \A n \in Dgram :
                  ~({<<n, k>> : k \in 0 .. Size - 1} \subseteq flist[i].came)
=============================================================================
