--------------------------------- MODULE Il ---------------------------------
(***************************************************************************)
(* The IL protocol (ip/il.c): a caller and a listener, each with one       *)
(* conversation at a time, over a network that loses, repeats, delays and  *)
(* reorders packets.  A step is what iliput, ilkick, ilclose or ilackproc  *)
(* does to one conversation.  Time is left out: a timer may go off         *)
(* whenever it is set.  Round trip times and statistics only decide when   *)
(* timers go off, and are left out with it.                                *)
(*                                                                         *)
(* The n-th conversation of a side starts at plan.starts[side][n], where   *)
(* the code takes a random number.  A message is identified by its         *)
(* conversation's start and its id, so that those of two conversations are *)
(* never the same.                                                         *)
(***************************************************************************)
EXTENDS Naturals, Sequences, SequencesExt, FiniteSetsExt, Functions

CONSTANTS Plans,      \* the plans looked at: of each side, where its
                      \* conversations start, and how many messages (a bound)
                      \* it sends in each
          window,     \* 20 in the code
          MaxRexmit,  \* 16 in the code
          MaxNet      \* bound on the packets the network holds

Side == {"call", "listen"}
peer(x) == IF x = "call" THEN "listen" ELSE "call"

ASSUME IlAssumption ==
    /\ \A pl \in Plans, x \in Side : /\ pl.starts[x] \in Seq(Nat)
                                    /\ pl.messages[x] \in Nat
    /\ {window, MaxRexmit, MaxNet} \subseteq Nat

VARIABLES plan,   \* the plan of this behaviour; it never changes
          cb,     \* the conversation of a side: its Ilcb and what is in rq
          count,  \* how many conversations a side has had
          net     \* the packets under way

vars == <<plan, cb, count, net>>

Closed == [state |-> "Closed", start |-> 0, next |-> 0, recvd |-> 0,
           acksent |-> 0, rstart |-> 0, unacked |-> {}, outo |-> {},
           rexmit |-> 0, qt |-> 0, rq |-> <<>>]

\* ilcbinit, without the state.
ilcbinit(x) == [Closed EXCEPT !.start = plan.starts[x][count[x] + 1],
                              !.next  = plan.starts[x][count[x] + 1] + 1]

Init == /\ plan \in Plans
        /\ cb = [x \in Side |-> Closed]
        /\ count = [x \in Side |-> 0]
        /\ net = {}

-----------------------------------------------------------------------------
(* Packets.  from is the start of the conversation the message of a data   *)
(* packet belongs to; qt is what the query a state packet answers asked    *)
(* about, which the code finds in a table by ilspec.                       *)

packet(x, t, id, ack) ==
    [to |-> peer(x), type |-> t, id |-> id, ack |-> ack, from |-> 0, qt |-> 0]

ctl(x, c, t) == packet(x, t, c.next, c.recvd)

data(x, c, t, id) == [packet(x, t, id, c.recvd) EXCEPT !.from = c.start]

\* The network takes what it has room for.
carry(base, out) ==
    net' = IF Cardinality(base \cup out) <= MaxNet THEN base \cup out ELSE base

\* Conversation x becomes c and sends out; p, if any, may come again.
Step(x, c, out) == /\ cb' = [cb EXCEPT ![x] = c]
                   /\ carry(net, out)
                   /\ UNCHANGED <<plan, count>>

lose == \E p \in net : net' = net \ {p} /\ UNCHANGED <<plan, cb, count>>

-----------------------------------------------------------------------------
(* What is done to a conversation.                                         *)

\* ilhangup and illocalclose: what has been received can still be read.
ilhangup(c) == [Closed EXCEPT !.rstart = c.rstart, !.rq = c.rq]

ilfreeq(c) == [c EXCEPT !.unacked = {}, !.outo = {}]

\* Mutant: retransmissions are not counted.
ilbackoffNot(c) == c

\* More than MaxRexmit is all that is asked of rexmit.
ilbackoff(c) == [c EXCEPT !.rexmit = Min({@, MaxRexmit}) + 1]

\* Mutant: the message after the last one acknowledged goes too.
ilacktoNext(c, ack) ==
    LET left == {id \in c.unacked : id > ack + 1}
    IN  [c EXCEPT !.unacked = left,
                  !.rexmit = IF left = c.unacked THEN @ ELSE 0]

ilackto(c, ack) ==
    LET left == {id \in c.unacked : id > ack}
    IN  [c EXCEPT !.unacked = left,
                  !.rexmit = IF left = c.unacked THEN @ ELSE 0]

ids(s) == {m[2] : m \in s}

\* A message outside the window is dropped, and one that is there already.
iloutoforder(c, p) ==
    IF p.id <= c.recvd \/ p.id > c.recvd + window \/ p.id \in ids(c.outo)
    THEN c ELSE [c EXCEPT !.outo = @ \cup {<<p.from, p.id>>}]

\* Mutant: the messages that are there go to the reader.
ilpullupGap(c) ==
    LET n == Cardinality(c.outo)
    IN  [c EXCEPT !.recvd = @ + n,
                  !.rq = @ \o SetToSortSeq(c.outo, LAMBDA a, b : a[2] < b[2]),
                  !.outo = {}]

\* The messages that come next go to the reader.
ilpullup(c) ==
    LET n == Max({k \in 0 .. Cardinality(c.outo) :
                    c.recvd + 1 .. c.recvd + k \subseteq ids(c.outo)})
    IN  [c EXCEPT !.recvd = @ + n,
                  !.rq = @ \o [i \in 1 .. n |->
                      CHOOSE m \in c.outo : m[2] = c.recvd + i],
                  !.outo = {m \in @ : m[2] > c.recvd + n}]

\* ilnextqt: the highest id sent goes with a query.
query(x, c, t) == [ctl(x, c, t) EXCEPT !.qt = c.next - 1]

\* The oldest message again, as a query.
ilrexmit(x, c) ==
    IF c.unacked = {} THEN {}
    ELSE {[data(x, c, "dataquery", Min(c.unacked)) EXCEPT !.qt = c.next - 1]}

established(c) == [c EXCEPT !.state = "Established", !.rexmit = 0]

-----------------------------------------------------------------------------
(* iliput and _ilprocess, by the state of the conversation.                *)

\* iliput finds no conversation.  A listener makes one for a sync, which comes
\* from a caller with ack 0, and rejects the rest; other ports reject a sync.
listening(p) ==
    LET x == p.to
        c == [ilcbinit(x) EXCEPT !.state = "Syncee", !.rstart = p.id,
                                 !.recvd = p.id]
        accepts == x = "listen" /\ p.type = "sync"
    IN  /\ cb[x].state = "Closed"
        /\ \/ /\ accepts /\ count[x] < Len(plan.starts[x])
              /\ cb' = [cb EXCEPT ![x] = c]
              /\ count' = [count EXCEPT ![x] = @ + 1]
              /\ carry(net, {packet(x, "sync", c.start, c.recvd)})
              /\ UNCHANGED plan
           \/ /\ ~accepts /\ (x = "listen" \/ p.type = "sync")
              /\ Step(x, cb[x], {packet(x, "close", p.ack, p.id)})  \* ilreject

syncer(p) ==
    LET x == p.to
        c == cb[x]
        d == [established(c) EXCEPT !.recvd = p.id, !.rstart = p.id]
    IN  /\ c.state = "Syncer"
        /\ \/ /\ p.type = "sync" /\ p.ack # c.start
              /\ Step(x, ilhangup(c), {})
           \/ /\ p.type = "sync" /\ p.ack = c.start
              /\ Step(x, ilpullup([d EXCEPT !.acksent = p.id]),
                      {ctl(x, d, "ack")})
           \/ /\ p.type = "close" /\ p.ack = c.start
              /\ Step(x, ilhangup(c), {})

\* A message of type t has come in state Established.
message(x, c, p) == ilpullup(iloutoforder(ilackto(c, p.ack), p))

\* Mutant: any acknowledgement will do.
synceeAnyAck(p) ==
    LET x == p.to
        c == cb[x]
    IN  /\ c.state = "Syncee"
        /\ \/ /\ p.type = "sync" /\ (p.id # c.rstart \/ p.ack # 0)
              /\ Step(x, ilhangup(c), {})
           \/ /\ p.type = "sync" /\ p.id = c.rstart /\ p.ack = 0
              /\ Step(x, c, {packet(x, "sync", c.start, c.recvd)})
           \/ /\ p.type = "ack"
              /\ Step(x, ilpullup(established(c)), {})
           \/ /\ p.type = "data" /\ p.ack = c.start
              /\ Step(x, message(x, established(c), p), {})
           \/ /\ p.type = "close" /\ p.ack = c.start
              /\ Step(x, ilhangup(c), {})

syncee(p) ==
    LET x == p.to
        c == cb[x]
    IN  /\ c.state = "Syncee"
        /\ \/ /\ p.type = "sync" /\ (p.id # c.rstart \/ p.ack # 0)
              /\ Step(x, ilhangup(c), {})
           \/ /\ p.type = "sync" /\ p.id = c.rstart /\ p.ack = 0
              /\ Step(x, c, {packet(x, "sync", c.start, c.recvd)})
           \/ /\ p.type = "ack" /\ p.ack = c.start
              /\ Step(x, ilpullup(established(c)), {})
           \/ /\ p.type = "data" /\ p.ack = c.start
              /\ Step(x, message(x, established(c), p), {})
           \/ /\ p.type = "close" /\ p.ack = c.start
              /\ Step(x, ilhangup(c), {})

estab(p) ==
    LET x == p.to
        c == cb[x]
        a == ilackto(c, p.ack)
        m == message(x, c, p)
        acked(d) == [d EXCEPT !.acksent = d.recvd]
        state(d) == [ctl(x, d, "state") EXCEPT !.qt = p.qt]
    IN  /\ c.state = "Established"
        /\ \/ /\ p.type = "sync" /\ p.id # c.rstart
              /\ Step(x, ilhangup(c), {})
           \/ /\ p.type = "sync" /\ p.id = c.rstart
              /\ Step(x, [c EXCEPT !.acksent = c.rstart],
                      {packet(x, "ack", c.next, c.rstart)})
           \/ p.type = "data" /\ Step(x, m, {})
           \/ p.type = "dataquery" /\ Step(x, acked(m), {state(m)})
           \/ p.type = "ack" /\ Step(x, a, {})
           \/ p.type = "query" /\ Step(x, acked(a), {state(a)})
           \/ /\ p.type = "state" /\ p.qt > p.ack /\ a.unacked # {}
              /\ Step(x, ilbackoff(a), ilrexmit(x, a))
           \/ /\ p.type = "state" /\ ~(p.qt > p.ack /\ a.unacked # {})
              /\ Step(x, a, {})
           \/ /\ p.type = "close" /\ p.ack \in c.start .. c.next
              /\ LET d == [ilfreeq(c) EXCEPT !.recvd = p.id,
                                             !.state = "Closing"]
                 IN  Step(x, acked(d), {ctl(x, d, "close")})

closing(p) ==
    LET x == p.to
        c == [cb[x] EXCEPT !.recvd = p.id, !.acksent = p.id]
    IN  /\ cb[x].state = "Closing" /\ p.type = "close"
        /\ Step(x, IF p.ack = c.next THEN ilhangup(c) ELSE c,
                {ctl(x, c, "close")})

iliput(p) == listening(p) \/ syncer(p) \/ syncee(p) \/ estab(p) \/ closing(p)

-----------------------------------------------------------------------------
(* The users of the conversations.                                         *)

connect ==
    LET c == [ilcbinit("call") EXCEPT !.state = "Syncer"]
    IN  /\ cb["call"].state = "Closed"
        /\ count["call"] < Len(plan.starts["call"])
        /\ cb' = [cb EXCEPT !["call"] = c]
        /\ count' = [count EXCEPT !["call"] = @ + 1]
        /\ carry(net, {packet("call", "sync", c.start, 0)})
        /\ UNCHANGED plan

ilkick(x) ==
    LET c == cb[x]
    IN  /\ c.state \in {"Syncer", "Syncee", "Established"}
        /\ c.next <= c.start + plan.messages[x]
        /\ Step(x, [c EXCEPT !.next = @ + 1, !.unacked = @ \cup {c.next},
                             !.acksent = c.recvd],
                {data(x, c, "data", c.next)})

ilclose(x) ==
    LET c == cb[x]
    IN  /\ c.state \in {"Syncer", "Syncee", "Established"}
        /\ Step(x, [ilfreeq(c) EXCEPT !.state = "Closing", !.acksent = c.recvd],
                {ctl(x, c, "close")})

-----------------------------------------------------------------------------
(* ilackproc looks at the timers of every conversation.                    *)

ackTimer(x) ==
    LET c == cb[x]
    IN  /\ c.state = "Established" /\ c.recvd # c.acksent
        /\ Step(x, [c EXCEPT !.acksent = c.recvd], {ctl(x, c, "ack")})

queryTimer(x) ==
    LET c == cb[x]
    IN  /\ c.state = "Established"
        /\ Step(x, [c EXCEPT !.acksent = c.recvd], {query(x, c, "query")})

\* Nothing has been heard for DeathTime.
deathTimer(x) ==
    /\ cb[x].state = "Established"
    /\ Step(x, ilhangup(cb[x]), {})

\* What is sent again when there is no answer in time.
again(x, c) ==
    CASE c.state = "Closing" -> {ctl(x, c, "close")}
      [] c.state \in {"Syncer", "Syncee"} ->
             {packet(x, "sync", c.start, c.recvd)}
      [] c.state = "Established" -> {query(x, c, "query")}

rexmitTimer(x) ==
    LET c == cb[x]
    IN  /\ c.state # "Closed"
        /\ c.state = "Established" => c.unacked # {}
        /\ IF c.rexmit > MaxRexmit THEN Step(x, ilhangup(c), {})
           ELSE Step(x, ilbackoff([c EXCEPT !.acksent = c.recvd]), again(x, c))

-----------------------------------------------------------------------------
Next == \/ connect \/ lose
        \/ \E p \in net : iliput(p)
        \/ \E x \in Side : \/ ilkick(x) \/ ilclose(x) \/ ackTimer(x)
                           \/ queryTimer(x) \/ deathTimer(x) \/ rexmitTimer(x)

Spec == Init /\ [][Next]_vars

Fairness == \A x \in Side : WF_vars(rexmitTimer(x))

FairSpec == Spec /\ Fairness

-----------------------------------------------------------------------------
(* Properties.                                                             *)

live(x) == cb[x].state = "Established"
\* The conversation x has its messages from.
partner(x) == cb[peer(x)].start = cb[x].rstart /\ cb[peer(x)].rstart = cb[x].start

\* A reader gets the messages of the conversation it called, each once and
\* in the order they were sent, whatever the network does.
InOrder ==
    \A x \in Side : cb[x].rq =
        [i \in 1 .. Len(cb[x].rq) |-> <<cb[x].rstart, cb[x].rstart + i>>]

\* A sender forgets no message before the other side has it.
NothingForgotten ==
    \A x \in Side : live(x) /\ live(peer(x)) =>
        {id \in cb[x].start + 1 .. cb[x].next - 1 : id > cb[peer(x)].recvd}
            \subseteq cb[x].unacked

\* Two conversations that are established are established with each other.
Agreed == live("call") /\ live("listen") => partner("call")

\* What IL promises of a conversation at any time.
ConversationsOK == InOrder /\ NothingForgotten /\ Agreed

\* A conversation does not wait for ever: it is answered or hung up.
Answered ==
    \A x \in Side :
        /\ cb[x].unacked # {} ~> cb[x].unacked = {}
        /\ cb[x].state \in {"Syncer", "Syncee", "Closing"} ~>
               cb[x].state \in {"Established", "Closed"}
=============================================================================
