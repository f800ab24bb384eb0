------------------------------- MODULE Rendez -------------------------------
(***************************************************************************)
(* What sleep, wakeup and postnote promise to the rest of the kernel, each *)
(* as one atomic step.  A process goes to sleep on r only while the        *)
(* condition is false, or while a wakeup(r) that will find it has not yet  *)
(* had its effect; likewise for notes.  The effect of a wakeup is to take  *)
(* off whoever sleeps on r, that of a postnote to take off its process.    *)
(*                                                                         *)
(* Module Sleep shows that the code, with its two locks, implements this.  *)
(***************************************************************************)
CONSTANTS Proc, Rend, Waker, Poster, nil

VARIABLES
    asleep,       \* the Rendez each process sleeps on, or nil
    cond,         \* the condition the users of each Rendez wait for
    notepending,  \* p->notepending
    waking,       \* the Rendez each waker is about to wake, or nil
    posting       \* the process each poster is about to interrupt, or nil

vars == <<asleep, cond, notepending, waking, posting>>

Init ==
    /\ asleep = [p \in Proc |-> nil]
    /\ cond = [r \in Rend |-> FALSE]
    /\ notepending = [p \in Proc |-> FALSE]
    /\ waking = [w \in Waker |-> nil]
    /\ posting = [n \in Poster |-> nil]

Sleep(p, r) ==
    /\ asleep[p] = nil
    /\ \A q \in Proc : asleep[q] # r
    /\ cond[r] => \E w \in Waker : waking[w] = r
    /\ notepending[p] => \E n \in Poster : posting[n] = p
    /\ asleep' = [asleep EXCEPT ![p] = r]
    /\ UNCHANGED <<cond, notepending, waking, posting>>

Consume(r) ==
    /\ cond' = [cond EXCEPT ![r] = FALSE]
    /\ UNCHANGED <<asleep, notepending, waking, posting>>

CallWakeup(w, r) ==
    /\ waking[w] = nil
    /\ waking' = [waking EXCEPT ![w] = r]
    /\ \E b \in {cond[r], TRUE} : cond' = [cond EXCEPT ![r] = b]
    /\ UNCHANGED <<asleep, notepending, posting>>

Wakeup(w) ==
    /\ waking[w] # nil
    /\ asleep' = [p \in Proc |-> IF asleep[p] = waking[w] THEN nil
                                 ELSE asleep[p]]
    /\ waking' = [waking EXCEPT ![w] = nil]
    /\ UNCHANGED <<cond, notepending, posting>>

CallPostnote(n, p) ==
    /\ posting[n] = nil
    /\ posting' = [posting EXCEPT ![n] = p]
    /\ notepending' = [notepending EXCEPT ![p] = TRUE]
    /\ UNCHANGED <<asleep, cond, waking>>

Postnote(n) ==
    /\ posting[n] # nil
    /\ asleep' = [asleep EXCEPT ![posting[n]] = nil]
    /\ posting' = [posting EXCEPT ![n] = nil]
    /\ UNCHANGED <<cond, notepending, waking>>

TakeNote(p) ==
    /\ asleep[p] = nil
    /\ notepending' = [notepending EXCEPT ![p] = FALSE]
    /\ UNCHANGED <<asleep, cond, waking, posting>>

Next ==
    \/ \E p \in Proc : TakeNote(p) \/ \E r \in Rend : Sleep(p, r)
    \/ \E r \in Rend : Consume(r)
    \/ \E w \in Waker : Wakeup(w) \/ \E r \in Rend : CallWakeup(w, r)
    \/ \E n \in Poster : Postnote(n) \/ \E p \in Proc : CallPostnote(n, p)

Spec == Init /\ [][Next]_vars

=============================================================================
